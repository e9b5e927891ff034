------------------------------ MODULE Scoring ------------------------------
(***************************************************************************)
(* The scoring rules of a checkpoint submission: app/services/             *)
(* grading_service.py, without the sandbox run that yields the raw score.  *)
(***************************************************************************)
EXTENDS Integers

Lesser(a, b)  == IF a <= b THEN a ELSE b
Greater(a, b) == IF a >= b THEN a ELSE b

(* stars_for: 2 stars from 85, 3 from 95 when no hint was used, 0 unless passed. *)
StarsFor(score, passed, hints) ==
  IF ~passed THEN 0
  ELSE IF score >= 95 /\ hints = 0 THEN 3
  ELSE IF score >= 85 THEN 2 ELSE 1

(* Mutant of HintPenalty: the cap is forgotten. *)
Uncapped(raw, hints, perTier) == hints * perTier

(* The hint penalty of run_checks: so much per tier, never more than the raw score. *)
HintPenalty(raw, hints, perTier) == Lesser(raw, hints * perTier)

(* The scored part of run_checks' response for a "graded" verdict. *)
Graded(raw, hints, threshold, perTier) ==
  LET score  == raw - HintPenalty(raw, hints, perTier)
      passed == score >= threshold
  IN  [score |-> score, passed |-> passed, stars |-> StarsFor(score, passed, hints)]

(* The response of "load_error" and "timeout": an attempt, worth nothing. *)
NotRun == [score |-> 0, passed |-> FALSE, stars |-> 0]
=============================================================================
