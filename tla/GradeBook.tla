----------------------------- MODULE GradeBook -----------------------------
(***************************************************************************)
(* What a topic's progress row promises: a book in which every saved       *)
(* submission is entered at once, in full, and nothing is ever struck out  *)
(* but by clearing the whole book.  Nothing else a learner does (opening   *)
(* hints, practising, reading a briefing that is not the whole topic)      *)
(* enters it.  docs/DATABASE.md: "summary row, written with each attempt". *)
(***************************************************************************)
EXTENDS Scoring

CONSTANTS Scores

VARIABLES count, best, stars, passed

book == <<count, best, stars, passed>>

Empty == count = 0 /\ best = 0 /\ stars = 0 /\ passed = FALSE

Enter(score, pass, awarded) ==
  /\ count'  = count + 1
  /\ best'   = Greater(best, score)
  /\ stars'  = Greater(stars, awarded)
  /\ passed' = (passed \/ pass)

Submit == \E score \in Scores, pass \in BOOLEAN, awarded \in 0..3 :
            (awarded > 0 <=> pass) /\ Enter(score, pass, awarded)

(* The briefing of a topic that has no checkpoint. *)
Brief == passed' = TRUE /\ UNCHANGED <<count, best, stars>>

Clear == count' = 0 /\ best' = 0 /\ stars' = 0 /\ passed' = FALSE

Spec == Empty /\ [][Submit \/ Brief \/ Clear]_book
=============================================================================
