----------------------- MODULE LearnerProgress_proofs -----------------------
(***************************************************************************)
(* Proofs about LearnerProgress, for every number of overlapping requests  *)
(* and every value of the constants.                                       *)
(***************************************************************************)
EXTENDS LearnerProgress, FiniteSetTheorems, WellFoundedInduction, TLAPS

USE CallsAssumption, HereAssumption, VariantAssumption, ScoreAssumption, TierAssumption, ClockAssumption

-----------------------------------------------------------------------------
(* What a request holds while it is under way. *)
RequestInv(q) ==
  /\ q.pc # "idle" => q.at \in 1..clock
  /\ q.op \in {"grade", "hint"} => q.variant \in Checkpoint
  /\ q.op = "practice" => q.variant \in Practised
  /\ q.op = "hint" => q.hints \in Tiers
  /\ q.pc \in {"found", "flushed"} => q.att \in Attempt /\ q.att.at <= clock
  /\ q.row.status = "locked" => q.row = NoRow
  /\ q.row.count <= Cardinality(ledger)
  /\ q.row.best > 0 => \E s \in ledger : s.score = q.row.best

LedgerInv == IsFiniteSet(ledger) /\ \A s \in ledger : s.n \in Nat /\ s.n <= Cardinality(ledger)

(* The types, the summary row against the history, and the same bounds for the copies of *)
(* the row that requests loaded earlier.                                                 *)
DataInv ==
  /\ TypeOK
  /\ \A a \in attempts : a.at <= clock
  /\ LedgerInv
  /\ \A r \in Requests : RequestInv(req[r])
  /\ PassIsEarned
  /\ CountedOnce

-----------------------------------------------------------------------------
(* The lock of the summary row.  Whoever holds it has found the row as it still is, and  *)
(* a lesson that did not need it has nothing to write.                                   *)

LockOk(q) ==
  /\ Here \in q.locks => \/ q.op = "lesson" /\ (q.row = NoRow <=> row = NoRow)
                         \/ q.op = "reset" /\ row # NoRow
  /\ q.op = "lesson" /\ q.pc \in {"marked", "saved"} => Here \in q.locks \/ ~Unbriefed(q)
  /\ q.op = "lesson" /\ q.pc = "saved" => Here \in q.locks \/ ~PassesNow(q)

NobodyElseLocks(r) == \A s \in Requests \ {r} : Here \notin req[s].locks

LockInv ==
  /\ req = [r \in Requests |-> req[r]]
  /\ \A r \in Requests : LockOk(req[r])
  /\ \A r \in Requests : Here \in req[r].locks => NobodyElseLocks(r)

(* The inductive invariant. *)
IInv == DataInv /\ LockInv

-----------------------------------------------------------------------------
(* A nonempty set of rows whose times are bounded has a newest row. *)
LEMMA NewestIsARow ==
  ASSUME NEW rows \in SUBSET Attempt, rows # {}, NEW n \in Nat, \A a \in rows : a.at <= n
  PROVE  Newest(rows) \in rows /\ \A b \in rows : b.at <= Newest(rows).at
<1> DEFINE T == {n - a.at : a \in rows}
<1>1. T \subseteq Nat /\ T # {}
  BY DEF Attempt
<1>2. PICK x \in T : \A y \in T : ~(<<y, x>> \in OpToRel(<, Nat))
  BY <1>1, NatLessThanWellFounded, WFMin
<1>3. PICK a \in rows : x = n - a.at
  BY <1>2
<1>4. \A b \in rows : b.at <= a.at
  <2> SUFFICES ASSUME NEW b \in rows PROVE b.at <= a.at
    OBVIOUS
  <2>1. n - b.at \in T /\ n - b.at \in Nat /\ x \in Nat
    BY <1>1, <1>2
  <2>2. ~(n - b.at < x)
    BY <1>2, <2>1 DEF OpToRel
  <2> QED
    BY <1>3, <2>1, <2>2 DEF Attempt
<1> QED
  BY <1>4 DEF Newest

LEMMA HintCountsAreNat == \A h \in {0} \cup Tiers : h \in Nat
OBVIOUS

(* latest_attempt returns a stored row or nothing. *)
LEMMA LatestType ==
  ASSUME DataInv, NEW v
  PROVE  LatestAttempt(v) \in attempts \cup {NoAttempt}
<1> DEFINE rows == {a \in attempts : a.variant = v}
<1>1. CASE rows = {}
  BY <1>1 DEF LatestAttempt
<1>2. CASE rows # {}
  <2>1. rows \in SUBSET Attempt /\ clock \in Nat /\ \A a \in rows : a.at <= clock
    BY DEF DataInv, TypeOK
  <2>2. Newest(rows) \in rows
    BY <1>2, <2>1, NewestIsARow
  <2> QED
    BY <1>2, <2>2 DEF LatestAttempt
<1> QED
  BY <1>1, <1>2

(* The penalty is never more than the raw score, so the score is a percentage. *)
LEMMA GradedType ==
  ASSUME NEW raw \in Percent, NEW hints \in Nat
  PROVE  Graded(raw, hints, Threshold, PerTier) \in Result
<1>1. hints * PerTier \in Nat
  OBVIOUS
<1>2. HintPenalty(raw, hints, PerTier) \in Nat /\ HintPenalty(raw, hints, PerTier) <= raw
  BY <1>1 DEF HintPenalty, Lesser, Percent
<1>3. raw - HintPenalty(raw, hints, PerTier) \in Percent
  BY <1>2 DEF Percent
<1> QED
  BY <1>3 DEF Graded, StarsFor, Result

(* A write keeps the table well-typed, whatever was loaded before it. *)
LEMMA SaveAttemptType ==
  ASSUME attempts \subseteq Attempt, NEW n \in Nat, \A a \in attempts : a.at <= n,
         NEW old \in Attempt \cup {NoAttempt}, NEW new \in Attempt, new.at <= n
  PROVE  /\ SaveAttempt(old, new) \subseteq Attempt
         /\ \A a \in SaveAttempt(old, new) : a.at <= n
<1>1. ASSUME NEW a \in attempts
      PROVE  MergedAttempt(a, old, new) \in Attempt /\ MergedAttempt(a, old, new).at = a.at
  BY <1>1 DEF MergedAttempt, Column, Attempt
<1> QED
  BY <1>1 DEF SaveAttempt

LEMMA MergedRowType ==
  ASSUME NEW current \in Progress, NEW loaded \in Progress, NEW new \in Progress
  PROVE  MergedRow(current, loaded, new) \in Progress
BY DEF MergedRow, Column, Progress

LEMMA FreshType == NoRow \in Progress /\ Fresh \in Progress /\ Fresh.status = "unlocked"
BY DEF NoRow, Fresh, Progress, Percent, Never

LEMMA IdleIsFine == Idle \in Request /\ (LedgerInv => RequestInv(Idle))
<1>1. Idle \in Request
  BY FreshType DEF Idle, Request, Pcs, Result, NotRun, Percent
<1>2. ASSUME LedgerInv PROVE RequestInv(Idle)
  <2>1. Cardinality(ledger) \in Nat
    BY <1>2, FS_CardinalityType DEF LedgerInv
  <2> QED
    BY <2>1 DEF RequestInv, Idle, NoRow
<1> QED
  BY <1>1, <1>2

(* A step that only moves one request on keeps the invariant when what the request now *)
(* holds is fine.                                                                      *)
LEMMA MoveOn ==
  ASSUME DataInv, NEW r \in Requests, NEW q \in Request, RequestInv(q), Go(r, q),
         UNCHANGED <<attempts, row, live, clock, history>>
  PROVE  DataInv'
<1> USE DEF Go, history
<1>1. TypeOK'
  BY DEF DataInv, TypeOK
<1>2. \A s \in Requests : req'[s] = IF s = r THEN q ELSE req[s]
  BY DEF DataInv, TypeOK
<1>3. \A s \in Requests : RequestInv(req[s])'
  <2> SUFFICES ASSUME NEW s \in Requests PROVE RequestInv(req[s])'
    OBVIOUS
  <2>1. RequestInv(req'[s])
    BY <1>2 DEF DataInv
  <2> QED
    BY <2>1 DEF RequestInv
<1>4. LedgerInv' /\ PassIsEarned' /\ CountedOnce'
  BY DEF DataInv, LedgerInv, PassIsEarned, CountedOnce
<1> QED
  BY <1>1, <1>3, <1>4 DEF DataInv

LEMMA Abandon ==
  ASSUME DataInv, NEW r \in Requests, Finish(r), UNCHANGED <<attempts, row, live, clock, history>>
  PROVE  DataInv'
BY IdleIsFine, MoveOn DEF Finish, Go, DataInv

LEMMA BeginInv ==
  ASSUME DataInv, NEW r \in Requests, Begin(r)
  PROVE  DataInv'
<1>1. clock' = clock + 1 /\ clock \in Nat /\ UNCHANGED <<attempts, row, live, history>>
  BY DEF Begin, DataInv, TypeOK
<1> DEFINE Begun(q) ==
      /\ q \in Request /\ q.at = clock + 1 /\ q.pc = "begun" /\ q.row = NoRow
      /\ q.op \in {"grade", "hint"} => q.variant \in Checkpoint
      /\ q.op = "practice" => q.variant \in Practised
      /\ q.op = "hint" => q.hints \in Tiers
<1>2. PICK q : Go(r, q) /\ Begun(q)
  <2>0. Idle \in Request /\ Idle.row = NoRow /\ clock + 1 \in Nat
    BY <1>1, IdleIsFine DEF Idle
  <2>1. ASSUME NEW op \in AllCalls, NEW v \in Variants \cup {NoVariant}, NEW h \in {0} \cup Tiers,
               NEW res \in Result
        PROVE  /\ Sent(op, v, h, res) \in Request
               /\ Sent(op, v, h, res).op = op /\ Sent(op, v, h, res).variant = v
               /\ Sent(op, v, h, res).hints = h /\ Sent(op, v, h, res).row = NoRow
               /\ Sent(op, v, h, res).at = clock + 1 /\ Sent(op, v, h, res).pc = "begun"
    BY <2>0, <2>1, ZenonT(60) DEF Sent, Request, Pcs
  <2>2. NotRun \in Result
    BY DEF NotRun, Result, Percent
  <2>3. ASSUME NEW v \in Checkpoint PROVE Begun(Sent("grade", v, 0, NotRun))
    BY <2>1, <2>2, <2>3 DEF Variants, AllCalls
  <2>4. ASSUME NEW v \in Checkpoint, NEW tier \in Tiers PROVE Begun(Sent("hint", v, tier, NotRun))
    BY <2>1, <2>2, <2>4 DEF Variants, AllCalls
  <2>5. ASSUME NEW v \in Practised, NEW score \in PracticeScores, NEW passed \in BOOLEAN
        PROVE  Begun(Sent("practice", v, 0, [score |-> score, passed |-> passed, stars |-> 0]))
    <3>1. [score |-> score, passed |-> passed, stars |-> 0] \in Result
      BY <2>5 DEF Result
    <3> QED
      BY <2>1, <2>5, <3>1 DEF Variants, AllCalls
  <2>6. Begun(Sent("reset", NoVariant, 0, NotRun)) /\ Begun(Sent("lesson", NoVariant, 0, NotRun))
    BY <2>1, <2>2 DEF AllCalls
  <2>7. ASSUME NEW others \in SUBSET (Topics \ {Here})
        PROVE  Begun([Sent("lesson", NoVariant, 0, NotRun) EXCEPT !.left = {Here} \cup others])
    BY <2>6, HereAssumption DEF Request, Sent
  <2> HIDE DEF Begun
  <2> QED
    BY <2>3, <2>4, <2>5, <2>6, <2>7 DEF Begin
<1>3. TypeOK' /\ LedgerInv' /\ PassIsEarned' /\ CountedOnce' /\ \A a \in attempts' : a.at <= clock'
  <2>1. TypeOK'
    BY <1>1, <1>2 DEF Go, DataInv, TypeOK, history
  <2>2. \A a \in attempts' : a.at <= clock'
    BY <1>1 DEF DataInv, TypeOK, Attempt
  <2> QED
    BY <1>1, <2>1, <2>2 DEF DataInv, LedgerInv, PassIsEarned, CountedOnce, history
<1>4. ASSUME NEW s \in Requests PROVE RequestInv(req[s])'
  <2>1. Cardinality(ledger) \in Nat
    BY FS_CardinalityType DEF DataInv, LedgerInv
  <2>2. CASE s = r
    <3>1. req'[s] = q
      BY <1>2, <2>2 DEF Go, DataInv, TypeOK
    <3> QED
      BY <1>1, <1>2, <2>1, <3>1 DEF RequestInv, NoRow, history
  <2>3. CASE s # r
    <3>1. req'[s] = req[s] /\ RequestInv(req[s]) /\ req[s] \in Request
      BY <1>2, <2>3 DEF Go, DataInv, TypeOK
    <3> QED
      BY <1>1, <3>1 DEF RequestInv, Attempt, history
  <2> QED
    BY <2>2, <2>3
<1> QED
  BY <1>3, <1>4 DEF DataInv

-----------------------------------------------------------------------------
(* The steps that read and compute: each only moves its request on. *)

LEMMA CheckCooldownInv == ASSUME DataInv, NEW r \in Requests, CheckCooldown(r) PROVE DataInv'
<1>1. req[r] \in Request /\ RequestInv(req[r])
  BY DEF DataInv, TypeOK
<1> DEFINE q == [req[r] EXCEPT !.pc = "allowed"]
<1>2. q \in Request /\ RequestInv(q)
  BY <1>1 DEF CheckCooldown, At, Request, Pcs, RequestInv
<1> QED
  BY <1>2, MoveOn, Abandon DEF CheckCooldown

LEMMA ReadHintsInv == ASSUME DataInv, NEW r \in Requests, ReadHints(r) PROVE DataInv'
<1>1. req[r] \in Request /\ RequestInv(req[r])
  BY DEF DataInv, TypeOK
<1> DEFINE q == [req[r] EXCEPT !.pc = "running", !.hints = HintsUsed(req[r].variant)]
<1>2. HintsUsed(req[r].variant) \in {0} \cup Tiers
  BY LatestType DEF HintsUsed, DataInv, TypeOK, Attempt, NoAttempt
<1>3. q \in Request /\ RequestInv(q)
  BY <1>1, <1>2 DEF ReadHints, At, Request, Pcs, RequestInv
<1> QED
  BY <1>3, MoveOn DEF ReadHints

LEMMA RunChecksInv == ASSUME DataInv, NEW r \in Requests, RunChecks(r) PROVE DataInv'
<1>1. req[r] \in Request /\ RequestInv(req[r])
  BY DEF DataInv, TypeOK
<1>2. req[r].hints \in Nat
  <2>1. req[r].hints \in {0} \cup Tiers
    BY <1>1 DEF Request
  <2> QED
    BY <2>1, HintCountsAreNat
<1>3. ASSUME NEW res \in {NotRun} \cup {Graded(raw, req[r].hints, Threshold, PerTier) : raw \in Raws},
             Go(r, [req[r] EXCEPT !.pc = "scored", !.res = res])
      PROVE  DataInv'
  <2> DEFINE q == [req[r] EXCEPT !.pc = "scored", !.res = res]
  <2>1. res \in Result
    <3>1. NotRun \in Result
      BY DEF NotRun, Result, Percent
    <3>2. \A raw \in Raws : Graded(raw, req[r].hints, Threshold, PerTier) \in Result
      BY <1>2, GradedType
    <3> QED
      BY <3>1, <3>2
  <2>2. q \in Request /\ RequestInv(q)
    BY <1>1, <2>1 DEF RunChecks, At, Request, Pcs, RequestInv
  <2> QED
    BY <1>3, <2>2, MoveOn DEF RunChecks
<1> QED
  BY <1>3, Abandon DEF RunChecks

(* What the three finders write is a row of the table, no younger than now. *)
LEMMA FoundType ==
  ASSUME DataInv, NEW r \in Requests, req[r].pc # "idle",
         NEW found \in attempts \cup {NoAttempt}
  PROVE  /\ Loaded(found) \in Attempt \cup {NoAttempt}
         /\ found \in Attempt \cup {NoAttempt}
         /\ req[r].op = "grade" => Scored(req[r], found) \in Attempt
                                   /\ Scored(req[r], found).at <= clock
         /\ req[r].op = "hint" => WithHint(req[r], found) \in Attempt
                                   /\ WithHint(req[r], found).at <= clock
         /\ req[r].op = "practice" => PracticeResult(req[r], found) \in Attempt
                                   /\ PracticeResult(req[r], found).at <= clock
<1>1. req[r] \in Request /\ RequestInv(req[r]) /\ clock \in Nat
  BY DEF DataInv, TypeOK
<1>2. found \in Attempt \cup {NoAttempt} /\ (found # NoAttempt => found.at <= clock)
  BY DEF DataInv, TypeOK
<1>3. req[r].at \in Nat /\ req[r].at <= clock
  BY <1>1 DEF RequestInv, Request
<1>4. req[r].op = "grade" => Scored(req[r], found) \in Attempt /\ Scored(req[r], found).at <= clock
  BY <1>1, <1>2, <1>3 DEF Scored, RequestInv, Request, Attempt, Variants, Result
<1>5. req[r].op = "hint" => WithHint(req[r], found) \in Attempt /\ WithHint(req[r], found).at <= clock
  <2>1. Greater(found.hints, req[r].hints) \in {0} \cup Tiers
    BY <1>1, <1>2 DEF Greater, Attempt, NoAttempt, Request
  <2> QED
    BY <1>1, <1>2, <1>3, <2>1 DEF WithHint, RequestInv, Attempt, Variants
<1>6. req[r].op = "practice" =>
        PracticeResult(req[r], found) \in Attempt /\ PracticeResult(req[r], found).at <= clock
  <2>1. req[r].res.score \in Percent /\ req[r].res.passed \in BOOLEAN
    BY <1>1 DEF Request, Result
  <2>2. Greater(found.score, req[r].res.score) \in Percent \cup {NULL}
    BY <1>2, <2>1 DEF Greater, Attempt, NoAttempt
  <2>3. (found.passed \/ req[r].res.passed) \in BOOLEAN
    OBVIOUS
  <2>4. req[r].op = "practice" => req[r].variant \in Variants
    BY <1>1 DEF RequestInv, Variants
  <2>5. CASE found = NoAttempt
    BY <1>3, <2>1, <2>4, <2>5 DEF PracticeResult, Attempt
  <2>6. CASE found # NoAttempt
    BY <1>2, <2>2, <2>3, <2>4, <2>6 DEF PracticeResult, Attempt
  <2> QED
    BY <2>5, <2>6
<1>7. Loaded(found) \in Attempt \cup {NoAttempt}
  BY <1>2 DEF Loaded
<1> QED
  BY <1>2, <1>4, <1>5, <1>6, <1>7

LEMMA FindAttemptInv == ASSUME DataInv, NEW r \in Requests, FindAttempt(r) PROVE DataInv'
<1>1. req[r] \in Request /\ RequestInv(req[r]) /\ At(r, "grade", "scored")
  BY DEF DataInv, TypeOK, FindAttempt
<1> DEFINE found == LatestAttempt(req[r].variant)
           q == [req[r] EXCEPT !.pc = "found", !.old = Loaded(found), !.att = Scored(req[r], found)]
<1>2. found \in attempts \cup {NoAttempt}
  BY LatestType
<1>3. /\ Loaded(found) \in Attempt \cup {NoAttempt}
      /\ Scored(req[r], found) \in Attempt /\ Scored(req[r], found).at <= clock
  BY <1>1, <1>2, FoundType DEF At
<1>4. q \in Request /\ RequestInv(q)
  <2> HIDE DEF found
  <2> QED
    BY <1>1, <1>3 DEF At, Request, Pcs, RequestInv
<1> QED
  BY <1>4, MoveOn DEF FindAttempt

LEMMA FindOpenInv == ASSUME DataInv, NEW r \in Requests, FindOpen(r) PROVE DataInv'
<1>1. req[r] \in Request /\ RequestInv(req[r]) /\ At(r, "hint", "begun")
  BY DEF DataInv, TypeOK, FindOpen
<1> DEFINE found == LatestAttempt(req[r].variant)
           q == [req[r] EXCEPT !.pc = "found", !.old = Loaded(found), !.att = WithHint(req[r], found)]
<1>2. found \in attempts \cup {NoAttempt}
  BY LatestType
<1>3. /\ Loaded(found) \in Attempt \cup {NoAttempt}
      /\ WithHint(req[r], found) \in Attempt /\ WithHint(req[r], found).at <= clock
  BY <1>1, <1>2, FoundType DEF At
<1>4. q \in Request /\ RequestInv(q)
  <2> HIDE DEF found
  <2> QED
    BY <1>1, <1>3 DEF At, Request, Pcs, RequestInv
<1> QED
  BY <1>4, MoveOn DEF FindOpen

LEMMA FindPracticeInv == ASSUME DataInv, NEW r \in Requests, FindPractice(r) PROVE DataInv'
<1>1. req[r] \in Request /\ RequestInv(req[r]) /\ At(r, "practice", "begun")
  BY DEF DataInv, TypeOK, FindPractice
<1>2. PICK found \in attempts \cup {NoAttempt} :
        Go(r, [req[r] EXCEPT !.pc = "found", !.old = found, !.att = PracticeResult(req[r], found)])
  BY DEF FindPractice, PracticeRows
<1> DEFINE q == [req[r] EXCEPT !.pc = "found", !.old = found, !.att = PracticeResult(req[r], found)]
<1>3. /\ found \in Attempt \cup {NoAttempt}
      /\ PracticeResult(req[r], found) \in Attempt /\ PracticeResult(req[r], found).at <= clock
  BY <1>1, FoundType DEF At
<1>4. q \in Request /\ RequestInv(q)
  BY <1>1, <1>3 DEF At, Request, Pcs, RequestInv
<1> QED
  BY <1>2, <1>4, MoveOn DEF FindPractice

(* A request that reads the row takes a copy that satisfies the row's own invariant. *)
LEMMA CopyRow ==
  ASSUME DataInv, NEW r \in Requests, req[r].pc # "idle",
         NEW pc \in Pcs, pc # "found", pc = "flushed" => req[r].pc = "found"
  PROVE  LET q == [req[r] EXCEPT !.pc = pc, !.row = row] IN q \in Request /\ RequestInv(q)
<1> DEFINE q == [req[r] EXCEPT !.pc = pc, !.row = row]
<1>1. req[r] \in Request /\ RequestInv(req[r])
  BY DEF DataInv, TypeOK
<1>2. /\ row \in Progress /\ (row.status = "locked" => row = NoRow)
      /\ row.count <= Cardinality(ledger) /\ (row.best > 0 => \E s \in ledger : s.score = row.best)
  BY DEF DataInv, TypeOK, CountedOnce
<1>3. q \in Request
  BY <1>1, <1>2 DEF Request, Pcs
<1>4. RequestInv(q)
  BY <1>1, <1>2 DEF Request, RequestInv, Pcs
<1> QED
  BY <1>3, <1>4

LEMMA FlushAttemptInv == ASSUME DataInv, NEW r \in Requests, FlushAttempt(r) PROVE DataInv'
<1> DEFINE q == [req[r] EXCEPT !.pc = "flushed", !.row = row]
<1>1. req[r].pc = "found"
  BY DEF FlushAttempt
<1>2. q \in Request /\ RequestInv(q)
  BY <1>1, CopyRow DEF Pcs
<1> QED
  BY <1>2, MoveOn, Abandon DEF FlushAttempt

LEMMA LoadRowInv == ASSUME DataInv, NEW r \in Requests, LoadRow(r) PROVE DataInv'
<1> DEFINE q == [req[r] EXCEPT !.pc = "loaded", !.row = row]
<1>1. q \in Request /\ RequestInv(q)
  BY CopyRow DEF LoadRow, At, Pcs
<1> QED
  BY <1>1, MoveOn DEF LoadRow

LEMMA DeleteAttemptsInv == ASSUME DataInv, NEW r \in Requests, DeleteAttempts(r) PROVE DataInv'
<1> DEFINE q == [req[r] EXCEPT !.pc = "deleted", !.gone = attempts, !.left = Topics]
<1>1. req[r] \in Request /\ RequestInv(req[r])
  BY DEF DataInv, TypeOK
<1>2. q \in Request /\ RequestInv(q)
  BY <1>1 DEF DeleteAttempts, At, Request, Pcs, RequestInv, DataInv, TypeOK
<1> QED
  BY <1>2, MoveOn DEF DeleteAttempts

LEMMA ReadPlacementInv == ASSUME DataInv, NEW r \in Requests, ReadPlacement(r) PROVE DataInv'
<1> DEFINE q == [req[r] EXCEPT !.pc = "marked", !.locks = @ \cup Written(req[r]), !.res.passed = ~live]
<1>1. /\ req[r] \in Request /\ RequestInv(req[r]) /\ live \in BOOLEAN
      /\ req[r].op = "lesson" /\ req[r].pc = "loaded"
  BY DEF DataInv, TypeOK, ReadPlacement, At
<1>2. Written(req[r]) \subseteq Topics
  BY DEF Written
<1>3. [req[r].res EXCEPT !.passed = ~live] \in Result
  BY <1>1 DEF Request, Result
<1>4. q \in Request
  BY <1>1, <1>2, <1>3 DEF Request, Pcs
<1>5. RequestInv(q)
  BY <1>1 DEF Request, RequestInv
<1> QED
  BY <1>4, <1>5, MoveOn, Abandon DEF ReadPlacement

LEMMA FlushPassInv == ASSUME DataInv, NEW r \in Requests, FlushPass(r) PROVE DataInv'
<1> DEFINE q == [req[r] EXCEPT !.pc = "saved", !.locks = @ \cup Written(req[r]), !.left = @ \ {Here}]
<1>1. req[r] \in Request /\ RequestInv(req[r]) /\ req[r].op = "lesson" /\ req[r].pc = "marked"
  BY DEF DataInv, TypeOK, FlushPass, At
<1>2. Written(req[r]) \subseteq Topics
  BY DEF Written
<1>3. q \in Request
  BY <1>1, <1>2 DEF Request, Pcs
<1>4. RequestInv(q)
  BY <1>1 DEF Request, RequestInv
<1> QED
  BY <1>3, <1>4, MoveOn, Abandon DEF FlushPass

(* Taking the lock of one more topic leaves everything else the request holds. *)
LEMMA TakesTopic ==
  ASSUME DataInv, NEW r \in Requests, NEW left \in SUBSET Topics, NEW locks \in SUBSET Topics
  PROVE  LET q == [req[r] EXCEPT !.left = left, !.locks = locks] IN q \in Request /\ RequestInv(q)
<1> DEFINE q == [req[r] EXCEPT !.left = left, !.locks = locks]
<1>1. req[r] \in Request /\ RequestInv(req[r])
  BY DEF DataInv, TypeOK
<1>2. q \in Request
  BY <1>1 DEF Request
<1>3. RequestInv(q)
  BY <1>1 DEF Request, RequestInv
<1> QED
  BY <1>2, <1>3

LEMMA LockElsewhereInv ==
  ASSUME DataInv, NEW r \in Requests, NEW t \in Topics, LockElsewhere(r, t) PROVE DataInv'
<1>1. req[r] \in Request
  BY DEF DataInv, TypeOK
<1> DEFINE left == req[r].left \ {t}
           locks == req[r].locks \cup {t}
           q == [req[r] EXCEPT !.left = left, !.locks = locks]
<1>2. left \in SUBSET Topics /\ locks \in SUBSET Topics
  BY <1>1 DEF Request
<1>3. q \in Request /\ RequestInv(q)
  BY <1>2, TakesTopic
<1>4. Finish(r) \/ Go(r, q)
  BY DEF LockElsewhere
<1> QED
  BY <1>3, <1>4, MoveOn, Abandon DEF LockElsewhere

LEMMA DeleteRowInv ==
  ASSUME DataInv, NEW r \in Requests, NEW t \in Topics, DeleteRow(r, t) PROVE DataInv'
<1>1. req[r] \in Request
  BY DEF DataInv, TypeOK
<1> DEFINE left == req[r].left \ {t}
<1>2. ASSUME NEW locks \in SUBSET Topics, Go(r, [req[r] EXCEPT !.left = left, !.locks = locks])
      PROVE  DataInv'
  <2>1. left \in SUBSET Topics
    BY <1>1 DEF Request
  <2> QED
    BY <1>2, <2>1, TakesTopic, MoveOn DEF DeleteRow
<1>3. /\ req[r].locks \in SUBSET Topics /\ req[r].locks \cup {t} \in SUBSET Topics
      /\ [req[r] EXCEPT !.left = left] = [req[r] EXCEPT !.left = left, !.locks = req[r].locks]
  BY <1>1 DEF Request
<1>4. \/ Go(r, [req[r] EXCEPT !.left = left, !.locks = req[r].locks \cup {t}])
      \/ Go(r, [req[r] EXCEPT !.left = left])
  BY DEF DeleteRow
<1> QED
  BY <1>2, <1>3, <1>4

-----------------------------------------------------------------------------
(* The steps that commit. *)

LEMMA MergeOfNothing ==
  ASSUME NEW current \in Progress, NEW x PROVE MergedRow(current, x, x) = current
BY DEF MergedRow, Column, Progress

(* Writing the columns a request changed keeps the row well-typed and never "locked". *)
LEMMA SavedRowType ==
  ASSUME row \in Progress, row.status = "locked" => row = NoRow,
         NEW q, q.row \in Progress, NEW new \in Progress, new.status # "locked",
         (q.row = NoRow <=> row = NoRow) \/ (q.row # NoRow /\ new = q.row)
  PROVE  /\ SavedRow(q, new) \in Progress
         /\ SavedRow(q, new).status = "locked" => SavedRow(q, new) = NoRow
<1>1. CASE q.row = NoRow
  BY <1>1 DEF SavedRow
<1>2. CASE q.row # NoRow
  <2>1. SavedRow(q, new) = MergedRow(row, q.row, new)
    BY <1>2 DEF SavedRow
  <2>2. MergedRow(row, q.row, new) \in Progress
    BY MergedRowType
  <2>3. CASE new = q.row
    BY <2>1, <2>3, MergeOfNothing
  <2>4. CASE new # q.row
    <3>1. row.status # "locked"
      BY <1>2, <2>4
    <3>2. MergedRow(row, q.row, new).status # "locked"
      BY <3>1 DEF MergedRow, Column
    <3> QED
      BY <2>1, <2>2, <3>2
  <2> QED
    BY <2>3, <2>4
<1> QED
  BY <1>1, <1>2

LEMMA RowOfType ==
  ASSUME NEW q, q.row \in Progress, q.row.status = "locked" => q.row = NoRow
  PROVE  RowOf(q) \in Progress /\ RowOf(q).status # "locked"
BY FreshType DEF RowOf

(* A new entry in the history is one more. *)
LEMMA LedgerGrows ==
  ASSUME LedgerInv, NEW x, x.n = Cardinality(ledger) + 1, ledger' = ledger \cup {x}
  PROVE  LedgerInv' /\ Cardinality(ledger') = Cardinality(ledger) + 1 /\ Cardinality(ledger) \in Nat
<1>1. Cardinality(ledger) \in Nat
  BY FS_CardinalityType DEF LedgerInv
<1>2. x \notin ledger
  BY <1>1 DEF LedgerInv
<1>3. IsFiniteSet(ledger') /\ Cardinality(ledger') = Cardinality(ledger) + 1
  BY <1>2, FS_AddElement DEF LedgerInv
<1>4. \A s \in ledger' : s.n \in Nat /\ s.n <= Cardinality(ledger')
  <2> SUFFICES ASSUME NEW s \in ledger' PROVE s.n \in Nat /\ s.n <= Cardinality(ledger')
    OBVIOUS
  <2>1. CASE s = x
    BY <1>1, <1>3, <2>1
  <2>2. CASE s \in ledger
    <3>1. s.n \in Nat /\ s.n <= Cardinality(ledger)
      BY <2>2 DEF LedgerInv
    <3> QED
      BY <1>1, <1>3, <3>1
  <2> QED
    BY <2>1, <2>2
<1> QED
  BY <1>1, <1>3, <1>4 DEF LedgerInv

(* The step that ends a request leaves what the others hold as it was, as long as the *)
(* history only grows.                                                                *)
LEMMA OthersKeep ==
  ASSUME DataInv, NEW r \in Requests, Finish(r), clock' = clock, LedgerInv',
         ledger \subseteq ledger', Cardinality(ledger) <= Cardinality(ledger')
  PROVE  req' \in [Requests -> Request] /\ \A s \in Requests : RequestInv(req[s])'
<1>1. req' \in [Requests -> Request] /\ \A s \in Requests : req'[s] = IF s = r THEN Idle ELSE req[s]
  BY IdleIsFine DEF Finish, DataInv, TypeOK
<1>2. ASSUME NEW s \in Requests PROVE RequestInv(req[s])'
  <2>1. Cardinality(ledger) \in Nat /\ Cardinality(ledger') \in Nat
    BY FS_CardinalityType DEF DataInv, LedgerInv
  <2>2. CASE s = r
    BY <1>1, <2>1, <2>2 DEF RequestInv, Idle, NoRow
  <2>3. CASE s # r
    <3>1. req'[s] = req[s] /\ RequestInv(req[s]) /\ req[s].row.count \in Nat
      BY <1>1, <2>3 DEF DataInv, TypeOK, Request, Progress
    <3> QED
      BY <2>1, <3>1 DEF RequestInv
  <2> QED
    BY <2>2, <2>3
<1> QED
  BY <1>1, <1>2

LEMMA WithSubmissionType ==
  ASSUME DataInv, NEW base \in Progress, base.status # "locked", NEW res \in Result
  PROVE  /\ WithSubmission(base, res) \in Progress
         /\ WithSubmission(base, res).status # "locked"
         /\ WithSubmission(base, res).count = base.count + 1
         /\ WithSubmission(base, res).best \in {base.best, res.score}
         /\ WithSubmission(base, res).status # base.status => res.passed
         /\ WithSubmission(base, res).passedAt # base.passedAt =>
              res.passed /\ WithSubmission(base, res).passedAt = clock
<1>1. clock \in Nat
  BY DEF DataInv, TypeOK
<1>2. /\ Greater(base.best, res.score) \in {base.best, res.score}
      /\ Greater(base.stars, res.stars) \in {base.stars, res.stars}
  BY DEF Greater
<1> DEFINE new == WithSubmission(base, res)
<1>3. /\ new.status = IF res.passed THEN "passed" ELSE base.status
      /\ new.passedAt = IF res.passed /\ base.passedAt = Never THEN clock ELSE base.passedAt
      /\ new.best = Greater(base.best, res.score)
      /\ new.count = base.count + 1
  BY DEF WithSubmission, Progress
<1>4. new \in Progress
  <2>1. base.count + 1 \in Nat /\ Greater(base.best, res.score) \in Percent
        /\ Greater(base.stars, res.stars) \in 0..3
        /\ (IF res.passed THEN "passed" ELSE base.status) \in {"locked", "unlocked", "passed"}
        /\ (IF res.passed /\ base.passedAt = Never THEN clock ELSE base.passedAt) \in Nat
    BY <1>1, <1>2 DEF Progress, Result
  <2> QED
    BY <2>1 DEF WithSubmission, Progress
<1> QED
  BY <1>2, <1>3, <1>4

LEMMA CommitGradeInv == ASSUME DataInv, NEW r \in Requests, CommitGrade(r) PROVE DataInv'
<1> DEFINE q == req[r]
           new == WithSubmission(RowOf(q), q.res)
           entry == [n |-> Cardinality(ledger) + 1, score |-> q.res.score,
                     passed |-> q.res.passed, hints |-> q.hints, owed |-> shown[q.variant]]
<1>1. /\ q \in Request /\ RequestInv(q) /\ q.op = "grade" /\ q.pc = "flushed"
      /\ Finish(r) /\ UNCHANGED <<live, clock, shown, era>>
  BY DEF CommitGrade, At, DataInv, TypeOK
<1>2. CASE ~RowSaves(q)
  <2>1. UNCHANGED <<attempts, row, ledger, earned>>
    BY <1>2 DEF CommitGrade
  <2> QED
    BY <1>1, <2>1, Abandon DEF history
<1>3. CASE RowSaves(q)
  <2>0. q.row = NoRow <=> row = NoRow
    BY <1>1, <1>3 DEF RowSaves, WritesRow
  <2>1. /\ attempts' = SaveAttempt(q.old, q.att) /\ row' = SavedRow(q, new)
        /\ ledger' = ledger \cup {entry}
        /\ earned' = IF q.res.passed THEN earned \cup {"checkpoint"} ELSE earned
    BY <1>3 DEF CommitGrade
  <2>2. LedgerInv' /\ Cardinality(ledger') = Cardinality(ledger) + 1 /\ Cardinality(ledger) \in Nat
    BY <2>1, LedgerGrows DEF DataInv
  <2>3. req' \in [Requests -> Request] /\ \A s \in Requests : RequestInv(req[s])'
    <3>1. clock' = clock /\ ledger \subseteq ledger' /\ Cardinality(ledger) <= Cardinality(ledger')
      BY <1>1, <2>1, <2>2
    <3> QED
      BY <1>1, <2>2, <3>1, OthersKeep
  <2>4. q.row \in Progress /\ q.res \in Result /\ (q.row.status = "locked" => q.row = NoRow)
    BY <1>1 DEF Request, RequestInv
  <2>5. RowOf(q) \in Progress /\ RowOf(q).status # "locked"
    BY <2>4, RowOfType
  <2>6. /\ new \in Progress /\ new.status # "locked"
        /\ new.count = RowOf(q).count + 1 /\ new.best \in {RowOf(q).best, q.res.score}
        /\ new.status # RowOf(q).status => q.res.passed
        /\ new.passedAt # RowOf(q).passedAt => q.res.passed
    BY <2>4, <2>5, WithSubmissionType
  <2> HIDE DEF new
  <2>7. row' \in Progress /\ (row'.status = "locked" => row' = NoRow)
    BY <2>0, <2>1, <2>4, <2>6, SavedRowType DEF DataInv, TypeOK
  <2>8. attempts' \subseteq Attempt /\ \A a \in attempts' : a.at <= clock
    <3>1. q.old \in Attempt \cup {NoAttempt} /\ q.att \in Attempt /\ q.att.at <= clock
      BY <1>1 DEF Request, RequestInv
    <3> QED
      BY <2>1, <3>1, SaveAttemptType DEF DataInv, TypeOK
  <2>9. entry \in Submission
    <3>1. q.hints \in {0} \cup Tiers /\ q.variant \in Checkpoint
      BY <1>1 DEF Request, RequestInv
    <3> QED
      BY <2>2, <2>4, <3>1 DEF Submission, Result, DataInv, TypeOK
  <2>10. TypeOK'
    BY <1>1, <2>1, <2>3, <2>7, <2>8, <2>9 DEF DataInv, TypeOK
  <2>11. PassIsEarned'
    <3>1. CASE q.row = NoRow
      <4>1. row' = new /\ RowOf(q) = Fresh
        BY <2>1, <3>1 DEF SavedRow, RowOf
      <4> QED
        BY <2>1, <2>6, <4>1 DEF PassIsEarned, Fresh, NoRow, DataInv
    <3>2. CASE q.row # NoRow
      <4>1. row' = MergedRow(row, q.row, new) /\ RowOf(q) = q.row
        BY <2>1, <3>2 DEF SavedRow, RowOf
      <4> QED
        BY <2>1, <2>6, <4>1 DEF PassIsEarned, MergedRow, Column, DataInv
    <3> QED
      BY <3>1, <3>2
  <2>12. CountedOnce'
    <3>1. row.count \in Nat /\ row.best \in Percent /\ q.row.count \in Nat /\ q.row.best \in Percent
      BY <2>4 DEF DataInv, TypeOK, Progress
    <3>2. /\ RowOf(q).count \in Nat /\ RowOf(q).count <= Cardinality(ledger)
          /\ RowOf(q).best > 0 => \E s \in ledger : s.score = RowOf(q).best
      BY <1>1, <2>2, <3>1 DEF RowOf, Fresh, NoRow, RequestInv
    <3>3. row'.count \in {row.count, new.count} /\ row'.best \in {row.best, new.best}
      BY <2>1 DEF SavedRow, MergedRow, Column
    <3>4. row'.count <= Cardinality(ledger')
      BY <2>2, <2>6, <3>1, <3>2, <3>3 DEF DataInv, CountedOnce
    <3>5. row'.best > 0 => \E s \in ledger' : s.score = row'.best
      <4>1. entry \in ledger' /\ entry.score = q.res.score /\ ledger \subseteq ledger'
        BY <2>1
      <4> HIDE DEF entry
      <4> QED
        BY <2>6, <3>2, <3>3, <4>1 DEF DataInv, CountedOnce
    <3> QED
      BY <3>4, <3>5 DEF CountedOnce
  <2> QED
    BY <1>1, <2>2, <2>3, <2>8, <2>10, <2>11, <2>12 DEF DataInv
<1> QED
  BY <1>2, <1>3

LEMMA CommitHintInv == ASSUME DataInv, NEW r \in Requests, CommitHint(r) PROVE DataInv'
<1> DEFINE q == req[r]
<1>1. /\ q \in Request /\ RequestInv(q) /\ q.op = "hint" /\ q.pc = "found"
      /\ Finish(r) /\ UNCHANGED <<row, live, clock, ledger, earned, era>>
  BY DEF CommitHint, At, DataInv, TypeOK
<1>2. q.hints \in Tiers /\ q.variant \in Checkpoint /\ q.att \in Attempt /\ q.att.at <= clock
      /\ q.old \in Attempt \cup {NoAttempt}
  BY <1>1 DEF RequestInv, Request
<1>3. req' \in [Requests -> Request] /\ \A s \in Requests : RequestInv(req[s])'
  <2>1. LedgerInv' /\ Cardinality(ledger) <= Cardinality(ledger')
    BY <1>1, FS_CardinalityType DEF DataInv, LedgerInv
  <2> QED
    BY <1>1, <2>1, OthersKeep
<1>4. attempts' \subseteq Attempt /\ \A a \in attempts' : a.at <= clock
  <2>1. attempts' = attempts \/ attempts' = SaveAttempt(q.old, q.att)
    BY DEF CommitHint
  <2> QED
    BY <1>2, <2>1, SaveAttemptType DEF DataInv, TypeOK
<1>5. shown' \in [Checkpoint -> {0} \cup Tiers]
  <2>1. Greater(shown[q.variant], q.hints) \in {0} \cup Tiers
    BY <1>2 DEF Greater, DataInv, TypeOK
  <2>2. shown' = shown \/ shown' = [shown EXCEPT ![q.variant] = Greater(shown[q.variant], q.hints)]
    BY DEF CommitHint
  <2> QED
    BY <2>1, <2>2 DEF DataInv, TypeOK
<1>6. TypeOK'
  BY <1>1, <1>3, <1>4, <1>5 DEF DataInv, TypeOK
<1> QED
  BY <1>1, <1>3, <1>4, <1>6 DEF DataInv, LedgerInv, PassIsEarned, CountedOnce

LEMMA CommitPracticeInv == ASSUME DataInv, NEW r \in Requests, CommitPractice(r) PROVE DataInv'
<1> DEFINE q == req[r]
<1>1. /\ q \in Request /\ RequestInv(q) /\ q.pc = "flushed" /\ q.op = "practice"
      /\ Finish(r) /\ UNCHANGED <<live, clock, history>>
  BY DEF CommitPractice, At, DataInv, TypeOK
<1>2. CASE ~RowSaves(q)
  <2>1. UNCHANGED <<attempts, row>>
    BY <1>2 DEF CommitPractice
  <2> QED
    BY <1>1, <2>1, Abandon
<1>3. CASE RowSaves(q)
  <2>0. (q.row = NoRow <=> row = NoRow) \/ (q.row # NoRow /\ RowOf(q) = q.row)
    BY <1>1, <1>3 DEF RowSaves, WritesRow, RowOf
  <2>1. attempts' = SaveAttempt(q.old, q.att) /\ row' = SavedRow(q, RowOf(q))
    BY <1>3 DEF CommitPractice
  <2>2. /\ q.row \in Progress /\ (q.row.status = "locked" => q.row = NoRow)
        /\ q.att \in Attempt /\ q.att.at <= clock /\ q.old \in Attempt \cup {NoAttempt}
    BY <1>1 DEF Request, RequestInv
  <2>3. RowOf(q) \in Progress /\ RowOf(q).status # "locked"
    BY <2>2, RowOfType
  <2>4. row' \in Progress /\ (row'.status = "locked" => row' = NoRow)
    BY <2>0, <2>1, <2>2, <2>3, SavedRowType DEF DataInv, TypeOK
  <2>5. attempts' \subseteq Attempt /\ \A a \in attempts' : a.at <= clock
    BY <2>1, <2>2, SaveAttemptType DEF DataInv, TypeOK
  <2>6. LedgerInv' /\ Cardinality(ledger) <= Cardinality(ledger')
    BY <1>1, FS_CardinalityType DEF DataInv, LedgerInv, history
  <2>7. req' \in [Requests -> Request] /\ \A s \in Requests : RequestInv(req[s])'
    BY <1>1, <2>6, OthersKeep DEF history
  <2>8. \/ row' = Fresh
        \/ row'.status = row.status /\ row'.passedAt = row.passedAt
           /\ row'.count = row.count /\ row'.best = row.best
    BY <2>1 DEF SavedRow, RowOf, MergedRow, Column
  <2>9. PassIsEarned' /\ CountedOnce'
    <3>1. Cardinality(ledger) \in Nat
      BY FS_CardinalityType DEF DataInv, LedgerInv
    <3> QED
      BY <1>1, <2>8, <3>1 DEF PassIsEarned, CountedOnce, DataInv, Fresh, NoRow, history
  <2>10. TypeOK'
    BY <1>1, <2>4, <2>5, <2>7 DEF DataInv, TypeOK, history
  <2> QED
    BY <1>1, <2>5, <2>6, <2>7, <2>9, <2>10 DEF DataInv
<1> QED
  BY <1>2, <1>3

LEMMA WithLessonType ==
  ASSUME DataInv, NEW q \in Request, q.row.status = "locked" => q.row = NoRow
  PROVE  /\ WithLesson(q) \in Progress
         /\ WithLesson(q).status # "locked"
         /\ WithLesson(q).count = RowOf(q).count /\ WithLesson(q).best = RowOf(q).best
         /\ WithLesson(q).status # RowOf(q).status => q.res.passed
         /\ WithLesson(q).passedAt # RowOf(q).passedAt =>
              q.res.passed /\ WithLesson(q).passedAt = clock
<1>1. clock \in Nat /\ q.row \in Progress
  BY DEF DataInv, TypeOK, Request
<1> DEFINE base == RowOf(q)
           briefed == [base EXCEPT !.lessonAt = IF @ = Never THEN clock ELSE @]
<1>0. base \in Progress /\ base.status # "locked"
  BY <1>1, RowOfType
<1> HIDE DEF base
<1>2. /\ briefed \in Progress /\ briefed.status = base.status /\ briefed.count = base.count
      /\ briefed.best = base.best /\ briefed.passedAt = base.passedAt
  <2>1. (IF base.lessonAt = Never THEN clock ELSE base.lessonAt) \in Nat
    BY <1>0, <1>1 DEF Progress
  <2> QED
    BY <1>0, <2>1 DEF Progress
<1>3. CASE ~q.res.passed
  BY <1>0, <1>2, <1>3 DEF WithLesson, base
<1>4. CASE q.res.passed
  <2> HIDE DEF briefed
  <2>1. WithLesson(q) = [briefed EXCEPT !.status = "passed",
                                        !.passedAt = IF @ = Never THEN clock ELSE @]
    BY <1>4 DEF WithLesson, briefed, base
  <2>2. (IF briefed.passedAt = Never THEN clock ELSE briefed.passedAt) \in Nat
    BY <1>1, <1>2 DEF Progress
  <2> QED
    BY <1>2, <1>4, <2>1, <2>2 DEF Progress, base
<1> QED
  BY <1>3, <1>4

(* A lesson that has locked no row has nothing to write. *)
LEMMA NothingToWrite ==
  ASSUME DataInv, NEW q \in Request, ~Unbriefed(q), ~PassesNow(q)
  PROVE  q.row # NoRow /\ WithLesson(q) = q.row
<1>1. q.row \in Progress /\ q.row.lessonAt # Never
  BY DEF Unbriefed, Request
<1>2. q.row # NoRow
  BY <1>1 DEF NoRow
<1>3. q.res.passed => q.row.status = "passed" /\ q.row.passedAt # Never
  BY DEF PassesNow
<1> QED
  BY <1>1, <1>2, <1>3 DEF WithLesson, RowOf, Progress

(* What a lesson commits: a row that was there when it was loaded is still there. *)
LEMMA LessonWrites ==
  ASSUME IInv, NEW r \in Requests, CommitLesson(r)
  PROVE  LET q == req[r] IN
         \/ Here \in q.locks /\ (q.row = NoRow <=> row = NoRow)
         \/ Here \notin q.locks /\ q.row # NoRow /\ WithLesson(q) = q.row /\ row' = row
<1> DEFINE q == req[r]
<1>1. q \in Request /\ LockOk(q) /\ q.op = "lesson" /\ q.pc = "saved"
  BY DEF CommitLesson, At, IInv, DataInv, TypeOK, LockInv
<1>2. CASE Here \in q.locks
  BY <1>1, <1>2 DEF LockOk
<1>3. CASE Here \notin q.locks
  <2>1. q.row # NoRow /\ WithLesson(q) = q.row
    BY <1>1, <1>3, NothingToWrite DEF LockOk, IInv
  <2>2. row' = row
    BY <2>1, MergeOfNothing DEF CommitLesson, SavedRow, IInv, DataInv, TypeOK
  <2> QED
    BY <1>3, <2>1, <2>2
<1> QED
  BY <1>2, <1>3

LEMMA CommitLessonInv == ASSUME IInv, NEW r \in Requests, CommitLesson(r) PROVE DataInv'
<1> DEFINE q == req[r]
           new == WithLesson(q)
<1>0. DataInv
  BY DEF IInv
<1>1. /\ q \in Request /\ RequestInv(q) /\ Finish(r) /\ row' = SavedRow(q, new)
      /\ earned' = IF q.res.passed THEN earned \cup {"briefing"} ELSE earned
      /\ UNCHANGED <<attempts, live, clock, ledger, shown, era>>
  BY <1>0 DEF CommitLesson, At, DataInv, TypeOK
<1>2. q.row \in Progress /\ (q.row.status = "locked" => q.row = NoRow)
  BY <1>1 DEF Request, RequestInv
<1>3. (q.row = NoRow <=> row = NoRow) \/ (q.row # NoRow /\ new = q.row)
  BY LessonWrites
<1>4. /\ new \in Progress /\ new.status # "locked"
      /\ new.count = RowOf(q).count /\ new.best = RowOf(q).best
      /\ new.status # RowOf(q).status => q.res.passed
      /\ new.passedAt # RowOf(q).passedAt => q.res.passed
  BY <1>0, <1>1, <1>2, WithLessonType
<1> HIDE DEF new
<1>5. row' \in Progress /\ (row'.status = "locked" => row' = NoRow)
  BY <1>0, <1>1, <1>2, <1>3, <1>4, SavedRowType DEF DataInv, TypeOK
<1>6. LedgerInv' /\ Cardinality(ledger) <= Cardinality(ledger') /\ Cardinality(ledger) \in Nat
  BY <1>0, <1>1, FS_CardinalityType DEF DataInv, LedgerInv
<1>7. req' \in [Requests -> Request] /\ \A s \in Requests : RequestInv(req[s])'
  BY <1>0, <1>1, <1>6, OthersKeep
<1>8. TypeOK'
  BY <1>0, <1>1, <1>5, <1>7 DEF DataInv, TypeOK
<1>9. PassIsEarned' /\ CountedOnce'
  <2>1. CASE q.row = NoRow
    <3>1. row' = new /\ RowOf(q) = Fresh
      BY <1>1, <2>1 DEF SavedRow, RowOf
    <3> QED
      BY <1>0, <1>1, <1>4, <1>6, <3>1 DEF PassIsEarned, CountedOnce, Fresh, NoRow, DataInv
  <2>2. CASE q.row # NoRow
    <3>1. row' = MergedRow(row, q.row, new) /\ RowOf(q) = q.row
      BY <1>1, <2>2 DEF SavedRow, RowOf
    <3>2. row'.count = row.count /\ row'.best = row.best
      BY <1>4, <3>1 DEF MergedRow, Column
    <3>3. CountedOnce'
      BY <1>0, <1>1, <3>2 DEF CountedOnce, DataInv
    <3> QED
      BY <1>0, <1>1, <1>4, <3>1, <3>3 DEF PassIsEarned, MergedRow, Column, DataInv
  <2> QED
    BY <2>1, <2>2
<1> QED
  BY <1>0, <1>1, <1>6, <1>7, <1>8, <1>9 DEF DataInv

LEMMA CommitResetInv == ASSUME DataInv, NEW r \in Requests, CommitReset(r) PROVE DataInv'
<1>1. /\ Finish(r) /\ UNCHANGED <<live, clock, ledger>>
      /\ (row' = NoRow /\ earned' = {}) \/ UNCHANGED <<row, earned>>
      /\ attempts' \subseteq attempts /\ era' = era + 1
      /\ shown' = [v \in Checkpoint |-> 0]
  BY DEF CommitReset
<1>2. LedgerInv' /\ Cardinality(ledger) <= Cardinality(ledger') /\ Cardinality(ledger') \in Nat
  BY <1>1, FS_CardinalityType DEF DataInv, LedgerInv
<1>3. req' \in [Requests -> Request] /\ \A s \in Requests : RequestInv(req[s])'
  BY <1>1, <1>2, OthersKeep
<1>4. TypeOK'
  <2>1. row' \in Progress /\ (row'.status = "locked" => row' = NoRow)
    BY <1>1, FreshType DEF DataInv, TypeOK
  <2>2. earned' \subseteq {"checkpoint", "briefing"}
    <3>1. earned' = {} \/ earned' = earned
      BY <1>1
    <3> QED
      BY <3>1 DEF DataInv, TypeOK
  <2>3. era' \in Nat
    BY <1>1 DEF DataInv, TypeOK
  <2> QED
    BY <1>1, <1>3, <2>1, <2>2, <2>3 DEF DataInv, TypeOK
<1>5. PassIsEarned' /\ CountedOnce'
  <2>1. CASE row' = NoRow /\ earned' = {}
    BY <1>1, <1>2, <2>1 DEF PassIsEarned, CountedOnce, NoRow
  <2>2. CASE UNCHANGED <<row, earned>>
    BY <1>1, <2>2 DEF PassIsEarned, CountedOnce, DataInv
  <2> QED
    BY <1>1, <2>1, <2>2
<1> QED
  BY <1>1, <1>2, <1>3, <1>4, <1>5 DEF DataInv

(* Time may pass at any moment. *)
LEMMA WaitInv == ASSUME DataInv, Wait PROVE DataInv'
<1>1. clock' = clock + 1 /\ clock \in Nat /\ UNCHANGED <<attempts, row, live, req, history>>
  BY DEF Wait, DataInv, TypeOK
<1>2. ASSUME NEW r \in Requests PROVE RequestInv(req[r])'
  <2>1. RequestInv(req[r]) /\ req[r] \in Request
    BY DEF DataInv, TypeOK
  <2> QED
    BY <1>1, <2>1 DEF RequestInv, Attempt, history
<1>3. TypeOK' /\ \A a \in attempts' : a.at <= clock'
  BY <1>1 DEF DataInv, TypeOK, Attempt, history
<1>4. LedgerInv' /\ PassIsEarned' /\ CountedOnce'
  BY <1>1 DEF DataInv, LedgerInv, PassIsEarned, CountedOnce, history
<1> QED
  BY <1>2, <1>3, <1>4 DEF DataInv

(* Publishing or withdrawing the game, and stuttering, touch nothing the invariant reads. *)
LEMMA QuietInv ==
  ASSUME DataInv, live' \in BOOLEAN, UNCHANGED <<attempts, row, clock, req, history>>
  PROVE  DataInv'
<1>1. ASSUME NEW r \in Requests PROVE RequestInv(req[r])'
  BY DEF DataInv, RequestInv, history
<1> QED
  BY <1>1 DEF DataInv, TypeOK, LedgerInv, PassIsEarned, CountedOnce, history

-----------------------------------------------------------------------------
(* The lock of the summary row.                                            *)

LEMMA LockMoveOn ==
  ASSUME LockInv, NEW r \in Requests, NEW q, LockOk(q), Go(r, q), row' = row,
         Here \in q.locks => NobodyElseLocks(r)
  PROVE  LockInv'
<1>1. /\ req' = [s \in Requests |-> req'[s]]
      /\ \A s \in Requests : req'[s] = IF s = r THEN q ELSE req[s]
  BY DEF Go, LockInv
<1>2. \A s \in Requests : LockOk(req[s])'
  BY <1>1 DEF LockInv, LockOk
<1>3. \A s \in Requests : Here \in req'[s].locks => NobodyElseLocks(s)'
  BY <1>1 DEF LockInv, NobodyElseLocks
<1> QED
  BY <1>1, <1>2, <1>3 DEF LockInv

(* A step that changes neither what is locked nor what was loaded, and is none of the *)
(* lesson's, has nothing to show.                                                     *)
LEMMA LockSame ==
  ASSUME LockInv, NEW r \in Requests, NEW q, Go(r, q), row' = row,
         q.locks = req[r].locks, q.row = req[r].row, q.op = req[r].op,
         q.op = "lesson" => q.pc \notin {"marked", "saved"}
  PROVE  LockInv'
<1>1. LockOk(q) /\ (Here \in q.locks => NobodyElseLocks(r))
  BY DEF LockInv, LockOk
<1> QED
  BY <1>1, LockMoveOn

(* A request that ends gives its locks back; it changed the row only if nobody else *)
(* had locked it.                                                                   *)
LEMMA LockEnd ==
  ASSUME LockInv, NEW r \in Requests, Finish(r), row' = row \/ NobodyElseLocks(r)
  PROVE  LockInv'
<1>1. /\ req' = [s \in Requests |-> req'[s]]
      /\ \A s \in Requests : req'[s] = IF s = r THEN Idle ELSE req[s]
  BY DEF Finish, LockInv
<1>2. \A s \in Requests : LockOk(req[s])'
  BY <1>1 DEF LockInv, LockOk, Idle, NobodyElseLocks, Unbriefed, PassesNow
<1>3. \A s \in Requests : Here \in req'[s].locks => NobodyElseLocks(s)'
  BY <1>1 DEF LockInv, NobodyElseLocks, Idle
<1> QED
  BY <1>1, <1>2, <1>3 DEF LockInv

(* Whoever is to write the row waits for the others' locks, unless the row it would *)
(* update is gone.                                                                  *)
LEMMA WriterIsAlone ==
  ASSUME NEW r \in Requests, WritesRow(req[r]), AllFree(r), RowSaves(req[r])
  PROVE  NobodyElseLocks(r)
<1>1. Here \in Wants(req[r])
  BY DEF WritesRow, Wants, RowSaves
<1>2. Free(r, Here)
  BY <1>1 DEF AllFree
<1> QED
  BY <1>2 DEF Free, Holds, NobodyElseLocks

LEMMA BeginLocks == ASSUME LockInv, NEW r \in Requests, Begin(r) PROVE LockInv'
<1>1. row' = row
  BY DEF Begin
<1> DEFINE Begun(q) == q.locks = {} /\ q.pc = "begun"
<1>2. PICK q : Go(r, q) /\ Begun(q)
  <2>1. ASSUME NEW op, NEW v, NEW h, NEW res PROVE Begun(Sent(op, v, h, res))
    BY DEF Sent, Idle
  <2>2. ASSUME NEW left PROVE Begun([Sent("lesson", NoVariant, 0, NotRun) EXCEPT !.left = left])
    BY DEF Sent, Idle
  <2> HIDE DEF Begun
  <2> QED
    BY <2>1, <2>2 DEF Begin
<1>3. LockOk(q)
  BY <1>2 DEF LockOk
<1> QED
  BY <1>1, <1>2, <1>3, LockMoveOn

LEMMA GradeLocks ==
  ASSUME IInv, NEW r \in Requests,
         \/ CheckCooldown(r) \/ ReadHints(r) \/ RunChecks(r) \/ FindAttempt(r) \/ FlushAttempt(r)
         \/ CommitGrade(r) \/ FindOpen(r) \/ CommitHint(r) \/ FindPractice(r) \/ CommitPractice(r)
  PROVE  LockInv'
<1> USE DEF At
<1>0. LockInv /\ req[r] \in Request
  BY DEF IInv, DataInv, TypeOK
<1>1. CASE CheckCooldown(r)
  BY <1>0, <1>1, LockSame, LockEnd DEF CheckCooldown, Request
<1>2. CASE ReadHints(r)
  BY <1>0, <1>2, LockSame DEF ReadHints, Request
<1>3. CASE RunChecks(r)
  BY <1>0, <1>3, LockSame, LockEnd DEF RunChecks, Request
<1>4. CASE FindAttempt(r)
  BY <1>0, <1>4, LockSame DEF FindAttempt, Request
<1>5. CASE FlushAttempt(r)
  <2>1. CASE Finish(r)
    BY <1>0, <1>5, <2>1, LockEnd DEF FlushAttempt
  <2>2. CASE Go(r, [req[r] EXCEPT !.pc = "flushed", !.row = row])
    <3> DEFINE q == [req[r] EXCEPT !.pc = "flushed", !.row = row]
    <3>1. LockOk(q) /\ (Here \in q.locks => NobodyElseLocks(r))
      BY <1>0, <1>5 DEF FlushAttempt, LockInv, LockOk
    <3> QED
      BY <1>0, <1>5, <2>2, <3>1, LockMoveOn DEF FlushAttempt
  <2> QED
    BY <1>5, <2>1, <2>2 DEF FlushAttempt
<1>6. CASE CommitGrade(r)
  BY <1>0, <1>6, LockEnd, WriterIsAlone DEF CommitGrade, WritesRow
<1>7. CASE FindOpen(r)
  BY <1>0, <1>7, LockSame DEF FindOpen, Request
<1>8. CASE CommitHint(r)
  BY <1>0, <1>8, LockEnd DEF CommitHint
<1>9. CASE FindPractice(r)
  BY <1>0, <1>9, LockSame DEF FindPractice, Request
<1>10. CASE CommitPractice(r)
  <2>1. Finish(r) /\ req[r].op = "practice" /\ req[r].pc = "flushed"
    BY <1>10 DEF CommitPractice
  <2>2. CASE RowSaves(req[r]) /\ req[r].row = NoRow
    BY <1>0, <1>10, <2>1, <2>2, LockEnd, WriterIsAlone DEF CommitPractice, WritesRow
  <2>3. CASE RowSaves(req[r]) /\ req[r].row # NoRow
    <3>1. row' = row
      BY <1>10, <2>3, MergeOfNothing DEF CommitPractice, SavedRow, RowOf, IInv, DataInv, TypeOK
    <3> QED
      BY <1>0, <2>1, <3>1, LockEnd
  <2>4. CASE ~RowSaves(req[r])
    BY <1>0, <1>10, <2>1, <2>4, LockEnd DEF CommitPractice
  <2> QED
    BY <2>2, <2>3, <2>4
<1> QED
  BY <1>1, <1>2, <1>3, <1>4, <1>5, <1>6, <1>7, <1>8, <1>9, <1>10

LEMMA LessonLocks ==
  ASSUME IInv, NEW r \in Requests,
         LoadRow(r) \/ ReadPlacement(r) \/ FlushPass(r) \/ CommitLesson(r)
         \/ \E t \in Topics : LockElsewhere(r, t)
  PROVE  LockInv'
<1>0. LockInv /\ LockOk(req[r]) /\ (Here \in req[r].locks => NobodyElseLocks(r))
  BY DEF IInv, LockInv
<1>t. req[r] \in Request
  BY DEF IInv, DataInv, TypeOK
<1>1. CASE LoadRow(r)
  <2> DEFINE q == [req[r] EXCEPT !.pc = "loaded", !.row = row]
  <2>1. LockOk(q) /\ q.locks = req[r].locks
    BY <1>0, <1>1, <1>t DEF LoadRow, At, LockOk, Request
  <2> QED
    BY <1>0, <1>1, <2>1, LockMoveOn DEF LoadRow
<1>2. CASE ReadPlacement(r)
  <2>1. CASE Finish(r)
    BY <1>0, <1>2, <2>1, LockEnd DEF ReadPlacement
  <2>2. CASE RowSaves(req[r])
    <3> DEFINE q == [req[r] EXCEPT !.pc = "marked", !.locks = @ \cup Written(req[r]),
                                   !.res.passed = ~live]
    <3>1. /\ q.op = "lesson" /\ q.pc = "marked" /\ q.row = req[r].row
          /\ q.locks = req[r].locks \cup Written(req[r])
          /\ req[r].op = "lesson" /\ req[r].pc = "loaded"
      BY <1>2, <1>t DEF ReadPlacement, At, Request
    <3>2. WritesRow(req[r]) <=> Unbriefed(req[r])
      BY <3>1 DEF WritesRow
    <3>3. Here \in q.locks => (q.row = NoRow <=> row = NoRow)
      BY <1>0, <2>2, <3>1 DEF LockOk, Written, RowSaves
    <3>4. LockOk(q)
      BY <3>1, <3>2, <3>3 DEF LockOk, Written, Unbriefed
    <3>5. Here \in q.locks => NobodyElseLocks(r)
      BY <1>0, <1>2, <2>2, <3>1, WriterIsAlone DEF Written, ReadPlacement
    <3> QED
      BY <1>0, <1>2, <2>2, <3>4, <3>5, LockMoveOn DEF ReadPlacement
  <2> QED
    BY <1>2, <2>1, <2>2 DEF ReadPlacement
<1>3. CASE FlushPass(r)
  <2>1. CASE Finish(r)
    BY <1>0, <1>3, <2>1, LockEnd DEF FlushPass
  <2>2. CASE RowSaves(req[r])
    <3> DEFINE q == [req[r] EXCEPT !.pc = "saved", !.locks = @ \cup Written(req[r]),
                                   !.left = @ \ {Here}]
    <3>1. /\ q.op = "lesson" /\ q.pc = "saved" /\ q.row = req[r].row /\ q.res = req[r].res
          /\ q.locks = req[r].locks \cup Written(req[r])
          /\ req[r].op = "lesson" /\ req[r].pc = "marked"
      BY <1>3, <1>t DEF FlushPass, At, Request
    <3>2. WritesRow(req[r]) <=> PassesNow(req[r]) /\ Here \notin req[r].locks
      BY <3>1 DEF WritesRow
    <3>3. Here \in q.locks => (q.row = NoRow <=> row = NoRow)
      BY <1>0, <2>2, <3>1 DEF LockOk, Written, RowSaves
    <3>4. LockOk(q)
      BY <1>0, <3>1, <3>2, <3>3 DEF LockOk, Written, Unbriefed, PassesNow
    <3>5. Here \in q.locks => NobodyElseLocks(r)
      BY <1>0, <1>3, <2>2, <3>1, WriterIsAlone DEF Written, FlushPass
    <3> QED
      BY <1>0, <1>3, <2>2, <3>4, <3>5, LockMoveOn DEF FlushPass
  <2> QED
    BY <1>3, <2>1, <2>2 DEF FlushPass
<1>4. CASE CommitLesson(r)
  <2>1. row' = row \/ NobodyElseLocks(r)
    BY <1>0, <1>4, LessonWrites
  <2> QED
    BY <1>0, <1>4, <2>1, LockEnd DEF CommitLesson
<1>5. ASSUME NEW t \in Topics, LockElsewhere(r, t) PROVE LockInv'
  <2>1. CASE Finish(r)
    BY <1>0, <1>5, <2>1, LockEnd DEF LockElsewhere
  <2>2. CASE ~Finish(r)
    <3> DEFINE q == [req[r] EXCEPT !.left = @ \ {t}, !.locks = @ \cup {t}]
    <3>1. /\ q.op = req[r].op /\ q.pc = req[r].pc /\ q.row = req[r].row /\ q.res = req[r].res
          /\ (Here \in q.locks <=> Here \in req[r].locks)
      BY <1>5, <1>t DEF LockElsewhere, Request
    <3>2. LockOk(q)
      BY <1>0, <3>1 DEF LockOk, Unbriefed, PassesNow
    <3> QED
      BY <1>0, <1>5, <2>2, <3>1, <3>2, LockMoveOn DEF LockElsewhere
  <2> QED
    BY <2>1, <2>2
<1> QED
  BY <1>1, <1>2, <1>3, <1>4, <1>5

LEMMA ResetLocks ==
  ASSUME IInv, NEW r \in Requests,
         DeleteAttempts(r) \/ CommitReset(r) \/ \E t \in Topics : DeleteRow(r, t)
  PROVE  LockInv'
<1>0. LockInv /\ LockOk(req[r]) /\ (Here \in req[r].locks => NobodyElseLocks(r))
  BY DEF IInv, LockInv
<1>t. req[r] \in Request
  BY DEF IInv, DataInv, TypeOK
<1>1. CASE DeleteAttempts(r)
  BY <1>0, <1>1, <1>t, LockSame DEF DeleteAttempts, At, Request
<1>2. CASE CommitReset(r)
  BY <1>0, <1>2, LockEnd DEF CommitReset
<1>3. ASSUME NEW t \in Topics, DeleteRow(r, t) PROVE LockInv'
  <2>1. req[r].op = "reset" /\ req[r].pc = "deleted" /\ row' = row
    BY <1>3 DEF DeleteRow, At
  <2>2. CASE t \in Wants(req[r])
    <3> DEFINE q == [req[r] EXCEPT !.left = @ \ {t}, !.locks = @ \cup {t}]
    <3>1. /\ q.op = "reset" /\ Go(r, q) /\ Free(r, t)
          /\ (Here \in q.locks <=> Here \in req[r].locks \/ t = Here)
      BY <1>3, <1>t, <2>1, <2>2 DEF DeleteRow, Request
    <3>2. t = Here => row # NoRow
      <4>1. Wants(req[r]) = {x \in req[r].left : x = Here => row # NoRow}
        BY <2>1 DEF Wants, WritesRow
      <4> QED
        BY <2>2, <4>1
    <3>3. t = Here => NobodyElseLocks(r)
      BY <3>1 DEF Free, Holds, NobodyElseLocks
    <3>4. LockOk(q) /\ (Here \in q.locks => NobodyElseLocks(r))
      BY <1>0, <2>1, <3>1, <3>2, <3>3 DEF LockOk
    <3> QED
      BY <1>0, <2>1, <3>1, <3>4, LockMoveOn
  <2>3. CASE t \notin Wants(req[r])
    <3> DEFINE q == [req[r] EXCEPT !.left = @ \ {t}]
    <3>1. q.op = "reset" /\ q.locks = req[r].locks /\ q.row = req[r].row /\ Go(r, q)
      BY <1>3, <1>t, <2>1, <2>3 DEF DeleteRow, Request
    <3> QED
      BY <1>0, <2>1, <3>1, LockSame
  <2> QED
    BY <2>2, <2>3
<1> QED
  BY <1>1, <1>2, <1>3

LEMMA OtherLocks ==
  ASSUME LockInv, UNCHANGED <<row, req>> PROVE LockInv'
BY DEF LockInv, LockOk, NobodyElseLocks

-----------------------------------------------------------------------------
(* A learner who has just registered has nothing that was not earned or counted. *)
THEOREM InitInv == Init => IInv
<1> SUFFICES ASSUME Init PROVE IInv
  OBVIOUS
<1>1. LedgerInv /\ Cardinality(ledger) = 0
  BY FS_EmptySet DEF Init, LedgerInv
<1>2. req \in [Requests -> Request] /\ \A r \in Requests : RequestInv(req[r])
  BY <1>1, IdleIsFine DEF Init
<1>3. TypeOK
  BY <1>2, FreshType DEF Init, TypeOK
<1>4. PassIsEarned /\ CountedOnce
  BY <1>1 DEF Init, PassIsEarned, CountedOnce, NoRow
<1> QED
  <2>1. DataInv
    BY <1>1, <1>2, <1>3, <1>4 DEF DataInv, Init
  <2>2. LockInv
    BY DEF Init, LockInv, LockOk, Idle
  <2> QED
    BY <2>1, <2>2 DEF IInv

(* Every step of every request keeps the invariant. *)
THEOREM Inductive == IInv /\ [Next]_vars => IInv'
<1> SUFFICES ASSUME IInv, [Next]_vars PROVE IInv'
  OBVIOUS
<1>0. DataInv /\ LockInv
  BY DEF IInv
<1>1. ASSUME NEW r \in Requests, Begin(r) PROVE IInv'
  BY <1>0, <1>1, BeginInv, BeginLocks DEF IInv
<1>2. ASSUME NEW r \in Requests, Step(r) PROVE IInv'
  <2>1. DataInv'
    BY <1>0, <1>2, CheckCooldownInv, ReadHintsInv, RunChecksInv, FindAttemptInv, FlushAttemptInv,
       CommitGradeInv, FindOpenInv, CommitHintInv, FindPracticeInv, CommitPracticeInv,
       LoadRowInv, ReadPlacementInv, FlushPassInv, CommitLessonInv, LockElsewhereInv,
       DeleteAttemptsInv, DeleteRowInv, CommitResetInv
       DEF Step
  <2>2. LockInv'
    BY <1>2, GradeLocks, LessonLocks, ResetLocks DEF Step
  <2> QED
    BY <2>1, <2>2 DEF IInv
<1>3. ASSUME NEW r \in Requests, DeadlockDetected(r) PROVE IInv'
  BY <1>0, <1>3, Abandon, LockEnd DEF DeadlockDetected, IInv
<1>4. CASE SetStatus
  <2>1. live' \in BOOLEAN
    BY <1>0, <1>4 DEF SetStatus, DataInv, TypeOK
  <2> QED
    BY <1>0, <1>4, <2>1, QuietInv, OtherLocks DEF SetStatus, IInv
<1>5. CASE Wait
  BY <1>0, <1>5, WaitInv, OtherLocks DEF Wait, IInv
<1>6. CASE UNCHANGED vars
  <2>1. live' \in BOOLEAN /\ UNCHANGED <<attempts, row, clock, req, history>>
    BY <1>0, <1>6 DEF vars, history, DataInv, TypeOK
  <2> QED
    BY <1>0, <2>1, QuietInv, OtherLocks DEF IInv
<1> QED
  BY <1>1, <1>2, <1>3, <1>4, <1>5, <1>6 DEF Next, TimeIsUp

(* The inductive invariant holds in every reachable state, whatever requests, resets and *)
(* publications overlap: what a request loaded earlier is bounded by the history too.    *)
THEOREM Invariant == Spec => []IInv
<1> QED
  BY InitInv, Inductive, PTL DEF Spec

(* Every reachable state is well-typed: a hint penalty never makes a score negative, and *)
(* no stored row says "locked".                                                          *)
THEOREM Typed == Spec => []TypeOK
<1>1. IInv => TypeOK
  BY DEF IInv, DataInv
<1> QED
  BY <1>1, Invariant, PTL

(* record_checkpoint and _mark_lesson, racing each other and a reset: the topic is passed *)
(* only by a passed submission or by a briefing whose request found no published          *)
(* checkpoint.                                                                            *)
THEOREM PassesAreEarned == Spec => []PassIsEarned
<1>1. IInv => PassIsEarned
  BY DEF IInv, DataInv
<1> QED
  BY <1>1, Invariant, PTL

(* The summary row never counts more submissions than were saved, and its best score is *)
(* one that a submission got, whatever stale copies are written back.                   *)
THEOREM NothingIsCountedTwice == Spec => []CountedOnce
<1>1. IInv => CountedOnce
  BY DEF IInv, DataInv
<1> QED
  BY <1>1, Invariant, PTL

(* No commit clears a pass; only a reset does, with the rest of the row. *)
THEOREM PassesAreKept == Spec => PassIsKept
<1> DEFINE Kept == row.passedAt # Never /\ row'.passedAt = Never => row' = NoRow
<1>1. ASSUME IInv, [Next]_vars PROVE [Kept]_row
  <2>1. CASE row' = row
    BY <2>1
  <2>2. ASSUME NEW r \in Requests, NEW new,
               req[r].row = NoRow => row = NoRow, row' = SavedRow(req[r], new),
               new.passedAt # RowOf(req[r]).passedAt => new.passedAt > 0
        PROVE  Kept
    <3>1. CASE req[r].row = NoRow
      BY <2>2, <3>1 DEF NoRow
    <3>2. CASE req[r].row # NoRow
      BY <2>2, <3>2 DEF SavedRow, RowOf, MergedRow, Column, Never
    <3> QED
      BY <3>1, <3>2
  <2>3. ASSUME NEW r \in Requests, Step(r), row' # row PROVE Kept
    <3>1. req[r] \in Request /\ RequestInv(req[r])
      BY <1>1 DEF IInv, DataInv, TypeOK
    <3>2. RowOf(req[r]) \in Progress /\ RowOf(req[r]).status # "locked" /\ req[r].res \in Result
      BY <3>1, RowOfType DEF Request, RequestInv
    <3>3. req[r].pc # "idle" => clock > 0
      BY <1>1, <3>1 DEF RequestInv, IInv, DataInv, TypeOK
    <3>4. CASE CommitGrade(r)
      <4>1. LET new == WithSubmission(RowOf(req[r]), req[r].res)
            IN  new.passedAt # RowOf(req[r]).passedAt => new.passedAt > 0
        BY <1>1, <3>2, <3>3, <3>4, WithSubmissionType DEF CommitGrade, At, IInv
      <4> QED
        BY <2>2, <2>3, <3>4, <4>1 DEF CommitGrade, At, RowSaves, WritesRow
    <3>5. CASE CommitPractice(r)
      BY <2>2, <2>3, <3>5 DEF CommitPractice, At, RowSaves, WritesRow
    <3>6. CASE CommitLesson(r)
      <4>1. LET new == WithLesson(req[r])
            IN  new.passedAt # RowOf(req[r]).passedAt => new.passedAt > 0
        BY <1>1, <3>2, <3>1, <3>3, <3>6, WithLessonType DEF CommitLesson, At, IInv, RequestInv
      <4> QED
        BY <1>1, <2>2, <2>3, <3>6, <4>1, LessonWrites DEF CommitLesson
    <3>7. CASE CommitReset(r)
      BY <3>7 DEF CommitReset
    <3> QED
      BY <2>3, <3>4, <3>5, <3>6, <3>7
      DEF Step, CheckCooldown, ReadHints, RunChecks, FindAttempt, FlushAttempt,
          FindOpen, CommitHint, FindPractice, LoadRow, ReadPlacement, FlushPass, LockElsewhere,
          DeleteAttempts, DeleteRow
  <2> QED
    BY <1>1, <2>1, <2>3 DEF Next, Begin, DeadlockDetected, SetStatus, Wait, TimeIsUp, vars
<1>2. IInv /\ [Next]_vars => [Kept]_row
  BY <1>1
<1> QED
  BY <1>2, Invariant, PTL DEF Spec, PassIsKept
=============================================================================
