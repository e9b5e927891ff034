--------------------------- MODULE Passes_proofs ---------------------------
(***************************************************************************)
(* Overlapping requests of one learner and the passes they store: a pass   *)
(* reaches the summary row and a practice pass is never taken back, for    *)
(* every number of requests and every value of the constants.              *)
(***************************************************************************)
EXTENDS LearnerProgress_proofs

USE CallsAssumption, HereAssumption, VariantAssumption, ScoreAssumption, TierAssumption, ClockAssumption

-----------------------------------------------------------------------------
(* The inductive invariant.                                                *)

Active  == {r \in Requests : req[r].pc # "idle"}
Writing == {r \in Requests : req[r].pc \in {"found", "flushed"}}

(* What an update never changes of an attempt. *)
SameKind(a, b) == a.cp = b.cp /\ GameOf(a.variant) = GameOf(b.variant)

(* Only an open checkpoint attempt has no score, and it has not passed. *)
Sound(a) == a.score = NULL => a.cp /\ ~a.passed

(* attempts.created_at identifies a row, also one that a request is yet to insert. *)
KeyInv ==
  /\ \A r, s \in Active : r # s => req[r].at # req[s].at
  /\ \A r \in Active, a \in attempts : a.at # req[r].at
  /\ \A a, b \in attempts : a.at = b.at => SameKind(a, b)

(* What a request is about to write into the table, next to what it has loaded. *)
WriteInv(q) ==
  /\ q.op \in {"grade", "hint", "practice"} /\ (q.op = "practice" <=> ~q.att.cp)
  /\ Sound(q.att)
  /\ q.att.cp /\ q.att.passed => q.op = "grade" /\ q.res.passed
  /\ q.old = NoAttempt => q.att.at = q.at
  /\ q.old # NoAttempt =>
       /\ SameKind(q.old, q.att)
       /\ q.old.passed => q.att.passed
       /\ q.att.score = NULL => q.old.score = NULL
       /\ \A a \in attempts : a.at = q.old.at =>
            SameKind(a, q.old) /\ (a.score = NULL => q.old.score = NULL)
       /\ q.old.at <= clock /\ \A s \in Active : req[s].at # q.old.at

(* Stars and status say what the time of the pass says. *)
Coherent(p) == /\ p.stars > 0 => p.passedAt # Never
               /\ p.passedAt # Never <=> p.status = "passed"

(* Until a reset: the row and every copy of it are coherent, a pass in a copy is in the *)
(* row, and so is that of a passed checkpoint attempt.                                  *)
RowInv ==
  era = 0 =>
    /\ Coherent(row)
    /\ \A a \in attempts : a.cp /\ a.passed => row.passedAt # Never
    /\ \A r \in Requests : Coherent(req[r].row) /\ (req[r].row.passedAt # Never => row.passedAt # Never)

PInv ==
  /\ IInv /\ KeyInv /\ RowInv
  /\ \A a \in attempts : Sound(a)
  /\ \A r \in Writing : WriteInv(req[r])
  /\ \A r \in Requests : req[r].res.stars > 0 => req[r].res.passed /\ req[r].op = "grade"

-----------------------------------------------------------------------------
(* What becomes of a row: b is a, some time later. *)
Grown(a, b) ==
  /\ a.at = b.at /\ SameKind(a, b)
  /\ b.score = NULL => a.score = NULL
  /\ a.passed => b.passed

LEMMA PTypes ==
  ASSUME PInv
  PROVE  /\ req \in [Requests -> Request] /\ attempts \subseteq Attempt /\ NoAttempt \notin Attempt
         /\ row \in Progress /\ era \in Nat /\ clock \in Nat
         /\ \A r \in Requests : RequestInv(req[r])
<1>1. NoAttempt \notin Attempt
  BY DEF NoAttempt, Attempt, Variants
<1> QED
  BY <1>1 DEF PInv, IInv, DataInv, TypeOK

(* A step that moves a request on without writing keeps the invariant when what the *)
(* request now holds is fine.                                                       *)
LEMMA PMoveOn ==
  ASSUME PInv, IInv', NEW r \in Requests, NEW q, Go(r, q), UNCHANGED <<attempts, row, era, clock>>,
         req[r].pc # "idle", q.at = req[r].at, q.pc # "idle",
         q.pc \in {"found", "flushed"} => WriteInv(q),
         q.res.stars > 0 => q.res.passed /\ q.op = "grade",
         q.row \in {req[r].row, row}
  PROVE  PInv'
<1>1. \A s \in Requests : req'[s] = IF s = r THEN q ELSE req[s]
  BY PTypes DEF Go
<1>2. Active' = Active /\ \A s \in Active : req'[s].at = req[s].at
  BY <1>1 DEF Active
<1>3. KeyInv'
  <2>1. r \in Active
    BY DEF Active
  <2> QED
    BY <1>2 DEF PInv, KeyInv, SameKind, Active
<1>4. RowInv'
  BY <1>1 DEF PInv, RowInv, Coherent
<1>5. ASSUME NEW s \in Writing' PROVE WriteInv(req[s])'
  <2>1. s \in Requests /\ req'[s].pc \in {"found", "flushed"}
    BY DEF Writing
  <2>2. WriteInv(req'[s])
    BY <1>1, <2>1 DEF PInv, Writing
  <2> QED
    BY <1>2, <2>2 DEF WriteInv, SameKind, Sound
<1>6. \A s \in Requests : req'[s].res.stars > 0 => req'[s].res.passed /\ req'[s].op = "grade"
  BY <1>1 DEF PInv
<1> QED
  BY <1>3, <1>4, <1>5, <1>6 DEF PInv, Sound

(* The end of a request: every row that is there now has grown from one that was there, *)
(* or is the one that the request inserts.                                              *)
LEMMA PEnds ==
  ASSUME PInv, IInv', NEW r \in Active, Finish(r), clock' = clock, RowInv',
         NEW new,
         \A b \in attempts' : /\ Sound(b)
                              /\ \/ b = new /\ b.at = req[r].at
                                 \/ \E a \in attempts : Grown(a, b)
  PROVE  PInv'
<1>1. r \in Requests /\ \A s \in Requests : req'[s] = IF s = r THEN Idle ELSE req[s]
  BY PTypes DEF Finish, Active
<1>2. Idle.pc = "idle" /\ Idle.res.stars = 0
  BY DEF Idle, NotRun
<1>3. Active' = Active \ {r} /\ \A s \in Active' : req'[s] = req[s]
  BY <1>1, <1>2 DEF Active
<1>4. ASSUME NEW s \in Active', NEW b \in attempts' PROVE b.at # req'[s].at
  <2>1. CASE b.at = req[r].at
    BY <1>3, <2>1 DEF PInv, KeyInv
  <2>2. ASSUME NEW a \in attempts, Grown(a, b) PROVE b.at # req'[s].at
    BY <1>3, <2>2 DEF PInv, KeyInv, Grown
  <2> QED
    BY <2>1, <2>2
<1>5. ASSUME NEW b \in attempts', NEW c \in attempts', b.at = c.at PROVE SameKind(b, c)
  <2>1. \A a \in attempts : a.at # req[r].at
    BY DEF PInv, KeyInv
  <2>2. CASE b.at = req[r].at
    <3>1. b = new /\ c = new
      BY <1>5, <2>1, <2>2 DEF Grown
    <3> QED
      BY <3>1 DEF SameKind
  <2>4. ASSUME NEW a \in attempts, NEW d \in attempts, Grown(a, b), Grown(d, c) PROVE SameKind(b, c)
    BY <1>5, <2>4 DEF PInv, KeyInv, Grown, SameKind
  <2> QED
    BY <1>5, <2>2, <2>4
<1>6. KeyInv'
  <2>1. \A s, t \in Active' : s # t => req'[s].at # req'[t].at
    BY <1>3 DEF PInv, KeyInv
  <2> QED
    BY <1>4, <1>5, <2>1 DEF KeyInv, SameKind
<1>7. ASSUME NEW s \in Writing' PROVE WriteInv(req[s])'
  <2> DEFINE q == req[s]
  <2>1. s \in Writing /\ s \in Active' /\ q' = q
    BY <1>1, <1>2, <1>3 DEF Writing, Active
  <2>2. WriteInv(q)
    BY <2>1 DEF PInv
  <2>3. ASSUME q.old # NoAttempt, NEW b \in attempts', b.at = q.old.at
        PROVE  SameKind(b, q.old) /\ (b.score = NULL => q.old.score = NULL)
    <3>1. b.at # req[r].at
      BY <2>2, <2>3 DEF WriteInv
    <3>2. PICK a \in attempts : Grown(a, b)
      BY <3>1
    <3> QED
      BY <2>2, <2>3, <3>2 DEF WriteInv, Grown, SameKind
  <2>4. q.old # NoAttempt => \A t \in Active' : req'[t].at # q.old.at
    BY <1>3, <2>2 DEF WriteInv
  <2> HIDE DEF q
  <2>5. WriteInv(q)'
    BY <2>1, <2>2, <2>3, <2>4 DEF WriteInv, SameKind, Sound
  <2> QED
    BY <2>5 DEF q
<1>8. \A s \in Requests : req'[s].res.stars > 0 => req'[s].res.passed /\ req'[s].op = "grade"
  BY <1>1, <1>2 DEF PInv
<1> QED
  BY <1>6, <1>7, <1>8 DEF PInv, Sound

-----------------------------------------------------------------------------
(* What a request writes.                                                  *)

LEMMA SameRows ==
  ASSUME PInv
  PROVE  \A b \in attempts : Sound(b) /\ Grown(b, b)
BY DEF PInv, Grown, SameKind

(* Every row stays, grown or not; a new row or a new checkpoint pass is the request's. *)
LEMMA SavedGrows ==
  ASSUME PInv, NEW r \in Writing, NEW S, S = SaveAttempt(req[r].old, req[r].att)
  PROVE  /\ \A a \in attempts : \E b \in S : Grown(a, b)
         /\ \A b \in S :
              /\ Sound(b)
              /\ (b = req[r].att /\ b.at = req[r].at) \/ \E a \in attempts : Grown(a, b)
              /\ b.cp /\ b.passed => \/ req[r].att.cp /\ req[r].att.passed
                                     \/ \E a \in attempts : a.cp /\ a.passed
<1> DEFINE q == req[r]
<1>1. q \in Request /\ WriteInv(q) /\ r \in Active /\ attempts \subseteq Attempt
  BY PTypes DEF Writing, Active, PInv
<1>2. CASE q.old = NoAttempt
  <2>1. S = attempts \cup {q.att} /\ q.att.at = q.at /\ Sound(q.att)
    BY <1>1, <1>2 DEF SaveAttempt, WriteInv
  <2> QED
    BY <2>1, SameRows
<1>3. CASE q.old # NoAttempt
  <2> DEFINE after(a) == IF a.at = q.old.at THEN MergedAttempt(a, q.old, q.att) ELSE a
  <2>1. S = {after(a) : a \in attempts}
    BY <1>3 DEF SaveAttempt
  <2>2. ASSUME NEW a \in attempts
        PROVE  /\ Sound(after(a)) /\ Grown(a, after(a))
               /\ after(a).cp /\ after(a).passed => \/ q.att.cp /\ q.att.passed
                                                    \/ a.cp /\ a.passed
    <3>1. CASE a.at # q.old.at
      BY <3>1, SameRows
    <3>2. CASE a.at = q.old.at
      <4> DEFINE b == MergedAttempt(a, q.old, q.att)
      <4>1. a \in Attempt /\ Sound(a)
        BY <1>1 DEF PInv
      <4>2. /\ b.at = a.at /\ b.cp = a.cp
            /\ b.variant = Column(a.variant, q.old.variant, q.att.variant)
            /\ b.score = Column(a.score, q.old.score, q.att.score)
            /\ b.passed = Column(a.passed, q.old.passed, q.att.passed)
        BY <4>1 DEF MergedAttempt, Attempt
      <4>3. /\ SameKind(q.old, q.att) /\ SameKind(a, q.old) /\ Sound(q.att)
            /\ q.old.passed => q.att.passed
            /\ q.att.score = NULL => q.old.score = NULL
            /\ a.score = NULL => q.old.score = NULL
        BY <1>1, <1>3, <3>2 DEF WriteInv
      <4>4. /\ a.passed \in BOOLEAN /\ q.old.passed \in BOOLEAN /\ q.att.passed \in BOOLEAN
        <5>1. q.old \in Attempt \cup {NoAttempt} /\ q.att \in Attempt \cup {NoAttempt}
          BY <1>1 DEF Request
        <5>2. \A c \in Attempt : c.passed \in BOOLEAN
          BY DEF Attempt
        <5>3. NoAttempt.passed \in BOOLEAN
          BY DEF NoAttempt
        <5> QED
          BY <1>1, <4>1, <5>1, <5>2, <5>3
      <4> HIDE DEF b
      <4>5. SameKind(a, b)
        BY <4>2, <4>3 DEF SameKind, Column
      <4>6. (b.score = NULL => a.score = NULL) /\ (a.passed => b.passed) /\ (b.passed => q.att.passed \/ a.passed)
        BY <4>2, <4>3, <4>4 DEF Column
      <4>7. Sound(b)
        BY <4>1, <4>2, <4>3, <4>6 DEF Sound, Column
      <4> QED
        BY <3>2, <4>2, <4>3, <4>5, <4>6, <4>7 DEF Grown, SameKind, b
    <3> QED
      BY <3>1, <3>2
  <2> HIDE DEF after
  <2> QED
    BY <2>1, <2>2
<1> QED
  BY <1>2, <1>3

(* latest_attempt: a row of that variant, or nothing. *)
LEMMA FoundRow ==
  ASSUME PInv, NEW r \in Active, NEW found \in attempts
  PROVE  /\ found # NoAttempt /\ found \in Attempt /\ Sound(found)
         /\ \A a \in attempts : a.at = found.at => SameKind(a, found)
         /\ found.at <= clock /\ \A s \in Active : req[s].at # found.at
BY PTypes DEF PInv, IInv, DataInv, KeyInv

(* The attempt that a grade or a hint is about to write is an open one or a new one. *)
Opens(q, found) ==
  /\ q.op \in {"grade", "hint"} /\ q.old = Loaded(found)
  /\ found = NoAttempt \/ found.score # NULL => q.att.at = q.at /\ q.att.cp = TRUE
  /\ ~(found = NoAttempt \/ found.score # NULL) =>
       q.att.cp = found.cp /\ q.att.variant = found.variant
  /\ q.att.passed \in BOOLEAN
  /\ q.att.score = NULL => ~q.att.passed
  /\ q.att.passed => q.op = "grade" /\ q.res.passed

LEMMA OpenAttempt ==
  ASSUME PInv, NEW r \in Active, NEW q, q.at = req[r].at,
         NEW found \in attempts \cup {NoAttempt}, Opens(q, found)
  PROVE  WriteInv(q)
<1>1. CASE q.old = NoAttempt
  <2>1. found = NoAttempt \/ found.score # NULL
    BY <1>1, FoundRow DEF Opens, Loaded
  <2>2. q.att.at = q.at /\ q.att.cp = TRUE
    BY <2>1 DEF Opens
  <2> QED
    BY <1>1, <2>2 DEF Opens, WriteInv, Sound
<1>2. CASE q.old # NoAttempt
  <2>1. found \in attempts /\ q.old = found /\ found.score = NULL
    BY <1>2 DEF Opens, Loaded
  <2>2. /\ found # NoAttempt /\ found \in Attempt /\ found.cp /\ ~found.passed
        /\ \A a \in attempts : a.at = found.at => SameKind(a, found)
        /\ found.at <= clock /\ \A s \in Active : req[s].at # found.at
    BY <2>1, FoundRow DEF Sound
  <2>3. q.att.cp = found.cp /\ q.att.variant = found.variant
    BY <2>1, <2>2 DEF Opens
  <2> QED
    BY <2>1, <2>2, <2>3 DEF Opens, WriteInv, Sound, SameKind
<1> QED
  BY <1>1, <1>2

-----------------------------------------------------------------------------
(* The steps that begin, read and compute.                                 *)

LEMMA PBegin == ASSUME PInv, IInv', NEW r \in Requests, Begin(r) PROVE PInv'
<1>1. /\ req[r].pc = "idle" /\ clock' = clock + 1
      /\ UNCHANGED <<attempts, row, era>>
  BY DEF Begin, history
<1>2. PICK q : /\ Go(r, q) /\ q.pc = "begun" /\ q.at = clock + 1 /\ q.row = NoRow
              /\ q.res.stars = 0
  <2>1. ASSUME NEW op, NEW v, NEW h, NEW res
        PROVE  /\ Sent(op, v, h, res).pc = "begun" /\ Sent(op, v, h, res).at = clock + 1
               /\ Sent(op, v, h, res).row = NoRow /\ Sent(op, v, h, res).res = res
    BY DEF Sent, Idle
  <2> DEFINE Begun(q) == Go(r, q) /\ q.pc = "begun" /\ q.at = clock + 1 /\ q.row = NoRow /\ q.res.stars = 0
  <2>2. ASSUME NEW op, NEW v, NEW h, NEW res, res.stars = 0, Go(r, Sent(op, v, h, res))
        PROVE  \E q : Begun(q)
    <3>1. Begun(Sent(op, v, h, res))
      BY <2>1, <2>2
    <3> QED
      BY <3>1, Zenon
  <2>3. NotRun.stars = 0 /\ \A score, passed : [score |-> score, passed |-> passed, stars |-> 0].stars = 0
    BY DEF NotRun
  <2>5. ASSUME NEW T, Go(r, [Sent("lesson", NoVariant, 0, NotRun) EXCEPT !.left = T])
        PROVE  \E q : Begun(q)
    <3> DEFINE e == [Sent("lesson", NoVariant, 0, NotRun) EXCEPT !.left = T]
    <3>1. /\ e.pc = Sent("lesson", NoVariant, 0, NotRun).pc
          /\ e.at = Sent("lesson", NoVariant, 0, NotRun).at
          /\ e.row = Sent("lesson", NoVariant, 0, NotRun).row
          /\ e.res = Sent("lesson", NoVariant, 0, NotRun).res
      BY DEF Sent, Idle
    <3>2. Go(r, e)
      BY <2>5
    <3> HIDE DEF e
    <3>3. Begun(e)
      BY <2>1, <2>3, <3>1, <3>2
    <3> QED
      BY <3>3, Zenon
  <2> HIDE DEF Begun
  <2>4. \E q : Begun(q)
    BY <2>2, <2>3, <2>5 DEF Begin
  <2> QED
    BY <2>4 DEF Begun
<1>3. \A s \in Requests : req'[s] = IF s = r THEN q ELSE req[s]
  BY <1>2, PTypes DEF Go
<1>4. Active' = Active \cup {r} /\ r \notin Active /\ Writing' = Writing /\ r \notin Writing
  BY <1>1, <1>2, <1>3 DEF Active, Writing
<1>5. (\A s \in Active : req[s].at <= clock) /\ \A a \in attempts : a.at <= clock /\ a.at \in Nat
  <2>1. \A s \in Active : req[s].at \in 1..clock
    BY PTypes DEF Active, RequestInv
  <2> QED
    BY <2>1, PTypes DEF PInv, IInv, DataInv, Attempt
<1>6. KeyInv'
  <2>1. \A s \in Active : req'[s].at = req[s].at /\ req[s].at # q.at
    <3>1. clock \in Nat
      BY PTypes
    <3>2. \A s \in Active : req[s].at \in Nat
      BY PTypes DEF Active, Request
    <3> QED
      BY <1>2, <1>3, <1>4, <1>5, <3>1, <3>2 DEF Active
  <2>2. \A a \in attempts : a.at # q.at
    BY <1>2, <1>5, PTypes
  <2> QED
    BY <1>1, <1>3, <1>4, <2>1, <2>2 DEF PInv, KeyInv, SameKind
<1>7. RowInv'
  <2>1. Coherent(NoRow) /\ ~(NoRow.passedAt # Never)
    BY DEF NoRow, Coherent
  <2> QED
    BY <1>1, <1>2, <1>3, <2>1 DEF PInv, RowInv, Coherent
<1>8. ASSUME NEW s \in Writing' PROVE WriteInv(req[s])'
  <2> DEFINE w == req[s]
  <2>1. s \in Writing /\ w' = w /\ WriteInv(w) /\ w \in Request
    BY <1>3, <1>4, PTypes DEF PInv, Writing
  <2>2. w.old # NoAttempt => \A t \in Active' : req'[t].at # w.old.at
    <3>1. w.old # NoAttempt => w.old.at \in Nat /\ w.old.at <= clock
      BY <2>1 DEF WriteInv, Request, Attempt
    <3>2. w.old # NoAttempt => \A t \in Active : req'[t] = req[t] /\ req[t].at # w.old.at
      BY <1>3, <1>4, <2>1 DEF WriteInv, Active
    <3>3. w.old # NoAttempt => req'[r].at # w.old.at
      BY <1>2, <1>3, <3>1, PTypes
    <3> QED
      BY <1>4, <3>2, <3>3
  <2>3. w.old # NoAttempt => w.old.at <= clock'
    BY <1>1, <2>1, PTypes DEF WriteInv, Request, Attempt
  <2> HIDE DEF w
  <2>4. WriteInv(w)'
    BY <1>1, <2>1, <2>2, <2>3 DEF WriteInv, SameKind, Sound
  <2> QED
    BY <2>4 DEF w
<1>9. \A s \in Requests : req'[s].res.stars > 0 => req'[s].res.passed /\ req'[s].op = "grade"
  BY <1>2, <1>3 DEF PInv
<1> QED
  BY <1>1, <1>6, <1>7, <1>8, <1>9 DEF PInv, Sound

(* A graded run has stars only when it has passed. *)
LEMMA StarsNeedAPass ==
  ASSUME NEW raw, NEW hints, NEW res, res = Graded(raw, hints, Threshold, PerTier), res.stars > 0
  PROVE  res.passed
<1> DEFINE score  == raw - HintPenalty(raw, hints, PerTier)
           passed == score >= Threshold
<1>1. res = [score |-> score, passed |-> passed, stars |-> StarsFor(score, passed, hints)]
  BY DEF Graded
<1> HIDE DEF score, passed
<1>2. CASE passed
  <2>1. res.passed = passed
    BY <1>1
  <2> QED
    BY <1>2, <2>1, Zenon
<1>3. CASE ~passed
  BY <1>1, <1>3 DEF StarsFor
<1> QED
  BY <1>2, <1>3

LEMMA PSteps ==
  ASSUME PInv, IInv', NEW r \in Requests
  PROVE  /\ CheckCooldown(r) => PInv'
         /\ ReadHints(r) => PInv'
         /\ RunChecks(r) => PInv'
         /\ FlushAttempt(r) => PInv'
         /\ LoadRow(r) => PInv'
         /\ ReadPlacement(r) => PInv'
         /\ FlushPass(r) => PInv'
         /\ DeleteAttempts(r) => PInv'
         /\ \A t \in Topics : LockElsewhere(r, t) \/ DeleteRow(r, t) => PInv'
         /\ DeadlockDetected(r) => PInv'
<1> DEFINE q == req[r]
<1>1. q \in Request /\ (q.res.stars > 0 => q.res.passed /\ q.op = "grade") /\ (r \in Writing => WriteInv(q))
  BY PTypes DEF PInv
<1>2. ASSUME Finish(r), UNCHANGED <<attempts, row, era, clock>>, q.pc # "idle" PROVE PInv'
  <2>1. r \in Active
    BY <1>2 DEF Active
  <2>2. RowInv'
    <3>1. Coherent(Idle.row) /\ Idle.row.passedAt = Never
      BY DEF Idle, NoRow, Coherent
    <3>2. \A s \in Requests : req'[s] = IF s = r THEN Idle ELSE req[s]
      BY <1>2, PTypes DEF Finish
    <3> QED
      BY <1>2, <3>1, <3>2 DEF PInv, RowInv, Coherent
  <2> QED
    BY <1>2, <2>1, <2>2, SameRows, PEnds
<1>3. CASE CheckCooldown(r)
  <2> DEFINE n == [q EXCEPT !.pc = "allowed"]
  <2>1. n.pc = "allowed" /\ n.op = q.op /\ n.at = q.at /\ n.res = q.res /\ n.row = q.row
    BY <1>1 DEF Request
  <2> HIDE DEF n
  <2>2. Go(r, n) \/ Finish(r)
    BY <1>3 DEF CheckCooldown, n
  <2>3. q.pc = "begun" /\ UNCHANGED <<attempts, row, era, clock>>
    BY <1>3 DEF CheckCooldown, At, history
  <2> QED
    BY <1>1, <1>2, <2>1, <2>2, <2>3, PMoveOn
<1>4. CASE ReadHints(r)
  <2> DEFINE n == [q EXCEPT !.pc = "running", !.hints = HintsUsed(req[r].variant)]
  <2>1. n.pc = "running" /\ n.op = q.op /\ n.at = q.at /\ n.res = q.res /\ n.row = q.row
    BY <1>1 DEF Request
  <2> HIDE DEF n
  <2>2. Go(r, n) /\ q.pc = "allowed" /\ UNCHANGED <<attempts, row, era, clock>>
    BY <1>4 DEF ReadHints, At, history, n
  <2> QED
    BY <1>1, <2>1, <2>2, PMoveOn
<1>5. CASE RunChecks(r)
  <2>1. q.op = "grade" /\ q.pc = "running" /\ UNCHANGED <<attempts, row, era, clock>>
    BY <1>5 DEF RunChecks, At, history
  <2>2. ASSUME NEW res, Go(r, [q EXCEPT !.pc = "scored", !.res = res]), res.stars > 0 => res.passed
        PROVE  PInv'
    <3> DEFINE n == [q EXCEPT !.pc = "scored", !.res = res]
    <3>1. n.pc = "scored" /\ n.op = q.op /\ n.at = q.at /\ n.res = res /\ n.row = q.row
      BY <1>1 DEF Request
    <3> HIDE DEF n
    <3>2. Go(r, n)
      BY <2>2 DEF n
    <3> QED
      BY <2>1, <2>2, <3>1, <3>2, PMoveOn
  <2>3. NotRun.stars > 0 => NotRun.passed
    BY DEF NotRun
  <2>4. ASSUME NEW raw \in Raws
        PROVE  LET res == Graded(raw, q.hints, Threshold, PerTier) IN res.stars > 0 => res.passed
    BY StarsNeedAPass
  <2> QED
    BY <1>2, <1>5, <2>1, <2>2, <2>3, <2>4 DEF RunChecks
<1>6. CASE FlushAttempt(r)
  <2> DEFINE n == [q EXCEPT !.pc = "flushed", !.row = row]
  <2>1. /\ n.pc = "flushed" /\ n.at = q.at /\ n.res = q.res /\ n.row = row
        /\ n.op = q.op /\ n.old = q.old /\ n.att = q.att
    BY <1>1 DEF Request
  <2> HIDE DEF n
  <2>2. (Go(r, n) \/ Finish(r)) /\ q.pc = "found" /\ UNCHANGED <<attempts, row, era, clock>>
    BY <1>6 DEF FlushAttempt, history, n
  <2>3. WriteInv(q)
    BY <1>1, <2>2 DEF Writing
  <2>4. WriteInv(n)
    BY <2>1, <2>3 DEF WriteInv
  <2> QED
    BY <1>1, <1>2, <2>1, <2>2, <2>4, PMoveOn
<1>7. CASE LoadRow(r)
  <2> DEFINE n == [q EXCEPT !.pc = "loaded", !.row = row]
  <2>1. n.pc = "loaded" /\ n.op = q.op /\ n.at = q.at /\ n.res = q.res /\ n.row = row
    BY <1>1 DEF Request
  <2> HIDE DEF n
  <2>2. Go(r, n) /\ q.pc = "begun" /\ UNCHANGED <<attempts, row, era, clock>>
    BY <1>7 DEF LoadRow, At, history, n
  <2> QED
    BY <1>1, <2>1, <2>2, PMoveOn
<1>8. CASE DeleteAttempts(r)
  <2> DEFINE n == [q EXCEPT !.pc = "deleted", !.gone = attempts, !.left = Topics]
  <2>1. n.pc = "deleted" /\ n.op = q.op /\ n.at = q.at /\ n.res = q.res /\ n.row = q.row
    BY <1>1 DEF Request
  <2> HIDE DEF n
  <2>2. Go(r, n) /\ q.pc = "begun" /\ UNCHANGED <<attempts, row, era, clock>>
    BY <1>8 DEF DeleteAttempts, At, history, n
  <2> QED
    BY <1>1, <2>1, <2>2, PMoveOn
<1>9. CASE ReadPlacement(r)
  <2> DEFINE n == [q EXCEPT !.pc = "marked", !.locks = @ \cup Written(q), !.res.passed = ~live]
  <2>1. q.op = "lesson" /\ q.pc = "loaded" /\ UNCHANGED <<attempts, row, era, clock>>
    BY <1>9 DEF ReadPlacement, At, history
  <2>2. n.pc = "marked" /\ n.at = q.at /\ n.res.stars = q.res.stars /\ n.row = q.row
    BY <1>1 DEF Request, Result
  <2> HIDE DEF n
  <2>3. Go(r, n) \/ Finish(r)
    BY <1>9 DEF ReadPlacement, n
  <2>4. ~(n.res.stars > 0)
    BY <1>1, <2>1, <2>2
  <2> QED
    BY <1>2, <2>1, <2>2, <2>3, <2>4, PMoveOn
<1>10. CASE FlushPass(r)
  <2> DEFINE n == [q EXCEPT !.pc = "saved", !.locks = @ \cup Written(q), !.left = @ \ {Here}]
  <2>1. n.pc = "saved" /\ n.op = q.op /\ n.at = q.at /\ n.res = q.res /\ n.row = q.row
    BY <1>1 DEF Request
  <2> HIDE DEF n
  <2>2. (Go(r, n) \/ Finish(r)) /\ q.pc = "marked" /\ UNCHANGED <<attempts, row, era, clock>>
    BY <1>10 DEF FlushPass, At, history, n
  <2> QED
    BY <1>1, <1>2, <2>1, <2>2, PMoveOn
<1>11. ASSUME NEW t \in Topics, LockElsewhere(r, t) \/ DeleteRow(r, t) PROVE PInv'
  <2>1. /\ q.pc \in {"begun", "saved", "deleted"} /\ UNCHANGED <<attempts, row, era, clock>>
    BY <1>11 DEF LockElsewhere, DeleteRow, At, history
  <2>2. ASSUME NEW n, Go(r, n), n.pc = q.pc, n.op = q.op, n.at = q.at, n.res = q.res, n.row = q.row
        PROVE  PInv'
    BY <1>1, <2>1, <2>2, PMoveOn
  <2>3. CASE Go(r, [q EXCEPT !.left = @ \ {t}, !.locks = @ \cup {t}])
    <3> DEFINE n == [q EXCEPT !.left = @ \ {t}, !.locks = @ \cup {t}]
    <3>1. n.pc = q.pc /\ n.op = q.op /\ n.at = q.at /\ n.res = q.res /\ n.row = q.row
      BY <1>1 DEF Request
    <3> QED
      BY <2>2, <2>3, <3>1
  <2>4. CASE Go(r, [q EXCEPT !.left = @ \ {t}])
    <3> DEFINE n == [q EXCEPT !.left = @ \ {t}]
    <3>1. n.pc = q.pc /\ n.op = q.op /\ n.at = q.at /\ n.res = q.res /\ n.row = q.row
      BY <1>1 DEF Request
    <3> QED
      BY <2>2, <2>4, <3>1
  <2> QED
    BY <1>2, <1>11, <2>1, <2>3, <2>4 DEF LockElsewhere, DeleteRow
<1>12. CASE DeadlockDetected(r)
  <2>1. q.pc # "idle"
    <3>1. PICK s \in Requests : Waits(r, s)
      BY <1>12 DEF DeadlockDetected, InCircle, Bijection, Injection
    <3>2. Wants(q) # {}
      BY <3>1 DEF Waits
    <3>3. q.pc = "idle" => Wants(q) = {}
      BY DEF Wants, WritesRow
    <3> QED
      BY <3>2, <3>3
  <2> QED
    BY <1>2, <1>12, <2>1 DEF DeadlockDetected, history
<1> QED
  BY <1>3, <1>4, <1>5, <1>6, <1>7, <1>8, <1>9, <1>10, <1>11, <1>12

(* The finders: what they make of the row they found may be written. *)
LEMMA PFinders ==
  ASSUME PInv, IInv', NEW r \in Requests
  PROVE  /\ FindAttempt(r) => PInv'
         /\ FindOpen(r) => PInv'
         /\ FindPractice(r) => PInv'
<1> DEFINE q == req[r]
<1>1. q \in Request /\ RequestInv(q) /\ (q.res.stars > 0 => q.res.passed /\ q.op = "grade")
  BY PTypes DEF PInv
<1>3. ASSUME NEW n, WriteInv(n), q.pc # "idle", Go(r, n), UNCHANGED <<attempts, row, live, clock, history>>,
             n.pc = "found", n.op = q.op, n.at = q.at, n.res = q.res, n.row = q.row
      PROVE  PInv'
  BY <1>1, <1>3, PMoveOn DEF history
<1>4. CASE FindAttempt(r)
  <2> DEFINE found == LatestAttempt(q.variant)
             n == [q EXCEPT !.pc = "found", !.old = Loaded(found), !.att = Scored(q, found)]
  <2>1. /\ q.pc = "scored" /\ q.op = "grade" /\ Go(r, n)
        /\ UNCHANGED <<attempts, row, live, clock, history>>
    BY <1>4 DEF FindAttempt, At
  <2>2. found \in attempts \cup {NoAttempt} /\ r \in Active
    BY <2>1, LatestType DEF PInv, IInv, Active
  <2> HIDE DEF found
  <2>3. /\ n.pc = "found" /\ n.at = q.at /\ n.res = q.res /\ n.row = q.row /\ n.op = "grade"
        /\ n.old = Loaded(found) /\ n.att = Scored(q, found) /\ n.variant = q.variant /\ n.hints = q.hints
    BY <1>1, <2>1 DEF Request
  <2> HIDE DEF n
  <2>4. q.res.score \in Percent /\ q.res.passed \in BOOLEAN
    BY <1>1 DEF Request, Result
  <2>5. found # NoAttempt => found \in Attempt
    BY <2>2, PTypes
  <2>6. /\ n.att.score = q.res.score /\ n.att.passed = q.res.passed
        /\ found = NoAttempt \/ found.score # NULL => n.att.at = n.at /\ n.att.cp = TRUE
        /\ ~(found = NoAttempt \/ found.score # NULL) =>
             n.att.cp = found.cp /\ n.att.variant = found.variant
    <3>1. CASE found = NoAttempt \/ found.score # NULL
      <4>1. n.att = [at |-> q.at, variant |-> q.variant, cp |-> TRUE, score |-> q.res.score,
                     passed |-> q.res.passed, hints |-> q.hints]
        BY <2>3, <3>1 DEF Scored
      <4>2. n.att.score = q.res.score
        BY <4>1
      <4>3. n.att.passed = q.res.passed
        BY <4>1
      <4>4. n.att.at = n.at
        BY <2>3, <4>1
      <4>5. n.att.cp = TRUE
        BY <4>1
      <4> QED
        BY <3>1, <4>2, <4>3, <4>4, <4>5, Zenon
    <3>2. CASE ~(found = NoAttempt \/ found.score # NULL)
      BY <2>3, <2>5, <3>2 DEF Scored, Attempt
    <3> QED
      BY <3>1, <3>2
  <2>7. n.att.score # NULL
    BY <2>4, <2>6 DEF NULL, Percent
  <2>8. WriteInv(n)
    <3>1. /\ n.op \in {"grade", "hint"} /\ n.at = req[r].at /\ n.att.passed \in BOOLEAN
          /\ n.att.passed => n.op = "grade" /\ n.res.passed
          /\ n.att.score = NULL => ~n.att.passed
      BY <2>3, <2>4, <2>6, <2>7
    <3>2. Opens(n, found)
      BY <2>3, <2>6, <3>1, Zenon DEF Opens
    <3> QED
      BY <2>2, <3>1, <3>2, OpenAttempt
  <2> QED
    BY <1>3, <2>1, <2>3, <2>8
<1>5. CASE FindOpen(r)
  <2> DEFINE found == LatestAttempt(q.variant)
             n == [q EXCEPT !.pc = "found", !.old = Loaded(found), !.att = WithHint(q, found)]
  <2>1. /\ q.pc = "begun" /\ q.op = "hint" /\ Go(r, n)
        /\ UNCHANGED <<attempts, row, live, clock, history>>
    BY <1>5 DEF FindOpen, At
  <2>2. found \in attempts \cup {NoAttempt} /\ r \in Active
    BY <2>1, LatestType DEF PInv, IInv, Active
  <2> HIDE DEF found
  <2>3. /\ n.pc = "found" /\ n.at = q.at /\ n.res = q.res /\ n.row = q.row /\ n.op = "hint"
        /\ n.old = Loaded(found) /\ n.att = WithHint(q, found) /\ n.variant = q.variant /\ n.hints = q.hints
    BY <1>1, <2>1 DEF Request
  <2> HIDE DEF n
  <2>4. found # NoAttempt => found \in Attempt /\ Sound(found)
    BY <2>2, PTypes DEF PInv
  <2>5. /\ n.att.score = NULL /\ n.att.passed = FALSE
        /\ found = NoAttempt \/ found.score # NULL => n.att.at = n.at /\ n.att.cp = TRUE
        /\ ~(found = NoAttempt \/ found.score # NULL) =>
             n.att.cp = found.cp /\ n.att.variant = found.variant
    <3>1. CASE found = NoAttempt \/ found.score # NULL
      <4>1. n.att = [at |-> q.at, variant |-> q.variant, cp |-> TRUE, score |-> NULL,
                     passed |-> FALSE, hints |-> Greater(found.hints, q.hints)]
        BY <2>3, <3>1 DEF WithHint
      <4>2. n.att.score = NULL
        BY <4>1
      <4>3. n.att.passed = FALSE
        BY <4>1
      <4>4. n.att.at = n.at
        BY <2>3, <4>1
      <4>5. n.att.cp = TRUE
        BY <4>1
      <4> QED
        BY <3>1, <4>2, <4>3, <4>4, <4>5, Zenon
    <3>2. CASE ~(found = NoAttempt \/ found.score # NULL)
      <4>1. found \in Attempt /\ found.score = NULL /\ found.passed = FALSE
        BY <2>4, <3>2 DEF Sound, Attempt
      <4> QED
        BY <2>3, <3>2, <4>1 DEF WithHint, Attempt
    <3> QED
      BY <3>1, <3>2
  <2>6. WriteInv(n)
    <3>1. /\ n.op \in {"grade", "hint"} /\ n.at = req[r].at /\ n.att.passed \in BOOLEAN
          /\ n.att.passed => n.op = "grade" /\ n.res.passed
          /\ n.att.score = NULL => ~n.att.passed
      BY <2>3, <2>5
    <3>2. Opens(n, found)
      BY <2>3, <2>5, <3>1, Zenon DEF Opens
    <3> QED
      BY <2>2, <3>1, <3>2, OpenAttempt
  <2> QED
    BY <1>3, <2>1, <2>3, <2>6
<1>6. CASE FindPractice(r)
  <2>1. PICK found \in {NoAttempt} \cup PracticeRows(q.variant) :
          Go(r, [q EXCEPT !.pc = "found", !.old = found, !.att = PracticeResult(q, found)])
    BY <1>6 DEF FindPractice
  <2> DEFINE n == [q EXCEPT !.pc = "found", !.old = found, !.att = PracticeResult(q, found)]
  <2>2. /\ q.pc = "begun" /\ q.op = "practice" /\ Go(r, n) /\ r \in Active
        /\ UNCHANGED <<attempts, row, live, clock, history>>
    BY <1>6, <2>1 DEF FindPractice, At, Active
  <2>3. /\ n.pc = "found" /\ n.at = q.at /\ n.res = q.res /\ n.row = q.row /\ n.op = "practice"
        /\ n.old = found /\ n.att = PracticeResult(q, found)
    BY <1>1, <2>2 DEF Request
  <2> HIDE DEF n
  <2>4. q.res.score \in Percent /\ q.res.passed \in BOOLEAN
    BY <1>1 DEF Request, Result
  <2>5. CASE found = NoAttempt
    <3>1. n.att.at = n.at /\ n.att.cp = FALSE /\ n.att.score # NULL
      BY <2>3, <2>4, <2>5 DEF PracticeResult, NULL, Percent
    <3>2. WriteInv(n)
      BY <2>3, <2>5, <3>1 DEF WriteInv, Sound
    <3> QED
      BY <1>3, <2>2, <2>3, <3>2
  <2>6. CASE found # NoAttempt
    <3>1. /\ found \in attempts /\ found \in Attempt /\ ~found.cp /\ GameOf(found.variant) = GameOf(q.variant)
          /\ Sound(found)
      BY <2>1, <2>6, PTypes DEF PracticeRows, PInv
    <3>2. /\ n.att.cp = found.cp /\ n.att.variant = q.variant
          /\ n.att.passed = (found.passed \/ q.res.passed)
          /\ n.att.score = Greater(found.score, q.res.score)
      BY <2>3, <2>6, <3>1 DEF PracticeResult, Attempt
    <3>3. n.att.score # NULL
      BY <2>4, <3>1, <3>2 DEF Greater, NULL, Percent, Attempt
    <3>4. /\ \A a \in attempts : a.at = found.at => SameKind(a, found) /\ a.score # NULL
          /\ found.at <= clock /\ \A s \in Active : req[s].at # found.at
      <4>1. \A a \in attempts : a.at = found.at => SameKind(a, found)
        BY <2>2, <3>1, FoundRow
      <4> QED
        BY <2>2, <3>1, <4>1, FoundRow DEF PInv, Sound, SameKind
    <3>5. SameKind(found, n.att)
      BY <3>1, <3>2 DEF SameKind
    <3>6. WriteInv(n)
      BY <2>3, <2>6, <3>1, <3>2, <3>3, <3>4, <3>5 DEF WriteInv, Sound
    <3> QED
      BY <1>3, <2>2, <2>3, <3>6
  <2> QED
    BY <2>5, <2>6
<1> QED
  BY <1>4, <1>5, <1>6

-----------------------------------------------------------------------------
(* The steps that commit.                                                  *)

(* Only the columns that a request changed are written, and what a stale copy may say of *)
(* a pass is in the row already: the row stays coherent and keeps its pass.              *)
LEMMA RowWrites ==
  ASSUME NEW q, NEW new, q.row = NoRow => row = NoRow, Coherent(row), Coherent(q.row),
         q.row.passedAt # Never => row.passedAt # Never,
         Coherent(new),
         RowOf(q).passedAt # Never => new.passedAt = RowOf(q).passedAt,
         new.status \in {RowOf(q).status, "passed"}
  PROVE  /\ Coherent(SavedRow(q, new))
         /\ row.passedAt # Never => SavedRow(q, new).passedAt # Never
         /\ new.passedAt # Never => SavedRow(q, new).passedAt # Never
<1>1. CASE q.row = NoRow
  <2>1. row.passedAt = Never /\ SavedRow(q, new) = new
    BY <1>1 DEF SavedRow, NoRow
  <2> QED
    BY <2>1
<1>2. CASE q.row # NoRow
  <2> DEFINE S == SavedRow(q, new)
  <2>1. RowOf(q) = q.row /\ S = MergedRow(row, q.row, new)
    BY <1>2 DEF RowOf, SavedRow
  <2>2. /\ S.status = Column(row.status, q.row.status, new.status)
        /\ S.stars = Column(row.stars, q.row.stars, new.stars)
        /\ S.passedAt = Column(row.passedAt, q.row.passedAt, new.passedAt)
    BY <2>1 DEF MergedRow
  <2> HIDE DEF S
  <2>3. CASE new.passedAt = q.row.passedAt
    <3>1. S.passedAt = row.passedAt
      BY <2>2, <2>3 DEF Column
    <3>2. S.status = row.status
      BY <2>1, <2>2, <2>3 DEF Column, Coherent
    <3>3. S.stars > 0 => S.passedAt # Never
      BY <2>2, <2>3, <3>1 DEF Column, Coherent
    <3> QED
      BY <2>3, <3>1, <3>2, <3>3 DEF Coherent, S
  <2>4. CASE new.passedAt # q.row.passedAt
    <3>1. q.row.passedAt = Never /\ new.passedAt # Never
      BY <2>1, <2>4
    <3>2. S.passedAt = new.passedAt
      BY <2>2, <2>4 DEF Column
    <3>3. S.status = "passed"
      BY <2>2, <3>1 DEF Column, Coherent
    <3> QED
      BY <3>1, <3>2, <3>3 DEF Coherent, S
  <2> QED
    BY <2>3, <2>4
<1> QED
  BY <1>1, <1>2

LEMMA PCommit ==
  ASSUME PInv, IInv', NEW r \in Active, Finish(r), UNCHANGED <<clock, era>>,
         \/ attempts' = attempts
         \/ r \in Writing /\ attempts' = SaveAttempt(req[r].old, req[r].att),
         era = 0 => /\ Coherent(row')
                    /\ row.passedAt # Never => row'.passedAt # Never
                    /\ attempts' # attempts /\ req[r].att.cp /\ req[r].att.passed => row'.passedAt # Never
  PROVE  PInv'
<1>1. ASSUME NEW b \in attempts'
      PROVE  /\ Sound(b)
             /\ (b = req[r].att /\ b.at = req[r].at) \/ \E a \in attempts : Grown(a, b)
             /\ b.cp /\ b.passed => \/ attempts' # attempts /\ req[r].att.cp /\ req[r].att.passed
                                    \/ \E a \in attempts : a.cp /\ a.passed
  <2>1. CASE attempts' = attempts
    BY <1>1, <2>1, SameRows
  <2>2. CASE attempts' # attempts
    BY <1>1, <2>2, SavedGrows
  <2> QED
    BY <2>1, <2>2
<1>2. RowInv'
  <2>1. Coherent(Idle.row) /\ Idle.row.passedAt = Never
    BY DEF Idle, NoRow, Coherent
  <2>2. \A s \in Requests : req'[s] = IF s = r THEN Idle ELSE req[s]
    BY PTypes DEF Finish
  <2>3. era = 0 => /\ Coherent(row)'
                   /\ \A b \in attempts' : b.cp /\ b.passed => row'.passedAt # Never
    BY <1>1 DEF PInv, RowInv, Coherent
  <2>4. ASSUME era = 0, NEW s \in Requests
        PROVE  Coherent(req'[s].row) /\ (req'[s].row.passedAt # Never => row'.passedAt # Never)
    BY <2>1, <2>2, <2>4 DEF PInv, RowInv
  <2> QED
    BY <2>3, <2>4 DEF RowInv, Coherent
<1> QED
  BY <1>1, <1>2, PEnds

LEMMA PCommitGrade == ASSUME PInv, IInv', NEW r \in Requests, CommitGrade(r) PROVE PInv'
<1> DEFINE q == req[r]  base == RowOf(q)  new == WithSubmission(base, q.res)
<1>1. /\ q \in Request /\ RequestInv(q) /\ q.op = "grade" /\ r \in Active /\ r \in Writing
      /\ Finish(r) /\ UNCHANGED <<clock, era>> /\ clock > 0 /\ clock \in Nat
      /\ WriteInv(q) /\ (q.res.stars > 0 => q.res.passed) /\ q.pc = "flushed"
  <2>1. q.op = "grade" /\ q.pc = "flushed" /\ Finish(r) /\ UNCHANGED <<clock, era>>
    BY DEF CommitGrade, At
  <2>2. r \in Active /\ r \in Writing
    BY <2>1 DEF Active, Writing
  <2>3. q \in Request /\ RequestInv(q) /\ clock \in Nat
    BY PTypes
  <2>4. clock > 0
    BY <2>1, <2>3 DEF RequestInv
  <2> QED
    BY <2>1, <2>2, <2>3, <2>4 DEF PInv
<1>2. CASE ~RowSaves(q)
  <2>1. UNCHANGED <<attempts, row>>
    BY <1>2 DEF CommitGrade
  <2>2. era = 0 => Coherent(row')
    BY <2>1 DEF PInv, RowInv
  <2> QED
    BY <1>1, <2>1, <2>2, PCommit
<1>3. CASE RowSaves(q)
  <2>0. q.row = NoRow => row = NoRow
    BY <1>1, <1>3 DEF RowSaves, WritesRow
  <2>1. attempts' = SaveAttempt(q.old, q.att) /\ row' = SavedRow(q, new)
    BY <1>3 DEF CommitGrade
  <2>2. base \in Progress /\ base.status # "locked" /\ q.res \in Result
    BY <1>1, RowOfType DEF Request, RequestInv
  <2>3. /\ new.stars = Greater(base.stars, q.res.stars)
        /\ new.status = IF q.res.passed THEN "passed" ELSE base.status
        /\ new.passedAt = IF q.res.passed /\ base.passedAt = Never THEN clock ELSE base.passedAt
    BY <2>2 DEF WithSubmission, Progress
  <2> HIDE DEF new
  <2>4. ASSUME era = 0
        PROVE  /\ Coherent(row')
               /\ row.passedAt # Never => row'.passedAt # Never
               /\ q.att.cp /\ q.att.passed => row'.passedAt # Never
    <3>1. Coherent(row) /\ Coherent(q.row) /\ (q.row.passedAt # Never => row.passedAt # Never)
      BY <2>4 DEF PInv, RowInv
    <3>2. Coherent(base)
      BY <3>1 DEF RowOf, Fresh, NoRow, Coherent
    <3> HIDE DEF base
    <3>3. q.res.passed => new.passedAt # Never
      BY <1>1, <2>3 DEF Never
    <3>4. Coherent(new)
      <4>1. new.stars > 0 => new.passedAt # Never
        BY <1>1, <2>3, <3>2, <3>3 DEF Coherent, Greater
      <4> QED
        BY <2>3, <3>2, <3>3, <4>1 DEF Coherent
    <3>5. new.status \in {base.status, "passed"} /\ (base.passedAt # Never => new.passedAt = base.passedAt)
      BY <2>3
    <3>6. /\ Coherent(row') /\ (row.passedAt # Never => row'.passedAt # Never)
          /\ new.passedAt # Never => row'.passedAt # Never
      BY <2>0, <2>1, <3>1, <3>4, <3>5, RowWrites DEF base
    <3> QED
      BY <1>1, <3>3, <3>6 DEF WriteInv
  <2> QED
    BY <1>1, <2>1, <2>4, PCommit
<1> QED
  BY <1>2, <1>3

LEMMA PCommitHint == ASSUME PInv, IInv', NEW r \in Requests, CommitHint(r) PROVE PInv'
<1>1. /\ req[r].op = "hint" /\ r \in Active /\ r \in Writing /\ Finish(r)
      /\ UNCHANGED <<clock, era, row>>
  BY DEF CommitHint, At, Active, Writing
<1>2. attempts' = attempts \/ attempts' = SaveAttempt(req[r].old, req[r].att)
  BY DEF CommitHint
<1>3. ~(req[r].att.cp /\ req[r].att.passed)
  BY <1>1 DEF PInv, WriteInv
<1>4. era = 0 => Coherent(row')
  BY <1>1 DEF PInv, RowInv
<1> QED
  BY <1>1, <1>2, <1>3, <1>4, PCommit

LEMMA PCommitPractice == ASSUME PInv, IInv', NEW r \in Requests, CommitPractice(r) PROVE PInv'
<1> DEFINE q == req[r]  base == RowOf(q)
<1>1. /\ q.op = "practice" /\ r \in Active /\ r \in Writing /\ Finish(r)
      /\ UNCHANGED <<clock, era>>
  BY DEF CommitPractice, At, Active, Writing, history
<1>2. ~(q.att.cp /\ q.att.passed)
  BY <1>1 DEF PInv, WriteInv
<1>3. \/ UNCHANGED <<attempts, row>>
      \/ /\ q.row = NoRow => row = NoRow
         /\ attempts' = SaveAttempt(q.old, q.att) /\ row' = SavedRow(q, base)
  BY <1>1 DEF CommitPractice, At, RowSaves, WritesRow
<1>4. ASSUME era = 0
      PROVE  Coherent(row') /\ (row.passedAt # Never => row'.passedAt # Never)
  <2>1. Coherent(row) /\ Coherent(q.row) /\ (q.row.passedAt # Never => row.passedAt # Never)
    BY <1>4 DEF PInv, RowInv
  <2>2. Coherent(base)
    BY <2>1 DEF RowOf, Fresh, NoRow, Coherent
  <2>3. CASE UNCHANGED row
    BY <2>1, <2>3
  <2>4. CASE (q.row = NoRow => row = NoRow) /\ row' = SavedRow(q, base)
    BY <2>1, <2>2, <2>4, RowWrites
  <2> QED
    BY <1>3, <2>3, <2>4
<1> QED
  BY <1>1, <1>2, <1>3, <1>4, PCommit

LEMMA PCommitLesson == ASSUME PInv, IInv', NEW r \in Requests, CommitLesson(r) PROVE PInv'
<1> DEFINE q == req[r]  base == RowOf(q)  new == WithLesson(q)
<1>1. /\ q \in Request /\ RequestInv(q) /\ r \in Active /\ Finish(r)
      /\ UNCHANGED <<attempts, clock, era>> /\ clock > 0
  <2>1. q.pc = "saved" /\ Finish(r) /\ UNCHANGED <<attempts, clock, era>>
    BY DEF CommitLesson, At
  <2>2. q \in Request /\ RequestInv(q) /\ clock \in Nat
    BY PTypes
  <2>3. r \in Active /\ clock > 0
    BY <2>1, <2>2 DEF RequestInv, Active
  <2> QED
    BY <2>1, <2>2, <2>3
<1>2. UNCHANGED row \/ ((q.row = NoRow => row = NoRow) /\ row' = SavedRow(q, new))
  BY LessonWrites DEF CommitLesson, PInv
<1>3. base \in Progress
  BY <1>1, RowOfType DEF Request, RequestInv
<1>4. /\ new.stars = base.stars
      /\ new.status = IF ~q.res.passed THEN base.status ELSE "passed"
      /\ new.passedAt = IF q.res.passed /\ base.passedAt = Never THEN clock ELSE base.passedAt
  BY <1>3 DEF WithLesson, Progress
<1>5. ASSUME era = 0
      PROVE  Coherent(row') /\ (row.passedAt # Never => row'.passedAt # Never)
  <2>1. Coherent(row) /\ Coherent(q.row) /\ (q.row.passedAt # Never => row.passedAt # Never)
    BY <1>5 DEF PInv, RowInv
  <2>2. Coherent(base)
    BY <2>1 DEF RowOf, Fresh, NoRow, Coherent
  <2> HIDE DEF new
  <2>3. Coherent(new) /\ (base.passedAt # Never => new.passedAt = base.passedAt)
        /\ new.status \in {base.status, "passed"}
    BY <1>1, <1>4, <2>2 DEF Coherent, Never
  <2>4. CASE UNCHANGED row
    BY <2>1, <2>4
  <2>5. CASE (q.row = NoRow => row = NoRow) /\ row' = SavedRow(q, new)
    BY <2>1, <2>3, <2>5, RowWrites
  <2> QED
    BY <1>2, <2>4, <2>5
<1> QED
  BY <1>1, <1>5, PCommit

LEMMA PCommitReset == ASSUME PInv, IInv', NEW r \in Requests, CommitReset(r) PROVE PInv'
<1>1. /\ r \in Active /\ Finish(r) /\ attempts' \subseteq attempts /\ clock' = clock /\ era' = era + 1
  BY DEF CommitReset, At, Active
<1>2. era' # 0
  BY <1>1, PTypes
<1> QED
  BY <1>1, <1>2, SameRows, PEnds DEF RowInv

-----------------------------------------------------------------------------
LEMMA PInit == Init => PInv
<1> SUFFICES ASSUME Init PROVE PInv
  OBVIOUS
<1>1. Coherent(NoRow) /\ NoRow.passedAt = Never
  BY DEF NoRow, Coherent
<1>2. Idle.pc = "idle" /\ Idle.row = NoRow /\ Idle.res.stars = 0
  BY DEF Idle, NotRun
<1>3. attempts = {} /\ row = NoRow /\ (\A r \in Requests : req[r] = Idle) /\ Active = {} /\ Writing = {}
  BY <1>2 DEF Init, Active, Writing
<1>4. RowInv
  BY <1>1, <1>2, <1>3 DEF RowInv
<1> QED
  BY <1>2, <1>3, <1>4, InitInv DEF PInv, KeyInv

(* Time, publishing and stuttering touch nothing of this. *)
LEMMA PQuiet ==
  ASSUME PInv, IInv', UNCHANGED <<attempts, row, req, era>>, clock' \in {clock, clock + 1}
  PROVE  PInv'
<1>1. Active' = Active /\ Writing' = Writing
  BY DEF Active, Writing
<1>2. KeyInv' /\ RowInv'
  BY <1>1 DEF PInv, KeyInv, RowInv, SameKind, Coherent
<1>3. ASSUME NEW s \in Writing PROVE WriteInv(req[s])'
  <2>1. WriteInv(req[s]) /\ clock \in Nat
    BY PTypes DEF PInv
  <2>2. req[s].old # NoAttempt => req[s].old.at \in Nat
    BY PTypes DEF Writing, Request, Attempt
  <2>3. req[s].old # NoAttempt => req[s].old.at <= clock'
    BY <2>1, <2>2 DEF WriteInv
  <2> QED
    BY <1>1, <2>1, <2>3 DEF WriteInv, SameKind, Sound
<1> QED
  BY <1>1, <1>2, <1>3 DEF PInv, Sound

LEMMA PInductive == PInv /\ [Next]_vars => PInv'
<1> SUFFICES ASSUME PInv, [Next]_vars PROVE PInv'
  OBVIOUS
<1>1. IInv'
  BY Inductive DEF PInv
<1>2. ASSUME NEW r \in Requests, Begin(r) PROVE PInv'
  BY <1>1, <1>2, PBegin
<1>3. ASSUME NEW r \in Requests, Step(r) PROVE PInv'
  BY <1>1, <1>3, PSteps, PFinders, PCommitGrade, PCommitHint, PCommitPractice, PCommitLesson, PCommitReset
     DEF Step
<1>4. ASSUME NEW r \in Requests, DeadlockDetected(r) PROVE PInv'
  BY <1>1, <1>4, PSteps
<1>5. CASE SetStatus \/ Wait \/ UNCHANGED vars
  BY <1>1, <1>5, PQuiet DEF SetStatus, Wait, vars, history
<1> QED
  BY <1>2, <1>3, <1>4, <1>5 DEF Next, TimeIsUp

LEMMA PInvariant == Spec => []PInv
BY PInit, PInductive, PTL DEF Spec

(* record_checkpoint and _mark_lesson, however submissions, briefings and publications        *)
(* overlap: until a reset happens in between, a passed attempt has reached the summary row,    *)
(* stars are only there with a pass, and the status says what the time of the pass says.       *)
THEOREM PassesAreRecorded == Spec => []PassIsRecorded
<1>1. PInv => PassIsRecorded
  BY DEF PInv, RowInv, Coherent, PassIsRecorded, GradedCheckpoints
<1> QED
  BY <1>1, PInvariant, PTL

(* No step but a reset takes a practice pass back. *)
LEMMA PracticeStep ==
  ASSUME PInv, [Next]_vars, era' = era, NEW a \in attempts, ~a.cp, a.passed
  PROVE  \E b \in attempts' : ~b.cp /\ b.passed /\ GameOf(b.variant) = GameOf(a.variant)
<1>1. CASE attempts' = attempts
  BY <1>1
<1>2. ASSUME NEW r \in Requests, Step(r), attempts' # attempts
      PROVE  r \in Writing /\ attempts' = SaveAttempt(req[r].old, req[r].att)
  <2>1. ~CommitReset(r)
    BY PTypes DEF CommitReset
  <2> QED
    BY <1>2, <2>1 DEF Step, CheckCooldown, ReadHints, RunChecks, FindAttempt, FlushAttempt, CommitGrade,
       FindOpen, CommitHint, FindPractice, CommitPractice, LoadRow, ReadPlacement, FlushPass, CommitLesson,
       LockElsewhere, DeleteAttempts, DeleteRow, At, Writing
<1>3. ASSUME attempts' # attempts PROVE \E r \in Requests : Step(r)
  BY <1>3 DEF Next, Begin, DeadlockDetected, SetStatus, Wait, TimeIsUp, vars
<1>4. CASE attempts' # attempts
  <2>1. PICK r \in Writing : attempts' = SaveAttempt(req[r].old, req[r].att)
    BY <1>2, <1>3, <1>4
  <2>2. PICK b \in attempts' : Grown(a, b)
    BY <2>1, SavedGrows
  <2> QED
    BY <2>2 DEF Grown, SameKind
<1> QED
  BY <1>1, <1>4

(* record_practice: "a pass is never taken back", also by a worse result that overlaps it *)
(* and also when it moves the row to another variant of the game.                          *)
THEOREM PracticePassesAreKept == Spec => PracticePassIsKept
<1> DEFINE Kept == \A game \in {"checkpoint", "practice"} :
                     PracticePassed(game) /\ ~PracticePassed(game)' => era' # era
<1>1. PInv /\ [Next]_vars => [Kept]_vars
  BY PracticeStep DEF PracticePassed, vars
<1> QED
  BY <1>1, PInvariant, PTL DEF Spec, PracticePassIsKept
=============================================================================
