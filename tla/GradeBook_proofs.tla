-------------------------- MODULE GradeBook_proofs --------------------------
(***************************************************************************)
(* The requests of one learner on one topic, one at a time, implement the  *)
(* grade book, for every value of the other constants.  (Overlapping ones  *)
(* do not: see the finding about CommitGrade.)                             *)
(***************************************************************************)
EXTENDS MCProgress, LearnerProgress_proofs

(* No two requests of the learner are ever under way at once. *)
OneAtATime == \A r, s \in Requests : r = s

-----------------------------------------------------------------------------
(* What a run of a checkpoint can come back with. *)
Outcomes == {NotRun} \cup
  {Graded(raw, hints, Threshold, PerTier) : raw \in Raws, hints \in {0} \cup Tiers}

(* Alone, a request's copy of the row is the row; its result is one a run can have. *)
Current(q) ==
  /\ q.pc \in {"flushed", "loaded", "marked", "saved"} => q.row = row
  /\ q.pc = "deleted" => Here \in q.left \/ Here \in q.locks \/ row = NoRow
  /\ q.op = "grade" /\ q.pc \in {"scored", "found", "flushed"} => q.res \in Outcomes

SerialInv == IInv /\ \A r \in Requests : Current(req[r])

-----------------------------------------------------------------------------
(* An outcome is an entry of the book: its score can be attained, and it has stars exactly *)
(* when it passed.                                                                         *)
LEMMA OutcomeIsAnEntry ==
  ASSUME NEW res \in Outcomes
  PROVE  /\ res \in Result /\ res.score \in Attainable
         /\ res.stars > 0 <=> res.passed
<1>1. CASE res = NotRun
  <2>1. 0 \in Attainable
    BY DEF Attainable
  <2>2. NotRun \in Result
    BY DEF NotRun, Result, Percent
  <2>3. NotRun.score = 0 /\ NotRun.stars = 0 /\ NotRun.passed = FALSE
    BY DEF NotRun
  <2> QED
    BY <1>1, <2>1, <2>2, <2>3
<1>2. CASE res # NotRun
  <2>1. PICK raw \in Raws, hints \in {0} \cup Tiers : res = Graded(raw, hints, Threshold, PerTier)
    BY <1>2 DEF Outcomes
  <2>2. res \in Result
    <3>1. raw \in Percent /\ hints \in Nat
      BY ScoreAssumption, HintCountsAreNat
    <3> QED
      BY <2>1, <3>1, GradedType
  <2>3. res.score \in Attainable
    <3>1. Graded(raw, hints, Threshold, PerTier).score \in Attainable
      BY DEF Attainable
    <3> QED
      BY <2>1, <3>1
  <2>4. res.stars > 0 <=> res.passed
    <3> DEFINE score  == raw - HintPenalty(raw, hints, PerTier)
               passed == score >= Threshold
    <3>1. res = [score |-> score, passed |-> passed, stars |-> StarsFor(score, passed, hints)]
      BY <2>1 DEF Graded
    <3> HIDE DEF score, passed
    <3>2. CASE passed
      <4>1. StarsFor(score, passed, hints) \in 1..3
        BY <3>2 DEF StarsFor
      <4>2. res.stars > 0
        BY <3>1, <4>1
      <4>3. res.passed
        BY <3>1, <3>2, Zenon
      <4> QED
        BY <4>2, <4>3
    <3>3. CASE ~passed
      <4>1. StarsFor(score, passed, hints) = 0
        BY <3>3 DEF StarsFor
      <4> QED
        BY <3>1, <3>3, <4>1
    <3> QED
      BY <3>2, <3>3
  <2> QED
    BY <2>2, <2>3, <2>4
<1> QED
  BY <1>1, <1>2

(* A request that writes what it made of the present row writes exactly that. *)
LEMMA WritesThrough ==
  ASSUME NEW q, q.row = row, NEW new \in Progress
  PROVE  SavedRow(q, new) = new
<1>1. MergedRow(row, row, new) = new
  BY DEF MergedRow, Column, Progress
<1> QED
  BY <1>1 DEF SavedRow

(* A missing row and a new one are the same empty page. *)
LEMMA SamePage ==
  ASSUME NEW q, q.row = row
  PROVE  /\ RowOf(q).count = row.count /\ RowOf(q).best = row.best
         /\ RowOf(q).stars = row.stars /\ RowOf(q).passedAt = row.passedAt
BY DEF RowOf, Fresh, NoRow

-----------------------------------------------------------------------------
LEMMA SerialInit == Init => SerialInv
BY InitInv DEF Init, SerialInv, Current, Idle

(* The steps that read take the row, or a result, as it is; those that write end the request. *)
LEMMA SerialStep ==
  ASSUME OneAtATime, SerialInv, [Next]_vars
  PROVE  SerialInv'
<1>1. IInv /\ IInv' /\ \A r \in Requests : req[r] \in Request
  BY Inductive DEF SerialInv, IInv, DataInv, TypeOK
<1>2. ASSUME NEW r \in Requests, NEW q, Go(r, q), Current(q), row' = row PROVE SerialInv'
  <2>1. \A s \in Requests : s = r /\ req'[s] = q
    BY <1>1, <1>2 DEF OneAtATime, Go, IInv, DataInv, TypeOK
  <2> QED
    BY <1>1, <1>2, <2>1 DEF SerialInv, Current
<1>3. ASSUME NEW r \in Requests, Finish(r) PROVE SerialInv'
  <2>1. \A s \in Requests : s = r /\ req'[s] = Idle
    BY <1>1, <1>3 DEF OneAtATime, Finish, IInv, DataInv, TypeOK
  <2>2. Idle.pc = "idle"
    BY DEF Idle
  <2> QED
    BY <1>1, <2>1, <2>2 DEF SerialInv, Current
<1>4. ASSUME UNCHANGED <<row, req>> PROVE SerialInv'
  BY <1>1, <1>4 DEF SerialInv, Current
<1>5. ASSUME NEW r \in Requests, Begin(r) PROVE SerialInv'
  <2>1. ASSUME NEW op, NEW v, NEW h, NEW res, Go(r, Sent(op, v, h, res)) PROVE SerialInv'
    <3>1. Sent(op, v, h, res).pc = "begun"
      BY DEF Sent, Idle
    <3>2. Current(Sent(op, v, h, res))
      BY <3>1 DEF Current
    <3> QED
      BY <1>2, <1>5, <2>1, <3>2 DEF Begin
  <2>2. ASSUME NEW T, Go(r, [Sent("lesson", NoVariant, 0, NotRun) EXCEPT !.left = T]) PROVE SerialInv'
    <3> DEFINE e == [Sent("lesson", NoVariant, 0, NotRun) EXCEPT !.left = T]
    <3>1. e.pc = "begun"
      BY DEF Sent, Idle
    <3> HIDE DEF e
    <3>2. Current(e)
      BY <3>1 DEF Current
    <3> QED
      BY <1>2, <1>5, <2>2, <3>2 DEF Begin, e
  <2> QED
    BY <1>5, <2>1, <2>2 DEF Begin
<1>6. ASSUME NEW r \in Requests, Step(r) PROVE SerialInv'
  <2> DEFINE q == req[r]
  <2>1. q \in Request /\ Current(q)
    BY <1>1 DEF SerialInv
  <2>2. ASSUME CheckCooldown(r) PROVE SerialInv'
    <3>1. Current([q EXCEPT !.pc = "allowed"])
      BY <2>1 DEF Current, Request
    <3> QED
      BY <1>2, <1>3, <2>2, <3>1 DEF CheckCooldown
  <2>3. ASSUME ReadHints(r) PROVE SerialInv'
    <3>1. Current([q EXCEPT !.pc = "running", !.hints = HintsUsed(req[r].variant)])
      BY <2>1 DEF Current, Request
    <3> QED
      BY <1>2, <2>3, <3>1 DEF ReadHints
  <2>4. ASSUME RunChecks(r) PROVE SerialInv'
    <3>1. ASSUME NEW res \in {NotRun} \cup {Graded(raw, req[r].hints, Threshold, PerTier) : raw \in Raws},
                 Go(r, [req[r] EXCEPT !.pc = "scored", !.res = res]), row' = row
          PROVE  SerialInv'
      <4>1. res \in Outcomes
        <5>1. req[r].hints \in {0} \cup Tiers
          BY <2>1 DEF Request
        <5>2. CASE res = NotRun
          BY <5>2 DEF Outcomes
        <5>3. CASE res # NotRun
          <6>1. PICK raw \in Raws : res = Graded(raw, req[r].hints, Threshold, PerTier)
            BY <5>3
          <6>2. \A hints \in {0} \cup Tiers : Graded(raw, hints, Threshold, PerTier) \in Outcomes
            BY DEF Outcomes
          <6> QED
            BY <5>1, <6>1, <6>2
        <5> QED
          BY <5>2, <5>3
      <4>2. Current([q EXCEPT !.pc = "scored", !.res = res])
        BY <2>1, <4>1 DEF Current, Request
      <4> QED
        BY <1>2, <3>1, <4>2
    <3> QED
      BY <1>3, <2>4, <3>1 DEF RunChecks
  <2>5. ASSUME NEW old, NEW att, Go(r, [q EXCEPT !.pc = "found", !.old = old, !.att = att]),
               row' = row, q.op = "grade" => q.pc = "scored"
        PROVE  SerialInv'
    <3>1. Current([q EXCEPT !.pc = "found", !.old = old, !.att = att])
      BY <2>1, <2>5 DEF Current, Request
    <3> QED
      BY <1>2, <2>5, <3>1
  <2>6. ASSUME FlushAttempt(r) PROVE SerialInv'
    <3>1. Current([q EXCEPT !.pc = "flushed", !.row = row])
      BY <2>1, <2>6 DEF Current, Request, FlushAttempt
    <3> QED
      BY <1>2, <1>3, <2>6, <3>1 DEF FlushAttempt
  <2>7. ASSUME LoadRow(r) PROVE SerialInv'
    <3>1. Current([q EXCEPT !.pc = "loaded", !.row = row])
      BY <2>1, <2>7 DEF Current, Request, LoadRow, At
    <3> QED
      BY <1>2, <2>7, <3>1 DEF LoadRow
  <2>8. ASSUME DeleteAttempts(r) PROVE SerialInv'
    <3>1. Current([q EXCEPT !.pc = "deleted", !.gone = attempts, !.left = Topics])
      BY <2>1, HereAssumption DEF Current, Request
    <3> QED
      BY <1>2, <2>8, <3>1 DEF DeleteAttempts
  <2>9. ASSUME FindAttempt(r) \/ FindOpen(r) \/ FindPractice(r) PROVE SerialInv'
    BY <2>5, <2>9 DEF FindAttempt, FindOpen, FindPractice, At
  <2>10. ASSUME \/ CommitGrade(r) \/ CommitHint(r) \/ CommitPractice(r) \/ CommitLesson(r)
                \/ CommitReset(r)
         PROVE  SerialInv'
    BY <1>3, <2>10 DEF CommitGrade, CommitHint, CommitPractice, CommitLesson, CommitReset
  <2>11. ASSUME ReadPlacement(r) PROVE SerialInv'
    <3> DEFINE to == [q EXCEPT !.pc = "marked", !.locks = @ \cup Written(q), !.res.passed = ~live]
    <3>1. to.pc = "marked" /\ to.op = q.op /\ to.row = q.row /\ q.op = "lesson" /\ q.pc = "loaded"
      BY <2>1, <2>11 DEF Request, ReadPlacement, At
    <3>2. Go(r, to) \/ Finish(r)
      BY <2>11 DEF ReadPlacement
    <3> HIDE DEF to
    <3>3. Current(to)
      BY <2>1, <3>1 DEF Current
    <3> QED
      BY <1>2, <1>3, <2>11, <3>2, <3>3 DEF ReadPlacement
  <2>12. ASSUME FlushPass(r) PROVE SerialInv'
    <3> DEFINE to == [q EXCEPT !.pc = "saved", !.locks = @ \cup Written(q), !.left = @ \ {Here}]
    <3>1. to.pc = "saved" /\ to.op = q.op /\ to.row = q.row /\ q.op = "lesson" /\ q.pc = "marked"
      BY <2>1, <2>12 DEF Request, FlushPass, At
    <3>2. Go(r, to) \/ Finish(r)
      BY <2>12 DEF FlushPass
    <3> HIDE DEF to
    <3>3. Current(to)
      BY <2>1, <3>1 DEF Current
    <3> QED
      BY <1>2, <1>3, <2>12, <3>2, <3>3 DEF FlushPass
  <2>13. ASSUME NEW t \in Topics, LockElsewhere(r, t) PROVE SerialInv'
    <3> DEFINE to == [q EXCEPT !.left = @ \ {t}, !.locks = @ \cup {t}]
    <3>1. /\ to.pc = q.pc /\ to.op = q.op /\ to.row = q.row /\ q.op = "lesson"
          /\ q.pc \in {"begun", "saved"}
      BY <2>1, <2>13 DEF Request, LockElsewhere
    <3>2. Go(r, to) \/ Finish(r)
      BY <2>13 DEF LockElsewhere
    <3> HIDE DEF to
    <3>3. Current(to)
      BY <2>1, <3>1 DEF Current
    <3> QED
      BY <1>2, <1>3, <2>13, <3>2, <3>3 DEF LockElsewhere
  <2>14. ASSUME NEW t \in Topics, DeleteRow(r, t) PROVE SerialInv'
    <3>1. q.op = "reset" /\ q.pc = "deleted" /\ t \in q.left
      BY <2>14 DEF DeleteRow, At
    <3>2. CASE t \in Wants(q)
      <4> DEFINE to == [q EXCEPT !.left = @ \ {t}, !.locks = @ \cup {t}]
      <4>1. /\ to.pc = q.pc /\ to.op = q.op /\ to.row = q.row
            /\ to.left = q.left \ {t} /\ to.locks = q.locks \cup {t}
        BY <2>1 DEF Request
      <4>2. Go(r, to)
        BY <2>14, <3>2 DEF DeleteRow
      <4> HIDE DEF to
      <4>3. Current(to)
        BY <2>1, <3>1, <4>1 DEF Current
      <4> QED
        BY <1>2, <2>14, <4>2, <4>3 DEF DeleteRow
    <3>3. CASE t \notin Wants(q)
      <4> DEFINE to == [q EXCEPT !.left = @ \ {t}]
      <4>1. /\ to.pc = q.pc /\ to.op = q.op /\ to.row = q.row
            /\ to.left = q.left \ {t} /\ to.locks = q.locks
        BY <2>1 DEF Request
      <4>2. Go(r, to)
        BY <2>14, <3>3 DEF DeleteRow
      <4>3. t = Here => row = NoRow
        BY <3>1, <3>3 DEF Wants
      <4> HIDE DEF to
      <4>4. Current(to)
        BY <2>1, <3>1, <4>1, <4>3 DEF Current
      <4> QED
        BY <1>2, <2>14, <4>2, <4>4 DEF DeleteRow
    <3> QED
      BY <3>2, <3>3
  <2> QED
    BY <1>6, <2>2, <2>3, <2>4, <2>6, <2>7, <2>8, <2>9, <2>10, <2>11, <2>12, <2>13, <2>14 DEF Step
<1>7. ASSUME NEW r \in Requests, DeadlockDetected(r) PROVE SerialInv'
  BY <1>3, <1>7 DEF DeadlockDetected
<1> QED
  BY <1>4, <1>5, <1>6, <1>7 DEF Next, SetStatus, Wait, TimeIsUp, vars

-----------------------------------------------------------------------------
LEMMA EmptyBook == Init => Book!Empty
BY DEF Init, NoRow, Book!Empty

(* A commit of the grade is an entry. *)
LEMMA GradeEnters ==
  ASSUME SerialInv, NEW r \in Requests, CommitGrade(r)
  PROVE  Book!Submit \/ UNCHANGED row
<1> DEFINE q == req[r]  base == RowOf(q)  new == WithSubmission(base, q.res)
<1>1. q \in Request /\ RequestInv(q) /\ q.row = row /\ q.res \in Outcomes /\ clock \in Nat /\ clock > 0
  BY DEF CommitGrade, At, SerialInv, Current, IInv, DataInv, TypeOK, RequestInv
<1>2. CASE ~RowSaves(q)
  BY <1>2 DEF CommitGrade
<1>3. CASE RowSaves(q)
  <2>1. base \in Progress /\ base.status # "locked"
    BY <1>1, RowOfType DEF Request, RequestInv
  <2>2. q.res \in Result /\ q.res.score \in Attainable /\ (q.res.stars > 0 <=> q.res.passed)
    BY <1>1, OutcomeIsAnEntry
  <2>3. new \in Progress
    BY <2>1, <2>2, WithSubmissionType DEF SerialInv, IInv
  <2>4. row' = new
    <3> HIDE DEF new
    <3> QED
      BY <1>1, <1>3, <2>3, WritesThrough DEF CommitGrade, new
  <2>5. /\ new.count = base.count + 1 /\ new.best = Greater(base.best, q.res.score)
        /\ new.stars = Greater(base.stars, q.res.stars)
        /\ new.passedAt = IF q.res.passed /\ base.passedAt = Never THEN clock ELSE base.passedAt
    BY <2>1 DEF WithSubmission, Progress
  <2>6. /\ base.count = row.count /\ base.best = row.best
        /\ base.stars = row.stars /\ base.passedAt = row.passedAt
    BY <1>1, SamePage
  <2> HIDE DEF q, base, new
  <2>7. Book!Enter(q.res.score, q.res.passed, q.res.stars)
    <3>1. row'.passedAt # Never <=> (row.passedAt # Never \/ q.res.passed)
      BY <1>1, <2>4, <2>5, <2>6 DEF Never
    <3> QED
      BY <2>2, <2>4, <2>5, <2>6, <3>1 DEF Book!Enter, Book!Greater, Greater, Result
  <2>8. q.res.stars \in 0..3 /\ q.res.passed \in BOOLEAN
    BY <2>2 DEF Result
  <2> QED
    BY <2>2, <2>7, <2>8 DEF Book!Submit
<1> QED
  BY <1>2, <1>3

(* A practice result makes at most an empty row. *)
LEMMA PracticeStaysOut ==
  ASSUME SerialInv, NEW r \in Requests, CommitPractice(r)
  PROVE  UNCHANGED Book!book
<1> DEFINE q == req[r]  base == RowOf(q)
<1>1. q \in Request /\ RequestInv(q) /\ q.row = row
  BY DEF CommitPractice, At, SerialInv, Current, IInv, DataInv, TypeOK
<1>2. base \in Progress
  BY <1>1, RowOfType DEF Request, RequestInv
<1>3. row' = row \/ row' = base
  <2>1. SavedRow(q, base) = base
    BY <1>1, <1>2, WritesThrough
  <2> QED
    BY <2>1 DEF CommitPractice
<1> QED
  BY <1>1, <1>3, SamePage DEF Book!book

(* A briefing that is the whole topic passes it, any other leaves the book alone. *)
LEMMA LessonBriefs ==
  ASSUME SerialInv, NEW r \in Requests, CommitLesson(r)
  PROVE  Book!Brief \/ UNCHANGED Book!book
<1> DEFINE q == req[r]  base == RowOf(q)  new == WithLesson(q)
<1>1. q \in Request /\ RequestInv(q) /\ q.row = row /\ clock \in Nat /\ clock > 0
  BY DEF CommitLesson, At, SerialInv, Current, IInv, DataInv, TypeOK, RequestInv
<1>2. base \in Progress /\ base.status # "locked"
  BY <1>1, RowOfType DEF Request, RequestInv
<1>3. new \in Progress /\ new.count = base.count /\ new.best = base.best
  BY <1>1, WithLessonType DEF SerialInv, IInv, RequestInv
<1>4. row' = new
  <2>1. SavedRow(q, new) = new
    <3> HIDE DEF new
    <3> QED
      BY <1>1, <1>3, WritesThrough
  <2> QED
    BY <2>1 DEF CommitLesson
<1>5. /\ new.stars = base.stars
      /\ new.passedAt = IF q.res.passed /\ base.passedAt = Never THEN clock ELSE base.passedAt
  BY <1>2 DEF WithLesson, Progress
<1>6. /\ base.count = row.count /\ base.best = row.best
      /\ base.stars = row.stars /\ base.passedAt = row.passedAt
  BY <1>1, SamePage
<1> HIDE DEF q, base, new
<1> QED
  BY <1>1, <1>3, <1>4, <1>5, <1>6 DEF Book!Brief, Book!book, Never

(* A reset that has met no row leaves none. *)
LEMMA RowIsCleared ==
  ASSUME SerialInv, NEW r \in Requests, CommitReset(r)
  PROVE  row' = NoRow
<1>1. req[r].pc = "deleted" /\ req[r].left = {} /\ Current(req[r])
  BY DEF CommitReset, At, SerialInv
<1> QED
  BY <1>1 DEF CommitReset, Current

(* Every step is an entry, a briefing, a reset, or nothing that concerns the book. *)
LEMMA BookStep ==
  ASSUME SerialInv, [Next]_vars
  PROVE  [Book!Submit \/ Book!Brief \/ Book!Clear]_Book!book
<1>1. ASSUME UNCHANGED row PROVE UNCHANGED Book!book
  BY <1>1 DEF Book!book
<1>2. ASSUME NEW r \in Requests, Step(r)
      PROVE  [Book!Submit \/ Book!Brief \/ Book!Clear]_Book!book
  <2>1. CASE CommitGrade(r)
    BY <1>1, <2>1, GradeEnters
  <2>2. CASE CommitPractice(r)
    BY <2>2, PracticeStaysOut
  <2>3. CASE CommitLesson(r)
    BY <2>3, LessonBriefs
  <2>4. CASE CommitReset(r)
    BY <2>4, RowIsCleared DEF Book!Clear, NoRow
  <2>5. CASE \/ CheckCooldown(r) \/ ReadHints(r) \/ RunChecks(r) \/ FindAttempt(r) \/ FlushAttempt(r)
             \/ FindOpen(r) \/ CommitHint(r) \/ FindPractice(r) \/ LoadRow(r) \/ ReadPlacement(r)
             \/ FlushPass(r) \/ DeleteAttempts(r)
             \/ \E t \in Topics : LockElsewhere(r, t) \/ DeleteRow(r, t)
    BY <1>1, <2>5 DEF CheckCooldown, ReadHints, RunChecks, FindAttempt, FlushAttempt, FindOpen,
       CommitHint, FindPractice, LoadRow, ReadPlacement, FlushPass, LockElsewhere, DeleteAttempts,
       DeleteRow
  <2> QED
    BY <1>2, <2>1, <2>2, <2>3, <2>4, <2>5 DEF Step
<1>3. CASE \E r \in Requests : Begin(r) \/ DeadlockDetected(r)
  BY <1>1, <1>3 DEF Begin, DeadlockDetected
<1>4. CASE SetStatus \/ Wait \/ TimeIsUp \/ UNCHANGED vars
  BY <1>1, <1>4 DEF SetStatus, Wait, TimeIsUp, vars
<1> QED
  BY <1>2, <1>3, <1>4 DEF Next

(* docs/DATABASE.md, "summary row, written with each attempt": when the requests of a learner *)
(* come one at a time, every saved submission is entered in full, in one step, and no hint,    *)
(* practice result or reset in between changes what the row has of it, but for the reset that *)
(* clears it all.                                                                              *)
THEOREM BookIsKept == ASSUME OneAtATime PROVE Spec => KeepsTheBook
<1>1. SerialInv /\ [Next]_vars => SerialInv'
  BY SerialStep
<1>2. SerialInv /\ [Next]_vars => [Book!Submit \/ Book!Brief \/ Book!Clear]_Book!book
  BY BookStep
<1> QED
  BY <1>1, <1>2, SerialInit, EmptyBook, PTL DEF Spec, KeepsTheBook, Book!Spec

-----------------------------------------------------------------------------
(* The rows behind the book: what they add up to, and what they carry.     *)

IsLargest(m, S) == \/ S = {} /\ m = 0
                   \/ m \in S /\ \A n \in S : n <= m

ScoresOf(rows) == {a.score : a \in rows}
StarsOf(rows)  == {StarsFor(a.score, a.passed, a.hints) : a \in rows}

(* What a request is about to write, next to the row that it loaded. *)
Prepared(q) ==
  /\ IF q.old = NoAttempt THEN q.att.at = q.at
     ELSE q.old \in attempts /\ q.att.at = q.old.at /\ q.att.cp = q.old.cp
  /\ q.att.variant = q.variant
  /\ q.op \in {"grade", "hint"} =>
       /\ q.old # NoAttempt => q.old = LatestAttempt(q.variant)
       /\ q.old.score = NULL /\ q.att.cp
  /\ q.op = "grade" =>
       q.att.score = q.res.score /\ q.att.passed = q.res.passed /\ q.att.hints = q.hints
  /\ q.op = "hint" => q.att.score = NULL /\ q.att.hints = Greater(HintsUsed(q.variant), q.hints)
  /\ q.op = "practice" => ~q.att.cp /\ ~q.old.cp /\ q.att.score # NULL

(* Alone, a request is newer than every row, and what it has read is still so. *)
Ready(q) ==
  /\ q.pc # "idle" => \A a \in attempts : a.at < q.at
  /\ q.pc = "deleted" => q.gone = attempts
  /\ q.op = "grade" /\ q.pc \in {"running", "scored", "found", "flushed"} =>
       q.hints = HintsUsed(q.variant)
  /\ q.op = "grade" /\ q.pc \in {"scored", "found", "flushed"} =>
       q.res.stars = StarsFor(q.res.score, q.res.passed, q.hints)
  /\ q.pc \in {"found", "flushed"} => q.op \in {"grade", "hint", "practice"} /\ Prepared(q)

RowsInv ==
  /\ IsFiniteSet(attempts)
  /\ \A a, b \in attempts : a.at = b.at => a = b
  /\ \A a \in attempts : a.score = NULL => a.cp

AddsUp ==
  /\ row.count = Cardinality(GradedCheckpoints)
  /\ IsLargest(row.best, ScoresOf(GradedCheckpoints))
  /\ IsLargest(row.stars, StarsOf(GradedCheckpoints))
  /\ \A a \in GradedCheckpoints : a.passed => row.passedAt # Never

(* What holds of the attempts and the row when requests come one at a time. *)
TallyInv == SerialInv /\ RowsInv /\ AddsUp /\ \A r \in Requests : Ready(req[r])

LEMMA LargestIs ==
  ASSUME NEW S \in SUBSET Int, NEW m, IsLargest(m, S)
  PROVE  Largest(S) = m
<1>1. CASE S = {}
  BY <1>1 DEF IsLargest, Largest
<1>2. CASE S # {}
  <2>1. m \in S /\ \A n \in S : n <= m
    BY <1>2 DEF IsLargest
  <2>2. \A k \in S : (\A n \in S : n <= k) => k = m
    BY <2>1
  <2>3. Largest(S) = CHOOSE k \in S : \A n \in S : n <= k
    BY <1>2 DEF Largest
  <2> QED
    BY <2>1, <2>2, <2>3
<1> QED
  BY <1>1, <1>2

LEMMA LargerOf ==
  ASSUME NEW S \in SUBSET Nat, NEW m \in Nat, IsLargest(m, S), NEW x \in Nat
  PROVE  IsLargest(Greater(m, x), S \cup {x})
BY DEF IsLargest, Greater

(* latest_attempt, in full: the newest row on the variant, if there is one. *)
LEMMA LatestIsNewest ==
  ASSUME IInv, NEW v
  PROVE  \/ /\ LatestAttempt(v) = NoAttempt
            /\ \A b \in attempts : b.variant # v
         \/ /\ LatestAttempt(v) \in attempts /\ LatestAttempt(v).variant = v
            /\ \A b \in attempts : b.variant = v => b.at <= LatestAttempt(v).at
<1> DEFINE rows == {a \in attempts : a.variant = v}
<1>1. CASE rows = {}
  BY <1>1 DEF LatestAttempt
<1>2. CASE rows # {}
  <2>1. rows \in SUBSET Attempt /\ clock \in Nat /\ \A a \in rows : a.at <= clock
    BY DEF IInv, DataInv, TypeOK
  <2>2. Newest(rows) \in rows /\ \A b \in rows : b.at <= Newest(rows).at
    BY <1>2, <2>1, NewestIsARow
  <2>3. LatestAttempt(v) = Newest(rows)
    BY <1>2 DEF LatestAttempt
  <2> QED
    BY <2>2, <2>3
<1> QED
  BY <1>1, <1>2

(* A row that is newer than all others of its set is the newest of them. *)
LEMMA NewestIs ==
  ASSUME NEW rows \in SUBSET Attempt, NEW n \in Nat, \A b \in rows : b.at <= n,
         NEW a \in rows, \A b \in rows : b # a => b.at < a.at
  PROVE  Newest(rows) = a
<1>1. Newest(rows) \in rows /\ a.at <= Newest(rows).at
  BY NewestIsARow
<1>2. \A b \in rows : b.at \in Nat
  BY DEF Attempt
<1> QED
  BY <1>1, <1>2

(* Alone, what a request saves replaces the row that it loaded, as it was loaded. *)
LEMMA SaveReplaces ==
  ASSUME IInv, RowsInv, NEW old, NEW new \in Attempt,
         old # NoAttempt => old \in attempts /\ new.at = old.at /\ new.cp = old.cp
  PROVE  SaveAttempt(old, new) = (attempts \ {old}) \cup {new}
<1>1. CASE old = NoAttempt
  <2>1. NoAttempt \notin attempts
    BY VariantAssumption DEF IInv, DataInv, TypeOK, Attempt, Variants, NoAttempt
  <2> QED
    BY <1>1, <2>1 DEF SaveAttempt
<1>2. CASE old # NoAttempt
  <2>1. old \in Attempt
    BY <1>2 DEF IInv, DataInv, TypeOK
  <2>2. MergedAttempt(old, old, new) = new
    BY <1>2, <2>1 DEF MergedAttempt, Column, Attempt
  <2>3. \A a \in attempts : a.at = old.at <=> a = old
    BY <1>2 DEF RowsInv
  <2>4. SaveAttempt(old, new) = {IF a.at = old.at THEN MergedAttempt(a, old, new) ELSE a : a \in attempts}
    BY <1>2 DEF SaveAttempt
  <2>5. SaveAttempt(old, new) = {IF a = old THEN new ELSE a : a \in attempts}
    BY <2>2, <2>3, <2>4
  <2> QED
    BY <1>2, <2>5
<1> QED
  BY <1>1, <1>2

-----------------------------------------------------------------------------
(* One step: reading, and saving.                                          *)

LEMMA IdleIsReady == Ready(Idle)
BY DEF Ready, Idle

(* The table and the row stay, and the request goes on or ends. *)
LEMMA TallyMoves ==
  ASSUME OneAtATime, TallyInv, SerialInv', NEW r \in Requests, NEW q, Go(r, q), Ready(q),
         UNCHANGED <<attempts, row>>
  PROVE  TallyInv'
<1>1. \A s \in Requests : req'[s] = q
  BY DEF OneAtATime, Go, TallyInv, SerialInv, IInv, DataInv, TypeOK
<1>2. Ready(q)'
  BY DEF Ready, Prepared, HintsUsed, LatestAttempt
<1>3. \A s \in Requests : Ready(req[s])'
  <2> SUFFICES ASSUME NEW s \in Requests PROVE Ready(req[s])'
    OBVIOUS
  <2>1. req'[s] = q
    BY <1>1
  <2> QED
    BY <1>2, <2>1 DEF Ready, Prepared, HintsUsed, LatestAttempt
<1>4. RowsInv' /\ AddsUp'
  BY DEF TallyInv, RowsInv, AddsUp, GradedCheckpoints
<1> QED
  BY <1>3, <1>4 DEF TallyInv

(* The request ends, and what it leaves behind adds up. *)
LEMMA TallyEnds ==
  ASSUME OneAtATime, TallyInv, SerialInv', NEW r \in Requests, Finish(r), RowsInv', AddsUp'
  PROVE  TallyInv'
<1>1. \A s \in Requests : req'[s] = Idle
  BY DEF OneAtATime, Finish, TallyInv, SerialInv, IInv, DataInv, TypeOK
<1>2. Idle.pc = "idle"
  BY DEF Idle
<1>3. \A s \in Requests : Ready(req[s])'
  BY <1>1, <1>2 DEF Ready
<1> QED
  BY <1>3 DEF TallyInv

(* A save that the request is ready for keeps the keys of the table. *)
LEMMA RowsAfterSave ==
  ASSUME IInv, RowsInv, NEW q \in Request, RequestInv(q), Ready(q), q.pc \in {"found", "flushed"},
         attempts' = SaveAttempt(q.old, q.att)
  PROVE  /\ q.att \in Attempt
         /\ attempts' = (attempts \ {q.old}) \cup {q.att}
         /\ \A a \in attempts \ {q.old} : a.at # q.att.at
         /\ RowsInv'
<1>1. q.att \in Attempt /\ Prepared(q) /\ q.op \in {"grade", "hint", "practice"}
  BY DEF RequestInv, Ready
<1>2. attempts' = (attempts \ {q.old}) \cup {q.att}
  BY <1>1, SaveReplaces DEF Prepared
<1>3. \A a \in attempts \ {q.old} : a.at # q.att.at
  <2>1. \A a \in attempts : a.at \in Nat /\ a.at < q.at
    BY DEF Ready, IInv, DataInv, TypeOK, Attempt
  <2>2. q.at \in Nat
    BY DEF Request
  <2> QED
    BY <1>1, <2>1, <2>2 DEF Prepared, RowsInv
<1>4. q.att.score = NULL => q.att.cp
  BY <1>1 DEF Prepared
<1>5. IsFiniteSet(attempts')
  <2>1. IsFiniteSet(attempts \ {q.old})
    BY FS_RemoveElement DEF RowsInv
  <2> QED
    BY <1>2, <2>1, FS_AddElement
<1>6. RowsInv'
  BY <1>2, <1>3, <1>4, <1>5 DEF RowsInv
<1> QED
  BY <1>1, <1>2, <1>3, <1>6

(* A row that is not graded leaves, another comes: the graded ones are the same. *)
LEMMA GradedStay ==
  ASSUME NEW old, NEW new, attempts' = (attempts \ {old}) \cup {new},
         ~(old.cp /\ old.score # NULL), ~(new.cp /\ new.score # NULL)
  PROVE  GradedCheckpoints' = GradedCheckpoints
BY DEF GradedCheckpoints

LEMMA GradedGrow ==
  ASSUME NEW old, NEW new, attempts' = (attempts \ {old}) \cup {new},
         ~(old.cp /\ old.score # NULL), new.cp /\ new.score # NULL
  PROVE  GradedCheckpoints' = GradedCheckpoints \cup {new}
BY DEF GradedCheckpoints

(* The row changes in nothing that is added up, but for a pass that it may gain. *)
LEMMA AddsUpStill ==
  ASSUME AddsUp, GradedCheckpoints' = GradedCheckpoints,
         row'.count = row.count, row'.best = row.best, row'.stars = row.stars,
         row.passedAt # Never => row'.passedAt # Never
  PROVE  AddsUp'
BY DEF AddsUp

(* A new graded row and the submission entered in the row: everything still adds up. *)
LEMMA AddsUpAfter ==
  ASSUME AddsUp, IInv, RowsInv, NEW new \in Attempt, new.score # NULL,
         new \notin GradedCheckpoints, GradedCheckpoints' = GradedCheckpoints \cup {new},
         row'.count = row.count + 1, row'.best = Greater(row.best, new.score),
         row'.stars = Greater(row.stars, StarsFor(new.score, new.passed, new.hints)),
         row.passedAt # Never \/ new.passed => row'.passedAt # Never
  PROVE  AddsUp'
<1> DEFINE G == GradedCheckpoints
<1>1. G \subseteq attempts /\ \A a \in G : a.score \in Nat
  BY DEF GradedCheckpoints, IInv, DataInv, TypeOK, Attempt, Percent
<1>2. Cardinality(G \cup {new}) = Cardinality(G) + 1
  <2>1. IsFiniteSet(G)
    BY <1>1, FS_Subset DEF RowsInv
  <2> QED
    BY <2>1, FS_AddElement
<1>3. IsLargest(row.best, ScoresOf(G))' 
  <2>1. ScoresOf(G \cup {new}) = ScoresOf(G) \cup {new.score}
    BY DEF ScoresOf
  <2>2. new.score \in Nat /\ row.best \in Nat /\ ScoresOf(G) \in SUBSET Nat
    BY <1>1 DEF ScoresOf, IInv, DataInv, TypeOK, Attempt, Progress, Percent
  <2>3. IsLargest(Greater(row.best, new.score), ScoresOf(G) \cup {new.score})
    BY <2>2, LargerOf DEF AddsUp
  <2> QED
    BY <2>1, <2>3 DEF ScoresOf
<1>4. IsLargest(row.stars, StarsOf(G))'
  <2> DEFINE stars == StarsFor(new.score, new.passed, new.hints)
  <2>1. StarsOf(G \cup {new}) = StarsOf(G) \cup {stars}
    BY DEF StarsOf
  <2>2. stars \in Nat /\ row.stars \in Nat /\ StarsOf(G) \in SUBSET Nat
    BY DEF StarsOf, StarsFor, IInv, DataInv, TypeOK, Progress
  <2> HIDE DEF stars
  <2>3. IsLargest(Greater(row.stars, stars), StarsOf(G) \cup {stars})
    BY <2>2, LargerOf DEF AddsUp
  <2>4. row'.stars = Greater(row.stars, stars)
    BY DEF stars
  <2> QED
    BY <2>1, <2>3, <2>4 DEF StarsOf
<1> QED
  BY <1>2, <1>3, <1>4 DEF AddsUp

-----------------------------------------------------------------------------
(* The steps that begin, read and compute.                                 *)

LEMMA TallyTypes ==
  ASSUME TallyInv
  PROVE  /\ IInv /\ SerialInv /\ RowsInv /\ AddsUp /\ NoAttempt \notin attempts
         /\ attempts \subseteq Attempt /\ row \in Progress /\ clock \in Nat
         /\ \A r \in Requests : /\ req[r] \in Request /\ RequestInv(req[r])
                                /\ Ready(req[r]) /\ Current(req[r])
<1>1. NoAttempt \notin Attempt
  BY VariantAssumption DEF NoAttempt, Attempt, Variants
<1> QED
  BY <1>1 DEF TallyInv, SerialInv, IInv, DataInv, TypeOK

LEMMA TallyBegin ==
  ASSUME OneAtATime, TallyInv, SerialInv', NEW r \in Requests, Begin(r)
  PROVE  TallyInv'
<1>1. UNCHANGED <<attempts, row>>
  BY DEF Begin
<1>2. ASSUME NEW op, NEW v, NEW h, NEW res, Go(r, Sent(op, v, h, res)) PROVE TallyInv'
  <2>1. Sent(op, v, h, res).pc = "begun" /\ Sent(op, v, h, res).at = clock + 1
    BY DEF Sent, Idle
  <2>2. \A a \in attempts : a.at < clock + 1
    <3>1. \A a \in attempts : a.at \in Nat /\ a.at <= clock
      BY DEF TallyInv, SerialInv, IInv, DataInv, TypeOK, Attempt
    <3> QED
      BY <3>1, TallyTypes
  <2>3. Ready(Sent(op, v, h, res))
    BY <2>1, <2>2 DEF Ready
  <2> QED
    BY <1>1, <1>2, <2>3, TallyMoves
<1>3. ASSUME NEW T, Go(r, [Sent("lesson", NoVariant, 0, NotRun) EXCEPT !.left = T]) PROVE TallyInv'
  <2> DEFINE e == [Sent("lesson", NoVariant, 0, NotRun) EXCEPT !.left = T]
  <2>1. e.pc = "begun" /\ e.at = clock + 1 /\ Go(r, e)
    BY <1>3 DEF Sent, Idle
  <2>2. \A a \in attempts : a.at < clock + 1
    <3>1. \A a \in attempts : a.at \in Nat /\ a.at <= clock
      BY DEF TallyInv, SerialInv, IInv, DataInv, TypeOK, Attempt
    <3> QED
      BY <3>1, TallyTypes
  <2> HIDE DEF e
  <2>3. Ready(e)
    BY <2>1, <2>2 DEF Ready
  <2> QED
    BY <1>1, <2>1, <2>3, TallyMoves
<1> QED
  BY <1>2, <1>3 DEF Begin

(* The row that latest_attempt finds is as the grade or the hint prepares it. *)
LEMMA FoundIsLoaded ==
  ASSUME TallyInv, NEW r \in Requests, req[r].pc # "idle", NEW found, found = LatestAttempt(req[r].variant)
  PROVE  LET old == Loaded(found) IN
         /\ old.score = NULL
         /\ old # NoAttempt => old = found /\ old \in attempts /\ old.cp /\ old.variant = req[r].variant
         /\ found = NoAttempt \/ found.score # NULL <=> old = NoAttempt
<1>1. found = NoAttempt \/ (found \in attempts /\ found.variant = req[r].variant)
  BY TallyTypes, LatestIsNewest
<1>2. NoAttempt.score = NULL
  BY DEF NoAttempt
<1> QED
  BY <1>1, <1>2, TallyTypes DEF Loaded, RowsInv

LEMMA TallyFindAttempt ==
  ASSUME OneAtATime, TallyInv, SerialInv', NEW r \in Requests, FindAttempt(r)
  PROVE  TallyInv'
<1> DEFINE q == req[r]
           found == LatestAttempt(q.variant)
           to == [q EXCEPT !.pc = "found", !.old = Loaded(found), !.att = Scored(q, found)]
<1>1. q \in Request /\ Ready(q) /\ q.op = "grade" /\ q.pc = "scored"
  BY TallyTypes DEF FindAttempt, At
<1>2. Go(r, to) /\ UNCHANGED <<attempts, row>>
  BY DEF FindAttempt
<1>3. /\ to.op = q.op /\ to.pc = "found" /\ to.at = q.at /\ to.variant = q.variant
      /\ to.hints = q.hints /\ to.res = q.res /\ to.old = Loaded(found) /\ to.att = Scored(q, found)
  BY <1>1 DEF Request
<1>4. /\ to.old.score = NULL
      /\ to.old # NoAttempt =>
           to.old = found /\ to.old \in attempts /\ to.old.cp /\ to.old.variant = q.variant
      /\ found = NoAttempt \/ found.score # NULL <=> to.old = NoAttempt
  BY <1>1, <1>3, FoundIsLoaded
<1>5. q.hints = HintsUsed(q.variant) /\ q.res.stars = StarsFor(q.res.score, q.res.passed, q.hints)
  BY <1>1 DEF Ready
<1>6. /\ to.att.at = IF to.old = NoAttempt THEN q.at ELSE to.old.at
      /\ to.att.cp = TRUE /\ to.att.variant = q.variant /\ to.att.score = q.res.score
      /\ to.att.passed = q.res.passed /\ to.att.hints = q.hints
  <2>1. CASE to.old = NoAttempt
    <3>1. to.att = [at |-> q.at, variant |-> q.variant, cp |-> TRUE,
                    score |-> q.res.score, passed |-> q.res.passed, hints |-> q.hints]
      BY <1>3, <1>4, <2>1 DEF Scored
    <3> QED
      BY <2>1, <3>1
  <2>2. CASE to.old # NoAttempt
    <3>1. to.att = [found EXCEPT !.score = q.res.score, !.passed = q.res.passed]
      BY <1>3, <1>4, <2>2 DEF Scored
    <3>2. found \in Attempt /\ found = to.old /\ to.old.cp /\ to.old.variant = q.variant
      BY <1>4, <2>2, TallyTypes
    <3> HIDE DEF to, found
    <3>3. to.att.cp = found.cp /\ to.att.at = found.at /\ to.att.variant = found.variant
          /\ to.att.score = q.res.score /\ to.att.hints = found.hints
      BY <3>1, <3>2 DEF Attempt
    <3>4. to.att.passed = q.res.passed
      BY <3>1, <3>2 DEF Attempt
    <3>5. found.hints = q.hints
      BY <1>5 DEF HintsUsed, found
    <3>6. found.cp = TRUE
      BY <3>2 DEF Attempt
    <3> QED
      BY <2>2, <3>2, <3>3, <3>4, <3>5, <3>6
  <2> QED
    BY <2>1, <2>2
<1> HIDE DEF to
<1>7. Prepared(to)
  <2>1. to.old # NoAttempt => to.att.cp = to.old.cp
    BY <1>4, <1>6, TallyTypes DEF Attempt
  <2> QED
    BY <1>1, <1>3, <1>4, <1>6, <2>1 DEF Prepared
<1>8. Ready(to)
  BY <1>1, <1>3, <1>5, <1>7 DEF Ready
<1> QED
  BY <1>2, <1>8, TallyMoves

LEMMA TallyFindOpen ==
  ASSUME OneAtATime, TallyInv, SerialInv', NEW r \in Requests, FindOpen(r)
  PROVE  TallyInv'
<1> DEFINE q == req[r]
           found == LatestAttempt(q.variant)
           to == [q EXCEPT !.pc = "found", !.old = Loaded(found), !.att = WithHint(q, found)]
           carried == Greater(found.hints, q.hints)
<1>1. q \in Request /\ Ready(q) /\ q.op = "hint" /\ q.pc = "begun"
  BY TallyTypes DEF FindOpen, At
<1>2. Go(r, to) /\ UNCHANGED <<attempts, row>>
  BY DEF FindOpen
<1>3. /\ to.op = q.op /\ to.pc = "found" /\ to.at = q.at /\ to.variant = q.variant
      /\ to.hints = q.hints /\ to.res = q.res /\ to.old = Loaded(found) /\ to.att = WithHint(q, found)
  BY <1>1 DEF Request
<1>4. /\ to.old.score = NULL
      /\ to.old # NoAttempt =>
           to.old = found /\ to.old \in attempts /\ to.old.cp /\ to.old.variant = q.variant
      /\ found = NoAttempt \/ found.score # NULL <=> to.old = NoAttempt
  BY <1>1, <1>3, FoundIsLoaded
<1>5. carried = Greater(HintsUsed(to.variant), to.hints)
  BY <1>3 DEF HintsUsed
<1>6. /\ to.att.at = IF to.old = NoAttempt THEN q.at ELSE to.old.at
      /\ to.att.cp = TRUE /\ to.att.variant = q.variant /\ to.att.score = NULL
      /\ to.att.hints = carried
  <2>1. CASE to.old = NoAttempt
    <3>1. to.att = [at |-> q.at, variant |-> q.variant, cp |-> TRUE,
                    score |-> NULL, passed |-> FALSE, hints |-> carried]
      BY <1>3, <1>4, <2>1 DEF WithHint
    <3> QED
      BY <2>1, <3>1
  <2>2. CASE to.old # NoAttempt
    <3>1. to.att = [found EXCEPT !.hints = carried]
      BY <1>3, <1>4, <2>2 DEF WithHint
    <3>2. found \in Attempt /\ found = to.old /\ to.old.cp /\ to.old.variant = q.variant
      BY <1>4, <2>2, TallyTypes
    <3>3. found.score = NULL
      BY <1>4, <3>2
    <3> HIDE DEF to, found, carried
    <3>4. to.att.cp = found.cp /\ to.att.at = found.at /\ to.att.variant = found.variant
          /\ to.att.score = found.score /\ to.att.hints = carried
      BY <3>1, <3>2 DEF Attempt
    <3>5. found.cp = TRUE
      BY <3>2 DEF Attempt
    <3> QED
      BY <2>2, <3>2, <3>3, <3>4, <3>5
  <2> QED
    BY <2>1, <2>2
<1> HIDE DEF to, carried
<1>7. Prepared(to)
  <2>1. to.old # NoAttempt => to.att.cp = to.old.cp
    BY <1>4, <1>6, TallyTypes DEF Attempt
  <2> QED
    BY <1>1, <1>3, <1>4, <1>5, <1>6, <2>1 DEF Prepared
<1>8. Ready(to)
  BY <1>1, <1>3, <1>7 DEF Ready
<1> QED
  BY <1>2, <1>8, TallyMoves

LEMMA TallyFindPractice ==
  ASSUME OneAtATime, TallyInv, SerialInv', NEW r \in Requests, FindPractice(r)
  PROVE  TallyInv'
<1> DEFINE q == req[r]
<1>1. q \in Request /\ Ready(q) /\ q.op = "practice" /\ q.pc = "begun"
  BY TallyTypes DEF FindPractice, At
<1>2. UNCHANGED <<attempts, row>>
  BY DEF FindPractice
<1>3. PICK found \in PracticeRows(q.variant) \cup {NoAttempt} :
        Go(r, [q EXCEPT !.pc = "found", !.old = found, !.att = PracticeResult(q, found)])
  BY DEF FindPractice
<1> DEFINE to == [q EXCEPT !.pc = "found", !.old = found, !.att = PracticeResult(q, found)]
<1>4. /\ to.op = q.op /\ to.pc = "found" /\ to.at = q.at /\ to.variant = q.variant
      /\ to.old = found /\ to.att = PracticeResult(q, found)
  BY <1>1 DEF Request
<1>5. Go(r, to)
  BY <1>3
<1> HIDE DEF to
<1>6. q.res.score \in Nat
  BY <1>1 DEF Request, Result, Percent
<1>7. Prepared(to)
  <2>1. CASE found = NoAttempt
    <3>1. /\ to.att.at = q.at /\ to.att.variant = q.variant /\ to.att.cp = FALSE
          /\ to.att.score = q.res.score /\ to.old.cp = FALSE
      BY <1>4, <2>1 DEF PracticeResult, NoAttempt
    <3> QED
      BY <1>1, <1>4, <1>6, <2>1, <3>1 DEF Prepared, NULL
  <2>2. CASE found # NoAttempt
    <3>1. found \in attempts /\ found \in Attempt /\ ~found.cp
      BY <2>2, TallyTypes DEF PracticeRows
    <3>2. /\ to.att.at = found.at /\ to.att.variant = q.variant /\ to.att.cp = found.cp
          /\ to.att.score = Greater(found.score, q.res.score)
      BY <1>4, <2>2, <3>1 DEF PracticeResult, Attempt
    <3>3. to.att.score # NULL
      BY <1>6, <3>1, <3>2 DEF Attempt, Greater, Percent, NULL
    <3> QED
      BY <1>1, <1>4, <2>2, <3>1, <3>2, <3>3 DEF Prepared
  <2> QED
    BY <2>1, <2>2
<1>8. Ready(to)
  BY <1>1, <1>4, <1>7 DEF Ready
<1> QED
  BY <1>2, <1>5, <1>8, TallyMoves

(* A verdict's stars are those of its score, with the hints that were read before. *)
LEMMA VerdictStars ==
  ASSUME NEW hints, NEW res \in {NotRun} \cup {Graded(raw, hints, Threshold, PerTier) : raw \in Raws}
  PROVE  res.stars = StarsFor(res.score, res.passed, hints)
<1>1. CASE res = NotRun
  BY <1>1 DEF NotRun, StarsFor
<1>2. ASSUME NEW raw \in Raws, res = Graded(raw, hints, Threshold, PerTier)
      PROVE  res.stars = StarsFor(res.score, res.passed, hints)
  <2> DEFINE score  == raw - HintPenalty(raw, hints, PerTier)
             passed == score >= Threshold
  <2>1. res = [score |-> score, passed |-> passed, stars |-> StarsFor(score, passed, hints)]
    BY <1>2 DEF Graded
  <2> HIDE DEF score, passed
  <2>2. res.passed = passed
    BY <2>1, Zenon
  <2>3. res.score = score /\ res.stars = StarsFor(score, passed, hints)
    BY <2>1
  <2> QED
    BY <2>2, <2>3
<1> QED
  BY <1>1, <1>2

(* The other steps that only read. *)
LEMMA TallyReads ==
  ASSUME OneAtATime, TallyInv, SerialInv', NEW r \in Requests,
         \/ CheckCooldown(r) \/ ReadHints(r) \/ RunChecks(r) \/ FlushAttempt(r)
         \/ LoadRow(r) \/ ReadPlacement(r) \/ FlushPass(r) \/ DeleteAttempts(r)
         \/ \E t \in Topics : LockElsewhere(r, t) \/ DeleteRow(r, t)
  PROVE  TallyInv'
<1> DEFINE q == req[r]
<1>1. q \in Request /\ Ready(q) /\ q.pc # "idle"
  BY TallyTypes DEF CheckCooldown, ReadHints, RunChecks, FlushAttempt, LoadRow, ReadPlacement, FlushPass,
     LockElsewhere, DeleteAttempts, DeleteRow, At
<1>2. UNCHANGED <<attempts, row>>
  BY DEF CheckCooldown, ReadHints, RunChecks, FlushAttempt, LoadRow, ReadPlacement, FlushPass,
     LockElsewhere, DeleteAttempts, DeleteRow
<1>3. ASSUME NEW to, Go(r, to), Ready(to) PROVE TallyInv'
  BY <1>2, <1>3, TallyMoves
<1>4. ASSUME Finish(r) PROVE TallyInv'
  BY <1>2, <1>4, TallyMoves, IdleIsReady DEF Finish, Go
<1>5. CASE CheckCooldown(r)
  <2>1. Ready([q EXCEPT !.pc = "allowed"])
    BY <1>1 DEF Ready, Request
  <2> QED
    BY <1>3, <1>4, <1>5, <2>1 DEF CheckCooldown
<1>6. CASE ReadHints(r)
  <2> DEFINE to == [q EXCEPT !.pc = "running", !.hints = HintsUsed(q.variant)]
  <2>1. to.pc = "running" /\ to.at = q.at /\ to.variant = q.variant /\ to.hints = HintsUsed(q.variant)
    BY <1>1 DEF Request
  <2>2. Go(r, to)
    BY <1>6 DEF ReadHints
  <2> HIDE DEF to
  <2>3. Ready(to)
    BY <1>1, <2>1 DEF Ready
  <2> QED
    BY <1>3, <2>2, <2>3
<1>7. CASE RunChecks(r)
  <2>1. q.op = "grade" /\ q.hints = HintsUsed(q.variant)
    BY <1>1, <1>7 DEF RunChecks, At, Ready
  <2>2. ASSUME NEW res \in {NotRun} \cup {Graded(raw, q.hints, Threshold, PerTier) : raw \in Raws}
        PROVE  Ready([q EXCEPT !.pc = "scored", !.res = res])
    <3> DEFINE to == [q EXCEPT !.pc = "scored", !.res = res]
    <3>1. /\ to.pc = "scored" /\ to.at = q.at /\ to.variant = q.variant
          /\ to.hints = q.hints /\ to.res = res
      BY <1>1 DEF Request
    <3> HIDE DEF to
    <3>2. res.stars = StarsFor(res.score, res.passed, q.hints)
      BY VerdictStars
    <3>3. Ready(to)
      BY <1>1, <2>1, <3>1, <3>2 DEF Ready
    <3> QED
      BY <3>3 DEF to
  <2> QED
    BY <1>3, <1>4, <1>7, <2>2 DEF RunChecks
<1>8. CASE FlushAttempt(r)
  <2>1. Ready([q EXCEPT !.pc = "flushed", !.row = row])
    <3> DEFINE to == [q EXCEPT !.pc = "flushed", !.row = row]
    <3>1. /\ to.pc = "flushed" /\ to.at = q.at /\ to.variant = q.variant /\ to.op = q.op
          /\ to.hints = q.hints /\ to.res = q.res /\ to.old = q.old /\ to.att = q.att
      BY <1>1 DEF Request
    <3> HIDE DEF to
    <3>2. q.pc = "found"
      BY <1>8 DEF FlushAttempt
    <3>3. Ready(to)
      BY <1>1, <3>1, <3>2 DEF Ready, Prepared
    <3> QED
      BY <3>3 DEF to
  <2> QED
    BY <1>3, <1>4, <1>8, <2>1 DEF FlushAttempt
<1>9. CASE LoadRow(r)
  <2>1. Ready([q EXCEPT !.pc = "loaded", !.row = row])
    BY <1>1 DEF Ready, Request
  <2> QED
    BY <1>3, <1>9, <2>1 DEF LoadRow
<1>10. CASE DeleteAttempts(r)
  <2>1. Ready([q EXCEPT !.pc = "deleted", !.gone = attempts, !.left = Topics])
    BY <1>1 DEF Ready, Request
  <2> QED
    BY <1>3, <1>10, <2>1 DEF DeleteAttempts
<1>11. ASSUME NEW to, Go(r, to), q.op \in {"lesson", "reset"}, to.op = q.op, to.at = q.at,
              to.gone = q.gone, to.pc = "deleted" => q.pc = "deleted", to.pc \notin {"found", "flushed"}
       PROVE  TallyInv'
  <2>1. Ready(to)
    BY <1>1, <1>11 DEF Ready
  <2> QED
    BY <1>3, <1>11, <2>1
<1>12. CASE ReadPlacement(r)
  <2> DEFINE to == [q EXCEPT !.pc = "marked", !.locks = @ \cup Written(q), !.res.passed = ~live]
  <2>1. /\ to.pc = "marked" /\ to.op = q.op /\ to.at = q.at /\ to.gone = q.gone /\ q.op = "lesson"
    BY <1>1, <1>12 DEF Request, ReadPlacement, At
  <2>2. Go(r, to) \/ Finish(r)
    BY <1>12 DEF ReadPlacement
  <2> HIDE DEF to
  <2> QED
    BY <1>4, <1>11, <2>1, <2>2
<1>13. CASE FlushPass(r)
  <2> DEFINE to == [q EXCEPT !.pc = "saved", !.locks = @ \cup Written(q), !.left = @ \ {Here}]
  <2>1. /\ to.pc = "saved" /\ to.op = q.op /\ to.at = q.at /\ to.gone = q.gone /\ q.op = "lesson"
    BY <1>1, <1>13 DEF Request, FlushPass, At
  <2>2. Go(r, to) \/ Finish(r)
    BY <1>13 DEF FlushPass
  <2> HIDE DEF to
  <2> QED
    BY <1>4, <1>11, <2>1, <2>2
<1>14. ASSUME NEW t \in Topics, LockElsewhere(r, t) PROVE TallyInv'
  <2> DEFINE to == [q EXCEPT !.left = @ \ {t}, !.locks = @ \cup {t}]
  <2>1. /\ to.pc = q.pc /\ to.op = q.op /\ to.at = q.at /\ to.gone = q.gone /\ q.op = "lesson"
        /\ q.pc \in {"begun", "saved"}
    BY <1>1, <1>14 DEF Request, LockElsewhere
  <2>2. Go(r, to) \/ Finish(r)
    BY <1>14 DEF LockElsewhere
  <2> HIDE DEF to
  <2> QED
    BY <1>4, <1>11, <2>1, <2>2
<1>15. ASSUME NEW t \in Topics, DeleteRow(r, t) PROVE TallyInv'
  <2> DEFINE to(locks) == [q EXCEPT !.left = @ \ {t}, !.locks = locks]
  <2>1. q.op = "reset" /\ q.pc = "deleted"
    BY <1>15 DEF DeleteRow, At
  <2>2. ASSUME NEW locks
        PROVE  to(locks).pc = q.pc /\ to(locks).op = q.op /\ to(locks).at = q.at /\ to(locks).gone = q.gone
    BY <1>1 DEF Request
  <2>3. [q EXCEPT !.left = @ \ {t}] = to(q.locks)
    BY <1>1 DEF Request
  <2>4. Go(r, to(q.locks \cup {t})) \/ Go(r, to(q.locks))
    BY <1>15, <2>3 DEF DeleteRow
  <2> HIDE DEF to
  <2> QED
    BY <1>11, <2>1, <2>2, <2>4
<1> QED
  BY <1>5, <1>6, <1>7, <1>8, <1>9, <1>10, <1>12, <1>13, <1>14, <1>15

-----------------------------------------------------------------------------
(* The steps that write.                                                   *)

(* What the row has of the book after a graded submission. *)
LEMMA GradeEntry ==
  ASSUME TallyInv, NEW r \in Requests, CommitGrade(r), NEW q, q = req[r],
         row' = SavedRow(q, WithSubmission(RowOf(q), q.res))
  PROVE  /\ row'.count = row.count + 1 /\ row'.best = Greater(row.best, q.res.score)
         /\ row'.stars = Greater(row.stars, q.res.stars)
         /\ row.passedAt # Never \/ q.res.passed => row'.passedAt # Never
<1> DEFINE base == RowOf(q)  new == WithSubmission(base, q.res)
<1>1. q \in Request /\ RequestInv(q) /\ q.row = row /\ clock \in Nat /\ clock > 0
  BY TallyTypes DEF CommitGrade, At, Current, RequestInv
<1>2. base \in Progress /\ base.status # "locked"
  BY <1>1, RowOfType DEF Request, RequestInv
<1>3. new \in Progress
  BY <1>1, <1>2, TallyTypes, WithSubmissionType DEF Request, IInv
<1>4. row' = new
  <2> HIDE DEF new
  <2> QED
    BY <1>1, <1>3, WritesThrough DEF new
<1>5. /\ new.count = base.count + 1 /\ new.best = Greater(base.best, q.res.score)
      /\ new.stars = Greater(base.stars, q.res.stars)
      /\ new.passedAt = IF q.res.passed /\ base.passedAt = Never THEN clock ELSE base.passedAt
  BY <1>2 DEF WithSubmission, Progress
<1> HIDE DEF base, new
<1>6. /\ base.count = row.count /\ base.best = row.best
      /\ base.stars = row.stars /\ base.passedAt = row.passedAt
  BY <1>1, SamePage DEF base
<1> QED
  BY <1>1, <1>4, <1>5, <1>6 DEF Never

LEMMA TallyCommitGrade ==
  ASSUME OneAtATime, TallyInv, SerialInv', NEW r \in Requests, CommitGrade(r)
  PROVE  TallyInv'
<1> DEFINE q == req[r]
<1>1. q \in Request /\ RequestInv(q) /\ Ready(q) /\ q.op = "grade" /\ q.pc = "flushed" /\ Finish(r)
  BY TallyTypes DEF CommitGrade, At
<1>2. CASE UNCHANGED <<attempts, row>>
  BY <1>1, <1>2, TallyMoves, IdleIsReady DEF Finish, Go
<1>3. CASE /\ attempts' = SaveAttempt(q.old, q.att)
           /\ row' = SavedRow(q, WithSubmission(RowOf(q), q.res))
  <2>1. /\ q.att \in Attempt /\ attempts' = (attempts \ {q.old}) \cup {q.att}
        /\ \A a \in attempts \ {q.old} : a.at # q.att.at
        /\ RowsInv'
    BY <1>1, <1>3, TallyTypes, RowsAfterSave
  <2>2. /\ q.att.cp /\ q.att.score = q.res.score /\ q.att.passed = q.res.passed
        /\ q.att.hints = q.hints /\ q.old.score = NULL
        /\ q.res.stars = StarsFor(q.res.score, q.res.passed, q.hints)
    BY <1>1 DEF Ready, Prepared
  <2>3. q.att.score # NULL
    BY <1>1, <2>2 DEF Request, Result, Percent, NULL
  <2>4. GradedCheckpoints' = GradedCheckpoints \cup {q.att}
    BY <2>1, <2>2, <2>3, GradedGrow
  <2>5. q.att \notin GradedCheckpoints
    BY <2>1, <2>2, <2>3 DEF GradedCheckpoints
  <2>6. AddsUp'
    <3>1. /\ row'.count = row.count + 1 /\ row'.best = Greater(row.best, q.res.score)
          /\ row'.stars = Greater(row.stars, q.res.stars)
          /\ row.passedAt # Never \/ q.res.passed => row'.passedAt # Never
      BY <1>3, GradeEntry
    <3> HIDE DEF q
    <3> QED
      BY <2>1, <2>2, <2>3, <2>4, <2>5, <3>1, TallyTypes, AddsUpAfter
  <2> QED
    BY <1>1, <2>1, <2>6, TallyEnds
<1> QED
  BY <1>2, <1>3 DEF CommitGrade

LEMMA TallyCommitHint ==
  ASSUME OneAtATime, TallyInv, SerialInv', NEW r \in Requests, CommitHint(r)
  PROVE  TallyInv'
<1> DEFINE q == req[r]
<1>1. /\ q \in Request /\ RequestInv(q) /\ Ready(q) /\ q.op = "hint" /\ q.pc = "found" /\ Finish(r)
      /\ row' = row
  BY TallyTypes DEF CommitHint, At
<1>2. CASE attempts' = attempts
  BY <1>1, <1>2, TallyMoves, IdleIsReady DEF Finish, Go
<1>3. CASE attempts' = SaveAttempt(q.old, q.att)
  <2>1. attempts' = (attempts \ {q.old}) \cup {q.att} /\ RowsInv'
    BY <1>1, <1>3, TallyTypes, RowsAfterSave
  <2>2. q.old.score = NULL /\ q.att.score = NULL
    BY <1>1 DEF Ready, Prepared
  <2>3. GradedCheckpoints' = GradedCheckpoints
    BY <2>1, <2>2, GradedStay
  <2>4. AddsUp'
    BY <1>1, <2>3, TallyTypes, AddsUpStill
  <2> QED
    BY <1>1, <2>1, <2>4, TallyEnds
<1> QED
  BY <1>2, <1>3 DEF CommitHint

LEMMA TallyCommitPractice ==
  ASSUME OneAtATime, TallyInv, SerialInv', NEW r \in Requests, CommitPractice(r)
  PROVE  TallyInv'
<1> DEFINE q == req[r]
<1>1. /\ q \in Request /\ RequestInv(q) /\ Ready(q) /\ q.op = "practice" /\ q.pc = "flushed" /\ Finish(r)
  BY TallyTypes DEF CommitPractice, At
<1>2. CASE UNCHANGED <<attempts, row>>
  BY <1>1, <1>2, TallyMoves, IdleIsReady DEF Finish, Go
<1>3. CASE attempts' = SaveAttempt(q.old, q.att)
  <2>1. attempts' = (attempts \ {q.old}) \cup {q.att} /\ RowsInv'
    BY <1>1, <1>3, TallyTypes, RowsAfterSave
  <2>2. ~q.old.cp /\ ~q.att.cp
    BY <1>1 DEF Ready, Prepared
  <2>3. GradedCheckpoints' = GradedCheckpoints
    BY <2>1, <2>2, GradedStay
  <2>4. UNCHANGED Book!book
    BY TallyTypes, PracticeStaysOut
  <2>5. AddsUp'
    BY <2>3, <2>4, TallyTypes, AddsUpStill DEF Book!book
  <2> QED
    BY <1>1, <2>1, <2>5, TallyEnds
<1> QED
  BY <1>2, <1>3 DEF CommitPractice

LEMMA TallyCommitLesson ==
  ASSUME OneAtATime, TallyInv, SerialInv', NEW r \in Requests, CommitLesson(r)
  PROVE  TallyInv'
<1>1. Finish(r) /\ attempts' = attempts
  BY DEF CommitLesson
<1>2. Book!Brief \/ UNCHANGED Book!book
  BY TallyTypes, LessonBriefs
<1>3. GradedCheckpoints' = GradedCheckpoints
  BY <1>1 DEF GradedCheckpoints
<1>4. AddsUp'
  BY <1>2, <1>3, TallyTypes, AddsUpStill DEF Book!Brief, Book!book
<1>5. RowsInv'
  BY <1>1, TallyTypes DEF RowsInv
<1> QED
  BY <1>1, <1>4, <1>5, TallyEnds

(* Alone, a reset deletes every row. *)
LEMMA NothingIsLeft ==
  ASSUME TallyInv, NEW r \in Requests, CommitReset(r)
  PROVE  attempts' = {} /\ row' = NoRow
BY TallyTypes, RowIsCleared DEF CommitReset, At, Ready

LEMMA EmptyAddsUp ==
  ASSUME attempts = {}, row = NoRow
  PROVE  RowsInv /\ AddsUp
<1>1. GradedCheckpoints = {}
  BY DEF GradedCheckpoints
<1>2. Cardinality({}) = 0 /\ IsFiniteSet({})
  BY FS_EmptySet
<1>3. ScoresOf({}) = {} /\ StarsOf({}) = {}
  BY DEF ScoresOf, StarsOf
<1>4. row.count = 0 /\ row.best = 0 /\ row.stars = 0
  BY DEF NoRow
<1> QED
  BY <1>1, <1>2, <1>3, <1>4 DEF RowsInv, AddsUp, IsLargest

LEMMA TallyCommitReset ==
  ASSUME OneAtATime, TallyInv, SerialInv', NEW r \in Requests, CommitReset(r)
  PROVE  TallyInv'
<1>1. RowsInv' /\ AddsUp'
  <2>1. (attempts = {} /\ row = NoRow => RowsInv /\ AddsUp)'
    BY EmptyAddsUp, PTL
  <2> QED
    BY <2>1, NothingIsLeft
<1> QED
  BY <1>1, TallyEnds DEF CommitReset

LEMMA TallyInit == Init => TallyInv
<1> SUFFICES ASSUME Init PROVE TallyInv
  OBVIOUS
<1>1. RowsInv /\ AddsUp
  BY EmptyAddsUp DEF Init
<1>2. \A r \in Requests : Ready(req[r])
  BY IdleIsReady DEF Init
<1> QED
  BY <1>1, <1>2, SerialInit DEF TallyInv

LEMMA TallyInductive ==
  ASSUME OneAtATime, TallyInv, [Next]_vars
  PROVE  TallyInv'
<1>1. SerialInv'
  BY TallyTypes, SerialStep
<1>2. ASSUME NEW r \in Requests, Begin(r) PROVE TallyInv'
  BY <1>1, <1>2, TallyBegin
<1>3. ASSUME NEW r \in Requests, Step(r) PROVE TallyInv'
  BY <1>1, <1>3, TallyFindAttempt, TallyFindOpen, TallyFindPractice, TallyReads, TallyCommitGrade,
     TallyCommitHint, TallyCommitPractice, TallyCommitLesson, TallyCommitReset DEF Step
<1>5. ASSUME NEW r \in Requests, DeadlockDetected(r) PROVE TallyInv'
  BY <1>1, <1>5, TallyMoves, IdleIsReady DEF DeadlockDetected, Finish, Go
<1>4. CASE UNCHANGED <<attempts, row, req>>
  BY <1>1, <1>4 DEF TallyInv, RowsInv, AddsUp, GradedCheckpoints, Ready, Prepared, HintsUsed, LatestAttempt
<1> QED
  BY <1>2, <1>3, <1>4, <1>5 DEF Next, SetStatus, Wait, TimeIsUp, vars

(* docs/DATABASE.md, "summary row, written with each attempt": when the requests of a learner *)
(* come one at a time, the row always says what the stored attempts add up to: how many were  *)
(* graded, the best score, the most stars, and the pass; also after hints that reopen a        *)
(* variant, practice, briefings and resets.                                                     *)
THEOREM SummaryAddsUp == ASSUME OneAtATime PROVE Spec => []SummaryMatchesAttempts
<1>1. TallyInv => SummaryMatchesAttempts
  <2> SUFFICES ASSUME TallyInv PROVE SummaryMatchesAttempts
    OBVIOUS
  <2>1. ScoresOf(GradedCheckpoints) \in SUBSET Int /\ StarsOf(GradedCheckpoints) \in SUBSET Int
    BY TallyTypes DEF ScoresOf, StarsOf, StarsFor, GradedCheckpoints, Attempt, Percent
  <2>2. /\ row.best = Largest(ScoresOf(GradedCheckpoints))
        /\ row.stars = Largest(StarsOf(GradedCheckpoints))
    BY <2>1, TallyTypes, LargestIs DEF AddsUp
  <2> QED
    BY <2>2, TallyTypes DEF AddsUp, SummaryMatchesAttempts, ScoresOf, StarsOf
<1>2. TallyInv /\ [Next]_vars => TallyInv'
  BY TallyInductive
<1> QED
  BY <1>1, <1>2, TallyInit, PTL DEF Spec

-----------------------------------------------------------------------------
(* The hints.  A row of one kind has variants of its kind; the newest row  *)
(* on a checkpoint variant carries the highest hint given out on it.       *)

VariantsApart == Checkpoint \cap Practised = {}

ChargeInv ==
  /\ TallyInv
  /\ \A a \in attempts : a.cp \/ a.variant \notin Checkpoint
  /\ \A v \in Checkpoint : shown[v] = HintsUsed(v)
  /\ EveryHintIsCharged

(* The variants whose rows stay keep their newest row. *)
LEMMA OtherVariantsKeep ==
  ASSUME NEW v, \A a : a.variant = v => (a \in attempts <=> a \in attempts')
  PROVE  HintsUsed(v)' = HintsUsed(v)
<1>1. {a \in attempts' : a.variant = v} = {a \in attempts : a.variant = v}
  OBVIOUS
<1> QED
  BY <1>1 DEF HintsUsed, LatestAttempt

(* A checkpoint row that is saved becomes the newest one on its variant. *)
LEMMA HintsAfterSave ==
  ASSUME TallyInv, IInv', NEW r \in Requests, NEW q, q = req[r], q.op \in {"grade", "hint"},
         q.pc \in {"found", "flushed"}, attempts' = SaveAttempt(q.old, q.att)
  PROVE  /\ HintsUsed(q.variant)' = q.att.hints
         /\ \A v : v # q.variant => HintsUsed(v)' = HintsUsed(v)
<1>1. q \in Request /\ RequestInv(q) /\ Ready(q) /\ Prepared(q)
  BY TallyTypes DEF Ready
<1>2. /\ q.att \in Attempt /\ attempts' = (attempts \ {q.old}) \cup {q.att}
  BY <1>1, TallyTypes, RowsAfterSave
<1>3. \A b \in attempts \ {q.old} : b.variant = q.variant => b.at < q.att.at
  <2>1. \A b \in attempts : b.at \in Nat /\ b.at < q.at
    BY <1>1, TallyTypes DEF Ready, Attempt
  <2>2. CASE q.old = NoAttempt
    BY <1>1, <2>1, <2>2 DEF Prepared
  <2>3. CASE q.old # NoAttempt
    <3>1. q.old = LatestAttempt(q.variant) /\ q.old \in attempts /\ q.att.at = q.old.at
      BY <1>1, <2>3 DEF Prepared
    <3>2. \A b \in attempts : b.variant = q.variant => b.at <= q.old.at
      BY <3>1, TallyTypes, LatestIsNewest
    <3>3. \A b \in attempts \ {q.old} : b.at # q.old.at
      BY <3>1, TallyTypes DEF RowsInv
    <3> QED
      BY <2>1, <3>1, <3>2, <3>3
  <2> QED
    BY <2>2, <2>3
<1>4. q.att.variant = q.variant /\ (q.old # NoAttempt => q.old.variant = q.variant)
  <2>1. q.old # NoAttempt => q.old = LatestAttempt(q.variant) /\ q.old \in attempts
    BY <1>1 DEF Prepared
  <2>2. q.old # NoAttempt => q.old.variant = q.variant
    BY <2>1, TallyTypes, LatestIsNewest
  <2> QED
    BY <1>1, <2>2 DEF Prepared
<1>5. HintsUsed(q.variant)' = q.att.hints
  <2> DEFINE rows == {a \in attempts' : a.variant = q.variant}
  <2>1. q.att \in rows /\ \A b \in rows : b # q.att => b.at < q.att.at
    BY <1>2, <1>3, <1>4
  <2>2. rows \in SUBSET Attempt /\ clock' \in Nat /\ \A b \in rows : b.at <= clock'
    BY DEF IInv, DataInv, TypeOK
  <2>3. Newest(rows) = q.att /\ rows # {}
    <3> HIDE DEF rows
    <3> QED
      BY <2>1, <2>2, NewestIs
  <2>4. LatestAttempt(q.variant)' = Newest(rows)
    BY <2>3 DEF LatestAttempt, Newest
  <2> QED
    BY <2>3, <2>4 DEF HintsUsed
<1>6. ASSUME NEW v, v # q.variant PROVE HintsUsed(v)' = HintsUsed(v)
  <2>1. \A a : a.variant = v => (a \in attempts <=> a \in attempts')
    BY <1>2, <1>4, <1>6, TallyTypes
  <2> QED
    BY <2>1, OtherVariantsKeep
<1> QED
  BY <1>5, <1>6

LEMMA ChargeInit == Init => ChargeInv
<1> SUFFICES ASSUME Init PROVE ChargeInv
  OBVIOUS
<1>1. \A v : HintsUsed(v) = 0
  BY DEF Init, HintsUsed, LatestAttempt, NoAttempt
<1> QED
  BY <1>1, TallyInit DEF Init, ChargeInv, EveryHintIsCharged

(* Steps that touch neither the attempts nor the history of hints. *)
LEMMA ChargeStays ==
  ASSUME ChargeInv, TallyInv', UNCHANGED <<attempts, shown, ledger>>
  PROVE  ChargeInv'
<1>1. \A v : HintsUsed(v)' = HintsUsed(v)
  BY DEF HintsUsed, LatestAttempt
<1> QED
  BY <1>1 DEF ChargeInv, EveryHintIsCharged

LEMMA ChargeCommitGrade ==
  ASSUME ChargeInv, TallyInv', NEW r \in Requests, CommitGrade(r)
  PROVE  ChargeInv'
<1>0. PICK q : q = req[r]
  OBVIOUS
<1>1. /\ q \in Request /\ RequestInv(q) /\ Ready(q) /\ q.op = "grade" /\ q.pc = "flushed"
      /\ shown' = shown /\ q.variant \in Checkpoint /\ TallyInv /\ IInv'
  BY <1>0, TallyTypes DEF CommitGrade, At, ChargeInv, RequestInv, TallyInv, SerialInv
<1>2. CASE UNCHANGED <<attempts, ledger>>
  BY <1>1, <1>2, ChargeStays
<1>3. CASE /\ attempts' = SaveAttempt(q.old, q.att)
           /\ ledger' = ledger \cup {[n |-> Cardinality(ledger) + 1, score |-> q.res.score,
                passed |-> q.res.passed, hints |-> q.hints, owed |-> shown[q.variant]]}
  <2>1. /\ HintsUsed(q.variant)' = q.att.hints
        /\ \A v : v # q.variant => HintsUsed(v)' = HintsUsed(v)
    BY <1>0, <1>1, <1>3, HintsAfterSave
  <2>2. q.att.cp /\ q.att.hints = q.hints /\ q.hints = HintsUsed(q.variant)
    BY <1>1 DEF Ready, Prepared
  <2>3. q.hints = shown[q.variant]
    BY <1>1, <2>2 DEF ChargeInv
  <2>4. \A a \in attempts' : a.cp \/ a.variant \notin Checkpoint
    <3>1. attempts' = (attempts \ {q.old}) \cup {q.att}
      BY <1>1, <1>3, TallyTypes, RowsAfterSave
    <3> QED
      BY <2>2, <3>1 DEF ChargeInv
  <2>5. \A v \in Checkpoint : shown'[v] = HintsUsed(v)'
    BY <1>1, <2>1, <2>2, <2>3 DEF ChargeInv
  <2>6. EveryHintIsCharged'
    <3> QED
      BY <1>3, <2>3 DEF ChargeInv, EveryHintIsCharged
  <2> QED
    BY <2>4, <2>5, <2>6 DEF ChargeInv
<1> QED
  BY <1>0, <1>2, <1>3 DEF CommitGrade

LEMMA ChargeCommitHint ==
  ASSUME ChargeInv, TallyInv', NEW r \in Requests, CommitHint(r)
  PROVE  ChargeInv'
<1>0. PICK q : q = req[r]
  OBVIOUS
<1>1. /\ q \in Request /\ RequestInv(q) /\ Ready(q) /\ q.op = "hint" /\ q.pc = "found"
      /\ ledger' = ledger /\ q.variant \in Checkpoint /\ TallyInv /\ IInv'
  BY <1>0, TallyTypes DEF CommitHint, At, ChargeInv, RequestInv, TallyInv, SerialInv
<1>2. CASE UNCHANGED <<attempts, shown>>
  BY <1>1, <1>2, ChargeStays
<1>3. CASE /\ attempts' = SaveAttempt(q.old, q.att)
           /\ shown' = [shown EXCEPT ![q.variant] = Greater(@, q.hints)]
  <2>1. /\ HintsUsed(q.variant)' = q.att.hints
        /\ \A v : v # q.variant => HintsUsed(v)' = HintsUsed(v)
    BY <1>0, <1>1, <1>3, HintsAfterSave
  <2>2. q.att.cp /\ q.att.hints = Greater(HintsUsed(q.variant), q.hints)
    BY <1>1 DEF Ready, Prepared
  <2>3. \A a \in attempts' : a.cp \/ a.variant \notin Checkpoint
    <3>1. attempts' = (attempts \ {q.old}) \cup {q.att}
      BY <1>1, <1>3, TallyTypes, RowsAfterSave
    <3> QED
      BY <2>2, <3>1 DEF ChargeInv
  <2>4. \A v \in Checkpoint : shown'[v] = HintsUsed(v)'
    <3>1. shown \in [Checkpoint -> {0} \cup Tiers]
      BY TallyTypes DEF ChargeInv, IInv, DataInv, TypeOK
    <3>2. shown[q.variant] = HintsUsed(q.variant)
      BY <1>1 DEF ChargeInv
    <3>3. \A v \in Checkpoint : shown[v] = HintsUsed(v)
      BY DEF ChargeInv
    <3>4. \A v \in Checkpoint : shown'[v] = IF v = q.variant THEN q.att.hints ELSE shown[v]
      BY <1>3, <2>2, <3>1, <3>2
    <3> QED
      BY <2>1, <3>3, <3>4
  <2>5. EveryHintIsCharged'
    BY <1>1 DEF ChargeInv, EveryHintIsCharged
  <2> QED
    BY <2>3, <2>4, <2>5 DEF ChargeInv
<1> QED
  BY <1>0, <1>2, <1>3 DEF CommitHint

(* Practice has its own variants, so it hides no checkpoint row. *)
LEMMA ChargeCommitPractice ==
  ASSUME VariantsApart, ChargeInv, TallyInv', NEW r \in Requests, CommitPractice(r)
  PROVE  ChargeInv'
<1>0. PICK q : q = req[r]
  OBVIOUS
<1>1. /\ q \in Request /\ RequestInv(q) /\ Ready(q) /\ q.op = "practice" /\ q.pc = "flushed"
      /\ UNCHANGED <<shown, ledger>> /\ q.variant \in Practised /\ TallyInv
  BY <1>0, TallyTypes DEF CommitPractice, At, ChargeInv, RequestInv, history
<1>2. CASE attempts' = attempts
  BY <1>1, <1>2, ChargeStays
<1>3. CASE attempts' = SaveAttempt(q.old, q.att)
  <2>1. attempts' = (attempts \ {q.old}) \cup {q.att}
    BY <1>1, <1>3, TallyTypes, RowsAfterSave
  <2>2. /\ q.att.variant = q.variant /\ ~q.old.cp
        /\ q.old # NoAttempt => q.old \in attempts
    BY <1>1 DEF Ready, Prepared
  <2>3. q.att.variant \notin Checkpoint
    BY <1>1, <2>2 DEF VariantsApart
  <2>4. q.old \in attempts => q.old.variant \notin Checkpoint
    BY <2>2 DEF ChargeInv
  <2>5. ASSUME NEW v \in Checkpoint PROVE HintsUsed(v)' = HintsUsed(v)
    <3>1. \A a : a.variant = v => (a \in attempts <=> a \in attempts')
      BY <2>1, <2>3, <2>4, <2>5
    <3> QED
      BY <3>1, OtherVariantsKeep
  <2>6. \A a \in attempts' : a.cp \/ a.variant \notin Checkpoint
    BY <2>1, <2>3 DEF ChargeInv
  <2> QED
    BY <1>1, <2>5, <2>6 DEF ChargeInv, EveryHintIsCharged
<1> QED
  BY <1>0, <1>2, <1>3 DEF CommitPractice

LEMMA ChargeCommitReset ==
  ASSUME ChargeInv, TallyInv', NEW r \in Requests, CommitReset(r)
  PROVE  ChargeInv'
<1>1. attempts' = {}
  BY NothingIsLeft DEF ChargeInv
<1>2. \A v \in Checkpoint : shown'[v] = 0
  BY DEF CommitReset
<1>3. \A v : HintsUsed(v)' = 0
  BY <1>1 DEF HintsUsed, LatestAttempt, NoAttempt
<1>4. ledger' = ledger
  BY DEF CommitReset
<1> QED
  BY <1>1, <1>2, <1>3, <1>4 DEF ChargeInv, EveryHintIsCharged

LEMMA ChargeInductive ==
  ASSUME OneAtATime, VariantsApart, ChargeInv, [Next]_vars
  PROVE  ChargeInv'
<1>1. TallyInv'
  BY TallyInductive DEF ChargeInv
<1>2. ASSUME NEW r \in Requests, Step(r) PROVE ChargeInv'
  <2>1. CASE UNCHANGED <<attempts, shown, ledger>>
    BY <1>1, <2>1, ChargeStays
  <2>2. CASE CommitGrade(r) \/ CommitHint(r) \/ CommitPractice(r) \/ CommitReset(r)
    BY <1>1, <2>2, ChargeCommitGrade, ChargeCommitHint, ChargeCommitPractice, ChargeCommitReset
  <2> QED
    BY <1>2, <2>1, <2>2 DEF Step, CheckCooldown, ReadHints, RunChecks, FindAttempt, FlushAttempt,
       FindOpen, FindPractice, LoadRow, ReadPlacement, FlushPass, LockElsewhere, CommitLesson,
       DeleteAttempts, DeleteRow, history
<1>3. CASE UNCHANGED <<attempts, shown, ledger>>
  BY <1>1, <1>3, ChargeStays
<1> QED
  BY <1>2, <1>3 DEF Next, Begin, DeadlockDetected, SetStatus, Wait, TimeIsUp, vars, history

(* hints_used, record_hint and latest_attempt together: when the requests of a learner come  *)
(* one at a time, every saved submission is charged for the highest hint given out on its    *)
(* variant since the last reset.  The hypothesis is needed: latest_attempt does not look at   *)
(* the kind of a row, so a practice row on a variant of the checkpoint would hide its hints.  *)
THEOREM HintsAreCharged ==
  ASSUME OneAtATime, VariantsApart PROVE Spec => []EveryHintIsCharged
<1>1. ChargeInv => EveryHintIsCharged
  BY DEF ChargeInv
<1>2. ChargeInv /\ [Next]_vars => ChargeInv'
  BY ChargeInductive
<1> QED
  BY <1>1, <1>2, ChargeInit, PTL DEF Spec
=============================================================================
