-------------------------- MODULE LearnerProgress --------------------------
(***************************************************************************)
(* One learner on one topic: the rows of tables "attempts" and             *)
(* "topic_progress", and the requests that read and write them             *)
(* (app/services/progress_service.py, grading_service.py,                  *)
(* app/repositories/progress_repository.py, the progress reset of          *)
(* admin_service.py).                                                      *)
(*                                                                         *)
(* Every request is one database transaction at READ COMMITTED: it reads   *)
(* committed rows, keeps the ORM objects it loaded, and at a flush writes  *)
(* only the columns it changed.  A step below is what happens between two  *)
(* awaits that other requests can see or be seen at.  attempts.created_at  *)
(* is the start time of the inserting transaction, so it also identifies   *)
(* the row: no two requests start at the same tick of clock.               *)
(*                                                                         *)
(* An import marks several topics in one transaction and a reset deletes   *)
(* the rows of all of them.  The rows modelled are those of topic Here; of *)
(* the other topics' summary rows only the row locks are kept.             *)
(***************************************************************************)
EXTENDS Scoring, FiniteSets, Functions

CONSTANTS
  Requests,        \* requests in flight at once
  Topics,          \* topics that have a summary row, or are given one
  Here,            \* the topic whose rows are modelled
  Checkpoint,      \* variants (version, seed) of the topic's checkpoint game
  Practised,       \* variants, of any game of the topic, that are played in the browser
  NoVariant,       \* the variant field of an absent row
  Calls,           \* operations that are called in this instance
  Tiers,           \* hint tiers
  Raws,            \* percentages of tests that a graded run can pass
  PracticeScores,  \* self-reported scores
  Threshold,       \* topics.pass_threshold
  PerTier,         \* hint_penalty_per_tier
  Cooldown,        \* topics.retest_cooldown_minutes, in ticks (0: off)
  MaxClock         \* bound: ticks (and so requests) in a behaviour

Percent  == 0..100
AllCalls == {"grade", "hint", "practice", "lesson", "reset", "status"}

ASSUME CallsAssumption == Calls \subseteq AllCalls
ASSUME HereAssumption == Here \in Topics
ASSUME VariantAssumption == NoVariant \notin Checkpoint \cup Practised
ASSUME ScoreAssumption ==
  /\ Raws \subseteq Percent /\ PracticeScores \subseteq Percent
  /\ Threshold \in Percent /\ PerTier \in Nat
ASSUME TierAssumption == Tiers \subseteq Nat \ {0}
ASSUME ClockAssumption == Cooldown \in Nat /\ MaxClock \in Nat

VARIABLES
  attempts,  \* the committed rows of table attempts
  row,       \* the committed row of table topic_progress, or NoRow
  live,      \* the topic's checkpoint game is published
  clock,     \* now
  req,       \* what each request has read and is about to write
  ledger,    \* history: every saved checkpoint submission, in order of commit
  shown,     \* history: highest hint tier given out on each variant since the last reset
  earned,    \* history: how the topic was passed since its row was last deleted
  era        \* history: number of progress resets

history == <<ledger, shown, earned, era>>
vars    == <<attempts, row, live, clock, req, ledger, shown, earned, era>>

-----------------------------------------------------------------------------
(* Rows.  A NULL score is -1, a NULL time is 0.                            *)

Variants == Checkpoint \cup Practised
NULL     == -1
Never    == 0

Attempt == [at : Nat, variant : Variants, cp : BOOLEAN,
            score : Percent \cup {NULL}, passed : BOOLEAN, hints : {0} \cup Tiers]
NoAttempt == [at |-> Never, variant |-> NoVariant, cp |-> FALSE,
              score |-> NULL, passed |-> FALSE, hints |-> 0]

(* "locked" is what the API shows for a missing row; no stored row has it. *)
Progress == [status : {"locked", "unlocked", "passed"}, best : Percent, stars : 0..3,
             count : Nat, passedAt : Nat, lessonAt : Nat]
NoRow    == [status |-> "locked", best |-> 0, stars |-> 0,
             count |-> 0, passedAt |-> Never, lessonAt |-> Never]
Fresh    == [NoRow EXCEPT !.status = "unlocked"]

GameOf(v) == IF v \in Checkpoint THEN "checkpoint" ELSE "practice"

Newest(rows) == CHOOSE a \in rows : \A b \in rows : b.at <= a.at

(* latest_attempt: the newest row on the variant, whatever kind it is. *)
LatestAttempt(v) ==
  LET rows == {a \in attempts : a.variant = v}
  IN  IF rows = {} THEN NoAttempt ELSE Newest(rows)

(* graded_checkpoints *)
GradedCheckpoints == {a \in attempts : a.cp /\ a.score # NULL}

(* practice_attempt: LIMIT 1 without an order, so any of several. *)
PracticeRows(v) == {a \in attempts : ~a.cp /\ GameOf(a.variant) = GameOf(v)}

(* An UPDATE carries a column only when the request changed it. *)
Column(current, loaded, new) == IF new = loaded THEN current ELSE new

MergedAttempt(current, loaded, new) ==
  [current EXCEPT !.variant = Column(@, loaded.variant, new.variant),
                  !.score   = Column(@, loaded.score, new.score),
                  !.passed  = Column(@, loaded.passed, new.passed),
                  !.hints   = Column(@, loaded.hints, new.hints)]

(* Mutant of MergedRow: the whole loaded row is written back. *)
WholeRow(current, loaded, new) == new

MergedRow(current, loaded, new) ==
  [status   |-> Column(current.status, loaded.status, new.status),
   best     |-> Column(current.best, loaded.best, new.best),
   stars    |-> Column(current.stars, loaded.stars, new.stars),
   count    |-> Column(current.count, loaded.count, new.count),
   passedAt |-> Column(current.passedAt, loaded.passedAt, new.passedAt),
   lessonAt |-> Column(current.lessonAt, loaded.lessonAt, new.lessonAt)]

-----------------------------------------------------------------------------
(* Requests.  old is the attempt as loaded, att as it is to be written,    *)
(* row the topic_progress row as loaded, gone the attempts a reset deletes,*)
(* left the topics that an import or a reset has yet to come to, locks     *)
(* those whose row it has written or deleted.                              *)

Idle == [op |-> "none", pc |-> "idle", at |-> 0, variant |-> NoVariant, hints |-> 0,
         res |-> NotRun, old |-> NoAttempt, att |-> NoAttempt, row |-> NoRow,
         gone |-> {}, left |-> {}, locks |-> {}]

At(r, op, pc) == req[r].op = op /\ req[r].pc = pc

Finish(r) == req' = [req EXCEPT ![r] = Idle]
Go(r, q)  == req' = [req EXCEPT ![r] = q]

(* The attempt is to be UPDATEd: it was loaded and a column differs. *)
Updates(q) == q.old # NoAttempt /\ q.att # q.old

Stored(at) == \E a \in attempts : a.at = at

SaveAttempt(old, new) ==
  IF old = NoAttempt THEN attempts \cup {new}
  ELSE {IF a.at = old.at THEN MergedAttempt(a, old, new) ELSE a : a \in attempts}

(* Mutant of RowOf: a row is made although there is one. *)
AlwaysFresh(q) == Fresh

(* topic_progress(): the loaded row, or a new one with nothing in it. *)
RowOf(q) == IF q.row = NoRow THEN Fresh ELSE q.row

(* A lesson that has its time still to write, and one that has the pass still to write. *)
Unbriefed(q) == q.row.lessonAt = Never
PassesNow(q) == q.res.passed /\ ~(q.row.status = "passed" /\ q.row.passedAt # Never)

(* The next flush of the request writes the row of Here. *)
WritesRow(q) ==
  \/ q.op = "grade" /\ q.pc = "flushed"
  \/ q.op = "practice" /\ q.pc = "flushed" /\ q.row = NoRow
  \/ q.op = "lesson" /\ q.pc = "loaded" /\ Unbriefed(q)
  \/ q.op = "lesson" /\ q.pc = "marked" /\ PassesNow(q) /\ Here \notin q.locks

(* That flush: an INSERT meets the primary key when another request created the row  *)
(* first (IntegrityError), an UPDATE of a deleted row matches nothing                *)
(* (StaleDataError).                                                                 *)
RowSaves(q)      == WritesRow(q) => (q.row = NoRow <=> row = NoRow)
SavedRow(q, new) == IF q.row = NoRow THEN new ELSE MergedRow(row, q.row, new)

-----------------------------------------------------------------------------
(* Row locks, kept to the end of the transaction.  A lock is named by its topic, or by *)
(* the time of its attempt.                                                            *)

(* Mutant of Holds: the attempt is locked from the read on. *)
HoldsFromRead(q, x) ==
  x \in q.locks \/ (q.pc \in {"found", "flushed"} /\ q.old.at = x)

(* What a request has written or deleted: topic rows, the attempt it updates, and all of *)
(* them for a reset.                                                                     *)
Holds(q, x) ==
  \/ x \in q.locks
  \/ q.pc = "flushed" /\ Updates(q) /\ q.old.at = x
  \/ q.pc = "deleted" /\ \E a \in q.gone : a.at = x

(* What the next statement waits for, when another request holds it.  An INSERT waits for *)
(* whoever has inserted the same key; an UPDATE or a DELETE only meets rows that have     *)
(* been committed.  An import has the client's order of topics, a DELETE the table's.     *)
Wants(q) ==
  CASE q.pc = "found" /\ Updates(q)              -> {q.old.at}
    [] q.op = "reset" /\ q.pc = "begun"          -> {a.at : a \in attempts}
    [] q.op = "reset" /\ q.pc = "deleted"        -> {t \in q.left : t = Here => row # NoRow}
    [] q.op = "lesson" /\ q.pc \in {"begun", "saved"} -> q.left \ {Here}
    [] WritesRow(q)                              -> {t \in {Here} : q.row = NoRow \/ row # NoRow}
    [] OTHER                                     -> {}

Free(r, x)  == \A s \in Requests \ {r} : ~Holds(req[s], x)
AllFree(r)  == \A x \in Wants(req[r]) : Free(r, x)
Waits(r, s) == s # r /\ \E x \in Wants(req[r]) : Holds(req[s], x)

-----------------------------------------------------------------------------
Init ==
  /\ attempts = {} /\ row = NoRow /\ live \in BOOLEAN /\ clock = 0
  /\ req = [r \in Requests |-> Idle]
  /\ ledger = {} /\ shown = [v \in Checkpoint |-> 0] /\ earned = {} /\ era = 0

Sent(op, variant, hints, res) ==
  [Idle EXCEPT !.op = op, !.pc = "begun", !.at = clock + 1, !.variant = variant,
               !.hints = hints, !.res = res]

(* The request arrives: the user (and the version of the attempt token) is read, which *)
(* starts the transaction.                                                             *)
Begin(r) ==
  /\ req[r].pc = "idle" /\ clock < MaxClock
  /\ clock' = clock + 1
  /\ \/ "grade" \in Calls /\ \E v \in Checkpoint : Go(r, Sent("grade", v, 0, NotRun))
     \/ "hint" \in Calls /\ \E v \in Checkpoint, tier \in Tiers : Go(r, Sent("hint", v, tier, NotRun))
     \/ "practice" \in Calls /\ \E v \in Practised, passed \in BOOLEAN, score \in PracticeScores :
          Go(r, Sent("practice", v, 0, [score |-> score, passed |-> passed, stars |-> 0]))
     \/ "lesson" \in Calls /\ \E others \in SUBSET (Topics \ {Here}) :
          Go(r, [Sent("lesson", NoVariant, 0, NotRun) EXCEPT !.left = {Here} \cup others])
     \/ "reset" \in Calls /\ Go(r, Sent("reset", NoVariant, 0, NotRun))
  /\ UNCHANGED <<attempts, row, live, history>>

-----------------------------------------------------------------------------
(* POST /games/{slug}/grade: grade, ensure_can_retest, record_checkpoint   *)

(* When a retest opens after the newest graded row, if that one failed. *)
RetryAt ==
  IF GradedCheckpoints = {} \/ Cooldown = 0 THEN Never
  ELSE LET newest == Newest(GradedCheckpoints)
       IN  IF newest.passed THEN Never ELSE newest.at + Cooldown

CheckCooldown(r) ==
  /\ At(r, "grade", "begun")
  /\ IF RetryAt > clock THEN Finish(r) ELSE Go(r, [req[r] EXCEPT !.pc = "allowed"])
  /\ UNCHANGED <<attempts, row, live, clock, history>>

(* hints_used: the hints this submission is charged for. *)
HintsUsed(v) == LatestAttempt(v).hints

ReadHints(r) ==
  /\ At(r, "grade", "allowed")
  /\ Go(r, [req[r] EXCEPT !.pc = "running", !.hints = HintsUsed(req[r].variant)])
  /\ UNCHANGED <<attempts, row, live, clock, history>>

(* run_checks returns: "rejected" and "crashed" are answered and not saved. *)
RunChecks(r) ==
  /\ At(r, "grade", "running")
  /\ \/ Finish(r)
     \/ \E res \in {NotRun} \cup {Graded(raw, req[r].hints, Threshold, PerTier) : raw \in Raws} :
          Go(r, [req[r] EXCEPT !.pc = "scored", !.res = res])
  /\ UNCHANGED <<attempts, row, live, clock, history>>

(* The open attempt of the variant with the result on it, or a new row. *)
Scored(q, found) ==
  IF found = NoAttempt \/ found.score # NULL
  THEN [at |-> q.at, variant |-> q.variant, cp |-> TRUE,
        score |-> q.res.score, passed |-> q.res.passed, hints |-> q.hints]
  ELSE [found EXCEPT !.score = q.res.score, !.passed = q.res.passed]

Loaded(found) == IF found # NoAttempt /\ found.score = NULL THEN found ELSE NoAttempt

FindAttempt(r) ==
  /\ At(r, "grade", "scored")
  /\ LET found == LatestAttempt(req[r].variant)
     IN  Go(r, [req[r] EXCEPT !.pc = "found", !.old = Loaded(found), !.att = Scored(req[r], found)])
  /\ UNCHANGED <<attempts, row, live, clock, history>>

(* topic_progress(): the query first flushes the attempt.  The UPDATE waits for the row  *)
(* lock; when the row is gone the request fails (StaleDataError).  Then the row is read. *)
FlushAttempt(r) ==
  LET q == req[r] IN
  /\ q.pc = "found" /\ q.op \in {"grade", "practice"}
  /\ AllFree(r)
  /\ IF Updates(q) => Stored(q.old.at)
     THEN Go(r, [q EXCEPT !.pc = "flushed", !.row = row])
     ELSE Finish(r)
  /\ UNCHANGED <<attempts, row, live, clock, history>>

(* Mutants of WithSubmission: the last score instead of the best; a fail takes the pass back. *)
LastScore(base, res) ==
  [base EXCEPT !.count    = @ + 1,
               !.best     = res.score,
               !.stars    = Greater(@, res.stars),
               !.status   = IF res.passed THEN "passed" ELSE @,
               !.passedAt = IF res.passed /\ @ = Never THEN clock ELSE @]
PassTakenBack(base, res) ==
  [base EXCEPT !.count    = @ + 1,
               !.best     = Greater(@, res.score),
               !.stars    = Greater(@, res.stars),
               !.status   = IF res.passed THEN "passed" ELSE "unlocked",
               !.passedAt = IF res.passed THEN clock ELSE Never]

(* What record_checkpoint makes of the loaded row. *)
WithSubmission(base, res) ==
  [base EXCEPT !.count    = @ + 1,
               !.best     = Greater(@, res.score),
               !.stars    = Greater(@, res.stars),
               !.status   = IF res.passed THEN "passed" ELSE @,
               !.passedAt = IF res.passed /\ @ = Never THEN clock ELSE @]

CommitGrade(r) ==
  LET q == req[r] IN
  /\ At(r, "grade", "flushed") /\ AllFree(r)
  /\ IF RowSaves(q)
     THEN /\ attempts' = SaveAttempt(q.old, q.att)
          /\ row' = SavedRow(q, WithSubmission(RowOf(q), q.res))
          /\ ledger' = ledger \cup {[n |-> Cardinality(ledger) + 1, score |-> q.res.score,
               passed |-> q.res.passed, hints |-> q.hints, owed |-> shown[q.variant]]}
          /\ earned' = IF q.res.passed THEN earned \cup {"checkpoint"} ELSE earned
     ELSE UNCHANGED <<attempts, row, ledger, earned>>
  /\ Finish(r)
  /\ UNCHANGED <<live, clock, shown, era>>

-----------------------------------------------------------------------------
(* POST /games/{slug}/hint on a checkpoint: record_hint                    *)

(* Mutant of WithHint: the new open row does not carry the hints over. *)
NotCarried(q, found) ==
  IF found = NoAttempt \/ found.score # NULL
  THEN [at |-> q.at, variant |-> q.variant, cp |-> TRUE,
        score |-> NULL, passed |-> FALSE, hints |-> q.hints]
  ELSE [found EXCEPT !.hints = Greater(@, q.hints)]

(* The open attempt with the tier on it, or a new open row that carries the hints over. *)
WithHint(q, found) ==
  LET carried == Greater(found.hints, q.hints) IN
  IF found = NoAttempt \/ found.score # NULL
  THEN [at |-> q.at, variant |-> q.variant, cp |-> TRUE,
        score |-> NULL, passed |-> FALSE, hints |-> carried]
  ELSE [found EXCEPT !.hints = carried]

FindOpen(r) ==
  /\ At(r, "hint", "begun")
  /\ LET found == LatestAttempt(req[r].variant)
     IN  Go(r, [req[r] EXCEPT !.pc = "found", !.old = Loaded(found), !.att = WithHint(req[r], found)])
  /\ UNCHANGED <<attempts, row, live, clock, history>>

CommitHint(r) ==
  LET q == req[r] IN
  /\ At(r, "hint", "found") /\ AllFree(r)
  /\ IF Updates(q) => Stored(q.old.at)
     THEN /\ attempts' = SaveAttempt(q.old, q.att)
          /\ shown' = [shown EXCEPT ![q.variant] = Greater(@, q.hints)]
     ELSE UNCHANGED <<attempts, shown>>
  /\ Finish(r)
  /\ UNCHANGED <<row, live, clock, ledger, earned, era>>

-----------------------------------------------------------------------------
(* POST /games/{slug}/practice: record_practice                            *)

(* Mutant of PracticeResult: the last result instead of any pass. *)
LastPractice(q, found) ==
  IF found = NoAttempt
  THEN [at |-> q.at, variant |-> q.variant, cp |-> FALSE,
        score |-> q.res.score, passed |-> q.res.passed, hints |-> 0]
  ELSE [found EXCEPT !.variant = q.variant,
                     !.passed  = q.res.passed,
                     !.score   = Greater(@, q.res.score)]

PracticeResult(q, found) ==
  IF found = NoAttempt
  THEN [at |-> q.at, variant |-> q.variant, cp |-> FALSE,
        score |-> q.res.score, passed |-> q.res.passed, hints |-> 0]
  ELSE [found EXCEPT !.variant = q.variant,
                     !.passed  = @ \/ q.res.passed,
                     !.score   = Greater(@, q.res.score)]

FindPractice(r) ==
  /\ At(r, "practice", "begun")
  /\ LET rows == PracticeRows(req[r].variant) IN
     \E found \in IF rows = {} THEN {NoAttempt} ELSE rows :
       Go(r, [req[r] EXCEPT !.pc = "found", !.old = found, !.att = PracticeResult(req[r], found)])
  /\ UNCHANGED <<attempts, row, live, clock, history>>

CommitPractice(r) ==
  LET q == req[r] IN
  /\ At(r, "practice", "flushed") /\ AllFree(r)
  /\ IF RowSaves(q)
     THEN attempts' = SaveAttempt(q.old, q.att) /\ row' = SavedRow(q, RowOf(q))
     ELSE UNCHANGED <<attempts, row>>
  /\ Finish(r)
  /\ UNCHANGED <<live, clock, history>>

-----------------------------------------------------------------------------
(* POST /me/progress/lessons/{slug}, for Here alone, and POST                *)
(* /me/progress/import, for several topics in the order the client sent.     *)

(* _mark_lesson on another topic of the import: its row is written, or the request fails. *)
LockElsewhere(r, t) ==
  /\ req[r].op = "lesson" /\ req[r].pc \in {"begun", "saved"}
  /\ t \in req[r].left \ {Here} /\ Free(r, t)
  /\ \/ Go(r, [req[r] EXCEPT !.left = @ \ {t}, !.locks = @ \cup {t}])
     \/ Finish(r)
  /\ UNCHANGED <<attempts, row, live, clock, history>>

LoadRow(r) ==
  /\ At(r, "lesson", "begun")
  /\ Go(r, [req[r] EXCEPT !.pc = "loaded", !.row = row])
  /\ UNCHANGED <<attempts, row, live, clock, history>>

Written(q) == IF WritesRow(q) THEN {Here} ELSE {}

(* _placement: the query for the topic's games first flushes the row, then reads whether *)
(* a checkpoint is published; without one the briefing is the whole topic.               *)
ReadPlacement(r) ==
  LET q == req[r] IN
  /\ At(r, "lesson", "loaded") /\ AllFree(r)
  /\ IF RowSaves(q)
     THEN Go(r, [q EXCEPT !.pc = "marked", !.locks = @ \cup Written(q), !.res.passed = ~live])
     ELSE Finish(r)
  /\ UNCHANGED <<attempts, row, live, clock, history>>

(* The next query, or the commit, flushes the pass. *)
FlushPass(r) ==
  LET q == req[r] IN
  /\ At(r, "lesson", "marked") /\ AllFree(r)
  /\ IF RowSaves(q)
     THEN Go(r, [q EXCEPT !.pc = "saved", !.locks = @ \cup Written(q), !.left = @ \ {Here}])
     ELSE Finish(r)
  /\ UNCHANGED <<attempts, row, live, clock, history>>

(* Mutants of WithLesson: it passes any topic; it counts as an attempt. *)
AlwaysPasses(q) == [RowOf(q) EXCEPT !.lessonAt = clock, !.status = "passed", !.passedAt = clock]
LessonCounts(q) == [RowOf(q) EXCEPT !.lessonAt = clock, !.count = @ + 1]

(* What _mark_lesson makes of the loaded row. *)
WithLesson(q) ==
  LET briefed == [RowOf(q) EXCEPT !.lessonAt = IF @ = Never THEN clock ELSE @]
  IN  IF q.res.passed
      THEN [briefed EXCEPT !.status   = "passed",
                           !.passedAt = IF @ = Never THEN clock ELSE @]
      ELSE briefed

CommitLesson(r) ==
  LET q == req[r] IN
  /\ At(r, "lesson", "saved") /\ q.left = {}
  /\ row' = SavedRow(q, WithLesson(q))
  /\ earned' = IF q.res.passed THEN earned \cup {"briefing"} ELSE earned
  /\ Finish(r)
  /\ UNCHANGED <<attempts, live, clock, ledger, shown, era>>

-----------------------------------------------------------------------------
(* Administration: reset_progress deletes from both tables, one statement  *)
(* after the other; set_status publishes or withdraws the checkpoint game. *)

DeleteAttempts(r) ==
  /\ At(r, "reset", "begun") /\ AllFree(r)
  /\ Go(r, [req[r] EXCEPT !.pc = "deleted", !.gone = attempts, !.left = Topics])
  /\ UNCHANGED <<attempts, row, live, clock, history>>

(* The second DELETE, row by row; a row that is not committed yet is not there. *)
DeleteRow(r, t) ==
  /\ At(r, "reset", "deleted") /\ t \in req[r].left
  /\ IF t \in Wants(req[r])
     THEN Free(r, t) /\ Go(r, [req[r] EXCEPT !.left = @ \ {t}, !.locks = @ \cup {t}])
     ELSE Go(r, [req[r] EXCEPT !.left = @ \ {t}])
  /\ UNCHANGED <<attempts, row, live, clock, history>>

CommitReset(r) ==
  LET deleted == Here \in req[r].locks IN
  /\ At(r, "reset", "deleted") /\ req[r].left = {}
  /\ attempts' = attempts \ req[r].gone
  /\ row' = IF deleted THEN NoRow ELSE row
  /\ earned' = IF deleted THEN {} ELSE earned
  /\ era' = era + 1 /\ shown' = [v \in Checkpoint |-> 0]
  /\ Finish(r)
  /\ UNCHANGED <<live, clock, ledger>>

SetStatus ==
  /\ "status" \in Calls
  /\ live' = ~live
  /\ UNCHANGED <<attempts, row, clock, req, history>>

-----------------------------------------------------------------------------
Wait ==
  /\ clock < MaxClock
  /\ clock' = clock + 1
  /\ UNCHANGED <<attempts, row, live, req, history>>

(* The end of a bounded behaviour, so that TLC reports only real deadlocks. *)
TimeIsUp ==
  /\ clock = MaxClock /\ \A r \in Requests : req[r].pc = "idle"
  /\ UNCHANGED vars

(* A request that has begun goes on by itself. *)
Step(r) ==
  \/ CheckCooldown(r) \/ ReadHints(r) \/ RunChecks(r) \/ FindAttempt(r) \/ FlushAttempt(r)
  \/ CommitGrade(r) \/ FindOpen(r) \/ CommitHint(r) \/ FindPractice(r) \/ CommitPractice(r)
  \/ LoadRow(r) \/ ReadPlacement(r) \/ FlushPass(r) \/ CommitLesson(r)
  \/ DeleteAttempts(r) \/ CommitReset(r)
  \/ \E t \in Topics : LockElsewhere(r, t) \/ DeleteRow(r, t)

(* The request is one of a circle of requests, each waiting for the next one's lock. *)
InCircle(r) ==
  \E S \in SUBSET Requests : r \in S /\ \E next \in Bijection(S, S) : \A s \in S : Waits(s, next[s])

(* PostgreSQL rolls back one request of a circle. *)
DeadlockDetected(r) ==
  /\ InCircle(r)
  /\ Finish(r)
  /\ UNCHANGED <<attempts, row, live, clock, history>>

Next ==
  \/ \E r \in Requests : Begin(r) \/ Step(r) \/ DeadlockDetected(r)
  \/ SetStatus \/ Wait \/ TimeIsUp

Spec == Init /\ [][Next]_vars

(* Of the circles only those with an import or a reset in them are assumed to be broken. *)
BreakCircle(r) == req[r].op \in {"lesson", "reset"} /\ DeadlockDetected(r)

FairSpec == Spec /\ \A r \in Requests : WF_vars(Step(r)) /\ WF_vars(BreakCircle(r))
-----------------------------------------------------------------------------
(* Properties                                                              *)

Result  == [score : Percent, passed : BOOLEAN, stars : 0..3]
Pcs     == {"idle", "begun", "allowed", "running", "scored", "found", "flushed", "loaded",
            "marked", "saved", "deleted"}
Request == [op : {"none"} \cup AllCalls, pc : Pcs, at : Nat,
            variant : Variants \cup {NoVariant}, hints : {0} \cup Tiers, res : Result,
            old : Attempt \cup {NoAttempt}, att : Attempt \cup {NoAttempt}, row : Progress,
            gone : SUBSET Attempt, left : SUBSET Topics, locks : SUBSET Topics]
Submission == [n : Nat, score : Percent, passed : BOOLEAN, hints : {0} \cup Tiers,
               owed : {0} \cup Tiers]

(* The type invariant; among the rest it says that a penalty never makes a score negative *)
(* and that a stored row never says "locked".                                             *)
TypeOK ==
  /\ attempts \subseteq Attempt
  /\ row \in Progress /\ (row.status = "locked" => row = NoRow)
  /\ live \in BOOLEAN /\ clock \in Nat
  /\ req \in [Requests -> Request]
  /\ ledger \subseteq Submission
  /\ shown \in [Checkpoint -> {0} \cup Tiers]
  /\ earned \subseteq {"checkpoint", "briefing"} /\ era \in Nat

Largest(S) == IF S = {} THEN 0 ELSE CHOOSE m \in S : \A n \in S : n <= m

(* The summary row is exactly what the attempts add up to: their number, the best score, *)
(* the most stars, and the pass.  (record_checkpoint against the rows it writes.)        *)
SummaryMatchesAttempts ==
  /\ row.count = Cardinality(GradedCheckpoints)
  /\ row.best  = Largest({a.score : a \in GradedCheckpoints})
  /\ row.stars = Largest({StarsFor(a.score, a.passed, a.hints) : a \in GradedCheckpoints})
  /\ \A a \in GradedCheckpoints : a.passed => row.passedAt # Never

(* Every submission is charged for the highest hint given out on its variant: the open *)
(* attempt that carries the hints is found again by latest_attempt.                    *)
EveryHintIsCharged == \A s \in ledger : s.hints = s.owed

(* consecutive_fails, counted from the stored rows newest first, against the submissions *)
(* in the order in which they were saved.                                                *)
ConsecutiveFails ==
  LET passes == {a \in GradedCheckpoints : a.passed}
  IN  Cardinality({a \in GradedCheckpoints : \A p \in passes : p.at < a.at})
FailsSinceLastPass ==
  era = 0 => ConsecutiveFails =
    Cardinality({s \in ledger : \A p \in ledger : p.passed => p.n < s.n})

(* The topic view: complete is the checkpoint when one is published, else the briefing. *)
Complete == IF live THEN row.passedAt # Never ELSE row.lessonAt # Never

(* A topic whose checkpoint is published is complete only by a passed submission. *)
CompleteByCheckpoint == live /\ Complete => "checkpoint" \in earned

(* Nothing marks the topic passed but a passed submission, or a briefing whose request    *)
(* found no published checkpoint (one that is published before the request commits comes  *)
(* too late), also when they race each other and a reset.                                 *)
PassIsEarned == row.passedAt # Never \/ row.status = "passed" => earned # {}

(* A passed attempt reaches the summary row, and stars are only there with a pass, *)
(* whatever submissions overlap; until a reset happens in between (see README).    *)
PassIsRecorded ==
  era = 0 => /\ (\E a \in GradedCheckpoints : a.passed) => row.passedAt # Never
             /\ row.stars > 0 => row.passedAt # Never
             /\ row.passedAt # Never <=> row.status = "passed"

(* However submissions overlap, the row never counts more of them than were saved, and *)
(* its best score is one that a submission got.                                        *)
CountedOnce ==
  /\ row.count <= Cardinality(ledger)
  /\ row.best > 0 => \E s \in ledger : s.score = row.best

(* A pass, once stored, stays until a reset takes the whole row. *)
PassIsKept == [][row.passedAt # Never /\ row'.passedAt = Never => row' = NoRow]_row

(* record_practice: "a pass is never taken back", also by an overlapping worse result. *)
PracticePassed(game) == \E a \in attempts : ~a.cp /\ a.passed /\ GameOf(a.variant) = game
PracticePassIsKept ==
  [][\A game \in {"checkpoint", "practice"} :
       PracticePassed(game) /\ ~PracticePassed(game)' => era' # era]_vars

(* Every request is answered, and it never takes the database to roll back a submission, *)
(* a hint or a practice result for it: the circles of row locks are those of imports and *)
(* resets, which hold the rows of several topics.                                        *)
RequestsFinish == \A r \in Requests : req[r].pc # "idle" ~> req[r].pc = "idle"
=============================================================================
