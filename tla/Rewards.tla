------------------------------ MODULE Rewards ------------------------------
(***************************************************************************)
(* What a learner's history is worth: XP, level, streak, badges and quiz   *)
(* bests (services/rewards.py, stats_service.py, quiz_service.py,          *)
(* repositories/quiz_repository.py), over the rows that the learner's      *)
(* requests leave in attempts, topic_progress and quiz_results.            *)
(*                                                                         *)
(* Nothing of it is stored: every GET /me/stats computes it again from all *)
(* the rows, in the time zone that the request names.  A row is dated by   *)
(* the start of its transaction (created_at is the server's now()), or by  *)
(* the moment of the handler (_now()), so requests that overlap need not   *)
(* commit in the order of their times.                                     *)
(*                                                                         *)
(* A request reads its rows one after the other and writes, when it        *)
(* commits, the columns that it changed in its copies: of two requests     *)
(* that read a row before either wrote it, the later one writes over the   *)
(* earlier one's.  The locks that order such writes are LearnerProgress's. *)
(***************************************************************************)
EXTENDS Integers, Sequences, FiniteSets, SequencesExt

CONSTANTS
  Games,        \* practice games
  Topics,
  HasCheckpoint, \* the topics that have a checkpoint game, published or not
  Variants,     \* variants of checkpoint games
  TopicOf,      \* [Games \cup Variants -> their topic]
  Briefings,    \* topics whose briefings one request reports, in order (more than one: an import)
  Stars,        \* stars that graded runs get, 0 when they do not pass
  Rounds,       \* quiz rounds as the browser reports them
  History,      \* the quiz rounds that a behaviour may start with
  PickTheLine,  \* the quizzes whose slug starts with "pick-the-line"
  Half,         \* moments in half a day
  Zones,        \* offsets from UTC, in moments: east of it positive, west negative
  MaxRequests,  \* bound: requests of the learner
  MaxOpen,      \* bound: requests under way at once
  MaxClock,     \* bound: moments at which requests arrive
  Wakes         \* bound: moments to which the time may jump

PerDay == 2 * Half
None   == 0       \* no time: moments count from 1

ASSUME TopicAssumption ==
  /\ HasCheckpoint \subseteq Topics
  /\ TopicOf \in [Games \cup Variants -> Topics] /\ \A v \in Variants : TopicOf[v] \in HasCheckpoint
  /\ Briefings \subseteq Seq(Topics) /\ IsFiniteSet(Topics) /\ IsFiniteSet(Games)
(* What schemas/quiz.py accepts of a round. *)
Accepted(q) == q.total \in 1..100 /\ q.score \in 0..q.total /\ q.combo \in 0..q.total
ASSUME RoundAssumption == Stars \subseteq 0..3 /\ \A q \in Rounds : Accepted(q)
ASSUME HistoryAssumption ==
  \A past \in History : IsFiniteSet(past) /\ \A q \in past : Accepted(q) /\ q.at \in Nat \ {None}
ASSUME TimeAssumption == Half \in Nat \ {0} /\ Zones \subseteq Int /\ Wakes \subseteq Nat

VARIABLES
  practice,     \* the attempts rows of practice games
  checkpoints,  \* the attempts rows of checkpoint games
  topics,       \* [Topics -> the topic_progress row, NoRow if there is none]
  quizzes,      \* the quiz_results rows
  clock,        \* now
  open,         \* requests under way: their transactions have begun; what each has read
  sent          \* number of requests so far

tables == <<practice, checkpoints, topics, quizzes>>
vars == <<practice, checkpoints, topics, quizzes, clock, open, sent>>

-----------------------------------------------------------------------------
(* XP and levels *)

XP_LESSON == 20
XP_PRACTICE == 30
XP_CHECKPOINT == 100
XP_PER_STAR == 25
XP_PER_QUIZ_ANSWER == 2
QUIZ_ROUNDS_PER_DAY == 3
XP_DAILY_BONUS == 20

(* The date of a time stamp, in UTC and in the learner's zone. *)
LocalDay(at, zone) == (at + zone) \div PerDay
Day(at) == LocalDay(at, 0)

(* cleared_at: of a topic that has a checkpoint game, whatever set passed_at. *)
ClearedAt(t) == IF t \in HasCheckpoint THEN topics[t].passedAt ELSE None
Cleared == {t \in Topics : ClearedAt(t) # None}
Briefed == {t \in Topics : topics[t].lessonAt # None}
PassedPractice == {p.game : p \in {p \in practice : p.passed}}

(* Mutant of Place: rounds are counted from the newest. *)
PlaceFromLast(q) ==
  Cardinality({p \in quizzes : p.quiz = q.quiz /\ Day(p.at) = Day(q.at) /\ p.at >= q.at})

(* Which round of its quiz on its UTC day it is. *)
Place(q) ==
  Cardinality({p \in quizzes : p.quiz = q.quiz /\ Day(p.at) = Day(q.at) /\ p.at <= q.at})

RoundXp(q) ==
  IF q.quiz = "daily"
  THEN IF Place(q) = 1 THEN XP_DAILY_BONUS + XP_PER_QUIZ_ANSWER * q.score ELSE 0
  ELSE IF Place(q) <= QUIZ_ROUNDS_PER_DAY THEN XP_PER_QUIZ_ANSWER * q.score ELSE 0

ClearXp(t) == XP_CHECKPOINT + XP_PER_STAR * topics[t].stars

XpTotal ==
  XP_LESSON * Cardinality(Briefed) + XP_PRACTICE * Cardinality(PassedPractice)
  + MapThenSumSet(ClearXp, Cleared) + MapThenSumSet(RoundXp, quizzes)

(* Level 1 takes 100 XP, each next level 50 more. *)
LevelFor(total) ==
  LET climb[at \in Nat \X Nat] ==   \* XP left, and the level they are left at
        LET need == 100 + 50 * (at[2] - 1)
        IN  IF at[1] >= need THEN climb[<<at[1] - need, at[2] + 1>>]
            ELSE [level |-> at[2], into |-> at[1], needed |-> need]
  IN  climb[<<total, 1>>]

-----------------------------------------------------------------------------
(* Streaks *)

ActivityStamps ==
  {p.at : p \in practice} \cup {c.at : c \in {c \in checkpoints : c.graded}}
  \cup {q.at : q \in quizzes} \cup {topics[t].lessonAt : t \in Topics}
ActivityDays(zone) == {LocalDay(at, zone) : at \in ActivityStamps \ {None}}

(* The run of consecutive days that ends at each. *)
Runs(days) ==
  LET run[d \in days] == IF d - 1 \in days THEN run[d - 1] + 1 ELSE 1
  IN  run

(* Mutant of Streak: the current run is never over. *)
EndlessStreak(days, today) ==
  LET run == Runs(days)
  IN  [current |-> IF days # {} THEN run[Max(days)] ELSE 0,
       best    |-> Max({0} \cup Range(run)), active |-> today \in days]

(* The current run is alive until a whole day is missed. *)
Streak(days, today) ==
  LET run == Runs(days)  alive == days # {} /\ today - Max(days) <= 1
  IN  [current |-> IF alive THEN run[Max(days)] ELSE 0,
       best    |-> Max({0} \cup Range(run)), active |-> days # {} /\ Max(days) = today]

(* The badge is dated by the midnight before the day, in the learner's zone. *)
StreakReached(zone, length) ==
  LET days == ActivityDays(zone)  long == {d \in days : Runs(days)[d] >= length}
  IN  IF long = {} THEN None ELSE Min(long) * PerDay - zone

-----------------------------------------------------------------------------
(* Badges: when each was earned, or None *)

First(stamps) == IF stamps = {} THEN None ELSE Min(stamps)
(* The n-th of the times in the range of a function. *)
Nth(stamps, n) ==
  IF Cardinality(DOMAIN stamps) < n THEN None
  ELSE Min({x \in Range(stamps) : Cardinality({i \in DOMAIN stamps : stamps[i] <= x}) >= n})

RoundsOf(kinds) == {q \in quizzes : q.quiz \in kinds}
Stamps(S) == {q.at : q \in S}

DailyFirsts(zone) ==
  LET On(d) == {q.at : q \in {q \in RoundsOf({"daily"}) : LocalDay(q.at, zone) = d}}
  IN  [d \in {LocalDay(at, zone) : at \in Stamps(RoundsOf({"daily"}))} |-> Min(On(d))]

(* passed_practice: of several rows of one game it keeps the last, and the query names no   *)
(* order: a look may find any of them.                                                       *)
PracticeDates ==
  {date \in [PassedPractice -> {p.at : p \in practice}] :
     \A g \in PassedPractice : \E p \in practice : p.game = g /\ p.passed /\ p.at = date[g]}

Badges(zone, date) ==
  LET warmups == {"front-desk", "score-board"} IN
  [first200     |-> First({date[g] : g \in PassedPractice}),
   briefed      |-> Nth([t \in Briefed |-> topics[t].lessonAt], 3),
   warmedUp     |-> IF warmups \subseteq PassedPractice
                    THEN Max({date[g] : g \in warmups}) ELSE None,
   cleared      |-> First({ClearedAt(t) : t \in Cleared}),
   noHintHero   |-> First({ClearedAt(t) : t \in {t \in Cleared : topics[t].stars = 3}}),
   threeCleared |-> Nth([t \in Cleared |-> ClearedAt(t)], 3),
   combo5       |-> First(Stamps({q \in RoundsOf({"status-speed-round"}) : q.combo >= 5})),
   sharpEye     |-> First(Stamps({q \in RoundsOf(PickTheLine) : q.score = q.total})),
   daily5       |-> Nth(DailyFirsts(zone), 5),
   foundStart   |-> First(Stamps(RoundsOf({"placement"}))),
   streak3      |-> StreakReached(zone, 3),
   streak7      |-> StreakReached(zone, 7)]

(* bests, of one quiz: a row of rank 1 (any of several), the number of plays, the last one. *)
Beats(p, q) ==
  p.score * q.total > q.score * p.total \/ (p.score * q.total = q.score * p.total /\ p.combo > q.combo)
Best(quiz) ==
  LET played == RoundsOf({quiz})
  IN  [round |-> CHOOSE q \in played : \A p \in played : ~Beats(p, q),
       plays |-> Cardinality(played), last |-> Max(Stamps(played))]

-----------------------------------------------------------------------------
NoRow == [saved |-> FALSE, lessonAt |-> None, passedAt |-> None, stars |-> 0]

Init ==
  /\ practice = {} /\ checkpoints = {} /\ quizzes \in History /\ topics = [t \in Topics |-> NoRow]
  /\ clock = Max({None} \cup {q.at : q \in quizzes}) /\ open = {} /\ sent = 0

(* A request of the learner arrives, and its transaction begins: the time of a new row. *)
Arrives ==
  /\ sent < MaxRequests /\ clock < MaxClock
  /\ clock' = clock + 1 /\ sent' = sent + 1

Calls ==
  [op : {"practice"}, game : Games, passed : BOOLEAN] \cup [op : {"lessons"}, topics : Briefings]
  \cup [op : {"hint"}, variant : Variants] \cup [op : {"grade"}, variant : Variants, stars : Stars]
  \cup [op : {"quiz"}, round : Rounds]

(* The topics of which a request reads the row, in order. *)
TopicsOf(call) ==
  CASE call.op = "lessons"  -> call.topics
    [] call.op = "practice" -> <<TopicOf[call.game]>>
    [] call.op = "grade"    -> <<TopicOf[call.variant]>>
    [] OTHER                -> <<>>

(* It has read nothing yet: no attempts row, and none of topic_progress. *)
Begin ==
  /\ Arrives /\ Cardinality(open) < MaxOpen
  /\ \E call \in Calls :
       open' = open \cup {[call |-> call, at |-> clock', searched |-> FALSE, found |-> {},
                           left |-> TopicsOf(call), read |-> {},
                           old |-> [t \in Topics |-> NoRow], new |-> [t \in Topics |-> NoRow]]}
  /\ UNCHANGED tables

Becomes(r, s) == open' = (open \ {r}) \cup {s} /\ UNCHANGED <<practice, checkpoints, topics, quizzes, clock, sent>>

(* latest_attempt, when it is not scored yet. *)
OpenAttempt(variant) ==
  LET rows == {c \in checkpoints : c.variant = variant}
  IN  {c \in rows : ~c.graded /\ \A d \in rows : d.at <= c.at}

(* practice_attempt: any row of the game. *)
PracticeAttempts(game) ==
  LET rows == {p \in practice : p.game = game}
  IN  IF rows = {} THEN {{}} ELSE {{p} : p \in rows}

(* The attempts row that the request will change; none, and it will add one. *)
Find(r) ==
  /\ r.call.op \in {"practice", "hint", "grade"} /\ ~r.searched
  /\ \E rows \in IF r.call.op = "practice" THEN PracticeAttempts(r.call.game)
                   ELSE {OpenAttempt(r.call.variant)} :
       Becomes(r, [r EXCEPT !.searched = TRUE, !.found = rows])

(* _mark_lesson: published: the topic's checkpoint game is, which an admin may change at any *)
(* time.  The two calls of _now() are one moment here.                                       *)
Mark(row, published) ==
  LET Now(at) == IF at = None THEN clock ELSE at
  IN  [row EXCEPT !.saved = TRUE, !.lessonAt = Now(@), !.passedAt = IF published THEN @ ELSE Now(@)]

(* record_checkpoint: the topic keeps its best stars and the time of its first pass. *)
Scored(row, stars) ==
  [row EXCEPT !.saved = TRUE, !.stars = Max({@, stars}),
              !.passedAt = IF stars > 0 /\ @ = None THEN clock ELSE @]

(* What a request makes of the row of a topic. *)
Changed(call, t, row) ==
  CASE call.op = "lessons"  -> {Mark(row, published /\ t \in HasCheckpoint) : published \in BOOLEAN}
    [] call.op = "grade"    -> {Scored(row, call.stars)}
    [] OTHER                -> {[row EXCEPT !.saved = TRUE]}

Searched(r) == r.searched \/ r.call.op \in {"lessons", "quiz"}

(* topic_progress: of a row that it has read before it keeps its copy. *)
Read(r) ==
  LET t == Head(r.left)  first == t \notin r.read
      copy == IF first THEN topics[t] ELSE r.new[t]
  IN  /\ Searched(r) /\ r.left # <<>>
      /\ \E row \in Changed(r.call, t, copy) :
           Becomes(r, [r EXCEPT !.left = Tail(@), !.read = @ \cup {t}, !.new[t] = row,
                                !.old[t] = IF first THEN copy ELSE @])

-----------------------------------------------------------------------------
(* The end of a request *)

Ends(r) == open' = open \ {r} /\ UNCHANGED <<clock, sent>>

(* Refused (the retest cooldown, a rejected or crashed run) or failed, anywhere. *)
Refuse(r) == Ends(r) /\ UNCHANGED tables

(* A row it found missing must be so still (UNIQUE); one it changed must still be there. *)
(* A grade changes attempts_count at least.                                              *)
RowsFit(r) ==
  \A t \in r.read :
    IF ~r.old[t].saved THEN ~topics[t].saved
    ELSE r.old[t] # r.new[t] \/ r.call.op = "grade" => topics[t].saved

(* Mutant of Merged: the whole copy is written. *)
WholeCopy(row, old, new) == new

(* INSERT, or UPDATE of the columns that differ from what was read. *)
Merged(row, old, new) ==
  [saved    |-> row.saved \/ ~old.saved,
   lessonAt |-> IF new.lessonAt # old.lessonAt THEN new.lessonAt ELSE row.lessonAt,
   passedAt |-> IF new.passedAt # old.passedAt THEN new.passedAt ELSE row.passedAt,
   stars    |-> IF new.stars # old.stars THEN new.stars ELSE row.stars]

(* Everything is read; topic_progress is written, the transaction ends. *)
Commit(r) ==
  /\ Searched(r) /\ r.left = <<>> /\ RowsFit(r) /\ Ends(r)
  /\ topics' = [t \in Topics |->
       IF t \in r.read THEN Merged(topics[t], r.old[t], r.new[t]) ELSE topics[t]]

(* The row that was found, as it is now: in the table until a reset. *)
IsRow(row, found) == \E f \in found : row.at = f.at
StillThere(rows, found) == \A f \in found : \E row \in rows : row.at = f.at

(* record_practice: a row keeps its creation time and its pass. *)
Practised(row, passed) == [row EXCEPT !.passed = @ \/ passed]

RecordPractice(r) ==
  LET call == r.call IN
  /\ call.op = "practice" /\ Commit(r)
  /\ StillThere(practice, r.found) \/ \A f \in r.found : Practised(f, call.passed) = f
  /\ practice' = {IF IsRow(p, r.found) THEN Practised(p, call.passed) ELSE p : p \in practice}
                 \cup IF r.found = {} THEN {[game |-> call.game, at |-> r.at, passed |-> call.passed]} ELSE {}
  /\ UNCHANGED <<checkpoints, quizzes>>

(* complete_lesson, import_local *)
RecordLessons(r) ==
  /\ r.call.op = "lessons" /\ Commit(r)
  /\ UNCHANGED <<practice, checkpoints, quizzes>>

NewRow(variant, at, graded) == [variant |-> variant, at |-> at, graded |-> graded]

(* record_hint: opens a row unless it found one. *)
RecordHint(r) ==
  /\ r.call.op = "hint" /\ Commit(r)
  /\ checkpoints' = checkpoints \cup IF r.found = {} THEN {NewRow(r.call.variant, r.at, FALSE)} ELSE {}
  /\ UNCHANGED <<practice, quizzes>>

(* record_checkpoint: scores the row it found, which keeps its creation time, or a new one. *)
RecordCheckpoint(r) ==
  /\ r.call.op = "grade" /\ Commit(r) /\ StillThere(checkpoints, r.found)
  /\ checkpoints' = {IF IsRow(c, r.found) THEN [c EXCEPT !.graded = TRUE] ELSE c : c \in checkpoints}
                    \cup IF r.found = {} THEN {NewRow(r.call.variant, r.at, TRUE)} ELSE {}
  /\ UNCHANGED <<practice, quizzes>>

(* QuizService.record *)
Dated(q, at) ==
  [quiz |-> q.quiz, score |-> q.score, total |-> q.total, combo |-> q.combo, at |-> at]
RecordRound(r) ==
  /\ r.call.op = "quiz" /\ Commit(r)
  /\ quizzes' = quizzes \cup {Dated(r.call.round, r.at)}
  /\ UNCHANGED <<practice, checkpoints>>

(* An admin resets the progress; quiz rounds stay. *)
Reset ==
  /\ practice' = {} /\ checkpoints' = {} /\ topics' = [t \in Topics |-> NoRow]
  /\ UNCHANGED <<quizzes, clock, open, sent>>

(* Nothing happens for a while.  No request lasts longer than half a day. *)
Sleep ==
  /\ clock' \in Wakes /\ clock' > clock
  /\ \A r \in open : clock' <= r.at + Half
  /\ UNCHANGED <<practice, checkpoints, topics, quizzes, open, sent>>

Next ==
  \/ Begin
  \/ \E r \in open :
       \/ Find(r) \/ Read(r) \/ Refuse(r)
       \/ RecordPractice(r) \/ RecordLessons(r) \/ RecordHint(r) \/ RecordCheckpoint(r) \/ RecordRound(r)
  \/ Reset \/ Sleep

Spec == Init /\ [][Next]_vars
-----------------------------------------------------------------------------
(* Properties                                                              *)

(* A round that is saved after another of its quiz and UTC day, but began before it. *)
LateRound ==
  \E q \in quizzes' \ quizzes, p \in quizzes : p.quiz = q.quiz /\ Day(p.at) = Day(q.at) /\ q.at < p.at

(* A request writes a row of topic_progress that another has changed since it read it. *)
StaleWrite ==
  \E r \in open \ open' : \E t \in r.read : r.old[t] # topics[t] /\ topics'[t] # topics[t]

(* XP and the level never fall, and no quiz best gets worse, except by a progress reset, by  *)
(* a late round, which can push a better one out of the rounds that count, and by a stale    *)
(* write: it may put fewer stars in the place of more, and costs two stars at the most.      *)
XpOnlyGrows ==
  [][tables' # tables /\ ~Reset /\ ~LateRound =>
     /\ \A before \in {XpTotal}, after \in {XpTotal'} :
          /\ before <= after + IF StaleWrite THEN 2 * XP_PER_STAR ELSE 0
          /\ ~StaleWrite => LevelFor(before).level <= LevelFor(after).level
     /\ \A q \in quizzes : ~Beats(Best(q.quiz).round, Best(q.quiz).round')]_vars

(* Two rows of one practice game that are both passed: the dates of its badges may change    *)
(* from one look to the next.                                                                *)
PassedTwice == \E p, q \in practice : p # q /\ p.game = q.game /\ p.passed /\ q.passed

Looks(zone) == {Badges(zone, date) : date \in PracticeDates}

(* A badge that was earned is not lost, and its time never moves to a later one, in any time *)
(* zone, unless the progress is reset; only a stale write takes back the badge for three     *)
(* stars or for a streak, and it may date later what a topic's row dates; and only where a   *)
(* game has been passed in two rows may a badge for practice get a later time.               *)
BadgesStay ==
  [][tables' # tables /\ ~Reset => \A z \in Zones : \A now \in Looks(z), next \in Looks(z)' :
       \A key \in DOMAIN now : now[key] # None =>
         /\ next[key] = None => StaleWrite /\ key \in {"noHintHero", "streak3", "streak7"}
         /\ next[key] > now[key] =>
              \/ StaleWrite /\ key \in {"briefed", "cleared", "noHintHero", "threeCleared", "streak3", "streak7"}
              \/ PassedTwice' /\ key \in {"first200", "warmedUp"}]_vars

(* The streak is what its name says, in every time zone: the best one is the longest run of *)
(* days that all have activity; the current one is the run up to today or yesterday; and    *)
(* the three-day badge is dated by the third day of the first run of three.                 *)
StreakIsTheDays ==
  \A z \in Zones :
    LET days  == ActivityDays(z)
        today == LocalDay(clock, z)
        s     == Streak(days, today)
        Longest(last) ==
          Max({0} \cup {n \in 1..Cardinality(days) : \E d \in last : (d - n + 1)..d \subseteq days})
        thirds == {d \in days : {d - 1, d - 2} \subseteq days}
    IN  /\ s.best = Longest(days)
        /\ s.current = Longest(days \cap {today, today - 1})
        /\ s.active <=> today \in days
        /\ StreakReached(z, 3) = IF thirds = {} THEN None ELSE Min(thirds) * PerDay - z
=============================================================================
