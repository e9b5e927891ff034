# Verification of Backend City

TLA+ specifications of the Backend City API (`src/app/`), the TLC runs that check
them and the theorems that TLAPS proves about them. `PROJECT.json` maps every definition to
the lines of code it stands for, lists the runs, the hazards of the code and the findings.

    tlc -workers 2 -config sessions.cfg MCSessions.tla     # check one run
    tlapm Sessions_proofs.tla                              # check the proofs of a module

## 1. The system and its parts

A learner plays small programming games. Practice runs in the browser and is self-reported;
a *checkpoint* submission is graded on the server, in a sandbox. The API is an asyncio
(FastAPI) program on one PostgreSQL database; several requests of one learner, two tabs for
instance, are in progress at once, and the admin interface and the deploy-time seed sync
write to the same tables.

| Part | State it keeps | Operations | Modules |
|---|---|---|---|
| Checkpoint scoring (`services/grading_service.py`) | none | score, penalty, stars | `Scoring` |
| Learner progress (`services/progress_service.py`, `repositories/progress_repository.py`) | tables `attempts`, `topic_progress` | grade, hint, practice, lesson, reset, publish or withdraw | `LearnerProgress`, `GradeBook`, `MCProgress`, `LearnerProgress_proofs`, `Passes_proofs`, `GradeBook_proofs` |
| Warm sandbox, fork server (`sandbox/entry.py`) | waiting and running jobs, children, deadlines | one round of `select` | `ForkServer`, `MCForkServer`, `JobServer`, `ForkServer_proofs` |
| Warm sandbox, client (`sandbox/executor.py`) | server process, lock, slots, pending futures, reader task | run a job, restart, time out, fall back | `WarmSandbox`, `MCSandbox`, `WarmSandbox_proofs` |
| Accounts and sessions (`services/auth_service.py`, `account_service.py`) | one row of `users`, its `refresh_tokens` and `email_tokens` | login, refresh, logout, verify, reset, forgot, resend, block | `Sessions`, `MCSessions`, `Sessions_proofs` |
| Content (`services/admin_service.py`, `games/seed.py`, `repositories/content_repository.py`, `games/validate.py`) | `games`, `game_versions`, `topics` | save, test and publish a version, topic settings, sync | `Content`, `MCContent`, `Content_proofs` |
| Variants, attempt tokens, harness (`games/variants.py`, `games/templates/`, `services/game_service.py`, `src/harness/`) | none; the token is the client's | draw a variant, make its tests, run and score code | `Grading`, `Content` |
| Rewards, statistics and quizzes (`services/rewards.py`, `stats_service.py`, `quiz_service.py`) | `quiz_results`; the rest is derived from the learner's rows | record a round; XP, level, streak, badges, bests | `Rewards`, `MCRewards`, `Rewards_proofs` |
| Policy, feedback, tracks, analytics, mailer, rate limits, routing | see `PROJECT.json` | | not modelled, section 10 |

How they interact: a `grade` request reads the learner's rows, **leaves the database alone
for the seconds the sandbox runs**, and then writes. The sandbox is an asyncio client in the
API that sends numbered lines to one fork server, which forks a child per job. Publishing
changes which games count for a topic. All of this happens through shared rows, through the
two pipes of the fork server and through the futures of the client; there are no other channels. An
attempt token, which the browser keeps, ties a submission to the version and the seed it was shown.
Rewards read what all the other requests of the learner have left behind.

What is hard here: transactions at READ COMMITTED that overlap (stale copies written back,
lost updates, row locks and circles of them), rows identified by their creation time, a
sandbox whose server may stall, die, be restarted and answer late, deadlines that race
answers, and columns whose meaning depends on content that changes later. Section 9 lists
what this amounts to, per component; `PROJECT.json` has each one at its line.

What makes each part correct:

* *Progress*: the summary row agrees with the attempts; a pass is earned, is recorded and is
  kept; every hint is charged; every request is answered.
* *Fork server*: every job is answered once and honestly, nothing is lost between stdin, queue,
  children and answers, and the server ends with the API, as long as no child holds its loop.
* *Client*: an answer reaches the grade that sent the job, every waiting grade is watched by
  something that will end the wait, no job queues inside a server, a server is only
  killed for its own silence.
* *Sessions*: rotation leaves one live token per sign-in; a sign-out and a new link miss
  nothing that was there.
* *Content*: a version number names one version; what an admin publishes has passed the publication
  test; the sync spares an admin's version and applies a release as a whole; a grade fits the
  variant that was shown.
* *Rewards*: XP, level, quiz bests and badges only grow, apart from a reset and a few overlaps that section 7 names; a streak is a run of days.

## 2. Plan

Order of work, most important first. Done: 1-12; open: 13.

1. `Scoring`, `LearnerProgress`, `GradeBook`, `MCProgress`, `LearnerProgress_proofs`.
2. `JobServer`, `ForkServer`, `MCForkServer`.
3. `WarmSandbox` (`MCSandbox` for TLC), which relies on a server only for what `JobServer` allows.
4. `Sessions`, `MCSessions`, `Sessions_proofs`.
5. `Grading`, `Content`, `MCContent`, `Content_proofs`.
6. `Rewards`, `MCRewards`.
7. `WarmSandbox_proofs`: `EveryWaitIsWatched`, `OwnAnswer`, `CrashHasACause`, `OneServer`, `NothingQueues`, `KillsOnlyItsOwn`.
8. `Passes_proofs` (`PassIsRecorded`, `PracticePassIsKept`) and `GradeBook_proofs` (`KeepsTheBook`, one request at a time).
9. `ForkServer_proofs`: its safety properties and the refinement of `JobServer`.
10. `GradeBook_proofs`: `SummaryMatchesAttempts` and `EveryHintIsCharged` for one request at a time.
11. `Rewards_proofs`: `StreakIsTheDays`, `BadgesStay`, `XpOnlyGrows`.
12. `Content_proofs`: `GradesAreFair`.
13. Open. Every safety and action property of a passing run is a theorem, so what is left is to prove more than the runs ask: the operators of
    `Scoring` (a score never rises with a hint, stars agree with the pass), and that `WarmSandbox` needs no more of a server than `JobServer` allows.

The modules are written for both tools: parameters are CONSTANTS with named assumptions,
there is one action per operation or per stretch between two awaits, and no RECURSIVE operator.

## 3. Learner progress

### What is modelled

One learner and one topic (`Here`) with one checkpoint game. `attempts` and `row` (of
`topic_progress`) are the committed rows; `req` is what each request has read and will write;
`live` says whether the checkpoint game is published. `ledger`, `shown`, `earned`, `era` are history
for the properties; no guard reads them. An import marks several `Topics` in one transaction and a reset deletes the rows of all of them; of the
other topics' summary rows only the row locks are kept (`locks`, `left` of a request).

A request is one `AsyncSession`, one transaction at READ COMMITTED:

| Request | Actions |
|---|---|
| `POST /games/{slug}/grade` | `Begin`, `CheckCooldown`, `ReadHints`, `RunChecks`, `FindAttempt`, `FlushAttempt`, `CommitGrade` |
| `POST /games/{slug}/hint` | `Begin`, `FindOpen`, `CommitHint` |
| `POST /games/{slug}/practice` | `Begin`, `FindPractice`, `FlushAttempt`, `CommitPractice` |
| `POST /me/progress/lessons/{slug}`, and `POST /me/progress/import` for several topics | `Begin`, `LoadRow`, `ReadPlacement`, `FlushPass`, `CommitLesson`; `LockElsewhere` for each other topic, before or after `Here` |
| admin: reset a learner's progress | `Begin`, `DeleteAttempts`, `DeleteRow` for each topic, `CommitReset` |
| admin: show or hide the checkpoint game | `SetStatus` |

Facts about SQLAlchemy and PostgreSQL the actions are built on:

* An UPDATE writes only the columns the request changed (`MergedRow`, `MergedAttempt`); this is
  why an overlapping `lesson` does not destroy a submission's score.
* `topic_progress()` issues a query, and the query first flushes the attempt. The row lock of an
  updated attempt is therefore held from `FlushAttempt` to the commit: two grades on the same
  hint-opened attempt wait for each other, two that insert new rows do not.
* A first INSERT of the summary row that meets another's fails with IntegrityError; an UPDATE of
  a row that a reset has deleted fails with StaleDataError. Both roll the request back as a whole.
* `created_at` is the start of the transaction. `clock` advances at every `Begin`, so a time also
  identifies a row.
* `_mark_lesson` loads the row, sets the briefing's time, and awaits the SELECT of the topic's games (`progress_service.py:178`), which first flushes the row; only then does it decide
  on the pass, which the next query or the commit flushes. These are four actions (`LoadRow`, `ReadPlacement`, `FlushPass`, `CommitLesson`), so a checkpoint may be published, and another
  request may commit, between any two of them, and whole topics later for an import.
* A flushed or deleted row of `topic_progress` is locked until the commit (`Holds`, `Wants`). An import takes these locks in the order the client sent, a reset in the table's, so both
  can form circles, with each other or with themselves, and with a submission or a practice result that waits for the row. PostgreSQL rolls back one request of a circle (`DeadlockDetected`).

### Runs

`progress_serial` (one request at a time): the types; the summary row is *exactly* what the attempts add
up to; every hint is charged; and the steps together implement `GradeBook`, in which a
submission is entered at once and nothing is struck out (`KeepsTheBook`, the refinement mapping is
in `MCProgress`). `Practised` and `Checkpoint` are disjoint here: `progress_hidden_hints` shows
what happens when they are not.

`progress_overlap` (two requests, every operation, reset and publication in between): what survives
the races. `PassIsRecorded` is stated up to the first reset: a request that loaded the row before a
reset writes only the columns it changed onto a row that another request has created since, and
then a passed attempt can exist without `passed_at`. `PassIsEarned` counts a briefing as one that was the whole topic when its request *looked*; what a
checkpoint published between that SELECT and the commit makes of it is the finding of `progress_complete`. `RequestsFinish` says that every request is answered. Its fairness lets the database break a
circle only by rolling back an import or a reset (`BreakCircle`), so the property also says that submissions, hints and practice results form no circle among themselves.

Four runs show where the code does not do what its documentation says (`findings`):
`progress_lost_update` (two overlapping submissions, one is not counted), `progress_fails` (a submission on a
hint-opened row sorts before later ones, so its fail is not counted), `progress_complete` (a
briefing read while the topic had no checkpoint completes it after one is published) and
`progress_hidden_hints` (a practice result on the same variant hides the hints).

### Bounds

`progress_overlap` has two topics, `here` and another, which are the least that two imports can take in opposite orders; the other runs have `here` alone, so that a lesson is one topic's.
Two overlapping requests are enough for every pairwise race; a third actor, the administrator's publication
switch, is free of the limit. `MaxClock` bounds the requests of a behaviour: three suffices for a row, a race
on it and a successor; the serial run has four so that a hint, a submission, a retest after the cooldown and one more fit.
Raw scores 0, 70 and 100 lie on both sides of the thresholds and star limits, and at 0 the penalty is
capped; two tiers let a hint be carried over and then raised. `TimeIsUp` is the end of a bounded behaviour, so
deadlock is still checked.

## 4. The warm sandbox

A warm grade crosses two programs. `ForkServer` is the one at the far end of the pipes,
`WarmSandbox` the one inside the API, and `JobServer` is what stands between them: what the client may rely
on. `ForkServer` is shown to implement `JobServer`; `WarmSandbox` assumes less than `JobServer` gives,
its server may also stall (a child may hold its loop), go on, be killed by the system, start slowly and write what cannot be read.

### `ForkServer`: `serve()` in `sandbox/entry.py`

One round of the loop is `StartJob`* `Select` (`ReadStdin` | `ReadChild` `Reap`?)* `CheckDeadlines` `KillLate`*
`Again`. The descriptors that `select()` returned are in `ready` and are handled one
after the other while children go on writing and ending, so that what is true when `select()`
returns need not be true when its result is used. They are handled in the order in which they were watched (`Earliest`): stdin, then
the children as they were started.

* A child is `busy`, has written (`writing`), has written too much (`flooding`), has closed its result pipe and lives on (`shut`), has ended in one
  of the ways that `_outcome` tells apart, or is `reaped`. Which of them is the learner's code's choice. A SIGKILL of the out-of-memory killer and an exit with 124 are told as `timeout`
  like the CPU limit and the timer, whose places they take in the model.
* The end of a child's pipe is not the end of its process. At the end of the pipe `finish()` takes the child off the table and calls `os.waitpid(pid, 0)` without a kill (`entry.py:240`): the loop
  is at `await` (`AwaitEnd`) until the process has ended (`Reap`). A child that is `shut` can stay so, and then no deadline is looked at, no other job is answered, and the end of stdin is not seen.
  Only the API's own timeout helps: it kills the server. So `entry.py:97-98`, "the parent keeps a hard wall-clock kill as a backstop in case this timer is swallowed" (also `docs/PROGRESS.md:135`), is
  kept for every child except such a one. The code has no way to notice it; the model states what remains true, below.
* A deadline that has passed is a member of `due`, and may get there at any moment.
* The API may go (`Close`) at any moment; the next reply then raises BrokenPipeError, which nothing catches.
* `fork` may fail; the job is answered at once.
* Lines that are not JSON are not modelled, because the API sends none.

Run `forkserver`: 3 jobs, 2 children at once, 252 000 states. Two children are the least that share a round and
a third job is the least that waits for one of them. Of the five ways to end the run has the three that
lead to different outcomes (`reported`, `failed`, `alarmed`); the other two lead to the same branches. Fairness:
the loop runs (WF of `Serve`) and time passes (WF of `Overdue`, for each job). Nothing is assumed of the learner's
code, whose end may never come, or of the API. Under this alone every job is answered
(`EveryJobIsAnswered`) and the server ends after the API does (`EndsWithTheApi`), unless from some moment on the loop waits for ever for a child that has closed its pipe: both have the condition `[]<>~IsHeld`. Nothing is asked of a child that keeps its pipe open. The server may stop, so deadlock is not
checked. `IsAJobServer` is the refinement: `submitted` is what was sent, `answers` the set of reply lines, `stopped` the exit.

### `WarmSandbox`: class `WarmSandbox` and `execute()` in `sandbox/executor.py`

The event loop runs one task at a time, so everything between two awaits is one step: `UseServer` is the whole
body of the lock when a server is there, including the write of the job line.

| Code | Actions |
|---|---|
| `execute`, the semaphore | `Call`, `GetSlot`; `InSlot` are its holders |
| `run`, under the lock | `UseServer`, `StartServer`, `ServerReady`, `StartFails` |
| `run`, after the lock | `Answered`, `TimesOut`, `KillServer`, `Reaped` |
| `warm_up` | the task `Boot`, which takes the steps that apply to it, and `NothingToDo` |
| `_read_replies` | `ReadReply`, `ReaderEnds`, `ReaderFails` |
| `_execute_cold` | `ColdRun`: a process of its own with any result |
| the server process | `ServerAnswers`, `Stalls`, `GoesOn`, `Dies`, `ExitSeen` |

Six details carry the properties:

* The end of a process, the end of its pipe (`ReaderEnds`) and its `returncode` (`ExitSeen`) reach the
  client separately and in any order.
* A write to a server that is gone may succeed (the line is lost) or raise; both are alternatives of `SendJob`.
* The timer may win against an answer that has arrived and has not been taken: `wait_for` then
  cancels the wait. It never fires while the server works as `ForkServer` does, because the server
  answers each job within its timeout and one second, and the client waits five.
* The reader also ends, with its server alive, at a reply that it cannot read (`ReaderFails`, `executor.py:242-250`): a line longer than the stream's limit of 512 000 bytes raises. That is within reach, since `json.dumps`
  writes a character outside ASCII as six bytes. Every pending job is then reported crashed, the server is forgotten and nothing kills it: it is `abandoned`.
* A starter that gives up on the ready line (`StartFails`) leaves its process alone. It may come up later, beside its successor: `abandoned` as well. Nobody sends to an abandoned server, reads it or
  waits for it, which is `OneServer`; it ends with the API at the latest (`Dies`). What it still does with its children is not modelled, so the children alive in all servers together may exceed `sandbox_parallel`;
  `NothingQueues` is about a server in use.
* `ServerReady` waits until the readers of servers that have ended are done. An interpreter starts in
  tens of milliseconds, during which the event loop is free to read an ended pipe. Without it `CrashHasACause` does not
  hold: `_read_replies` fails *every* pending job, also one already sent to the successor. ("No longer read" is all that a crash says of a server: it may be alive.)

The model's `drain()` never blocks: a job line is far below the 64 KiB of a pipe. Rebinding to a second event
loop is not modelled; only tests have one.

Runs: `sandbox` (`MCSandbox`: 3 grades, 2 slots, 2 servers, 4 jobs, 1.1 million states; the grades are interchangeable, and no liveness is checked) checks the safety properties. Three grades
on two slots are the least in which two jobs share a server while a third waits to restart it, and two servers are
the least that have a restart; when the bound on servers is reached a further start fails, which is a behaviour the code
has (OSError). `sandbox_returns` (2 grades, 1 slot) checks that every grade returns. `asyncio.Lock` and
`asyncio.Semaphore` serve in order of arrival, which is why the steps that take them are strongly fair; the reader, the
answers of a server that is up and the notice of an exit are weakly fair. Nothing is assumed of `Stalls`,
`GoesOn`, `Dies` and `ReaderFails`. Deadlock is not checked, since a behaviour may end when its jobs are used up.

## 5. Accounts and sessions

### What is modelled

`Sessions` is one account from its registration on: the row of `users` (`user`), its refresh tokens in the order
of issue (`tokens`), its email links in the order sent (`links`), and the requests in
progress (`req`: place, rows still to be updated, row locks held). A token carries the sign-in it stems from, which the
code does not store: it is the chain of `_issue` calls from one login.

| Request | Actions after `Begin` |
|---|---|
| `login` | `ReadUser`, `WriteUser` |
| `refresh` | `LockToken`, `ReadUser`, `WriteUser`; for a token already revoked `LockToken`, `Select`, `UpdateRow`*, `CommitAll` |
| `logout` | `LockToken` |
| `verify` | `ReadLink`, `ReadUser`, `FlushRow`*, `EndFlush` |
| `reset` | `ReadLink`, `ReadUser`, `FlushRow`*, `EndFlush`, `Select`, `UpdateRow`*, `CommitAll` |
| `forgot`, `resend` | `ReadUser`, `Select`, `UpdateRow`*, `CommitAll` |
| `block`, `unblock` (admin) | `ReadUser`, `WriteUser` |

Facts about SQLAlchemy and PostgreSQL the actions are built on:

* What a request writes appears at its commit, all at once. Its row locks last until then.
* A verify or a reset changes the account and its link in one flush. No `relationship()` joins the two mappers, so the unit of work may write the rows in either order (`FlushOrders`);
  the sign-out of a reset comes after both. A refresh takes its token first and the user afterwards. That is a circle, and the run
  meets it: `DeadlockDetected` is PostgreSQL's rollback of one of the requests in it. Deadlock checking is on: every
  state in which nobody can go on is a circle that the database breaks.
* An UPDATE of many rows (`revoke_all_for_user`, `use_all`) takes the rows that match when it starts, in any order
  (`Select`), waits for each, and looks at it again before it changes it (`UpdateRow`). A row inserted later is not
  among them. So a login or a refresh that overlaps a sign-out survives it, and the properties speak of the tokens
  that were there when the request began (`had`).
* Expiry is judged by the request's own clock: any look at `expires_at` may find it passed, and `LockToken`
  and `ReadLink` may therefore refuse anything they look at.
* The verification mail after a registration is sent by a background task with its own
  session; it is a `resend`. A `logout` of a revoked token changes nothing and succeeds.

### Runs and bounds

`sessions`: two overlapping requests, any number of them in a row, up to three tokens and two links, two passwords; requests
and passwords are interchangeable (symmetry), and no liveness is checked in this run. 836 000 states. All races here
are between pairs of transactions; two tokens of a sign-in need two refreshes of a first token, a third token makes a second
sign-in possible beside them, two links are the least that replace each other. For more requests, tokens and links there are the theorems.

`ReadLink` takes no lock, so two overlapping resets on one link can both find it open and both succeed, although `account_service.py:1` says "Tokens are single-use". The run contains this, and no property denies it:
the later password stays, and each of the two ends every session.

Blocking an account sets its flag and leaves the tokens as they are, in the model as in `set_blocked`; when the account is
unblocked its old sessions go on. `models/tokens.py:12` says "revoked on logout/block".

## 6. Content, variants and grades

### What is modelled

`Content` is one topic with its games: the rows of `game_versions` (`versions`), the current version of each game (`live`), the pass
threshold (`threshold`), the admin requests and container starts in progress (`req`) and one attempt token (`token`). `Grading`
holds what has no state: how a seed draws the parameters of a body, the public and hidden tests of the variant, what code answers, the
percentage, the static checks and the issues of a test run. Its data are those of the signup gate, where code is the bounds it enforces. A body may be
one for which no hidden tests can be made (an unknown generator, a missing parameter, an empty range to draw from): `generator_for` or `hidden_tests` then raises, and
the run is an `error` (`Generates`). The name of a signup has its length only, and a name of negative length is empty (`Letters`).

| Request | Actions |
|---|---|
| `POST /admin/games/{slug}/versions` | `Save`, `CommitSave` |
| `POST /admin/games/{slug}/publish` | `Publish`, `TestVariant` for each publish seed, `CommitPublish` |
| `PATCH /admin/topics/{slug}` | `UpdateTopic` |
| `python -m app.games.seed`, at every container start | `BeginSync`, `InsertTopic`, then for each game `ReadGame`, `ReadNumber`, `InsertVersion`; `CommitSync`, or `StopSync` |
| `GET /games/{slug}/variant` | `OpenAttempt` |
| `POST /games/{slug}/grade` | reads only, `GradeReference` and `GradeSlips`; what it writes is `LearnerProgress` |

Facts about SQLAlchemy and PostgreSQL the actions are built on:

* A whole sync is one transaction. Its rows are invisible until the commit, and an INSERT of the same key, or an UPDATE of the same row,
  waits for it (`Inserting`, `Updating`). When the other commits, the INSERT fails and takes the request, or the whole sync, with it.
* `current_version_id` is set on the loaded object and written at the next flush, only if it differs from what was loaded: a publication of
  the version that was live when the request read it writes nothing (`same`), even if another has gone live since.
* `test_run` loads the topic anew for each variant, so each variant may meet another threshold (`read`).
* A starter run that is not graded has no score and raises no issue (`starterUp`).
* `update_topic` is one step: it writes what it was sent, whatever it read.

### Run and bounds

`content`: two admins, one container start at a time of either of two releases, a practice game and a checkpoint; three edits of the checkpoint of which one
may be published while the threshold is high, one whose reference fails on the second variant and one without edit markers; version numbers up
to 2 for saves and 3 for syncs. 1.3 million states; the admins are interchangeable, and no liveness is checked. Two admins are the least
that race for a number or for the live version, two publish seeds (the code has three) are the least of which one can pass and the other fail, and
two releases the least that make a sync add a version. Two syncs at once, and any other number of anything, are left to the theorems.
`GradesAreFair` takes one learner's token at any moment, keeps it through whatever is published afterwards, and grades the reference
and eight pieces of code that miss one bound by one.

Nothing in the code checks that the options of a lower bound stay below those of the upper one, or that there are so few public tests that one failure still shows in a rounded
percentage (187; with 188 and the twelve hidden ones, 199 of 200 is 99.5, which `round` takes to 100). `FairContent` says both of the content, and that the bodies of the seed files can be run, as
`tests/test_content.py` sees to. `MCContent` assumes it of its instance and TLC evaluates it; the seed file of the signup gate has three public tests, and its largest `min_age` is 18, its least `max_age` 99.

The documentation promises more than holds. `docs/DATABASE.md:43` says that the sync "never touches a game whose live version an admin published": but a sync
that has read a game before the publication replaces it, and ownership is read off the author, so a version that a sync made and an admin published goes with the next
release. `SyncSparesAdmins` is the part that holds.

## 7. Rewards

### What is modelled

`Rewards` is one learner's history: the practice row of each game, the checkpoint rows, the topic rows and the quiz rounds. XP, level, streak, badges and
bests are operators over these, as `GET /me/stats` computes them again at every look.

| Request | Actions |
|---|---|
| `POST /games/{slug}/practice` | `Begin`, `Find`, `Read`, `RecordPractice` |
| `POST /me/progress/lessons/{slug}`, `/import` | `Begin`, `Read` for each topic, `RecordLessons` |
| `POST /games/{slug}/hint` | `Begin`, `Find`, `RecordHint` |
| `POST /games/{slug}/grade` | `Begin`, `Find`, `Read`, `RecordCheckpoint` |
| `POST /me/quiz-results` | `Begin`, `RecordRound` |
| any of them, refused or failed | `Refuse` |
| admin: reset | `Reset` |

A request looks for its row of `attempts` (`Find`), then reads the rows of `topic_progress` one after the other, each into a copy that it changes at once (`Read`, `Changed`), and at its commit writes
the columns in which a copy differs from what was read (`Merged`). So two grades that both read a row without stars may leave the fewer of their stars in it, two briefings may both find none, and
two practice results of one game may both find no row and insert two, which `docs/DATABASE.md:29` ("one row per user+game") denies and no constraint prevents. Of several such rows `rewards.py:163` keeps the last of a query without
an order (`PracticeDates`). Which of two requests waits for the other is the matter of `LearnerProgress`, and so are the two statements of a reset, which is one step here.

The times are what the rows leave for later: `created_at` is the start of the transaction, `lesson_done_at` and `passed_at` are the
moment of the handler, and a row that is updated keeps its creation time. Requests commit some time after they began, so rows appear out of the order of their times. Whether the checkpoint of a topic is published when a briefing is reported
is left open (`published`).

The streak badge says "Practise three days in a row." (`rewards.py:226`). In the code a practice result on a game played before updates the row of
the first day, so a learner who plays one game on three days has one day of activity; a graded submission on a row that a hint opened counts for the day of the hint.
`StreakIsTheDays` therefore speaks of the days that the rows have.

### Run and bounds

`rewards`: one warm-up game, three topics of which one has a checkpoint, rounds of the daily quiz and of a speed round, three requests, two of them at once, over two and a half
days of twelve moments, in UTC and in a zone half a day behind it; a behaviour starts with three earlier rounds of the speed round, on two days, two of them before the midnight at which the third day begins. 577 000 states. Graded runs get two or three stars, so that a grade can write the
fewer over the more. Requests arrive up to moment 25 (`MaxClock`); time jumps only to moments 24 and 36 (`Wakes`), the next day and noon after it, and no request lasts longer than half a day.
Two requests at once are enough for a stale write, and for two rows of one game; three rounds, on the days before, the least that a late round can push out of those that count. In this instance the badges `first200`, `briefed`, `cleared`, `noHintHero`,
`combo5` and `streak3` are earned; the others need more requests than fit, and are computed but not met. The clock ends, so deadlock is not checked.
`MCRewards` also compares `LevelFor` with its closed form for every XP up to 3000.

Four things may take a reward away, and the properties name each where it may:

* a reset;
* a *late round*, one that began before another of its quiz and day and is saved after it: it takes the earlier place and may push a better round out of those that count (`XpOnlyGrows`);
* a *stale write*, of a row that has changed since the request read it: the XP may fall, by two stars at the most; the badge for three stars or for a streak may be lost, and what a topic's row dates
  may get a later time (`XpOnlyGrows`, `BadgesStay`);
* a game *passed twice*, in two rows: the badges for practice may get a later time, though none is lost (`BadgesStay`).

## 8. What is proved

TLC covers small instances; these theorems hold for every value of the constants, and so for any number of
overlapping requests.

**`LearnerProgress_proofs`** assumes what `LearnerProgress` declares of its constants: `NoVariant` is not a
variant, scores and the threshold lie in 0..100, tiers are positive, penalty and cooldown are naturals.
The invariants that the runs check are not inductive, because a request writes back what it has computed from rows it
read long before. `IInv` therefore says of each request's *loaded copy* what it says of the row itself:

* `TypeOK`, and no attempt is younger than the clock;
* `LedgerInv`: the submissions saved are finitely many, numbered up to their number;
* `RequestInv`: a request's copy of the summary row counts no more submissions than were saved, its best score is the score of
  one of them, its attempt is no younger than the clock, and its variant fits its operation;
* `PassIsEarned`, `CountedOnce`;
* `LockInv`, the lock of the summary row: at most one request has it; a lesson that has it found the row missing or there as it still is, a reset that has it found it there; and a lesson past its flush without the lock has
  nothing left to write.

The first four are `DataInv`. `LockInv` is what the statements between a flush and the commit need: nobody inserts, updates or deletes the row in the meantime, so the commit of a lesson cannot fail or meet another row.
That a pass is earned needs nothing of the copies: a stale pass in a copy is never written, because a request
writes only what it changed (`MergedRow`). `InitInv` and `Inductive` are the two halves, `Invariant` combines them, and `Typed`,
`PassesAreEarned`, `NothingIsCountedTwice` and `PassesAreKept` (an action property) follow. There is one lemma per action, and
lemmas about the operators (`NewestIsARow`, `WithSubmissionType`, `WithLessonType`, `MergedRowType`, ...) are stated once and cited. The
theorems are about `Spec`; `FairSpec` of the runs implies it.

**`Passes_proofs`** rests on `IInv` and adds, in `PInv`, what keeps a pass from being lost by requests that overlap:

* `KeyInv`: `created_at` tells the rows of `attempts` apart, the rows that a request is still about to insert included;
* `RowInv`: until a reset, in the row and in every copy of it stars, status and the time of the pass agree (`Coherent`), whatever pass a copy shows is in the row,
  and so is the pass of every graded attempt of the checkpoint;
* `Sound`: a row without a score is an open checkpoint attempt that has not passed;
* `WriteInv`: what a request is about to write, compared with what it loaded.

A copy may be stale, but only in one direction: the row passes and does not unpass, and `MergedRow` writes a column only where it differs from what was loaded.
So the write of a stale request cannot clear the pass that another has recorded. `PassesAreRecorded` and `PracticePassesAreKept` follow, for any number of requests.

**`GradeBook_proofs`** adds an assumption of its own to the theorem, `OneAtATime`: no two requests of the learner are under way at once. It is the condition under which
the refinement holds at all; without it the run `progress_lost_update` shows a submission that is not in the row. `SerialInv` adds to `IInv` that a lone request's copy of the row
*is* the row and that its result is one that a run can have. `BookIsKept` then says that each step is an entry, a briefing or a clearing of the abstract book, or changes nothing
of it, for every value of the other constants.

Two more theorems hold under `OneAtATime`.

* `SummaryAddsUp` (`SummaryMatchesAttempts`) rests on `TallyInv`: the rows are finitely many and told apart by `created_at`, the count, best score and stars of the summary are those of
  the graded attempts (`AddsUp`), and what the lone request has read of the rows is still so (`Ready`), its attempt being either new or the newest of its variant with a score still missing (`Prepared`). So a commit adds exactly one graded row,
  and the count, the largest score and the largest stars move with it.
* `HintsAreCharged` (`EveryHintIsCharged`) adds in `ChargeInv` that the newest row on a checkpoint variant carries the highest hint shown on it. It has a second hypothesis, `VariantsApart`: no practice
  result is on a variant of the checkpoint. `latest_attempt` does not look at the kind of a row, so without it the theorem is false, which is what `progress_hidden_hints` shows.

**`Sessions_proofs`** assumes that there is a password and that the bounds are naturals. `IInv` is

* `TypeOK`, `OneLivePerSession`;
* `LocksExclude`: no two requests hold one row;
* `RequestInv`: what each place implies (`PlaceInv`); a refresh about to rotate holds the lock of a token that is still live
  (`RotationInv`); and during an update of many rows every row that was there at the beginning has ended, or is locked by the
  update, or is still on its list (`UpdateInv`).

The last is the argument for sign-outs: the list shrinks only by rows that are locked or have been found ended, a row
that has ended stays so, and at an empty list only the first two cases are left. `RotationInv` with `LocksExclude` is the
argument for one live token per sign-in: nobody else can end or replace the token in between. The theorems are `Invariant`,
`Typed`, `OneTokenPerSession`, `SignOutCovers` and `NewLinkCovers`.

**`Content_proofs`** assumes what `Grading` and `Content` declare: no party is both admin and sync, the curriculum names each
game once, edits are of its games and seed files are complete, bodies have one name each, seeds and thresholds are positive, publishing tests at least one variant, and no row is `NoVersion`. So the
theorems hold for any number of admins, container starts, games, bodies, publish variants and versions. `IInv` is

* `TypeOK`, `NumbersAreUnique`, `OnlyTestedIsPlayed`;
* `Grounded`: numbers are bounded, so that a highest one exists (`LargestIsOne`), and nothing is saved before the topic is there;
* `LocksExclude`: no two syncs under way have written one game;
* `AdminInv`: a version about to be saved leaves no gap (`NoGap`); a version being published is a row of the table, without flaws, whose reference has
  solved every variant tested so far and whose starter code failed it, or was lost (`Found`);
* `SyncInv`: a sync's rows have the release's bodies and numbers that are still free and leave no gap, none replaces a version that an admin made, and every
  game the sync is done with is among its rows, or was an admin's, or had the release's body already (`DoneWith`).

That numbers do not collide comes from two sides: a save looks at the table when it commits (`Inserted`), a sync holds its rows against
other transactions from the INSERT on (`Inserting`, `Updating`). The second is why `SyncInv` can say "still free" of rows that nobody else can see.
The theorems are `TypeCorrect`, `VersionNumbers`, `TestedBeforePlayed` and, from the invariant, the action properties `StarterFails`,
`AdminsAreSpared` and `EveryGameIsSynced`.

`GradesFitTheVariant` is `GradesAreFair` under `FairContent`. It needs one more invariant, `SoundInv`: what is in the table, or about to be saved, can be run. The rest is about `Grading`. That the
reference gets full marks is what `OnlyTestedIsPlayed` says of a tested seed. That code with other bounds never does is an argument about the twelve generated tests (`TwelveTests`): each bound has a test on either
side, so code whose bounds differ anywhere, by any number, answers at least one of them wrongly (`SlipFails`), and with fewer than 188 public tests one failure leaves a percentage below 100 (`FullMarks`), ties to
even included. It holds for all bodies, seeds and draws; the runs have slips of one.

**`WarmSandbox_proofs`** assumes what `WarmSandbox` declares: `Boot` is not a grade, the free lock is not a task, there is at least one
slot, and the bounds are naturals. The theorems hold for any number of grades, slots, servers and jobs. `IInv` is

* `TypeOK`, `EveryWaitIsWatched`, `OwnAnswer`, `CrashHasACause` (the last two are theorems of their own, and the others rest on them);
* `LockInv`: only the task that holds the lock starts a server or waits for the end of one;
* `ServerInv`: the server in use has started and is read; no two are read; while one is up, it is the one in use and the only one read; a new one is started
  only when none is in use or its exit was noticed, and holds nothing until it is up;
* `StarterInv`: a server that is starting belongs to the holder of the lock, so an abandoned one belongs to nobody;
* `JobInv`: a job has one owner, and every job that a server which is up still holds is owned by a grade that waits there or is killing it;
* `HeldInv`: no job is held twice, and one that has been answered is held by no server;
* `SlotInv`: the semaphore is kept, and a grade that has not sent its job has a job number left.

`ServerInv` is what makes the shared `_pending` harmless: `_read_replies` fails every pending job at the end of *its* pipe, and at that
time no other server is read, whether that end is the end of its server or a reply it cannot read. `SlotsAreEnough` follows from `JobInv`: the jobs of a server are the image of a set of grades
in a slot, and the slots are no more than `Parallel`. The theorems are `TypeCorrect`, `WaitsAreWatched`, `AnswersAreOwn`, `CrashesAreReal`,
`ServerIsAlone`, `SlotsAreEnough` and the action property `KillsAreOwn`.

**`ForkServer_proofs`** assumes what `ForkServer` declares: stdin's descriptor is not a job, at least one child may run, and children end in ways that `_outcome` knows. It holds for any
number of jobs and of children at once. `IInv` is the run's invariants and

* `IsFiniteSet(sent)`, so that the number of jobs sent is a number;
* `Apart`: unread, waiting, running, awaited and answered jobs are disjoint sets of jobs that were sent, and each queue names a job once;
* `OneAwaited`: the loop waits for one child, and only at `await`;
* `RoundInv`: nothing is left of a round when the next begins, and those about to be killed are running and late.

Lemmas about sequences say what `Append`, `Tail`, a read of some lines (`Split`, `Joined`) and the removal of a child (`AfterWithout`) make of the jobs in a queue; one lemma, `FinishInv`, serves the
ways a child is finished. `AnswerStep` says of a step that writes a line that it writes one, for a job without an answer, and that the outcome is honest: `AnswersAreHonest` and the refinement
`ServeIsAJobServer` both follow from it. The theorems are `Typed`, `JobsAreInOnePlace`, `NoChildIsForgotten`, `NoClosedDescriptor`, `AnswersAreHonest` and `ServeIsAJobServer`.

**`Rewards_proofs`** assumes what `Rewards` declares: topics and games are finitely many, rounds are such as `schemas/quiz.py` accepts (also those that a behaviour starts with, whose times are past), stars lie in 0..3, half a day has
at least one moment, and zones are integers, so also offsets west of UTC. It holds for any number of requests, rows and days. `IInv` (`RowsAreDated`) is

* `RowsInv`: every row is typed, its times are past ones, and what is passed has a time;
* `RoundsInv`: the quiz rounds are finitely many, acceptable and past;
* `OpenInv`: the start of a request under way is past, no round and no other request has it, and its copies improve on what it read (`Copies`): a time that was there stays, stars do not become fewer, and only a grade,
  which has one topic, changes stars.

From there on the theorems are about the operators, none of which is stored:

* `StreaksAreRuns` (`StreakIsTheDays`): `Runs` counts, for each day, the days in a row that end there (`RunsAreRuns`: there is exactly one such number); the longest of them is the longest stretch of days that all have activity, and the third day of the first run
  of three is the earliest day whose two predecessors are there (`ThirdDays`).
* `BadgesAreKept` (`BadgesStay`): no request takes away a row that earned something (`Grows`), and without a stale write none dates a topic's row later (`TopicsImprove`, from `Copies`); over times that only get more or earlier, the first, the n-th, the later of two and the
  first of each day can only appear or move earlier (`FirstStays`, `NthStays`, `DailyStays`, `StreakStays`); over times that only get more or later, none but a streak disappears (`FirstRemains`, `NthRemains`). The same is then true of each of the twelve badges in each zone, as `BadgesStay` grades them.
* `XpNeverFalls` (`XpOnlyGrows`): a sum over a finite set is the size of a set of units (`Units`, `FoldIsUnits`), so sums are compared by inclusion (`MoreUnits`), without an induction of their own. A stale write lowers the stars of one topic, by two at the most (`StarsKeep`), since whoever writes a topic's stars writes more than it read there, so one at least (`FewerUnits`). A round that is not late comes after those of its quiz and day that are there, so
  it changes the place of none (`RoundKeepsItsXp`); `LevelFor`'s loop finds the level that the closed form names, and levels grow with the XP (`LevelForIs`, `LevelsGrow`); and a best is replaced only by a round that beats it or is as good (`BeatsIsStrict`, `BestIsUnbeaten`).

**Only model-checked**: what is stated under fairness (`RequestsFinish`, `EveryJobIsAnswered`, `EndsWithTheApi`, `GradesReturn`), which the prover does not reach. Every other property of a passing run is the subject of a theorem; where a theorem
has hypotheses beyond the assumptions on the constants (`OneAtATime`, `VariantsApart`, `FairContent`), a run or the paragraph above says what happens without them.

## 9. Hazards and findings

`PROJECT.json` lists each hazard at its line with the properties that cover it. In short:

| Part | Hazard | Answer |
|---|---|---|
| Progress | two submissions read one summary row | a submission can be lost (`progress_lost_update`); never counted twice, a pass is never lost |
| | history ordered by the row's creation | fails are missed (`progress_fails`) |
| | hints live on the newest row of a variant | a practice result hides them (`progress_hidden_hints`) |
| | `passed_at` changes its meaning with publication | complete without a checkpoint (`progress_complete`) |
| | rows of several topics locked by imports and resets | circles, which the database breaks; `RequestsFinish` |
| | two practice requests insert two rows of one game | contradicts `docs/DATABASE.md:29`; a pass is kept all the same (`PracticePassIsKept`) |
| | reset between two steps of a submission | the submission fails as a whole or writes onto a new row; a pass is still earned |
| Fork server | one `select()` result used while the table changes | `ReadyIsWatched`, `InOnePlace` |
| | a child that never ends, or ends as its deadline passes | `EveryJobIsAnswered`, `HonestAnswers` |
| | a child that closes its pipe and lives on | holds the loop; `EveryJobIsAnswered` and `EndsWithTheApi` have the condition that none does for ever, section 4 |
| Client | an answer after a restart; a reader ending late | `OwnAnswer`, `CrashHasACause` |
| | a timeout acting on a server that has been replaced | `KillsOnlyItsOwn`, `OneServer` |
| | a reader that ends, or a starter that gives up, while its server lives | `CrashHasACause`, `OneServer`: the server is not used again |
| | a job queueing in the server and losing its time | `NothingQueues` |
| Sessions | two refreshes of one token | `OneLivePerSession` |
| | two resets on one link | both may succeed; no property, section 5 |
| | a sign-out that meets a rotation | `SignOutIsComplete`, and the circle of locks is broken by the database |
| | blocking an account | tokens are not revoked; no property, section 5 |
| Content | two saves, or a save and a sync, compute one number | `NumbersAreUnique` |
| | seconds of tests between the reads and the write of a publication | `OnlyTestedIsPlayed`, `PublishedStarterFails` |
| | a starter run lost in the sandbox | raises no issue, as in the code; the property excepts it |
| | a sync overlapping publications, or stopped half way | `SyncSparesAdmins`, `SyncUpdatesAll` |
| | a version replaced between opening and submitting | `GradesAreFair` |
| | hidden tests off by one; bounds out of order | `GradesAreFair`, for content as in `FairContent` |
| Rewards | rounds saved out of the order of their times; UTC days against local days | `XpOnlyGrows`, except for a late round |
| | overlapping requests writing stars, briefings and practice rows from copies | `XpOnlyGrows` and `BadgesStay` say how much it may cost |
| | later requests rewriting rows that earned something | `BadgesStay` |
| | midnight, today and yesterday | `StreakIsTheDays` |
| | practice on a later day updates the old row | counts for no streak; no property, section 7 |

Hazards without a property have a note in `PROJECT.json`. They are about behaviour that the code has by decision or that no promise covers (a hint asked for
while a submission is being graded, blocked accounts keeping their tokens, days of practice, children that a killed server leaves behind, and `drain()` under the lock).

## 10. What is not modelled, and why

* *Topic settings* other than the pass threshold, tracks, levels and chapters: columns that nothing modelled reads, rows that a sync makes when they are missing.
* *Signing and expiry of attempt tokens*: `Content` begins where a token has been accepted. An expired one is refused, which changes nothing.
* *Inside one run of the harness*: how a request reaches the learner's app and how the vault hides the tests. `Grading` has what the run yields.
* *`set_role`*: one column, read at the start of each admin request.
* *`set_placement`, `onboarded`, goals*: single columns of `users`, written once.
* *Policy and lockdown*: a syntax check and an audit hook, filters without state. The models let a job's code do anything.
* *Feedback, tracks, analytics*: inserts and counts over one table each. The only race, two first interests in one
  track, is settled by ON CONFLICT DO NOTHING.
* *Rate limits, cookies, errors, mailer*: wrappers around the requests. No state of the models depends on them.
* *Registration of one address twice*: decided by the UNIQUE column; `Sessions` begins after it.
* *Access tokens*: signed and not stored; an access token outlives a sign-out by its own short life.
* *Schema, migrations, routing, schemas, configuration*: declarations. What the database does is part of each
  module that needs it.
