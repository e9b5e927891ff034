------------------------------ MODULE Content ------------------------------
(***************************************************************************)
(* The games of one topic, their versions, and who changes and plays them: *)
(* the admin API (services/admin_service.py), the sync of content/seed/    *)
(* that every container start runs (games/seed.py), and a learner's        *)
(* attempt tokens (services/game_service.py, games/catalog.py).            *)
(*                                                                         *)
(* A request, and a whole sync, is one transaction at READ COMMITTED.  A   *)
(* step below is what happens between two awaits that others can see or be *)
(* seen at; an INSERT that meets an uncommitted row of the same key waits  *)
(* for its transaction, and so does an UPDATE of an updated row.           *)
(***************************************************************************)
EXTENDS Grading

CONSTANTS
  Admins, Syncs,   \* requests of as many admins, and container starts, at once
  Curriculum,      \* the games of the topic, in play order
  Checkpoints,     \* the checkpoint games among them
  Body,            \* [names of game bodies -> the body]: a row keeps the name
  SeedFiles,       \* contents of content/seed/games/, one per release: [Games -> Bodies]
  Edits,           \* bodies that admins send, for each game they work on
  Thresholds,      \* pass thresholds that admins set
  SeedThreshold,   \* pass_threshold of the topic in curriculum.json
  PublishSeeds,    \* PUBLISH_SEEDS
  Played,          \* seeds that learners get
  Slips,           \* how learners' code misses the bounds it should enforce
  NoVersion,
  MaxSaved,        \* bound: highest version number that an admin saves
  MaxVersion       \* bound: highest version number that a sync makes

Games  == {Curriculum[i] : i \in DOMAIN Curriculum}
Bodies == DOMAIN Body

ASSUME PartiesAssumption == Admins \cap Syncs = {}
ASSUME CurriculumAssumption ==
  /\ Curriculum \in Seq(Games) /\ Checkpoints \subseteq Games
  /\ \A i, j \in DOMAIN Curriculum : Curriculum[i] = Curriculum[j] => i = j
ASSUME BodyAssumption ==
  /\ SeedFiles \subseteq [Games -> Bodies] /\ DOMAIN Edits \subseteq Games /\ Edits \in [DOMAIN Edits -> SUBSET Bodies]
  /\ \A b \in Bodies : LET keys == DOMAIN Body[b].params IN keys \subseteq Params /\ Body[b] \in GameBody(keys)
  /\ \A b, c \in Bodies : Body[b] = Body[c] => b = c
ASSUME SeedsAssumption ==
  /\ Seeds \subseteq Nat \ {0} /\ PublishSeeds \cup Played \subseteq Seeds /\ PublishSeeds # {}
ASSUME ThresholdAssumption == Thresholds \cup {SeedThreshold} \subseteq Nat \ {0}
(* A slip moves at least one bound, by any distance. *)
ASSUME SlipAssumption == Slips \subseteq [Params -> Int] \ {[k \in Params |-> 0]}
ASSUME VersionAssumption ==
  /\ {MaxSaved, MaxVersion} \subseteq Nat
  /\ NoVersion \notin [game : Games, number : Nat, body : Bodies, by : Admins \cup Syncs]

VARIABLES
  versions,   \* table game_versions
  live,       \* games.current_version_id; NoVersion while the game is missing
  threshold,  \* topics.pass_threshold; 0 before the first sync
  req,        \* what each request and sync has read and is about to write
  token       \* the learner's attempt token, or NoToken

vars == <<versions, live, threshold, req, token>>

-----------------------------------------------------------------------------
(* A row of game_versions: by is the transaction that made it, and tells   *)
(* created_by, which is NULL for a sync.                                   *)
Version == [game : Games, number : Nat, body : Bodies, by : Admins \cup Syncs]
ByAdmin(row) == row # NoVersion /\ row.by \in Admins

(* What test_run finds of a body, for each seed and whether the sandbox answers. *)
Reference ==
  [b \in Bodies |-> [seed \in Seeds |-> [up \in BOOLEAN |-> ReferenceRun(Body[b], seed, up)]]]
Starter ==
  [b \in Bodies |-> [seed \in Seeds |-> [up \in BOOLEAN |-> StarterRun(Body[b], seed, up)]]]
Flaws ==
  [b \in Bodies |-> [g \in Games |-> ContentIssues(Body[b], g \in Checkpoints)]]

VersionsOf(g) == {v \in versions : v.game = g}
Largest(S) == IF S = {} THEN 0 ELSE CHOOSE m \in S : \A n \in S : n <= m

NextNumber(g) == Largest({v.number : v \in VersionsOf(g)}) + 1

(* UNIQUE (game_id, version) *)
Taken(g, number) == \E v \in VersionsOf(g) : v.number = number

NoToken == [row |-> NoVersion, seed |-> 0]

(* row: the version to be written or published; same: it was live when it was read; tested: *)
(* the seeds tested so far; read: the threshold read for each, 0 if its starter run was lost. *)
IdleAdmin == [pc |-> "idle", row |-> NoVersion, same |-> FALSE, tested |-> {}, read |-> {}]
(* next: the place in the curriculum; found: what was live in each game when it was read; *)
(* wrote: the rows inserted and not yet committed; topic: the topic is one of them.       *)
IdleSync  == [pc |-> "idle", files |-> [g \in Games |-> NoVersion], next |-> 1,
              found |-> [g \in Games |-> NoVersion], row |-> NoVersion, wrote |-> {},
              topic |-> FALSE]
Go(p, q)  == req' = [req EXCEPT ![p] = q]
Finish(p) == Go(p, IF p \in Admins THEN IdleAdmin ELSE IdleSync)

Init ==
  /\ versions = {} /\ live = [g \in Games |-> NoVersion]
  /\ threshold = 0
  /\ req = [p \in Admins \cup Syncs |-> IF p \in Admins THEN IdleAdmin ELSE IdleSync]
  /\ token = NoToken

-----------------------------------------------------------------------------
(* Locks of a sync under way: rows it has inserted or updated.             *)

Inserting(g, number, p) == \E d \in Syncs \ {p} : \E v \in req[d].wrote : v.game = g /\ v.number = number
Updating(g, p)          == \E d \in Syncs \ {p} : \E v \in req[d].wrote : v.game = g

-----------------------------------------------------------------------------
(* Admin requests, of users whose role require_role has accepted.          *)

(* save_version: a body with content issues is refused. *)
Save(a) ==
  /\ req[a].pc = "idle"
  /\ \E g \in DOMAIN Edits : \E body \in Edits[g] :
       /\ live[g] # NoVersion /\ Flaws[body][g] = {}
       /\ NextNumber(g) <= MaxSaved
       /\ Go(a, [IdleAdmin EXCEPT !.pc = "save", !.row =
            [game |-> g, number |-> NextNumber(g), body |-> body, by |-> a]])
  /\ UNCHANGED <<versions, live, threshold, token>>

(* Mutant of Inserted: no UNIQUE constraint. *)
Unchecked(row) == versions \cup {row}

(* The INSERT, which fails with an IntegrityError when the number is taken by now. *)
Inserted(row) == IF Taken(row.game, row.number) THEN versions ELSE versions \cup {row}

CommitSave(a) ==
  LET row == req[a].row IN
  /\ req[a].pc = "save" /\ ~Inserting(row.game, row.number, a)
  /\ versions' = Inserted(row)
  /\ Finish(a)
  /\ UNCHANGED <<live, threshold, token>>

(* publish: _game, _version *)
Publish(a) ==
  /\ req[a].pc = "idle"
  /\ \E v \in versions :
       /\ v.game \in DOMAIN Edits
       /\ Go(a, [IdleAdmin EXCEPT !.pc = "publish", !.row = v, !.same = (live[v.game] = v)])
  /\ UNCHANGED <<versions, live, threshold, token>>

(* One test_run of publish: the threshold is read, then the sandbox runs the reference *)
(* and the starter code; either run may be lost in the sandbox.  An issue ends it.     *)
TestVariant(a) ==
  LET q == req[a]  row == q.row IN
  /\ q.pc = "publish"
  /\ \E seed \in PublishSeeds \ q.tested, up, starterUp \in BOOLEAN :
       /\ \A s \in PublishSeeds \ q.tested : seed <= s
       /\ IF Issues(Flaws[row.body][row.game], threshold, Reference[row.body][seed][up],
                    Starter[row.body][seed][starterUp]) = {}
          THEN Go(a, [q EXCEPT !.tested = @ \cup {seed},
                               !.read = @ \cup {IF starterUp THEN threshold ELSE 0}])
          ELSE Finish(a)
  /\ UNCHANGED <<versions, live, threshold, token>>

(* Mutant of MayPublish: the last variant is not waited for. *)
OneLeft(q) == \A s, t \in PublishSeeds \ q.tested : s = t

MayPublish(q) == q.tested = PublishSeeds

(* The UPDATE is left out when the version was live already at the first read. *)
CommitPublish(a) ==
  LET row == req[a].row IN
  /\ req[a].pc = "publish" /\ MayPublish(req[a])
  /\ req[a].same \/ ~Updating(row.game, a)
  /\ live' = IF req[a].same THEN live ELSE [live EXCEPT ![row.game] = row]
  /\ Finish(a)
  /\ UNCHANGED <<versions, threshold, token>>

(* update_topic.  A new threshold is written at the commit; one that was there already *)
(* when it was read is not, as if the request had come at that time.                   *)
UpdateTopic(a) ==
  /\ req[a].pc = "idle" /\ threshold # 0
  /\ threshold' \in Thresholds
  /\ UNCHANGED <<versions, live, req, token>>

-----------------------------------------------------------------------------
(* sync *)

(* Tracks, levels, chapters and the topic are made when they are missing, never changed. *)
BeginSync(d) ==
  /\ req[d].pc = "idle"
  /\ \E files \in SeedFiles :
       Go(d, [IdleSync EXCEPT !.files = files, !.topic = (threshold = 0),
                              !.pc = IF threshold = 0 THEN "topic" ELSE "games"])
  /\ UNCHANGED <<versions, live, threshold, token>>

InsertTopic(d) ==
  /\ req[d].pc = "topic"
  /\ \A e \in Syncs \ {d} : req[e].topic => req[e].pc = "topic"
  /\ IF threshold = 0 THEN Go(d, [req[d] EXCEPT !.pc = "games"]) ELSE Finish(d)
  /\ UNCHANGED <<versions, live, threshold, token>>

(* body_of(version) == body: the columns give back the body that they were made from. *)
SameBody(row, body) == row.body = body

(* Mutant of SeedOwns: created_by is not looked at. *)
AnyAuthor(row, body) == ~SameBody(row, body)

(* _sync_game: a new version is due when the live one came from the seed and differs. *)
SeedOwns(row, body) == ~ByAdmin(row) /\ ~SameBody(row, body)

Row(d, g, number) == [game |-> g, number |-> number, body |-> req[d].files[g], by |-> d]

ReadGame(d) ==
  LET q == req[d]  g == Curriculum[q.next]  seen == [q EXCEPT !.found[g] = live[g]] IN
  /\ q.pc = "games" /\ q.next <= Len(Curriculum)
  /\ IF live[g] = NoVersion
     THEN Go(d, [seen EXCEPT !.pc = "insert", !.row = Row(d, g, 1)])
     ELSE IF SeedOwns(live[g], q.files[g])
     THEN Go(d, [seen EXCEPT !.pc = "number"])
     ELSE Go(d, [seen EXCEPT !.next = @ + 1])
  /\ UNCHANGED <<versions, live, threshold, token>>

ReadNumber(d) ==
  LET g == Curriculum[req[d].next] IN
  /\ req[d].pc = "number" /\ NextNumber(g) <= MaxVersion
  /\ Go(d, [req[d] EXCEPT !.pc = "insert", !.row = Row(d, g, NextNumber(g))])
  /\ UNCHANGED <<versions, live, threshold, token>>

(* _add_version.  The number, or the slug of a new game, may be taken by now: the whole *)
(* sync is rolled back.  Then the version becomes the live one, at the next flush.       *)
InsertVersion(d) ==
  LET q == req[d]  row == q.row IN
  /\ q.pc = "insert" /\ ~Updating(row.game, d)
  /\ IF Taken(row.game, row.number) THEN Finish(d)
     ELSE Go(d, [q EXCEPT !.pc = "games", !.next = @ + 1, !.wrote = @ \cup {row},
                          !.row = NoVersion])
  /\ UNCHANGED <<versions, live, threshold, token>>

(* Mutant of Whole: the sync commits after every game. *)
Anywhere(q) == q.pc = "games"

Whole(q) == q.pc = "games" /\ q.next > Len(Curriculum)

(* Mutant of Synced: one version is set as the live one of every game. *)
AnyRow(g, wrote) == IF wrote # {} THEN CHOOSE v \in wrote : TRUE ELSE live[g]

Synced(g, wrote) == IF \E v \in wrote : v.game = g THEN CHOOSE v \in wrote : v.game = g ELSE live[g]

CommitSync(d) ==
  LET wrote == req[d].wrote IN
  /\ Whole(req[d])
  /\ versions' = versions \cup wrote
  /\ live'   = [g \in Games |-> Synced(g, wrote)]
  /\ threshold' = IF req[d].topic THEN SeedThreshold ELSE threshold
  /\ Finish(d)
  /\ UNCHANGED token

(* The container is stopped, or loses its connection: the transaction is rolled back. *)
StopSync(d) ==
  /\ req[d].pc # "idle"
  /\ Finish(d)
  /\ UNCHANGED <<versions, live, threshold, token>>

-----------------------------------------------------------------------------
(* A learner *)

(* create_attempt_token: the claims name the game with its version, and the seed. *)
AttemptToken(row, seed) == [row |-> row, seed |-> seed]

(* published_game, for a game that no admin hides *)
Playable(g) == live[g] # NoVersion

(* public_variant, in checkpoint mode *)
OpenAttempt ==
  /\ \E g \in Checkpoints, seed \in Played :
       Playable(g) /\ token' = AttemptToken(live[g], seed)
  /\ UNCHANGED <<versions, live, threshold, req>>

(* Mutant of GameForToken: the attempt is graded on what is live now. *)
LiveNow(t) == live[t.row.game]

(* game_for_token, game_version: the version of the token, published or not. *)
GameForToken(t) == t.row

(* Code for the variant of body b, graded on the variant of body c: the reference, and *)
(* code that enforces the bounds the learner saw but for a slip.                       *)
OwnReference ==
  [b \in Bodies |-> [c \in Bodies |-> [seed \in Seeds |->
     RunCases(Body[c], seed, FillCode(Body[b].reference, Pick(Body[b], seed)), TRUE)]]]
Slipped ==
  [b \in Bodies |-> [c \in Bodies |-> [seed \in Seeds |->
     {RunCases(Body[c], seed, Code("runs", [k \in Params |-> Pick(Body[b], seed)[k] + slip[k]]), TRUE) :
        slip \in Slips}]]]

(* grade changes none of these tables; its hints, cooldown and record are LearnerProgress. *)
GradeReference(t) == OwnReference[t.row.body][GameForToken(t).body][t.seed]
GradeSlips(t)     == Slipped[t.row.body][GameForToken(t).body][t.seed]

-----------------------------------------------------------------------------
Next ==
  \/ \E a \in Admins : \/ Save(a) \/ CommitSave(a) \/ Publish(a) \/ TestVariant(a)
                         \/ CommitPublish(a) \/ UpdateTopic(a)
  \/ \E d \in Syncs : \/ BeginSync(d) \/ InsertTopic(d) \/ ReadGame(d) \/ ReadNumber(d)
                        \/ InsertVersion(d) \/ CommitSync(d) \/ StopSync(d)
  \/ OpenAttempt

Spec == Init /\ [][Next]_vars
-----------------------------------------------------------------------------
(* Properties                                                              *)

Row0 == Version \cup {NoVersion}
AdminRequest ==
  [pc : {"idle", "save", "publish"}, row : Row0, same : BOOLEAN,
   tested : SUBSET PublishSeeds, read : SUBSET Nat]
SyncRun ==
  [pc : {"idle", "topic", "games", "number", "insert"},
   files : SeedFiles \cup {[g \in Games |-> NoVersion]}, next : 1..(Len(Curriculum) + 1),
   found : [Games -> Row0], row : Row0, wrote : SUBSET Version, topic : BOOLEAN]

(* The type invariant.  Among the rest: a game that exists has a live version of its own, *)
(* and the row a request holds is of the game it is about.                                *)
TypeOK ==
  /\ versions \subseteq Version
  /\ live \in [Games -> Row0]
  /\ \A g \in Games : live[g] \in VersionsOf(g) \cup {NoVersion}
  /\ threshold \in Nat
  /\ \A a \in Admins : req[a] \in AdminRequest
  /\ \A d \in Syncs : req[d] \in SyncRun
  /\ token = NoToken \/ (token.row \in versions /\ token.seed \in Played)

(* The versions of a game are numbered 1, 2, 3, ... without a gap and without a repetition, *)
(* whatever saves and syncs compute the next number at the same time.                       *)
NumbersAreUnique ==
  \A v \in versions :
    /\ \A w \in VersionsOf(v.game) : w.number = v.number => w = v
    /\ \A n \in 1..v.number : Taken(v.game, n)

(* A version that an admin wrote reaches learners (is live, or in an attempt token) only *)
(* if it has no content issue and its reference solves every variant that publish tests. *)
Solved(body, seed) ==
  Reference[body][seed][TRUE].verdict = "graded" /\ ~(Reference[body][seed][TRUE].score < 100)
Ready(row) ==
  /\ Flaws[row.body][row.game] = {}
  /\ \A seed \in PublishSeeds : Solved(row.body, seed)
OnlyTestedIsPlayed ==
  /\ \A g \in Games : ByAdmin(live[g]) => Ready(live[g])
  /\ ByAdmin(token.row) => Ready(token.row)

(* What publish makes live does not pass untouched: its starter code stays below the      *)
(* threshold on every tested variant, unless update_topic changed the threshold meanwhile *)
(* or the sandbox lost a starter run.                                                     *)
Fails(body, seed, pass) ==
  Starter[body][seed][TRUE].verdict = "graded" => ~(Starter[body][seed][TRUE].score >= pass)
PublishedStarterFails ==
  [][\A a \in Admins :
       /\ req[a].pc = "publish" /\ req[a].tested = PublishSeeds /\ req'[a].pc = "idle"
       /\ req[a].read = {threshold}
       => \A seed \in PublishSeeds : Fails(req[a].row.body, seed, threshold)]_req

(* A version that an admin wrote and published is replaced by a sync only if it went live *)
(* after the sync had read the game.                                                      *)
Commits(d) == Whole(req[d]) /\ req'[d].pc = "idle" /\ \A v \in req[d].wrote : v \in versions'
SyncSparesAdmins ==
  [][\A d \in Syncs, g \in Games :
       Commits(d) /\ ByAdmin(live[g]) /\ live'[g] # live[g] => req[d].found[g] # live[g]]_<<live, req>>

(* When a sync commits, every game that nobody published since the sync read it either *)
(* belongs to an admin or plays what the seed files say: all of them, at once.         *)
SyncUpdatesAll ==
  [][\A d \in Syncs, g \in Games :
       Commits(d) /\ live[g] = req[d].found[g]
         => live'[g] # NoVersion /\ (ByAdmin(live'[g]) \/ live'[g].body = req[d].files[g])]_<<live, req>>

(* A grade is fair to the variant the learner was given, whatever is published meanwhile: *)
(* on a tested variant the reference solution gets full marks, and code that misses a     *)
(* bound never does where the signup gate's generator writes the hidden tests.            *)
GradesAreFair ==
  token # NoToken =>
    /\ ByAdmin(token.row) /\ token.seed \in PublishSeeds
         => GradeReference(token) = [verdict |-> "graded", score |-> 100]
    /\ Body[token.row.body].generator = "signup_boundaries"
         => \A run \in GradeSlips(token) : run.verdict = "graded" /\ run.score < 100

(* What GradesAreFair takes for granted of the content, as no request or sync checks it: the *)
(* files of a release can be run (tests/test_content.py runs each with its reference), and   *)
(* with the gate's generator the bounds of every variant that learners get are in order, and *)
(* there are so few public tests that one failure still shows in the rounded score.          *)
Sound(body) == Spliced(body) /\ \A k \in DOMAIN body.params : body.params[k] # <<>>
FairContent ==
  /\ \A files \in SeedFiles : \A g \in Games : Sound(Body[files[g]])
  /\ \A b \in Bodies : Body[b].generator = "signup_boundaries" =>
       Len(Body[b].public) < 188 /\ \A seed \in Played : Generates(Body[b], seed)
=============================================================================
