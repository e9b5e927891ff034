--------------------------- MODULE Content_proofs ---------------------------
(***************************************************************************)
(* Proofs about Content, for any number of admins, syncs, games, versions, *)
(* releases and variants.  What a test run finds (module Grading) matters  *)
(* only to the last theorem; the others know one fact of it: a run lost in *)
(* the sandbox has no grade.                                               *)
(***************************************************************************)
EXTENDS Content, FiniteSetTheorems, SequenceTheorems, WellFoundedInduction, TLAPS

-----------------------------------------------------------------------------
(* Grading: what the score and the hidden tests of one variant tell.       *)

(* The share of tests passed is a percentage, and short of 100 when a test of fewer than 200 *)
(* fails: of 200 tests, one failure is 99.5, which round() makes 100.                        *)
LEMMA PercentageIs ==
  ASSUME NEW n \in Nat \ {0}, NEW p \in 0..n
  PROVE  /\ Percentage(p, n) \in 0..100
         /\ p < n /\ n < 200 => Percentage(p, n) < 100
<1> DEFINE whole == (100 * p) \div n
           rest  == (100 * p) % n
           twice == 2 * rest
<1>1. whole \in Int /\ rest \in 0..(n - 1) /\ 100 * p = n * whole + rest
  OBVIOUS
<1>2. Percentage(p, n) =
        IF twice > n \/ (twice = n /\ whole % 2 = 1) THEN whole + 1 ELSE whole
  BY DEF Percentage
<1> HIDE DEF whole, rest
<1>3. whole >= 0
  <2> SUFFICES ASSUME whole <= -1 PROVE FALSE
    BY <1>1
  <2>1. n * whole <= n * (-1)
    BY <1>1
  <2> QED
    BY <1>1, <2>1
<1>4. whole <= 100
  <2> SUFFICES ASSUME whole >= 101 PROVE FALSE
    BY <1>1
  <2>1. n * whole >= n * 101
    BY <1>1
  <2> QED
    BY <1>1, <2>1
<1>5. whole = 100 => rest = 0
  BY <1>1
<1>6. p < n => whole # 100
  BY <1>1
<1>7. p < n /\ n < 200 /\ whole = 99 => twice < n
  BY <1>1
<1> QED
  BY <1>1, <1>2, <1>3, <1>4, <1>5, <1>6, <1>7

(* Filling placeholders keeps the number of tests, and those of a gate are twelve. *)
LEMMA FilledTests ==
  ASSUME NEW tests \in Seq(Tests), NEW params
  PROVE  /\ FillTests(tests, params) \in Seq(UNION {{FillTests(tests, params)[i]} : i \in DOMAIN tests})
         /\ Len(FillTests(tests, params)) = Len(tests)
<1> DEFINE filled == FillTests(tests, params)
           S      == UNION {{filled[i]} : i \in DOMAIN tests}
<1>1. Len(tests) \in Nat /\ DOMAIN tests = 1..Len(tests)
  BY LenProperties
<1>2. filled = [i \in 1..Len(tests) |-> filled[i]]
  BY <1>1 DEF FillTests
<1> HIDE DEF filled
<1>3. filled \in [1..Len(tests) -> S]
  BY <1>1, <1>2
<1> HIDE DEF S
<1>4. filled \in Seq(S) /\ Len(filled) = Len(tests)
  BY <1>1, <1>3
<1> QED
  BY <1>4 DEF filled, S

LEMMA TwelveTests ==
  ASSUME NEW p, NEW luck
  PROVE  \E H : SignupBoundaries(p, luck) \in Seq(H) /\ Len(SignupBoundaries(p, luck)) = 12
<1> DEFINE tests == SignupBoundaries(p, luck)
           H     == {tests[i] : i \in 1..12}
<1>1. tests = [i \in 1..12 |-> tests[i]] /\ Len(tests) = 12
  BY DEF SignupBoundaries
<1> HIDE DEF tests
<1>2. tests \in [1..12 -> H]
  BY <1>1
<1> HIDE DEF H
<1>3. tests \in Seq(H)
  BY <1>2, SeqDef
<1>4. \E S : tests \in Seq(S) /\ Len(tests) = 12
  BY <1>1, <1>3
<1> QED
  BY <1>4, Zenon DEF tests

(* The tests of a variant: the public ones, then the hidden ones. *)
LEMMA TestsInOrder ==
  ASSUME NEW keys, NEW body \in GameBody(keys), NEW seed
  PROVE  LET tests == TestsOf(body, seed)  public == Len(body.public)
             hidden == HiddenTests(body, seed)
         IN  /\ public \in Nat /\ Len(hidden) \in Nat
             /\ Len(tests) = public + Len(hidden) /\ DOMAIN tests = 1..Len(tests)
             /\ tests # <<>> => Len(tests) # 0
             /\ \A i \in 1..Len(hidden) : tests[public + i] = hidden[i]
             /\ body.generator = "signup_boundaries" => Len(hidden) = 12
<1> DEFINE params == Pick(body, seed)
           public == FillTests(body.public, params)
           hidden == HiddenTests(body, seed)
<1>1. body.public \in Seq(Tests) /\ body.hidden \in Seq(Tests)
  BY DEF GameBody
<1>2. PICK P : public \in Seq(P)
  BY <1>1, FilledTests
<1>3. \E H : hidden \in Seq(H) /\ (body.generator = "signup_boundaries" => Len(hidden) = 12)
  <2>1. CASE body.generator = "signup_boundaries"
    <3>1. \E H : hidden \in Seq(H) /\ Len(hidden) = 12
      BY <2>1, TwelveTests DEF HiddenTests
    <3> QED
      BY <2>1, <3>1
  <2>2. CASE body.generator # "signup_boundaries"
    <3>1. hidden = FillTests(body.hidden, params)
      BY <2>2 DEF HiddenTests, TemplatedTests
    <3>2. PICK H : H = UNION {{FillTests(body.hidden, params)[i]} : i \in DOMAIN body.hidden}
      OBVIOUS
    <3>3. FillTests(body.hidden, params) \in Seq(H)
      BY <1>1, <3>2, FilledTests
    <3>4. hidden \in Seq(H)
      BY <3>1, <3>3
    <3> HIDE DEF hidden
    <3> QED
      BY <2>2, <3>4, Zenon
  <2> QED
    BY <2>1, <2>2
<1>4. PICK H : hidden \in Seq(H) /\ (body.generator = "signup_boundaries" => Len(hidden) = 12)
  BY <1>3
<1>5. TestsOf(body, seed) = public \o hidden
  BY DEF TestsOf
<1>6. Len(public) = Len(body.public)
  BY <1>1, FilledTests
<1> HIDE DEF public, hidden
<1>7. public \in Seq(P \cup H) /\ hidden \in Seq(P \cup H)
  BY <1>2, <1>4, SeqMonotonic
<1>8. /\ public \o hidden \in Seq(P \cup H) /\ Len(public) \in Nat /\ Len(hidden) \in Nat
      /\ Len(public \o hidden) = Len(public) + Len(hidden)
      /\ \A i \in 1..Len(hidden) : (public \o hidden)[Len(public) + i] = hidden[i]
  BY <1>7
<1>9. /\ DOMAIN (public \o hidden) = 1..Len(public \o hidden)
      /\ public \o hidden # <<>> => Len(public \o hidden) # 0
  BY <1>8, LenProperties, EmptySeq
<1> QED
  BY <1>4, <1>5, <1>6, <1>8, <1>9 DEF hidden

(* A run's score is a percentage, and less than all of it when a test fails. *)
LEMMA ScoreIs ==
  ASSUME NEW keys, NEW body \in GameBody(keys), NEW seed, NEW code, NEW up
  PROVE  LET tests == TestsOf(body, seed)
             run   == RunCases(body, seed, code, up)
         IN  /\ run = [verdict |-> run.verdict, score |-> run.score]
             /\ run.score \in 0..100
             /\ \A i \in DOMAIN tests : i \notin Passed(code.bounds, tests) /\ Len(tests) < 200 => run.score < 100
<1> DEFINE tests  == TestsOf(body, seed)
           run    == RunCases(body, seed, code, up)
           passed == Passed(code.bounds, tests)
<1>1. /\ Len(tests) \in Nat /\ DOMAIN tests = 1..Len(tests)
      /\ tests # <<>> => Len(tests) # 0
  BY TestsInOrder
<1>2. /\ run = [verdict |-> run.verdict, score |-> run.score]
      /\ run.score = 0 \/ (tests # <<>> /\ run.score = Percentage(Cardinality(passed), Len(tests)))
  BY DEF RunCases
<1>3. passed \subseteq DOMAIN tests
  BY DEF Passed
<1> HIDE DEF tests, run, passed
<1>4. IsFiniteSet(1..Len(tests)) /\ Cardinality(1..Len(tests)) = Len(tests)
  BY <1>1, FS_Interval
<1>5. /\ IsFiniteSet(passed) /\ Cardinality(passed) <= Len(tests)
      /\ Cardinality(passed) = Len(tests) => passed = 1..Len(tests)
  BY <1>1, <1>3, <1>4, FS_Subset
<1>6. Cardinality(passed) \in 0..Len(tests)
  BY <1>1, <1>5, FS_CardinalityType
<1>7. \A i \in DOMAIN tests : i \notin passed => Cardinality(passed) < Len(tests)
  BY <1>1, <1>5, <1>6
<1>8. CASE run.score = 0
  BY <1>2, <1>8 DEF tests, run, passed
<1>9. CASE tests # <<>> /\ run.score = Percentage(Cardinality(passed), Len(tests))
  <2>1. Len(tests) \in Nat \ {0}
    BY <1>1, <1>9
  <2>2. /\ run.score \in 0..100
        /\ Cardinality(passed) < Len(tests) /\ Len(tests) < 200 => run.score < 100
    BY <1>6, <1>9, <2>1, PercentageIs
  <2> QED
    BY <1>2, <1>7, <2>2 DEF tests, run, passed
<1> QED
  BY <1>2, <1>8, <1>9

Keeps(bounds, age, len) ==
  /\ bounds["min_age"] <= age /\ age <= bounds["max_age"]
  /\ bounds["name_min"] <= len /\ len <= bounds["name_max"]

(* Code that enforces other bounds than the variant's fails one of the hidden tests of the *)
(* gate, whatever the bounds: two tests contradict each other when a name could be shorter  *)
(* than no letter at all.                                                                   *)
LEMMA SlipFails ==
  ASSUME NEW p \in [Params -> Int], Drawable(p), NEW luck,
         NEW bounds \in [Params -> Int], bounds # p
  PROVE  LET hidden == SignupBoundaries(p, luck)
         IN  \E i \in 1..12 : Status(bounds, hidden[i]) # hidden[i].expect
<1> DEFINE hidden == SignupBoundaries(p, luck)
           lo == p["min_age"]  hi == p["max_age"]  nmin == p["name_min"]  nmax == p["name_max"]
           a == bounds["min_age"]  b == bounds["max_age"]
           c == bounds["name_min"]  d == bounds["name_max"]
           age == (lo + hi) \div 2
           len == Letters((nmin + nmax) \div 2)
<1>1. SUFFICES ASSUME \A i \in 1..12 : Status(bounds, hidden[i]) = hidden[i].expect
               PROVE  FALSE
  OBVIOUS
<1>2. /\ lo \in Int /\ hi \in Int /\ nmin \in Int /\ nmax \in Int
      /\ a \in Int /\ b \in Int /\ c \in Int /\ d \in Int
  BY DEF Params
<1>3. lo <= hi /\ nmin <= nmax /\ len \in Int
  BY <1>2 DEF Drawable, Letters
<1>4. ~(a = lo /\ b = hi /\ c = nmin /\ d = nmax)
  BY DEF Params
<1> DEFINE Sends(i, x, y, n) ==
             hidden[i].numeric /\ hidden[i].age = x /\ hidden[i].len = y /\ hidden[i].expect = n
<1>5. /\ Sends(1, lo, len, 201) /\ Sends(2, lo - 1, len, 422)
      /\ Sends(3, hi, len, 201) /\ Sends(4, hi + 1, len, 422)
  BY DEF SignupBoundaries, Test
<1>6. /\ Sends(6, age, Letters(nmin), 201) /\ Sends(7, age, Letters(nmin - 1), 422)
      /\ Sends(8, age, Letters(nmax), 201) /\ Sends(9, age, Letters(nmax + 1), 422)
  BY DEF SignupBoundaries, Test
<1> HIDE DEF hidden, lo, hi, nmin, nmax, a, b, c, d, age, len
<1>7. ASSUME NEW i \in 1..12, NEW x, NEW y
      PROVE  /\ Sends(i, x, y, 201) => Keeps(bounds, x, y)
             /\ Sends(i, x, y, 422) => ~Keeps(bounds, x, y)
  <2>1. Status(bounds, hidden[i]) = hidden[i].expect
    BY <1>1
  <2> QED
    BY <2>1 DEF Status, Keeps
<1> HIDE DEF Sends
<1>8. Keeps(bounds, lo, len) /\ ~Keeps(bounds, lo - 1, len)
  BY <1>5, <1>7
<1>9. Keeps(bounds, hi, len) /\ ~Keeps(bounds, hi + 1, len)
  BY <1>5, <1>7
<1>10. Keeps(bounds, age, Letters(nmin)) /\ ~Keeps(bounds, age, Letters(nmin - 1))
  BY <1>6, <1>7
<1>11. Keeps(bounds, age, Letters(nmax)) /\ ~Keeps(bounds, age, Letters(nmax + 1))
  BY <1>6, <1>7
<1>12. nmin >= 1
  BY <1>2, <1>10 DEF Letters
<1>13. /\ Letters(nmin) = nmin /\ Letters(nmin - 1) = nmin - 1
       /\ Letters(nmax) = nmax /\ Letters(nmax + 1) = nmax + 1
  BY <1>2, <1>3, <1>12 DEF Letters
<1>14. a = lo /\ b = hi
  BY <1>2, <1>3, <1>8, <1>9 DEF Keeps, a, b, c, d
<1>15. age \in Int
  BY <1>2 DEF age
<1>16. c = nmin /\ d = nmax
  BY <1>2, <1>3, <1>10, <1>11, <1>13, <1>15 DEF Keeps, a, b, c, d
<1> QED
  BY <1>4, <1>14, <1>16
(* What grades 100 is all of it. *)
LEMMA FullMarks ==
  ASSUME NEW keys, NEW body \in GameBody(keys), NEW seed, NEW code, NEW up,
         RunCases(body, seed, code, up).verdict = "graded",
         ~(RunCases(body, seed, code, up).score < 100)
  PROVE  RunCases(body, seed, code, up) = [verdict |-> "graded", score |-> 100]
<1> DEFINE run == RunCases(body, seed, code, up)
<1>1. run = [verdict |-> run.verdict, score |-> run.score] /\ run.score \in 0..100
  BY ScoreIs
<1> HIDE DEF run
<1>2. run.score = 100
  BY <1>1 DEF run
<1> QED
  BY <1>1, <1>2 DEF run

(* Code whose bounds are not the variant's is graded, and below 100. *)
LEMMA SlipIsGraded ==
  ASSUME NEW keys, NEW body \in GameBody(keys), NEW seed,
         body.generator = "signup_boundaries", Generates(body, seed), Spliced(body),
         Len(body.public) < 188, Pick(body, seed) \in [Params -> Int],
         NEW bounds \in [Params -> Int], bounds # Pick(body, seed)
  PROVE  LET run == RunCases(body, seed, Code("runs", bounds), TRUE)
         IN  run.verdict = "graded" /\ run.score < 100
<1> DEFINE run    == RunCases(body, seed, Code("runs", bounds), TRUE)
           p      == Pick(body, seed)
           tests  == TestsOf(body, seed)
           hidden == HiddenTests(body, seed)
           public == Len(body.public)
<1>1. run.verdict = "graded"
  BY DEF RunCases, Code
<1>2. Drawable(p)
  BY DEF Generates
<1>3. \E i \in 1..12 : Status(bounds, hidden[i]) # hidden[i].expect
  BY <1>2, SlipFails DEF HiddenTests
<1>4. /\ public \in Nat /\ Len(hidden) = 12 /\ Len(tests) = public + Len(hidden)
      /\ DOMAIN tests = 1..Len(tests) /\ \A i \in 1..Len(hidden) : tests[public + i] = hidden[i]
  BY TestsInOrder
<1>5. \A i \in DOMAIN tests : i \notin Passed(bounds, tests) /\ Len(tests) < 200 => run.score < 100
  BY ScoreIs DEF Code
<1>6. public < 188
  OBVIOUS
<1> HIDE DEF run, p, tests, hidden, public
<1>7. PICK i \in 1..12 : Status(bounds, hidden[i]) # hidden[i].expect
  BY <1>3
<1>8. public + i \in DOMAIN tests /\ tests[public + i] = hidden[i] /\ Len(tests) < 200
  <2>1. public \in Nat /\ Len(tests) = public + 12
    BY <1>4
  <2>2. i \in 1..Len(hidden)
    BY <1>4, <1>7
  <2>3. i \in 1..12
    BY <1>7
  <2>4. public + i \in 1..Len(tests) /\ Len(tests) < 200
    BY <1>6, <2>1, <2>3
  <2> QED
    BY <1>4, <2>2, <2>4
<1>9. public + i \notin Passed(bounds, tests)
  BY <1>7, <1>8 DEF Passed
<1> QED
  BY <1>1, <1>5, <1>8, <1>9 DEF run

-----------------------------------------------------------------------------
USE PartiesAssumption, CurriculumAssumption, BodyAssumption, SeedsAssumption,
    ThresholdAssumption, VersionAssumption

Parties == Admins \cup Syncs
Bound   == MaxSaved + MaxVersion + 1

-----------------------------------------------------------------------------
(* The inductive invariant.                                                *)

(* A row about to be inserted leaves no gap. *)
NoGap(row) == row.number <= Bound /\ \A n \in 1..(row.number - 1) : Taken(row.game, n)

(* What publish has found so far of the version that it will make live. *)
Found(q, seed) ==
  /\ Flaws[q.row.body][q.row.game] = {}
  /\ Solved(q.row.body, seed)
  /\ 0 \in q.read \/ \E pass \in q.read : Fails(q.row.body, seed, pass)

AdminInv(a) ==
  LET q == req[a] IN
  /\ q.pc = "save" => versions # {} /\ q.row \in Version /\ NoGap(q.row)
  /\ q.pc = "publish" => q.row \in versions /\ \A seed \in q.tested : Found(q, seed)

(* A game that a sync is done with: written, an admin's, or as the seed files have it. *)
DoneWith(q, g) ==
  \/ \E v \in q.wrote : v.game = g
  \/ q.found[g] # NoVersion /\ (ByAdmin(q.found[g]) \/ q.found[g].body = q.files[g])

(* A row that a sync is to insert, or has inserted and not committed. *)
SeedRow(q, v) ==
  v \in Version /\ v.body = q.files[v.game] /\ NoGap(v) /\ ~ByAdmin(v) /\ ~ByAdmin(q.found[v.game])

SyncInv(d) ==
  LET q == req[d] IN
  /\ q.pc = "idle" => q.wrote = {}
  /\ q.pc # "idle" => q.files \in SeedFiles
  /\ q.pc # "idle" => q.topic \/ threshold # 0
  /\ q.pc \in {"number", "insert"} =>
       q.next <= Len(Curriculum) /\ ~ByAdmin(q.found[Curriculum[q.next]])
  /\ q.pc = "insert" => SeedRow(q, q.row) /\ q.row.game = Curriculum[q.next]
  /\ \A v \in q.wrote : /\ SeedRow(q, v) /\ ~Taken(v.game, v.number)
                        /\ \E i \in 1..(q.next - 1) : v.game = Curriculum[i]
  /\ \A v, w \in q.wrote : v.game = w.game => v = w
  /\ \A i \in 1..(q.next - 1) : DoneWith(q, Curriculum[i])

(* Two syncs under way have not written one game. *)
LocksExclude ==
  \A d, e \in Syncs : d # e => \A v \in req[d].wrote, w \in req[e].wrote : v.game # w.game

(* Nothing is saved before the topic is there, and the numbers are bounded. *)
Grounded ==
  /\ DOMAIN req = Parties
  /\ versions # {} => threshold # 0
  /\ \A v \in versions : v.number <= Bound

IInv ==
  /\ TypeOK /\ Grounded /\ LocksExclude /\ NumbersAreUnique /\ OnlyTestedIsPlayed
  /\ \A a \in Admins : AdminInv(a)
  /\ \A d \in Syncs : SyncInv(d)

-----------------------------------------------------------------------------
(* Lemmas                                                                  *)

(* The largest of finitely many numbers is one of them. *)
LEMMA LargestIsOne ==
  ASSUME NEW S \in SUBSET Nat, S # {}, NEW k \in Nat, \A n \in S : n <= k
  PROVE  Largest(S) \in S /\ \A n \in S : n <= Largest(S)
<1> DEFINE Uppers == {u \in Nat : \A n \in S : n <= u}
           Below  == OpToRel(<, Nat)
<1>1. IsWellFoundedOn(Below, Nat)
  BY NatLessThanWellFounded
<1>2. \A x, y \in Nat : x < y => <<x, y>> \in Below
  BY DEF OpToRel
<1>3. Uppers \subseteq Nat /\ Uppers # {}
  OBVIOUS
<1> HIDE DEF Uppers, Below
<1>4. PICK u \in Uppers : \A w \in Uppers : ~(<<w, u>> \in Below)
  BY <1>1, <1>3, WFMin
<1>5. \A w \in Uppers : ~(w < u)
  BY <1>2, <1>3, <1>4, Zenon
<1>6. u \in S
  <2> SUFFICES ASSUME u \notin S PROVE FALSE
    OBVIOUS
  <2>1. u - 1 \in Uppers
    BY <1>3 DEF Uppers
  <2> QED
    BY <2>1, <1>3, <1>5
<1>7. \E m \in S : \A n \in S : n <= m
  BY <1>6 DEF Uppers
<1> QED
  BY <1>7, S # {} DEF Largest

(* The next number is free and leaves no gap. *)
LEMMA NextIsFree ==
  ASSUME IInv, NEW g \in Games
  PROVE  /\ NextNumber(g) \in Nat \ {0}
         /\ \A n \in 1..(NextNumber(g) - 1) : Taken(g, n)
<1> DEFINE S == {v.number : v \in VersionsOf(g)}
<1>1. S \in SUBSET Nat /\ \A n \in S : n <= Bound
  BY DEF IInv, TypeOK, Grounded, VersionsOf, Version
<1>2. Bound \in Nat
  BY DEF Bound
<1>3. CASE S = {}
  BY <1>3 DEF NextNumber, Largest
<1>4. CASE S # {}
  <2>1. Largest(S) \in S
    BY <1>1, <1>2, <1>4, LargestIsOne
  <2>2. PICK v \in VersionsOf(g) : v.number = Largest(S)
    BY <2>1
  <2>3. \A n \in 1..v.number : Taken(g, n)
    BY <2>2 DEF IInv, NumbersAreUnique, VersionsOf
  <2>4. NextNumber(g) = v.number + 1 /\ v.number \in Nat
    BY <2>1, <2>2, <1>1 DEF NextNumber
  <2> QED
    BY <2>3, <2>4
<1> QED
  BY <1>3, <1>4

(* A run that the sandbox lost has no grade. *)
LEMMA LostIsNotGraded ==
  ASSUME NEW body \in Bodies, NEW seed \in Seeds, NEW up \in BOOLEAN
  PROVE  /\ Reference[body][seed][up].verdict = "graded" => up
         /\ Starter[body][seed][up].verdict = "graded" => up
<1>1. Reference[body][seed][up] = ReferenceRun(Body[body], seed, up)
  BY DEF Reference
<1>2. Starter[body][seed][up] = StarterRun(Body[body], seed, up)
  BY DEF Starter
<1>3. \A b, code : RunCases(b, seed, code, up).verdict = "graded" => up
  BY DEF RunCases
<1> QED
  BY <1>1, <1>2, <1>3 DEF ReferenceRun, StarterRun

-----------------------------------------------------------------------------
(* What a step keeps of the requests that do not take it.                  *)

LEMMA OtherAdmin ==
  ASSUME IInv, NEW a \in Admins, req'[a] = req[a], versions \subseteq versions'
  PROVE  AdminInv(a)'
<1>1. \A g, n : Taken(g, n) => Taken(g, n)'
  BY DEF Taken, VersionsOf
<1>2. AdminInv(a)
  BY DEF IInv
<1> QED
  BY <1>1, <1>2 DEF AdminInv, NoGap, Found

LEMMA OtherSync ==
  ASSUME IInv, NEW d \in Syncs, req'[d] = req[d], versions \subseteq versions',
         threshold # 0 => threshold' # 0,
         \A v \in req[d].wrote : ~Taken(v.game, v.number)'
  PROVE  SyncInv(d)'
<1>1. \A g, n : Taken(g, n) => Taken(g, n)'
  BY DEF Taken, VersionsOf
<1>2. SyncInv(d)
  BY DEF IInv
<1>3. \A v : SeedRow(req[d], v) => SeedRow(req[d], v)'
  BY <1>1 DEF SeedRow, NoGap, ByAdmin
<1>4. \A g : DoneWith(req[d], g) => DoneWith(req[d], g)'
  BY DEF DoneWith, ByAdmin
<1> QED
  BY <1>2, <1>3, <1>4 DEF SyncInv, ByAdmin

(* A step that changes nothing but its own request. *)
LEMMA Quiet ==
  ASSUME IInv, NEW p \in Parties, NEW q, Go(p, q),
         UNCHANGED <<versions, live, threshold, token>>,
         p \in Admins => q \in AdminRequest /\ AdminInv(p)',
         p \in Syncs => /\ q \in SyncRun /\ SyncInv(p)'
                        /\ \A e \in Syncs \ {p} : \A v \in q.wrote, w \in req[e].wrote :
                             v.game # w.game
  PROVE  IInv'
<1>1. DOMAIN req = Parties
  BY DEF IInv, Grounded
<1>2. req'[p] = q /\ \A r \in Parties \ {p} : req'[r] = req[r]
  BY <1>1 DEF Go
<1>3. DOMAIN req' = Parties
  BY <1>1 DEF Go
<1>4. TypeOK'
  BY <1>2 DEF IInv, TypeOK, VersionsOf, Parties
<1>5. Grounded'
  BY <1>3 DEF IInv, Grounded
<1>6. LocksExclude'
  <2> SUFFICES ASSUME NEW d \in Syncs, NEW e \in Syncs, d # e,
                      NEW v \in req'[d].wrote, NEW w \in req'[e].wrote
               PROVE  v.game # w.game
    BY DEF LocksExclude
  <2>1. CASE d = p
    BY <2>1, <1>2 DEF Parties
  <2>2. CASE e = p
    BY <2>2, <1>2 DEF Parties
  <2>3. CASE d # p /\ e # p
    BY <2>3, <1>2 DEF IInv, LocksExclude, Parties
  <2> QED
    BY <2>1, <2>2, <2>3
<1>7. NumbersAreUnique'
  BY DEF IInv, NumbersAreUnique, VersionsOf, Taken
<1>10. OnlyTestedIsPlayed'
  BY DEF IInv, OnlyTestedIsPlayed, Ready, ByAdmin
<1>8. \A a \in Admins : AdminInv(a)'
  BY <1>2, OtherAdmin DEF Parties
<1>9. \A d \in Syncs : SyncInv(d)'
  <2> SUFFICES ASSUME NEW d \in Syncs, d # p PROVE SyncInv(d)'
    OBVIOUS
  <2>1. \A v \in req[d].wrote : ~Taken(v.game, v.number)'
    BY DEF IInv, SyncInv, Taken, VersionsOf
  <2> QED
    BY <1>2, <2>1, OtherSync DEF Parties
<1> QED
  BY <1>4, <1>5, <1>6, <1>7, <1>10, <1>8, <1>9 DEF IInv

LEMMA IdleTypes == IdleAdmin \in AdminRequest /\ IdleSync \in SyncRun
<1>1. Len(Curriculum) \in Nat
  OBVIOUS
<1> QED
  BY <1>1 DEF IdleAdmin, IdleSync, AdminRequest, SyncRun, Row0

(* A request that ends without a commit. *)
LEMMA Ends ==
  ASSUME IInv, NEW p \in Parties, Finish(p), UNCHANGED <<versions, live, threshold, token>>
  PROVE  IInv'
<1>1. DOMAIN req = Parties
  BY DEF IInv, Grounded
<1>2. CASE p \in Admins
  <2>1. Go(p, IdleAdmin) /\ p \notin Syncs
    BY <1>2 DEF Finish
  <2>2. AdminInv(p)'
    BY <2>1, <1>1 DEF Go, AdminInv, IdleAdmin
  <2> QED
    BY <2>1, <2>2, IdleTypes, Quiet
<1>3. CASE p \in Syncs
  <2>1. Go(p, IdleSync) /\ p \notin Admins
    BY <1>3 DEF Finish
  <2>2. SyncInv(p)'
    BY <2>1, <1>1 DEF Go, SyncInv, IdleSync
  <2>3. IdleSync.wrote = {}
    BY DEF IdleSync
  <2> QED
    BY <2>1, <2>2, <2>3, IdleTypes, Quiet
<1> QED
  BY <1>2, <1>3 DEF Parties

-----------------------------------------------------------------------------
(* The admins' steps *)

LEMMA SaveStep ==
  ASSUME IInv, NEW a \in Admins, Save(a)
  PROVE  IInv'
<1>1. PICK g \in DOMAIN Edits : \E body \in Edits[g] :
        /\ live[g] # NoVersion
        /\ NextNumber(g) <= MaxSaved
        /\ Go(a, [IdleAdmin EXCEPT !.pc = "save", !.row =
                [game |-> g, number |-> NextNumber(g), body |-> body, by |-> a]])
  BY DEF Save
<1>0. PICK body \in Edits[g] :
        /\ live[g] # NoVersion
        /\ NextNumber(g) <= MaxSaved
        /\ Go(a, [IdleAdmin EXCEPT !.pc = "save", !.row =
                [game |-> g, number |-> NextNumber(g), body |-> body, by |-> a]])
  BY <1>1
<1>2. g \in Games /\ body \in Bodies
  OBVIOUS
<1>3. NextNumber(g) \in Nat \ {0} /\ \A n \in 1..(NextNumber(g) - 1) : Taken(g, n)
  BY <1>2, NextIsFree
<1>4. PICK row \in Version :
        row = [game |-> g, number |-> NextNumber(g), body |-> body, by |-> a]
  BY <1>2, <1>3 DEF Version
<1>5. NoGap(row)
  BY <1>0, <1>3, <1>4 DEF NoGap, Bound
<1> DEFINE q == [IdleAdmin EXCEPT !.pc = "save", !.row = row]
<1>6. q \in AdminRequest /\ q.pc = "save" /\ q.row = row
  BY <1>4 DEF IdleAdmin, AdminRequest, Row0
<1>7. UNCHANGED <<versions, live, threshold, token>> /\ Go(a, q)
  BY <1>0, <1>4 DEF Save
<1> HIDE DEF q
<1>8. AdminInv(a)'
  <2>1. req'[a] = q
    BY <1>7 DEF Go, IInv, Grounded, Parties
  <2>2. NoGap(row)'
    BY <1>5, <1>7 DEF NoGap, Taken, VersionsOf
  <2>3. versions' # {}
    BY <1>0, <1>2, <1>7 DEF IInv, TypeOK, VersionsOf
  <2> QED
    BY <2>1, <2>2, <2>3, <1>4, <1>6 DEF AdminInv
<1> QED
  BY <1>6, <1>7, <1>8, Quiet DEF Parties

LEMMA PublishStep ==
  ASSUME IInv, NEW a \in Admins, Publish(a)
  PROVE  IInv'
<1>1. PICK v \in versions :
        Go(a, [IdleAdmin EXCEPT !.pc = "publish", !.row = v, !.same = (live[v.game] = v)])
  BY DEF Publish
<1> DEFINE q == [IdleAdmin EXCEPT !.pc = "publish", !.row = v, !.same = (live[v.game] = v)]
<1>2. v \in Version
  BY DEF IInv, TypeOK
<1>3. q \in AdminRequest
  BY <1>2 DEF IdleAdmin, AdminRequest, Row0
<1>4. UNCHANGED <<versions, live, threshold, token>>
  BY DEF Publish
<1>5. AdminInv(a)'
  <2>1. req'[a] = q
    BY <1>1 DEF Go, IInv, Grounded, Parties
  <2>2. q.pc = "publish" /\ q.row = v /\ q.tested = {}
    BY DEF IdleAdmin
  <2> QED
    BY <2>1, <2>2, <1>4 DEF AdminInv
<1>6. a \in Parties /\ a \notin Syncs /\ Go(a, q)
  BY <1>1 DEF Parties
<1> HIDE DEF q
<1> QED
  BY <1>3, <1>4, <1>5, <1>6, Quiet

(* A variant that raised no issue is solved, and its starter code fails unless it was lost. *)
LEMMA NoIssue ==
  ASSUME NEW flaws, NEW pass, NEW run, NEW starter, Issues(flaws, pass, run, starter) = {}
  PROVE  /\ flaws = {} /\ run.verdict = "graded" /\ ~(run.score < 100)
         /\ starter.verdict = "graded" => ~(starter.score >= pass)
BY DEF Issues

LEMMA TestVariantStep ==
  ASSUME IInv, NEW a \in Admins, TestVariant(a)
  PROVE  IInv'
<1> DEFINE q == req[a]  row == q.row
<1>1. PICK seed \in PublishSeeds \ q.tested, up \in BOOLEAN, starterUp \in BOOLEAN :
        IF Issues(Flaws[row.body][row.game], threshold, Reference[row.body][seed][up],
                  Starter[row.body][seed][starterUp]) = {}
        THEN Go(a, [q EXCEPT !.tested = @ \cup {seed},
                             !.read = @ \cup {IF starterUp THEN threshold ELSE 0}])
        ELSE Finish(a)
  BY DEF TestVariant
<1>2. UNCHANGED <<versions, live, threshold, token>> /\ q.pc = "publish"
  BY DEF TestVariant
<1>3. a \in Parties /\ a \notin Syncs
  BY DEF Parties
<1>4. CASE Issues(Flaws[row.body][row.game], threshold, Reference[row.body][seed][up],
                  Starter[row.body][seed][starterUp]) # {}
  BY <1>1, <1>2, <1>3, <1>4, Ends
<1>5. CASE Issues(Flaws[row.body][row.game], threshold, Reference[row.body][seed][up],
                  Starter[row.body][seed][starterUp]) = {}
  <2> DEFINE pass == IF starterUp THEN threshold ELSE 0
             new  == [q EXCEPT !.tested = @ \cup {seed}, !.read = @ \cup {pass}]
  <2>1. Go(a, new)
    BY <1>1, <1>5
  <2>2. q \in AdminRequest /\ threshold \in Nat
    BY DEF IInv, TypeOK
  <2>3. new \in AdminRequest
    <3>1. pass \in Nat
      BY <2>2
    <3> HIDE DEF pass
    <3> QED
      BY <2>2, <3>1 DEF AdminRequest
  <2>4. /\ new.pc = "publish" /\ new.row = row /\ new.tested = q.tested \cup {seed}
        /\ new.read = q.read \cup {pass}
    BY <2>2, <1>2 DEF AdminRequest
  <2>5. row \in versions /\ \A s \in q.tested : Found(q, s)
    BY <1>2 DEF IInv, AdminInv
  <2>6. row.body \in Bodies /\ seed \in Seeds
    BY <2>5 DEF IInv, TypeOK, Version
  <2>7. /\ Flaws[row.body][row.game] = {}
        /\ Reference[row.body][seed][up].verdict = "graded" /\ ~(Reference[row.body][seed][up].score < 100)
        /\ Starter[row.body][seed][starterUp].verdict = "graded"
             => ~(Starter[row.body][seed][starterUp].score >= threshold)
    <3> DEFINE flaws   == Flaws[row.body][row.game]
               run     == Reference[row.body][seed][up]
               starter == Starter[row.body][seed][starterUp]
    <3>1. Issues(flaws, threshold, run, starter) = {}
      BY <1>5
    <3> HIDE DEF flaws, run, starter
    <3>2. /\ flaws = {} /\ run.verdict = "graded" /\ ~(run.score < 100)
          /\ starter.verdict = "graded" => ~(starter.score >= threshold)
      BY <3>1, NoIssue
    <3> QED
      BY <3>2 DEF flaws, run, starter
  <2>8. up = TRUE
    BY <2>6, <2>7, LostIsNotGraded
  <2>9. Solved(row.body, seed)
    BY <2>7, <2>8 DEF Solved
  <2>10. 0 \in new.read \/ \E t \in new.read : Fails(row.body, seed, t)
    <3>1. CASE starterUp = TRUE
      BY <3>1, <2>4, <2>7 DEF Fails
    <3>2. CASE starterUp = FALSE
      BY <3>2, <2>4
    <3> QED
      BY <3>1, <3>2
  <2> HIDE DEF new
  <2>11. \A s \in new.tested : Found(new, s)
    <3>1. ASSUME NEW s \in q.tested PROVE Found(new, s)
      <4>1. Found(q, s)
        BY <2>5, <3>1
      <4> QED
        BY <2>4, <4>1 DEF Found
    <3>2. Found(new, seed)
      BY <2>4, <2>7, <2>9, <2>10 DEF Found
    <3> QED
      BY <2>4, <3>1, <3>2
  <2>12. req'[a] = new
    BY <2>1 DEF Go, IInv, Grounded, Parties
  <2>13. AdminInv(a)'
    BY <2>4, <2>5, <2>11, <2>12, <1>2 DEF AdminInv, Found
  <2> QED
    BY <2>1, <2>3, <2>13, <1>2, <1>3, Quiet
<1> QED
  BY <1>4, <1>5

(* Rows added without a gap, one per game at most, keep the numbers. *)
LEMMA Added ==
  ASSUME IInv, NEW W \in SUBSET Version, versions' = versions \cup W,
         \A w \in W : NoGap(w) /\ ~Taken(w.game, w.number),
         \A v, w \in W : v.game = w.game => v = w
  PROVE  NumbersAreUnique' /\ \A v \in versions' : v.number <= Bound
<1>1. \A g, n : Taken(g, n) => Taken(g, n)'
  BY DEF Taken, VersionsOf
<1>2. ASSUME NEW v \in versions', NEW w \in versions', v.game = w.game, v.number = w.number
      PROVE  v = w
  <2>1. CASE v \in versions /\ w \in versions
    BY <1>2, <2>1 DEF IInv, NumbersAreUnique, VersionsOf
  <2>2. CASE v \in W /\ w \in W
    BY <1>2, <2>2
  <2>3. CASE v \in versions /\ w \in W
    BY <1>2, <2>3 DEF Taken, VersionsOf
  <2>4. CASE v \in W /\ w \in versions
    BY <1>2, <2>4 DEF Taken, VersionsOf
  <2> QED
    BY <2>1, <2>2, <2>3, <2>4
<1>3. ASSUME NEW v \in versions', NEW n \in 1..v.number
      PROVE  Taken(v.game, n)'
  <2>1. CASE v \in versions
    BY <2>1, <1>1, <1>3 DEF IInv, NumbersAreUnique
  <2>2. CASE v \in W /\ n = v.number
    BY <2>2 DEF Taken, VersionsOf
  <2>3. CASE v \in W /\ n # v.number
    <3>1. v.number \in Nat
      BY <2>3 DEF Version
    <3>2. n \in 1..(v.number - 1)
      BY <2>3, <3>1
    <3> QED
      BY <2>3, <3>2, <1>1 DEF NoGap
  <2> QED
    BY <2>1, <2>2, <2>3
<1>4. \A v \in versions' : v.number <= Bound
  BY DEF IInv, Grounded, NoGap
<1> QED
  BY <1>2, <1>3, <1>4 DEF NumbersAreUnique, VersionsOf

LEMMA CommitSaveStep ==
  ASSUME IInv, NEW a \in Admins, CommitSave(a)
  PROVE  IInv'
<1> DEFINE row == req[a].row
<1>1. /\ req[a].pc = "save" /\ ~Inserting(row.game, row.number, a)
      /\ versions' = Inserted(row) /\ Finish(a) /\ UNCHANGED <<live, threshold, token>>
  BY DEF CommitSave
<1>2. CASE Taken(row.game, row.number)
  <2>1. UNCHANGED <<versions, live, threshold, token>>
    BY <1>1, <1>2 DEF Inserted
  <2> QED
    BY <2>1, <1>1, Ends DEF Parties
<1>3. CASE ~Taken(row.game, row.number)
  <2>1. versions' = versions \cup {row}
    BY <1>1, <1>3 DEF Inserted
  <2>2. row \in Version /\ NoGap(row) /\ threshold # 0
    BY <1>1 DEF IInv, AdminInv, Grounded
  <2>3. DOMAIN req = Parties /\ a \notin Syncs /\ a \in Parties
    BY DEF IInv, Grounded, Parties
  <2>4. /\ req'[a] = IdleAdmin /\ DOMAIN req' = Parties
        /\ \A r \in Parties \ {a} : req'[r] = req[r]
    BY <1>1, <2>3 DEF Finish, Go
  <2>5. TypeOK'
    BY <1>1, <2>1, <2>2, <2>4, IdleTypes DEF IInv, TypeOK, VersionsOf, Parties
  <2>6. NumbersAreUnique' /\ \A v \in versions' : v.number <= Bound
    <3> DEFINE W == {row}
    <3>1. /\ W \in SUBSET Version /\ versions' = versions \cup W
          /\ \A w \in W : NoGap(w) /\ ~Taken(w.game, w.number)
          /\ \A v, w \in W : v.game = w.game => v = w
      BY <2>1, <2>2, <1>3
    <3> HIDE DEF W
    <3> QED
      BY <3>1, Added
  <2>7. Grounded' /\ LocksExclude'
    BY <1>1, <2>2, <2>3, <2>4, <2>6 DEF IInv, Grounded, LocksExclude, Parties
  <2>8. OnlyTestedIsPlayed'
    BY <1>1 DEF IInv, OnlyTestedIsPlayed, Ready, ByAdmin
  <2>9. \A b \in Admins : AdminInv(b)'
    <3>1. AdminInv(a)'
      BY <2>4 DEF AdminInv, IdleAdmin
    <3> QED
      BY <3>1, <2>1, <2>4, OtherAdmin DEF Parties
  <2>10. \A d \in Syncs : SyncInv(d)'
    <3> SUFFICES ASSUME NEW d \in Syncs PROVE SyncInv(d)'
      OBVIOUS
    <3>1. \A v \in req[d].wrote : ~Taken(v.game, v.number)
      BY DEF IInv, SyncInv
    <3>2. \A v \in req[d].wrote : ~(v.game = row.game /\ v.number = row.number)
      BY <1>1, <2>3 DEF Inserting
    <3>3. \A v \in req[d].wrote : ~Taken(v.game, v.number)'
      BY <3>1, <3>2, <2>1 DEF Taken, VersionsOf
    <3> QED
      BY <3>3, <1>1, <2>1, <2>3, <2>4, OtherSync DEF Parties
  <2> QED
    BY <2>5, <2>6, <2>7, <2>8, <2>9, <2>10 DEF IInv
<1> QED
  BY <1>2, <1>3

LEMMA CommitPublishStep ==
  ASSUME IInv, NEW a \in Admins, CommitPublish(a)
  PROVE  IInv'
<1> DEFINE row == req[a].row
<1>1. /\ req[a].pc = "publish" /\ req[a].tested = PublishSeeds
      /\ live' = IF req[a].same THEN live ELSE [live EXCEPT ![row.game] = row]
      /\ Finish(a) /\ UNCHANGED <<versions, threshold, token>>
  BY DEF CommitPublish, MayPublish
<1>2. row \in versions /\ row \in Version /\ Ready(row)
  BY <1>1 DEF IInv, AdminInv, Found, Ready, TypeOK
<1>3. DOMAIN req = Parties /\ a \notin Syncs /\ a \in Parties
  BY DEF IInv, Grounded, Parties
<1>4. /\ req'[a] = IdleAdmin /\ DOMAIN req' = Parties
      /\ \A r \in Parties \ {a} : req'[r] = req[r]
  BY <1>1, <1>3 DEF Finish, Go
<1>5. \A g \in Games : live'[g] = live[g] \/ (live'[g] = row /\ g = row.game)
  BY <1>1, <1>2 DEF IInv, TypeOK, Version
<1>6. live' \in [Games -> Row0] /\ \A g \in Games : live'[g] \in VersionsOf(g) \cup {NoVersion}
  <2>1. live \in [Games -> Row0] /\ row \in Row0
    BY <1>2 DEF IInv, TypeOK, Row0
  <2>2. live' \in [Games -> Row0]
    BY <2>1, <1>1
  <2>3. \A g \in Games : live'[g] \in VersionsOf(g) \cup {NoVersion}
    BY <1>2, <1>5 DEF IInv, TypeOK, VersionsOf
  <2> QED
    BY <2>2, <2>3
<1>7. TypeOK'
  BY <1>1, <1>4, <1>6, IdleTypes DEF IInv, TypeOK, VersionsOf, Parties
<1>8. Grounded' /\ LocksExclude'
  BY <1>1, <1>3, <1>4 DEF IInv, Grounded, LocksExclude, Parties
<1>9. NumbersAreUnique'
  BY <1>1 DEF IInv, NumbersAreUnique, VersionsOf, Taken
<1>10. OnlyTestedIsPlayed'
  BY <1>1, <1>2, <1>5 DEF IInv, OnlyTestedIsPlayed, Ready, ByAdmin
<1>11. \A b \in Admins : AdminInv(b)'
  <2>1. AdminInv(a)'
    BY <1>4 DEF AdminInv, IdleAdmin
  <2> QED
    BY <2>1, <1>1, <1>4, OtherAdmin DEF Parties
<1>12. \A d \in Syncs : SyncInv(d)'
  <2> SUFFICES ASSUME NEW d \in Syncs PROVE SyncInv(d)'
    OBVIOUS
  <2>1. \A v \in req[d].wrote : ~Taken(v.game, v.number)'
    BY <1>1 DEF IInv, SyncInv, Taken, VersionsOf
  <2> QED
    BY <2>1, <1>1, <1>3, <1>4, OtherSync DEF Parties
<1> QED
  BY <1>7, <1>8, <1>9, <1>10, <1>11, <1>12 DEF IInv

LEMMA UpdateTopicStep ==
  ASSUME IInv, NEW a \in Admins, UpdateTopic(a)
  PROVE  IInv'
<1>1. /\ threshold' \in Thresholds /\ threshold' # 0 /\ threshold' \in Nat
      /\ UNCHANGED <<versions, live, req, token>>
  BY DEF UpdateTopic
<1>2. TypeOK'
  BY <1>1 DEF IInv, TypeOK, VersionsOf
<1>3. Grounded' /\ LocksExclude'
  BY <1>1 DEF IInv, Grounded, LocksExclude
<1>4. NumbersAreUnique'
  BY <1>1 DEF IInv, NumbersAreUnique, VersionsOf, Taken
<1>5. OnlyTestedIsPlayed'
  BY <1>1 DEF IInv, OnlyTestedIsPlayed, Ready, ByAdmin
<1>6. \A b \in Admins : AdminInv(b)'
  BY <1>1, OtherAdmin
<1>7. \A d \in Syncs : SyncInv(d)'
  <2> SUFFICES ASSUME NEW d \in Syncs PROVE SyncInv(d)'
    OBVIOUS
  <2>1. \A v \in req[d].wrote : ~Taken(v.game, v.number)'
    BY <1>1 DEF IInv, SyncInv, Taken, VersionsOf
  <2> QED
    BY <2>1, <1>1, OtherSync
<1> QED
  BY <1>2, <1>3, <1>4, <1>5, <1>6, <1>7 DEF IInv

LEMMA OpenAttemptStep ==
  ASSUME IInv, OpenAttempt
  PROVE  IInv'
<1>1. PICK g \in Games, seed \in Played :
        live[g] # NoVersion /\ token' = [row |-> live[g], seed |-> seed]
  BY DEF OpenAttempt, Playable, AttemptToken
<1>2. UNCHANGED <<versions, live, threshold, req>>
  BY DEF OpenAttempt
<1>3. live[g] \in versions
  BY <1>1 DEF IInv, TypeOK, VersionsOf
<1>4. TypeOK'
  BY <1>1, <1>2, <1>3 DEF IInv, TypeOK, VersionsOf
<1>5. Grounded' /\ LocksExclude'
  BY <1>2 DEF IInv, Grounded, LocksExclude
<1>6. NumbersAreUnique'
  BY <1>2 DEF IInv, NumbersAreUnique, VersionsOf, Taken
<1>7. OnlyTestedIsPlayed'
  BY <1>1, <1>2 DEF IInv, OnlyTestedIsPlayed, Ready, ByAdmin
<1>8. \A b \in Admins : AdminInv(b)'
  BY <1>2, OtherAdmin
<1>9. \A d \in Syncs : SyncInv(d)'
  <2> SUFFICES ASSUME NEW d \in Syncs PROVE SyncInv(d)'
    OBVIOUS
  <2>1. \A v \in req[d].wrote : ~Taken(v.game, v.number)'
    BY <1>2 DEF IInv, SyncInv, Taken, VersionsOf
  <2> QED
    BY <2>1, <1>2, OtherSync
<1> QED
  BY <1>4, <1>5, <1>6, <1>7, <1>8, <1>9 DEF IInv

-----------------------------------------------------------------------------
(* The syncs' steps *)

(* A sync's request has its type, and so has the list of its rows. *)
LEMMA SyncType ==
  ASSUME IInv, NEW d \in Syncs
  PROVE  /\ req[d] \in SyncRun /\ SyncInv(d) /\ d \in Parties /\ d \notin Admins
         /\ DOMAIN req = Parties /\ Len(Curriculum) \in Nat /\ DOMAIN Curriculum = 1..Len(Curriculum)
         /\ \A e \in Syncs \ {d} : \A v \in req[d].wrote, w \in req[e].wrote : v.game # w.game
BY DEF IInv, TypeOK, Parties, Grounded, LocksExclude

LEMMA BeginSyncStep ==
  ASSUME IInv, NEW d \in Syncs, BeginSync(d)
  PROVE  IInv'
<1>1. PICK files \in SeedFiles :
        Go(d, [IdleSync EXCEPT !.files = files, !.topic = (threshold = 0),
                               !.pc = IF threshold = 0 THEN "topic" ELSE "games"])
  BY DEF BeginSync
<1> DEFINE q == [IdleSync EXCEPT !.files = files, !.topic = (threshold = 0),
                                 !.pc = IF threshold = 0 THEN "topic" ELSE "games"]
<1>2. UNCHANGED <<versions, live, threshold, token>>
  BY DEF BeginSync
<1>3. q \in SyncRun
  BY IdleTypes DEF IdleSync, SyncRun
<1>4. /\ q.wrote = {} /\ q.next = 1 /\ q.files = files
      /\ q.pc \in {"topic", "games"} /\ (q.topic \/ threshold # 0)
  BY DEF IdleSync
<1>5. Go(d, q)
  BY <1>1
<1> HIDE DEF q
<1>6. req'[d] = q
  BY <1>5, SyncType DEF Go
<1>7. SyncInv(d)'
  BY <1>2, <1>4, <1>6 DEF SyncInv
<1> QED
  BY <1>2, <1>3, <1>4, <1>5, <1>7, SyncType, Quiet

LEMMA InsertTopicStep ==
  ASSUME IInv, NEW d \in Syncs, InsertTopic(d)
  PROVE  IInv'
<1>1. req[d].pc = "topic" /\ UNCHANGED <<versions, live, threshold, token>>
  BY DEF InsertTopic
<1>2. CASE threshold # 0
  BY <1>1, <1>2, Ends, SyncType DEF InsertTopic
<1>3. CASE threshold = 0
  <2>0. req[d] \in SyncRun /\ [req[d] EXCEPT !.pc = "games"] \in SyncRun
    <3>1. req[d] \in SyncRun
      BY SyncType
    <3> QED
      BY <3>1 DEF SyncRun
  <2>1. PICK q \in SyncRun : q = [req[d] EXCEPT !.pc = "games"]
    BY <2>0
  <2>2. /\ q.pc = "games" /\ q.files = req[d].files /\ q.topic = req[d].topic
        /\ q.next = req[d].next /\ q.found = req[d].found /\ q.wrote = req[d].wrote
    BY <2>1, SyncType DEF SyncRun
  <2>3. Go(d, q)
    BY <1>3, <2>1 DEF InsertTopic
  <2>4. req'[d] = q
    BY <2>3, SyncType DEF Go
  <2>5. \A v : SeedRow(req[d], v) => SeedRow(q, v)'
    BY <1>1, <2>2 DEF SeedRow, NoGap, Taken, VersionsOf, ByAdmin
  <2>6. \A i \in 1..(q.next - 1) : DoneWith(q, Curriculum[i])'
    BY <1>1, <2>2, SyncType DEF SyncInv, DoneWith, ByAdmin
  <2>7. SyncInv(d)'
    BY <1>1, <2>2, <2>4, <2>5, <2>6, SyncType DEF SyncInv, Taken, VersionsOf
  <2> QED
    BY <1>1, <2>2, <2>3, <2>7, SyncType, Quiet
<1> QED
  BY <1>2, <1>3

(* A sync that has just looked at the next game: what it knew of the others it still knows. *)
LEMMA Looked ==
  ASSUME IInv, NEW d \in Syncs, NEW q \in SyncRun,
         req[d].pc \in {"games", "number", "insert"}, q.pc # "idle",
         req[d].next <= Len(Curriculum),
         UNCHANGED <<versions, live, threshold, token>>, Go(d, q),
         q.files = req[d].files, q.wrote = req[d].wrote, q.topic = req[d].topic,
         \A g \in Games \ {Curriculum[req[d].next]} : q.found[g] = req[d].found[g],
         \/ /\ q.next = req[d].next
            /\ q.pc \in {"number", "insert"} => ~ByAdmin(q.found[Curriculum[q.next]])
         \/ /\ q.next = req[d].next + 1 /\ q.pc = "games"
            /\ DoneWith(q, Curriculum[req[d].next]),
         q.pc = "insert" => SeedRow(q, q.row) /\ q.row.game = Curriculum[q.next]
  PROVE  IInv'
<1>1. req'[d] = q
  BY SyncType DEF Go
<1>2. \A g, n : Taken(g, n)' <=> Taken(g, n)
  BY DEF Taken, VersionsOf
<1>3. req[d].next \in 1..Len(Curriculum) /\ Len(Curriculum) \in Nat
  BY SyncType DEF SyncRun
<1>4. \A i \in 1..(req[d].next - 1) : Curriculum[i] \in Games \ {Curriculum[req[d].next]}
  BY <1>3, SyncType
<1>5. \A v \in q.wrote : /\ SeedRow(q, v)' /\ ~Taken(v.game, v.number)'
                         /\ \E i \in 1..(req[d].next - 1) : v.game = Curriculum[i]
  <2> SUFFICES ASSUME NEW v \in q.wrote
               PROVE  /\ SeedRow(q, v)' /\ ~Taken(v.game, v.number)'
                      /\ \E i \in 1..(req[d].next - 1) : v.game = Curriculum[i]
    OBVIOUS
  <2>1. /\ SeedRow(req[d], v) /\ ~Taken(v.game, v.number)
        /\ \E i \in 1..(req[d].next - 1) : v.game = Curriculum[i]
    BY SyncType DEF SyncInv
  <2>2. q.found[v.game] = req[d].found[v.game]
    BY <1>4, <2>1
  <2>3. NoGap(v)'
    BY <1>2, <2>1 DEF SeedRow, NoGap
  <2> QED
    BY <1>2, <2>1, <2>2, <2>3 DEF SeedRow, ByAdmin
<1>6. \A i \in 1..(req[d].next - 1) : DoneWith(q, Curriculum[i])
  <2>1. \A i \in 1..(req[d].next - 1) : DoneWith(req[d], Curriculum[i])
    BY SyncType DEF SyncInv
  <2>2. \A g \in Games \ {Curriculum[req[d].next]} : DoneWith(req[d], g) => DoneWith(q, g)
    BY DEF DoneWith
  <2> QED
    BY <1>4, <2>1, <2>2
<1>7. \A i \in 1..(q.next - 1) : DoneWith(q, Curriculum[i])
  BY <1>3, <1>6
<1>8. \A v \in q.wrote : \E i \in 1..(q.next - 1) : v.game = Curriculum[i]
  BY <1>3, <1>5
<1>9. ASSUME q.pc = "insert" PROVE SeedRow(q, q.row)'
  <2>1. SeedRow(q, q.row)
    BY <1>9
  <2>2. NoGap(q.row)'
    BY <1>2, <2>1 DEF SeedRow, NoGap
  <2> QED
    BY <2>1, <2>2 DEF SeedRow, ByAdmin
<1>10. q.pc \in {"number", "insert"} =>
         q.next <= Len(Curriculum) /\ ~ByAdmin(q.found[Curriculum[q.next]])
  BY <1>3
<1>11. \A v, w \in q.wrote : v.game = w.game => v = w
  BY SyncType DEF SyncInv
<1>12. q.files \in SeedFiles /\ (q.topic \/ threshold' # 0)
  BY SyncType DEF SyncInv
<1>13. \A i \in 1..(q.next - 1) : DoneWith(q, Curriculum[i])'
  BY <1>7 DEF DoneWith, ByAdmin
<1>14. q.pc \in {"number", "insert"} =>
         q.next <= Len(Curriculum) /\ ~ByAdmin(q.found[Curriculum[q.next]])'
  BY <1>10 DEF ByAdmin
<1>15. SyncInv(d)'
  BY <1>1, <1>5, <1>8, <1>9, <1>11, <1>12, <1>13, <1>14 DEF SyncInv
<1> QED
  BY <1>15, SyncType, Quiet

LEMMA ReadGameStep ==
  ASSUME IInv, NEW d \in Syncs, ReadGame(d)
  PROVE  IInv'
<1>1. /\ req[d].pc = "games" /\ req[d].next <= Len(Curriculum)
      /\ UNCHANGED <<versions, live, threshold, token>>
  BY DEF ReadGame
<1>2. PICK g \in Games : g = Curriculum[req[d].next]
  BY <1>1, SyncType DEF SyncRun
<1>3. live[g] \in Row0
  BY DEF IInv, TypeOK
<1>4. req[d] \in SyncRun /\ req[d].files \in SeedFiles /\ req[d].files[g] \in Bodies
  BY <1>1, SyncType DEF SyncInv
<1> DEFINE seen == [req[d] EXCEPT !.found[g] = live[g]]
<1>5. /\ seen \in SyncRun
      /\ seen.pc = req[d].pc /\ seen.files = req[d].files /\ seen.wrote = req[d].wrote
      /\ seen.topic = req[d].topic /\ seen.next = req[d].next
      /\ seen.found = [req[d].found EXCEPT ![g] = live[g]]
  BY <1>3, <1>4 DEF SyncRun
<1>6. seen.found[g] = live[g] /\ \A h \in Games \ {g} : seen.found[h] = req[d].found[h]
  BY <1>4, <1>5 DEF SyncRun
<1>7. seen.next \in Nat
  BY <1>4, <1>5 DEF SyncRun
<1>8. /\ live[g] = NoVersion => Go(d, [seen EXCEPT !.pc = "insert", !.row = Row(d, g, 1)])
      /\ live[g] # NoVersion /\ SeedOwns(live[g], req[d].files[g]) => Go(d, [seen EXCEPT !.pc = "number"])
      /\ live[g] # NoVersion /\ ~SeedOwns(live[g], req[d].files[g]) => Go(d, [seen EXCEPT !.next = @ + 1])
  BY <1>2 DEF ReadGame
<1> HIDE DEF seen
<1>9. CASE live[g] = NoVersion
  <2>1. Row(d, g, 1) \in Version
    BY <1>4 DEF Row, Version
  <2>2. PICK q \in SyncRun : q = [seen EXCEPT !.pc = "insert", !.row = Row(d, g, 1)]
    BY <2>1, <1>5 DEF SyncRun, Row0
  <2>3. /\ q.pc = "insert" /\ q.row = Row(d, g, 1) /\ q.files = seen.files /\ q.wrote = seen.wrote
        /\ q.topic = seen.topic /\ q.next = seen.next /\ q.found = seen.found
    BY <2>2, <1>5 DEF SyncRun
  <2>4. ~ByAdmin(q.found[g])
    BY <2>3, <1>6, <1>9 DEF ByAdmin
  <2>5. /\ q.row.game = g /\ q.row.number = 1 /\ q.row.body = q.files[g] /\ q.row.by = d
        /\ q.row \in Version
    BY <2>1, <2>3, <1>5 DEF Row
  <2>6. NoGap(q.row)
    BY <2>5 DEF NoGap, Bound
  <2>7. SeedRow(q, q.row)
    BY <2>4, <2>5, <2>6, SyncType DEF SeedRow, ByAdmin
  <2>8. Go(d, q)
    BY <2>2, <1>8, <1>9
  <2>9. /\ \A h \in Games \ {Curriculum[req[d].next]} : q.found[h] = req[d].found[h]
        /\ q.files = req[d].files /\ q.wrote = req[d].wrote /\ q.topic = req[d].topic
        /\ q.next = req[d].next /\ ~ByAdmin(q.found[Curriculum[q.next]])
        /\ q.row.game = Curriculum[q.next] /\ q.pc = "insert"
    <3>1. /\ \A h \in Games \ {Curriculum[req[d].next]} : q.found[h] = req[d].found[h]
          /\ q.files = req[d].files /\ q.wrote = req[d].wrote /\ q.topic = req[d].topic
      BY <2>3, <1>2, <1>5, <1>6
    <3>2. q.next = req[d].next /\ Curriculum[q.next] = g
      BY <2>3, <1>2, <1>5
    <3> QED
      BY <2>3, <2>4, <2>5, <3>1, <3>2
  <2> QED
    BY <2>7, <2>8, <2>9, <1>1, Looked
<1>10. CASE live[g] # NoVersion /\ SeedOwns(live[g], req[d].files[g])
  <2>1. PICK q \in SyncRun : q = [seen EXCEPT !.pc = "number"]
    BY <1>5 DEF SyncRun
  <2>2. /\ q.pc = "number" /\ q.files = seen.files /\ q.wrote = seen.wrote
        /\ q.topic = seen.topic /\ q.next = seen.next /\ q.found = seen.found
    BY <2>1, <1>5 DEF SyncRun
  <2>3. ~ByAdmin(q.found[g])
    BY <2>2, <1>6, <1>10 DEF SeedOwns
  <2>4. Go(d, q)
    BY <2>1, <1>8, <1>10
  <2>5. /\ \A h \in Games \ {Curriculum[req[d].next]} : q.found[h] = req[d].found[h]
        /\ q.files = req[d].files /\ q.wrote = req[d].wrote /\ q.topic = req[d].topic
        /\ q.next = req[d].next /\ ~ByAdmin(q.found[Curriculum[q.next]])
        /\ q.pc = "number"
    BY <2>2, <2>3, <1>2, <1>5, <1>6
  <2> QED
    BY <2>4, <2>5, <1>1, Looked
<1>11. CASE live[g] # NoVersion /\ ~SeedOwns(live[g], req[d].files[g])
  <2>0. seen.next + 1 \in 1..(Len(Curriculum) + 1)
    BY <1>1, <1>5, <1>7, SyncType
  <2>1. PICK q \in SyncRun : q = [seen EXCEPT !.next = @ + 1]
    BY <2>0, <1>5 DEF SyncRun
  <2>2. /\ q.pc = "games" /\ q.files = seen.files /\ q.wrote = seen.wrote
        /\ q.topic = seen.topic /\ q.next = seen.next + 1 /\ q.found = seen.found
    BY <2>1, <1>1, <1>5 DEF SyncRun
  <2>3. DoneWith(q, g)
    BY <2>2, <1>5, <1>6, <1>11 DEF SeedOwns, SameBody, DoneWith
  <2>4. Go(d, q)
    BY <2>1, <1>8, <1>11
  <2>5. /\ \A h \in Games \ {Curriculum[req[d].next]} : q.found[h] = req[d].found[h]
        /\ q.files = req[d].files /\ q.wrote = req[d].wrote /\ q.topic = req[d].topic
        /\ q.next = req[d].next + 1 /\ q.pc = "games" /\ DoneWith(q, Curriculum[req[d].next])
    BY <2>2, <2>3, <1>2, <1>5, <1>6
  <2> QED
    BY <2>4, <2>5, <1>1, Looked
<1> QED
  BY <1>9, <1>10, <1>11

LEMMA ReadNumberStep ==
  ASSUME IInv, NEW d \in Syncs, ReadNumber(d)
  PROVE  IInv'
<1>1. /\ req[d].pc = "number" /\ UNCHANGED <<versions, live, threshold, token>>
      /\ req[d].next <= Len(Curriculum) /\ req[d].files \in SeedFiles /\ req[d] \in SyncRun
  BY SyncType DEF ReadNumber, SyncInv
<1>2. PICK g \in Games : g = Curriculum[req[d].next] /\ req[d].files[g] \in Bodies
  BY <1>1, SyncType DEF SyncRun
<1>3. /\ NextNumber(g) <= MaxVersion
      /\ Go(d, [req[d] EXCEPT !.pc = "insert", !.row = Row(d, g, NextNumber(g))])
  BY <1>2 DEF ReadNumber
<1>4. NextNumber(g) \in Nat \ {0} /\ \A n \in 1..(NextNumber(g) - 1) : Taken(g, n)
  BY NextIsFree
<1>5. PICK row \in Version : row = Row(d, g, NextNumber(g))
  BY <1>1, <1>2, <1>4 DEF Row, Version
<1>6. /\ row.game = g /\ row.body = req[d].files[g] /\ row.by = d
      /\ NoGap(row)
  BY <1>3, <1>4, <1>5 DEF Row, NoGap, Bound
<1>7. PICK q \in SyncRun : q = [req[d] EXCEPT !.pc = "insert", !.row = row]
  BY <1>1, <1>5 DEF SyncRun, Row0
<1>8. /\ q.pc = "insert" /\ q.row = row /\ q.files = req[d].files /\ q.wrote = req[d].wrote
      /\ q.topic = req[d].topic /\ q.next = req[d].next /\ q.found = req[d].found
  BY <1>1, <1>7 DEF SyncRun
<1>9. ~ByAdmin(q.found[g])
  BY <1>1, <1>2, <1>8, SyncType DEF SyncInv
<1>10. SeedRow(q, q.row)
  BY <1>5, <1>6, <1>8, <1>9, SyncType DEF SeedRow, ByAdmin
<1>11. Go(d, q)
  BY <1>3, <1>5, <1>7
<1> QED
  BY <1>1, <1>2, <1>6, <1>8, <1>9, <1>10, <1>11, Looked

LEMMA InsertVersionStep ==
  ASSUME IInv, NEW d \in Syncs, InsertVersion(d)
  PROVE  IInv'
<1> DEFINE row == req[d].row
<1>1. /\ req[d].pc = "insert" /\ ~Updating(row.game, d)
      /\ UNCHANGED <<versions, live, threshold, token>>
  BY DEF InsertVersion
<1>2. CASE Taken(row.game, row.number)
  BY <1>1, <1>2, Ends, SyncType DEF InsertVersion
<1>3. CASE ~Taken(row.game, row.number)
  <2>1. /\ req[d] \in SyncRun /\ SeedRow(req[d], row) /\ row \in Version
        /\ row.game = Curriculum[req[d].next] /\ req[d].next \in 1..Len(Curriculum)
        /\ Len(Curriculum) \in Nat
    BY <1>1, SyncType DEF SyncInv, SeedRow, SyncRun
  <2>2. req[d].next + 1 \in 1..(Len(Curriculum) + 1)
    BY <2>1
  <2>3. [req[d] EXCEPT !.pc = "games", !.next = @ + 1, !.wrote = @ \cup {row}, !.row = NoVersion] \in SyncRun
    BY <2>1, <2>2 DEF SyncRun, Row0
  <2>4. PICK q \in SyncRun : q = [req[d] EXCEPT !.pc = "games", !.next = @ + 1,
                                                !.wrote = @ \cup {row}, !.row = NoVersion]
    BY <2>3
  <2>5. /\ q.pc = "games" /\ q.next = req[d].next + 1 /\ q.wrote = req[d].wrote \cup {row}
        /\ q.files = req[d].files /\ q.found = req[d].found /\ q.topic = req[d].topic
    BY <2>1, <2>4 DEF SyncRun
  <2>6. Go(d, q)
    BY <1>3, <2>4 DEF InsertVersion
  <2>7. req'[d] = q
    BY <2>6, SyncType DEF Go
  <2>8. \A v \in req[d].wrote : v.game # row.game
    <3>1. ASSUME NEW v \in req[d].wrote PROVE v.game # row.game
      <4>1. PICK i \in 1..(req[d].next - 1) : v.game = Curriculum[i]
        BY SyncType DEF SyncInv
      <4>2. i \in DOMAIN Curriculum /\ i # req[d].next
        BY <2>1, <4>1, SyncType
      <4> QED
        BY <2>1, <4>1, <4>2, SyncType
    <3> QED
      BY <3>1
  <2>9. \A v \in q.wrote : SeedRow(q, v)' /\ ~Taken(v.game, v.number)'
    <3>1. \A v \in q.wrote : SeedRow(req[d], v) /\ ~Taken(v.game, v.number)
      BY <2>1, <2>5, <1>3, SyncType DEF SyncInv
    <3>2. \A g, n : Taken(g, n)' <=> Taken(g, n)
      <4>1. versions' = versions
        BY <1>1
      <4> QED
        BY <4>1 DEF Taken, VersionsOf
    <3>3. \A v : NoGap(v) => NoGap(v)'
      BY <3>2 DEF NoGap
    <3>4. ASSUME NEW v \in q.wrote PROVE SeedRow(q, v)' /\ ~Taken(v.game, v.number)'
      BY <3>1, <3>2, <3>3, <2>5 DEF SeedRow, ByAdmin
    <3> QED
      BY <3>4
  <2>10. \A v \in q.wrote : \E i \in 1..(q.next - 1) : v.game = Curriculum[i]
    <3>1. \A v \in req[d].wrote : \E i \in 1..(req[d].next - 1) : v.game = Curriculum[i]
      BY SyncType DEF SyncInv
    <3>2. 1..(req[d].next - 1) \subseteq 1..(q.next - 1) /\ req[d].next \in 1..(q.next - 1)
      BY <2>1, <2>5
    <3>3. \A v \in q.wrote : v \in req[d].wrote \/ v.game = Curriculum[req[d].next]
      BY <2>1, <2>5
    <3> QED
      BY <3>1, <3>2, <3>3
  <2>11. \A v, w \in q.wrote : v.game = w.game => v = w
    BY <2>5, <2>8, SyncType DEF SyncInv
  <2>12. \A i \in 1..(q.next - 1) : DoneWith(q, Curriculum[i])'
    <3>1. \A i \in 1..(req[d].next - 1) : DoneWith(req[d], Curriculum[i])
      BY SyncType DEF SyncInv
    <3>2. \A g : DoneWith(req[d], g) => DoneWith(q, g)'
      BY <2>5 DEF DoneWith, ByAdmin
    <3>3. PICK g : g = Curriculum[req[d].next] /\ row \in q.wrote /\ row.game = g
      BY <2>1, <2>5
    <3>4. DoneWith(q, g)'
      BY <3>3 DEF DoneWith
    <3>5. ASSUME NEW i \in 1..(q.next - 1) PROVE DoneWith(q, Curriculum[i])'
      <4>1. i \in 1..(req[d].next - 1) \/ i = req[d].next
        BY <2>1, <2>5
      <4>2. CASE i = req[d].next
        BY <4>2, <3>3, <3>4
      <4>3. CASE i \in 1..(req[d].next - 1)
        BY <4>3, <3>1, <3>2
      <4> QED
        BY <4>1, <4>2, <4>3
    <3> QED
      BY <3>5
  <2>13. q.files \in SeedFiles /\ (q.topic \/ threshold' # 0)
    BY <1>1, <2>5, SyncType DEF SyncInv
  <2>14. SyncInv(d)'
    BY <2>5, <2>7, <2>9, <2>10, <2>11, <2>12, <2>13 DEF SyncInv
  <2>15. \A e \in Syncs \ {d} : \A v \in q.wrote, w \in req[e].wrote : v.game # w.game
    BY <1>1, <2>5, SyncType DEF Updating
  <2> QED
    BY <1>1, <2>6, <2>14, <2>15, SyncType, Quiet
<1> QED
  BY <1>2, <1>3

LEMMA CommitSyncStep ==
  ASSUME IInv, NEW d \in Syncs, CommitSync(d)
  PROVE  IInv'
<1> DEFINE wrote == req[d].wrote
<1>1. /\ req[d].pc = "games" /\ versions' = versions \cup wrote
      /\ live' = [g \in Games |-> Synced(g, wrote)]
      /\ threshold' = IF req[d].topic THEN SeedThreshold ELSE threshold
      /\ Finish(d) /\ UNCHANGED token
  BY DEF CommitSync, Whole
<1>2. threshold' \in Nat /\ threshold' # 0
  BY <1>1, SyncType DEF SyncInv, IInv, TypeOK
<1>3. /\ wrote \in SUBSET Version /\ \A w \in wrote : NoGap(w) /\ ~Taken(w.game, w.number) /\ ~ByAdmin(w)
      /\ \A v, w \in wrote : v.game = w.game => v = w
  BY SyncType DEF SyncInv, SeedRow
<1>4. NumbersAreUnique' /\ \A v \in versions' : v.number <= Bound
  <2> HIDE DEF wrote
  <2> QED
    BY <1>1, <1>3, Added
<1>5. /\ req'[d] = IdleSync /\ DOMAIN req' = Parties
      /\ \A r \in Parties \ {d} : req'[r] = req[r]
  BY <1>1, SyncType DEF Finish, Go
<1>6. \A g \in Games : live'[g] = live[g] \/ (live'[g] \in wrote /\ live'[g].game = g)
  BY <1>1 DEF Synced
<1>7. \A g \in Games : live'[g] \in Row0 /\ live'[g] \in VersionsOf(g)' \cup {NoVersion}
  BY <1>1, <1>3, <1>6 DEF IInv, TypeOK, VersionsOf, Row0
<1>8. live' \in [Games -> Row0]
  BY <1>1, <1>7
<1>9. TypeOK'
  BY <1>1, <1>2, <1>3, <1>5, <1>7, <1>8, IdleTypes DEF IInv, TypeOK, Parties
<1>10. IdleSync.wrote = {}
  BY DEF IdleSync
<1>11. Grounded' /\ LocksExclude'
  BY <1>2, <1>4, <1>5, <1>10 DEF IInv, Grounded, LocksExclude, Parties
<1>12. OnlyTestedIsPlayed'
  <2>1. ASSUME NEW g \in Games, ByAdmin(live'[g]) PROVE Ready(live'[g])
    BY <2>1, <1>3, <1>6 DEF IInv, OnlyTestedIsPlayed
  <2>2. ByAdmin(token.row) => Ready(token.row)
    BY DEF IInv, OnlyTestedIsPlayed
  <2> QED
    BY <2>1, <2>2, <1>1 DEF OnlyTestedIsPlayed, ByAdmin, Ready
<1>13. \A b \in Admins : AdminInv(b)'
  BY <1>1, <1>5, SyncType, OtherAdmin DEF Parties
<1>14. \A e \in Syncs : SyncInv(e)'
  <2>1. SyncInv(d)'
    BY <1>5 DEF SyncInv, IdleSync
  <2>2. ASSUME NEW e \in Syncs, e # d PROVE SyncInv(e)'
    <3>1. \A v \in req[e].wrote : ~Taken(v.game, v.number)
      BY DEF IInv, SyncInv
    <3>2. \A v \in req[e].wrote, w \in wrote : v.game # w.game
      BY <2>2 DEF IInv, LocksExclude
    <3>3. \A v \in req[e].wrote : ~Taken(v.game, v.number)'
      BY <3>1, <3>2, <1>1 DEF Taken, VersionsOf
    <3> QED
      BY <3>3, <1>1, <1>2, <1>5, <2>2, OtherSync DEF Parties
  <2> QED
    BY <2>1, <2>2
<1> QED
  BY <1>4, <1>9, <1>11, <1>12, <1>13, <1>14 DEF IInv

-----------------------------------------------------------------------------
(* The inductive invariant *)

LEMMA InitInv == Init => IInv
<1> SUFFICES ASSUME Init PROVE IInv
  OBVIOUS
<1>1. \A a \in Admins : req[a] = IdleAdmin
  BY DEF Init
<1>2. \A d \in Syncs : req[d] = IdleSync
  BY DEF Init
<1>3. TypeOK
  BY <1>1, <1>2, IdleTypes DEF Init, TypeOK, Row0
<1>4. Grounded /\ NumbersAreUnique
  BY DEF Init, Grounded, NumbersAreUnique, Parties
<1>5. LocksExclude /\ \A d \in Syncs : SyncInv(d)
  BY <1>2 DEF LocksExclude, SyncInv, IdleSync
<1>6. OnlyTestedIsPlayed
  BY DEF Init, OnlyTestedIsPlayed, ByAdmin, NoToken
<1>7. \A a \in Admins : AdminInv(a)
  BY <1>1 DEF AdminInv, IdleAdmin
<1> QED
  BY <1>3, <1>4, <1>5, <1>6, <1>7 DEF IInv

(* A step that changes no variable. *)
LEMMA Stutters ==
  ASSUME IInv, UNCHANGED vars
  PROVE  IInv'
<1>1. TypeOK' /\ Grounded' /\ LocksExclude'
  BY DEF IInv, vars, TypeOK, Grounded, LocksExclude, VersionsOf
<1>2. NumbersAreUnique' /\ OnlyTestedIsPlayed'
  <2>1. versions' = versions /\ live' = live /\ token' = token
    BY DEF vars
  <2>2. NumbersAreUnique'
    BY <2>1 DEF IInv, NumbersAreUnique, VersionsOf, Taken
  <2>3. OnlyTestedIsPlayed'
    BY <2>1 DEF IInv, OnlyTestedIsPlayed, Ready, ByAdmin
  <2> QED
    BY <2>2, <2>3
<1>3. \A a \in Admins : AdminInv(a)'
  BY OtherAdmin DEF vars
<1>4. \A d \in Syncs : SyncInv(d)'
  <2>1. \A d \in Syncs : \A v \in req[d].wrote : ~Taken(v.game, v.number)'
    BY DEF IInv, vars, SyncInv, Taken, VersionsOf
  <2> QED
    BY <2>1, OtherSync DEF vars
<1> QED
  BY <1>1, <1>2, <1>3, <1>4 DEF IInv

LEMMA Inductive ==
  ASSUME IInv, [Next]_vars
  PROVE  IInv'
<1>1. ASSUME NEW a \in Admins, Save(a) PROVE IInv'
  BY <1>1, SaveStep
<1>2. ASSUME NEW a \in Admins, CommitSave(a) PROVE IInv'
  BY <1>2, CommitSaveStep
<1>3. ASSUME NEW a \in Admins, Publish(a) PROVE IInv'
  BY <1>3, PublishStep
<1>4. ASSUME NEW a \in Admins, TestVariant(a) PROVE IInv'
  BY <1>4, TestVariantStep
<1>5. ASSUME NEW a \in Admins, CommitPublish(a) PROVE IInv'
  BY <1>5, CommitPublishStep
<1>6. ASSUME NEW a \in Admins, UpdateTopic(a) PROVE IInv'
  BY <1>6, UpdateTopicStep
<1>7. ASSUME NEW d \in Syncs, BeginSync(d) PROVE IInv'
  BY <1>7, BeginSyncStep
<1>8. ASSUME NEW d \in Syncs, InsertTopic(d) PROVE IInv'
  BY <1>8, InsertTopicStep
<1>9. ASSUME NEW d \in Syncs, ReadGame(d) PROVE IInv'
  BY <1>9, ReadGameStep
<1>10. ASSUME NEW d \in Syncs, ReadNumber(d) PROVE IInv'
  BY <1>10, ReadNumberStep
<1>11. ASSUME NEW d \in Syncs, InsertVersion(d) PROVE IInv'
  BY <1>11, InsertVersionStep
<1>12. ASSUME NEW d \in Syncs, CommitSync(d) PROVE IInv'
  BY <1>12, CommitSyncStep
<1>13. ASSUME NEW d \in Syncs, StopSync(d) PROVE IInv'
  BY <1>13, Ends DEF StopSync, Parties
<1>14. CASE OpenAttempt
  BY <1>14, OpenAttemptStep
<1>15. CASE UNCHANGED vars
  BY <1>15, Stutters
<1> QED
  BY <1>1, <1>2, <1>3, <1>4, <1>5, <1>6, <1>7, <1>8, <1>9, <1>10, <1>11, <1>12, <1>13, <1>14,
     <1>15 DEF Next

LEMMA Invariance == Spec => []IInv
BY InitInv, Inductive, PTL DEF Spec

(* A sync that seems to commit does, or had nothing to write: live games become as it wrote. *)
LEMMA LiveAfter ==
  ASSUME IInv, [Next]_vars, NEW d \in Syncs, Commits(d), NEW g \in Games
  PROVE  live'[g] = Synced(g, req[d].wrote)
<1>1. req[d].pc = "games" /\ req[d].next > Len(Curriculum) /\ req'[d].pc = "idle"
  BY DEF Commits, Whole
<1>2. \A p, q : p # d /\ Go(p, q) => req'[d] = req[d]
  BY SyncType DEF Go
<1>3. \A p : p # d /\ Finish(p) => req'[d] = req[d]
  BY <1>2 DEF Finish
<1>4. \A a \in Admins : ~(Save(a) \/ Publish(a) \/ TestVariant(a) \/ UpdateTopic(a))
  <2> SUFFICES ASSUME NEW a \in Admins PROVE ~(Save(a) \/ Publish(a) \/ TestVariant(a) \/ UpdateTopic(a))
    OBVIOUS
  <2>1. a # d /\ req'[d] # req[d]
    BY <1>1, SyncType
  <2>2. ~Save(a)
    BY <1>2, <2>1 DEF Save
  <2>3. ~Publish(a)
    BY <1>2, <2>1 DEF Publish
  <2>4. ~TestVariant(a)
    BY <1>2, <1>3, <2>1 DEF TestVariant
  <2>5. ~UpdateTopic(a)
    BY <2>1 DEF UpdateTopic
  <2> QED
    BY <2>2, <2>3, <2>4, <2>5
<1>5. \A a \in Admins : ~(CommitSave(a) \/ CommitPublish(a))
  BY <1>1, <1>3, SyncType DEF CommitSave, CommitPublish
<1>6. \A e \in Syncs \ {d} : ~(BeginSync(e) \/ InsertTopic(e) \/ ReadGame(e) \/ ReadNumber(e))
  BY <1>1, <1>2, <1>3 DEF BeginSync, InsertTopic, ReadGame, ReadNumber
<1>7. \A e \in Syncs \ {d} : ~(InsertVersion(e) \/ CommitSync(e) \/ StopSync(e))
  BY <1>1, <1>2, <1>3 DEF InsertVersion, CommitSync, StopSync
<1>8. ~(BeginSync(d) \/ InsertTopic(d) \/ ReadNumber(d) \/ InsertVersion(d))
  BY <1>1 DEF BeginSync, InsertTopic, ReadNumber, InsertVersion
<1>9. ~ReadGame(d)
  <2>1. req[d].next \in Nat /\ Len(Curriculum) \in Nat
    BY SyncType DEF SyncRun
  <2> QED
    BY <1>1, <2>1 DEF ReadGame
<1>10. ~OpenAttempt /\ ~UNCHANGED vars
  BY <1>1 DEF OpenAttempt, vars
<1>11. CommitSync(d) \/ StopSync(d)
  BY <1>4, <1>5, <1>6, <1>7, <1>8, <1>9, <1>10 DEF Next
<1>12. CASE CommitSync(d)
  BY <1>12 DEF CommitSync
<1>13. CASE StopSync(d)
  <2>1. req[d].wrote = {}
    <3>1. \A v \in req[d].wrote : v \in versions /\ ~Taken(v.game, v.number)
      BY <1>13, SyncType DEF Commits, StopSync, SyncInv
    <3> QED
      BY <3>1 DEF Taken, VersionsOf
  <2> QED
    BY <2>1, <1>13 DEF StopSync, Synced
<1> QED
  BY <1>11, <1>12, <1>13

-----------------------------------------------------------------------------
(* Fair grades.                                                            *)

(* What is in the table, or is about to be, can be run. *)
SoundInv ==
  /\ \A v \in versions : Sound(Body[v.body])
  /\ \A a \in Admins : req[a].pc = "save" => Sound(Body[req[a].row.body])

(* A body without content issues can be run. *)
LEMMA FlawlessIsSound ==
  ASSUME NEW b \in Bodies, NEW g \in Games, Flaws[b][g] = {}
  PROVE  Sound(Body[b])
<1>1. ContentIssues(Body[b], g \in Checkpoints) = {}
  BY DEF Flaws
<1>2. Body[b] \in GameBody(DOMAIN Body[b].params)
  OBVIOUS
<1> DEFINE body == Body[b]
<1>3. body.start \in Nat /\ body.end \in Nat
  BY <1>2 DEF GameBody
<1>4. body.start = 0 \/ body.end = 0 => "markers" \in ContentIssues(body, g \in Checkpoints)
  BY DEF ContentIssues
<1>5. body.start # 0 /\ body.end # 0 /\ body.end <= body.start
        => "order" \in ContentIssues(body, g \in Checkpoints)
  BY DEF ContentIssues
<1>6. (\E k \in DOMAIN body.params : body.params[k] = <<>>)
        => "options" \in ContentIssues(body, g \in Checkpoints)
  BY DEF ContentIssues
<1> QED
  BY <1>1, <1>3, <1>4, <1>5, <1>6 DEF Sound, Spliced

LEMMA SoundStep ==
  ASSUME IInv, SoundInv, FairContent, [Next]_vars
  PROVE  SoundInv'
<1>1. DOMAIN req = Parties
  BY DEF IInv, Grounded
<1>2. ASSUME NEW p \in Parties, NEW q, Go(p, q), versions' = versions,
             q.pc = "save" => Sound(Body[q.row.body])
      PROVE  SoundInv'
  BY <1>1, <1>2 DEF SoundInv, Go, Parties
<1>3. ASSUME NEW p \in Parties, Finish(p), \A v \in versions' \ versions : Sound(Body[v.body])
      PROVE  SoundInv'
  BY <1>1, <1>3 DEF SoundInv, Finish, Go, IdleAdmin, IdleSync, Parties
<1>4. ASSUME versions' = versions, req' = req PROVE SoundInv'
  BY <1>4 DEF SoundInv
<1>5. ASSUME NEW a \in Admins, Save(a) PROVE SoundInv'
  <2>1. PICK g \in DOMAIN Edits : \E body \in Edits[g] :
          Flaws[body][g] = {} /\
          Go(a, [IdleAdmin EXCEPT !.pc = "save", !.row =
                  [game |-> g, number |-> NextNumber(g), body |-> body, by |-> a]])
    BY <1>5 DEF Save
  <2>2. PICK body \in Edits[g] :
          Flaws[body][g] = {} /\
          Go(a, [IdleAdmin EXCEPT !.pc = "save", !.row =
                  [game |-> g, number |-> NextNumber(g), body |-> body, by |-> a]])
    BY <2>1
  <2>3. Sound(Body[body])
    BY <2>2, FlawlessIsSound
  <2> QED
    BY <1>2, <1>5, <2>2, <2>3 DEF Save, Parties, IdleAdmin
<1>6. ASSUME NEW a \in Admins, CommitSave(a) PROVE SoundInv'
  BY <1>3, <1>6 DEF CommitSave, Inserted, SoundInv, Parties
<1>7. ASSUME NEW a \in Admins, Publish(a) PROVE SoundInv'
  <2>1. PICK v \in versions :
          Go(a, [IdleAdmin EXCEPT !.pc = "publish", !.row = v, !.same = (live[v.game] = v)])
    BY <1>7 DEF Publish
  <2>2. [IdleAdmin EXCEPT !.pc = "publish", !.row = v, !.same = (live[v.game] = v)].pc # "save"
    BY DEF IdleAdmin
  <2> QED
    BY <1>2, <1>7, <2>1, <2>2 DEF Publish, Parties
<1>8. ASSUME NEW a \in Admins, TestVariant(a) PROVE SoundInv'
  <2>1. req[a] \in AdminRequest
    BY DEF IInv, TypeOK
  <2>2. req[a].pc = "publish" /\ UNCHANGED versions
    BY <1>8 DEF TestVariant
  <2>3. Finish(a) \/ \E tested, read : Go(a, [req[a] EXCEPT !.tested = tested, !.read = read])
    BY <1>8, Zenon DEF TestVariant
  <2>4. ASSUME NEW tested, NEW read, Go(a, [req[a] EXCEPT !.tested = tested, !.read = read])
        PROVE  SoundInv'
    <3>1. [req[a] EXCEPT !.tested = tested, !.read = read].pc = "publish"
      BY <2>1, <2>2 DEF AdminRequest
    <3> QED
      BY <1>2, <2>2, <2>4, <3>1 DEF Parties
  <2> QED
    BY <1>3, <2>2, <2>3, <2>4 DEF Parties
<1>9. ASSUME NEW a \in Admins, CommitPublish(a) PROVE SoundInv'
  BY <1>3, <1>9 DEF CommitPublish, Parties
<1>10. ASSUME NEW a \in Admins, UpdateTopic(a) PROVE SoundInv'
  BY <1>4, <1>10 DEF UpdateTopic
<1>11. ASSUME NEW d \in Syncs,
              BeginSync(d) \/ InsertTopic(d) \/ ReadGame(d) \/ ReadNumber(d) \/ InsertVersion(d)
       PROVE  SoundInv'
  <2>1. UNCHANGED versions
    BY <1>11 DEF BeginSync, InsertTopic, ReadGame, ReadNumber, InsertVersion
  <2>2. Finish(d) \/ \E q : Go(d, q)
    BY <1>11, Zenon DEF BeginSync, InsertTopic, ReadGame, ReadNumber, InsertVersion
  <2>3. \A a \in Admins : req'[a] = req[a]
    BY <2>2, <1>1 DEF Finish, Go, Parties
  <2> QED
    BY <2>1, <2>3 DEF SoundInv
<1>12. ASSUME NEW d \in Syncs, CommitSync(d) PROVE SoundInv'
  <2>1. \A v \in req[d].wrote : Sound(Body[v.body])
    BY <1>12, SyncType DEF SyncInv, SeedRow, FairContent, Version, CommitSync, Whole
  <2> QED
    BY <1>3, <1>12, <2>1 DEF CommitSync, Parties
<1>13. ASSUME NEW d \in Syncs, StopSync(d) PROVE SoundInv'
  BY <1>3, <1>13 DEF StopSync, Parties
<1>14. CASE OpenAttempt
  BY <1>4, <1>14 DEF OpenAttempt
<1>15. CASE UNCHANGED vars
  BY <1>4, <1>15 DEF vars
<1> QED
  BY <1>5, <1>6, <1>7, <1>8, <1>9, <1>10, <1>11, <1>12, <1>13, <1>14, <1>15 DEF Next
(* Grades of a token whose version and variant are in order. *)
LEMMA Fair ==
  ASSUME IInv, SoundInv, FairContent
  PROVE  GradesAreFair
<1> SUFFICES ASSUME token # NoToken PROVE GradesAreFair
  BY DEF GradesAreFair
<1> DEFINE b    == token.row.body
           seed == token.seed
           body == Body[b]
           keys == DOMAIN body.params
           p    == Pick(body, seed)
<1>1. token.row \in versions /\ seed \in Played /\ seed \in Seeds
  BY DEF IInv, TypeOK
<1>2. b \in Bodies
  BY <1>1 DEF IInv, TypeOK, Version
<1>3. keys \subseteq Params /\ body \in GameBody(keys) /\ Sound(body)
  BY <1>1, <1>2 DEF SoundInv
<1>4. ASSUME ByAdmin(token.row), seed \in PublishSeeds
      PROVE  GradeReference(token) = [verdict |-> "graded", score |-> 100]
  <2> DEFINE run == RunCases(body, seed, FillCode(body.reference, p), TRUE)
  <2>1. GradeReference(token) = run
    BY <1>1, <1>2 DEF GradeReference, OwnReference, GameForToken
  <2>2. Reference[b][seed][TRUE] = run
    BY <1>1, <1>2 DEF Reference, ReferenceRun
  <2>3. run.verdict = "graded" /\ ~(run.score < 100)
    BY <1>4, <2>2 DEF IInv, OnlyTestedIsPlayed, Ready, Solved
  <2> QED
    BY <1>3, <2>1, <2>3, FullMarks
<1>5. ASSUME body.generator = "signup_boundaries", NEW run \in GradeSlips(token)
      PROVE  run.verdict = "graded" /\ run.score < 100
  <2>1. PICK slip \in Slips :
          run = RunCases(body, seed, Code("runs", [k \in Params |-> p[k] + slip[k]]), TRUE)
    BY <1>1, <1>2, <1>5 DEF GradeSlips, Slipped, GameForToken
  <2>2. Generates(body, seed) /\ Len(body.public) < 188
    BY <1>1, <1>2, <1>5 DEF FairContent
  <2>3. keys = Params
    BY <1>3, <1>5, <2>2 DEF Generates, Drawable, Pick
  <2>4. p \in [Params -> Int]
    <3>1. ASSUME NEW k \in Params PROVE p[k] \in Int
      <4>1. body.params[k] \in Seq(Int) /\ body.params[k] # <<>>
        BY <1>3, <2>3 DEF GameBody, Sound
      <4>2. Len(body.params[k]) \in Nat \ {0}
        BY <4>1, EmptySeq
      <4>3. Draw[seed][k] \in Nat
        BY <1>1, DrawAssumption
      <4>4. (Draw[seed][k] % Len(body.params[k])) + 1 \in 1..Len(body.params[k])
        <5>1. \A m \in Nat, n \in Nat \ {0} : (m % n) + 1 \in 1..n
          OBVIOUS
        <5> QED
          BY <4>2, <4>3, <5>1
      <4> QED
        BY <2>3, <4>1, <4>4, ElementOfSeq DEF Pick
    <3> QED
      BY <2>3, <3>1 DEF Pick
  <2> DEFINE bounds == [k \in Params |-> p[k] + slip[k]]
  <2>5. bounds \in [Params -> Int] /\ bounds # p
    <3>1. slip \in [Params -> Int] /\ slip # [k \in Params |-> 0]
      BY <2>1, SlipAssumption
    <3>2. PICK k \in Params : slip[k] # 0
      BY <3>1
    <3> HIDE DEF p
    <3>3. bounds \in [Params -> Int] /\ bounds[k] # p[k]
      BY <2>4, <3>1, <3>2
    <3> QED
      BY <3>3
  <2> HIDE DEF bounds
  <2>6. RunCases(body, seed, Code("runs", bounds), TRUE).verdict = "graded"
        /\ RunCases(body, seed, Code("runs", bounds), TRUE).score < 100
    BY <1>3, <1>5, <2>2, <2>4, <2>5, SlipIsGraded DEF Sound
  <2> QED
    BY <2>1, <2>6 DEF bounds
<1> QED
  BY <1>4, <1>5 DEF GradesAreFair

-----------------------------------------------------------------------------
(* What is proved *)

(* The type invariant: in particular a game that exists always plays a version of its own. *)
THEOREM TypeCorrect == Spec => []TypeOK
<1>1. IInv => TypeOK
  BY DEF IInv
<1> QED
  BY <1>1, Invariance, PTL

(* Saves and syncs that compute the next number of one game at the same time never leave two *)
(* versions with it, nor a gap: of any number of admins and container starts.                *)
THEOREM VersionNumbers == Spec => []NumbersAreUnique
<1>1. IInv => NumbersAreUnique
  BY DEF IInv
<1> QED
  BY <1>1, Invariance, PTL

(* What an admin wrote and learners play has passed every check and every test run of publish. *)
THEOREM TestedBeforePlayed == Spec => []OnlyTestedIsPlayed
<1>1. IInv => OnlyTestedIsPlayed
  BY DEF IInv
<1> QED
  BY <1>1, Invariance, PTL

(* A publish that ends well under an unchanged threshold, with no starter run lost, has found *)
(* that the starter code fails on every tested variant.                                       *)
THEOREM StarterFails == Spec => PublishedStarterFails
<1>1. ASSUME IInv
      PROVE  \A a \in Admins :
               /\ req[a].pc = "publish" /\ req[a].tested = PublishSeeds /\ req'[a].pc = "idle"
               /\ req[a].read = {threshold}
               => \A seed \in PublishSeeds : Fails(req[a].row.body, seed, threshold)
  <2> SUFFICES ASSUME NEW a \in Admins, req[a].pc = "publish", req[a].tested = PublishSeeds,
                      req[a].read = {threshold}, NEW seed \in PublishSeeds
               PROVE  Fails(req[a].row.body, seed, threshold)
    OBVIOUS
  <2>1. threshold # 0
    BY <1>1 DEF IInv, Grounded, AdminInv
  <2>2. Found(req[a], seed)
    BY <1>1 DEF IInv, AdminInv
  <2> QED
    BY <2>1, <2>2 DEF Found
<1>2. IInv /\ [Next]_vars =>
        [\A a \in Admins :
           /\ req[a].pc = "publish" /\ req[a].tested = PublishSeeds /\ req'[a].pc = "idle"
           /\ req[a].read = {threshold}
           => \A seed \in PublishSeeds : Fails(req[a].row.body, seed, threshold)]_req
  BY <1>1
<1> QED
  BY <1>2, Invariance, PTL DEF Spec, PublishedStarterFails

(* A sync's commit replaces no version that an admin wrote and published before the sync had *)
(* read the game, whatever other admins and syncs do meanwhile.                              *)
THEOREM AdminsAreSpared == Spec => SyncSparesAdmins
<1>1. ASSUME IInv, [Next]_vars, NEW d \in Syncs, NEW g \in Games,
             Commits(d), ByAdmin(live[g]), live'[g] # live[g]
      PROVE  req[d].found[g] # live[g]
  <2>1. live'[g] = Synced(g, req[d].wrote)
    BY <1>1, LiveAfter
  <2>2. PICK v \in req[d].wrote : v.game = g
    BY <1>1, <2>1 DEF Synced
  <2>3. ~ByAdmin(req[d].found[g])
    BY <1>1, <2>2, SyncType DEF SyncInv, SeedRow
  <2> QED
    BY <1>1, <2>3
<1>2. IInv /\ [Next]_vars =>
        [\A d \in Syncs, g \in Games :
           Commits(d) /\ ByAdmin(live[g]) /\ live'[g] # live[g]
             => req[d].found[g] # live[g]]_<<live, req>>
  BY <1>1
<1> QED
  BY <1>2, Invariance, PTL DEF Spec, SyncSparesAdmins

(* A sync's commit leaves every game of the curriculum with what the seed files say or with *)
(* an admin's version, all at once, unless somebody published it since the sync read it.    *)
THEOREM EveryGameIsSynced == Spec => SyncUpdatesAll
<1>1. ASSUME IInv, [Next]_vars, NEW d \in Syncs, NEW g \in Games,
             Commits(d), live[g] = req[d].found[g]
      PROVE  live'[g] # NoVersion /\ (ByAdmin(live'[g]) \/ live'[g].body = req[d].files[g])
  <2>2. live'[g] = Synced(g, req[d].wrote)
    BY <1>1, LiveAfter
  <2>3. PICK i \in DOMAIN Curriculum : g = Curriculum[i]
    BY DEF Games
  <2>4. i \in 1..(req[d].next - 1)
    <3>1. req[d].next \in Nat /\ req[d].next > Len(Curriculum) /\ i \in 1..Len(Curriculum)
      BY <1>1, <2>3, SyncType DEF Commits, Whole, SyncRun
    <3> QED
      BY <3>1, SyncType, <1>1
  <2>5. DoneWith(req[d], g)
    BY <1>1, <2>3, <2>4, SyncType DEF SyncInv
  <2>6. CASE \E v \in req[d].wrote : v.game = g
    <3>1. live'[g] \in req[d].wrote /\ live'[g].game = g
      BY <2>2, <2>6 DEF Synced
    <3>2. SeedRow(req[d], live'[g])
      BY <1>1, <3>1, SyncType DEF SyncInv
    <3> QED
      BY <3>1, <3>2 DEF SeedRow, Version
  <2>7. CASE ~\E v \in req[d].wrote : v.game = g
    BY <1>1, <2>2, <2>5, <2>7 DEF DoneWith, Synced, ByAdmin
  <2> QED
    BY <2>6, <2>7
<1>2. IInv /\ [Next]_vars =>
        [\A d \in Syncs, g \in Games :
           Commits(d) /\ live[g] = req[d].found[g]
             => live'[g] # NoVersion
                /\ (ByAdmin(live'[g]) \/ live'[g].body = req[d].files[g])]_<<live, req>>
  BY <1>1
<1> QED
  BY <1>2, Invariance, PTL DEF Spec, SyncUpdatesAll

(* A grade is fair to the variant that the token names, whoever publishes what meanwhile: *)
(* where the content is as FairContent says, a tested reference gets all of it, and code  *)
(* with any other bounds than the variant's never does.                                   *)
THEOREM GradesFitTheVariant ==
  ASSUME FairContent
  PROVE  Spec => []GradesAreFair
<1>1. Init => SoundInv
  BY DEF Init, SoundInv, IdleAdmin, Parties
<1>2. IInv /\ SoundInv /\ [Next]_vars => SoundInv'
  BY SoundStep
<1>3. IInv /\ SoundInv => GradesAreFair
  BY Fair
<1> QED
  BY <1>1, <1>2, <1>3, Invariance, PTL DEF Spec
=============================================================================
