------------------------------ MODULE Grading ------------------------------
(***************************************************************************)
(* What a version of a game says, how a seed makes a variant of it, and    *)
(* how code is graded against the variant: app/games/{content, validate,   *)
(* variants, registry}.py, games/templates/, services/grading_service.py   *)
(* and the test run of admin_service.py.                                   *)
(*                                                                         *)
(* The data are those of the signup gate (templates/bouncer.py), a game    *)
(* whose code accepts a signup when an age and the length of a name are    *)
(* within the bounds that the variant draws.  Code is what it accepts.     *)
(***************************************************************************)
EXTENDS Integers, Sequences, FiniteSets

CONSTANT Draw  \* what random.Random(seed) yields: [seeds -> [Params \cup {"luck"} -> Nat]]

Params == {"min_age", "max_age", "name_min", "name_max"}
Seeds  == DOMAIN Draw

ASSUME DrawAssumption == \A s \in Seeds : Draw[s] \in [Params \cup {"luck"} -> Nat]

-----------------------------------------------------------------------------
(* Templates.  A value is a number or a placeholder, which code may shift  *)
(* (age < {{min_age}} for age <= {{min_age}}).                             *)

Number(n)        == [param |-> "none", by |-> n]
Shifted(param, n) == [param |-> param, by |-> n]
Placeholder(param) == Shifted(param, 0)

(* Code, as a template: whether it can run, and the bounds it enforces. *)
Code(kind, bounds) == [kind |-> kind, bounds |-> bounds]

(* A test: the signup it sends (an age may also be missing or no number) and the status *)
(* it expects.                                                                          *)
Test(name, age, len, expect) ==
  [name |-> name, age |-> age, len |-> len, numeric |-> TRUE, expect |-> expect]
NoNumber(name, len) == [Test(name, 0, len, 422) EXCEPT !.numeric = FALSE]

(* GameBody, as far as checks and grades can tell versions apart: start and end, the lines *)
(* of the edit markers (0: absent), app, public, generator ("none" without one), hidden,   *)
(* tiers of the hints, params (the options of each of the keys), starter, reference.       *)
Values    == [param : Params \cup {"none"}, by : Int]
Tests     == [name : STRING, age : Values, len : Values, numeric : BOOLEAN, expect : Nat]
Templates == [kind : {"runs", "forbidden", "loops", "broken"}, bounds : [Params -> Values]]
GameBody(keys) ==
  [start : Nat, end : Nat, app : BOOLEAN, public : Seq(Tests), generator : STRING,
   hidden : Seq(Tests), tiers : Seq(Int), params : [keys -> Seq(Int)],
   starter : Templates, reference : Templates]

(* pick_params: one option per parameter, by the seed. *)
Pick(body, seed) ==
  [k \in DOMAIN body.params |->
     body.params[k][(Draw[seed][k] % Len(body.params[k])) + 1]]

(* render, render_json *)
Fill(v, params) == IF v.param = "none" THEN v.by ELSE params[v.param] + v.by
FillTests(tests, params) ==
  [i \in DOMAIN tests |-> [tests[i] EXCEPT !.age = Fill(@, params), !.len = Fill(@, params)]]
FillCode(code, params) ==
  [code EXCEPT !.bounds = [k \in Params |-> Fill(code.bounds[k], params)]]

-----------------------------------------------------------------------------
(* Hidden tests *)

(* A name of a negative length is empty. *)
Letters(n) == IF n < 0 THEN 0 ELSE n

(* SignupBoundaries.hidden_tests: both sides of every bound, and a random recruit. *)
SignupBoundaries(p, luck) ==
  LET age   == (p["min_age"] + p["max_age"]) \div 2
      len   == Letters((p["name_min"] + p["name_max"]) \div 2)
      In(a, b) == a + (luck % ((b - a) + 1))
  IN << Test("age at minimum", p["min_age"], len, 201),
        Test("age just below minimum", p["min_age"] - 1, len, 422),
        Test("age at maximum", p["max_age"], len, 201),
        Test("age just above maximum", p["max_age"] + 1, len, 422),
        Test("negative age", -In(1, 50), len, 422),
        Test("name at min length", age, Letters(p["name_min"]), 201),
        Test("name below min length", age, Letters(p["name_min"] - 1), 422),
        Test("name at max length", age, Letters(p["name_max"]), 201),
        Test("name above max length", age, Letters(p["name_max"] + 1), 422),
        NoNumber("missing age", len),
        NoNumber("age not a number", len),
        Test("random recruit", In(p["min_age"], p["max_age"]),
             Letters(In(p["name_min"], p["name_max"])), 201) >>

(* TemplatedTests.hidden_tests *)
TemplatedTests(body, seed) == FillTests(body.hidden, Pick(body, seed))

(* generator_for(body).hidden_tests: generated, or the content's own with its values. *)
HiddenTests(body, seed) ==
  IF body.generator = "signup_boundaries"
  THEN SignupBoundaries(Pick(body, seed), Draw[seed]["luck"])
  ELSE TemplatedTests(body, seed)

(* It raises for an unknown generator, a parameter that is missing or an empty range. *)
Drawable(p) ==
  Params \subseteq DOMAIN p /\ p["min_age"] <= p["max_age"] /\ p["name_min"] <= p["name_max"]
Generates(body, seed) ==
  \/ body.generator = "none"
  \/ body.generator = "signup_boundaries" /\ Drawable(Pick(body, seed))

TestsOf(body, seed) == FillTests(body.public, Pick(body, seed)) \o HiddenTests(body, seed)

-----------------------------------------------------------------------------
(* A run *)

(* What the code answers (the harness sends one request after the other). *)
Status(bounds, t) ==
  IF /\ t.numeric
     /\ bounds["min_age"] <= t.age /\ t.age <= bounds["max_age"]
     /\ bounds["name_min"] <= t.len /\ t.len <= bounds["name_max"]
  THEN 201 ELSE 422

(* The tests passed: decided on the API's side, from its own expectations. *)
Passed(bounds, tests) == {i \in DOMAIN tests : Status(bounds, tests[i]) = tests[i].expect}

(* round(100 * passed / total): halves go to the even neighbour. *)
Percentage(passed, total) ==
  LET whole == (100 * passed) \div total
      twice == 2 * ((100 * passed) % total)
  IN  IF twice > total \/ (twice = total /\ whole % 2 = 1) THEN whole + 1 ELSE whole

Spliced(body) == body.start # 0 /\ body.end > body.start

(* run_cases, with the score of the results: policy check, splice, sandbox.  "up" is *)
(* whether the sandbox gave a report; "error" is an exception instead of a result.   *)
RunCases(body, seed, code, up) ==
  LET tests == TestsOf(body, seed)
      scored == Percentage(Cardinality(Passed(code.bounds, tests)), Len(tests))
      verdict == IF ~Generates(body, seed) THEN "error"
                 ELSE IF code.kind = "forbidden" THEN "rejected"
                 ELSE IF ~Spliced(body) THEN "error"
                 ELSE IF ~up THEN "crashed"
                 ELSE IF code.kind = "loops" THEN "timeout"
                 ELSE IF code.kind = "broken" THEN "load_error" ELSE "graded"
  IN  [verdict |-> verdict,
       score   |-> IF verdict = "graded" /\ tests # <<>> THEN scored ELSE 0]

-----------------------------------------------------------------------------
(* Checks before a version is saved or published *)

Distinct(seq) == Cardinality({seq[i] : i \in DOMAIN seq}) = Len(seq)
ValuesIn(tests) == UNION {{tests[i].age, tests[i].len} : i \in DOMAIN tests}

(* _test_issues: every test has a name of its own and expects a status. *)
SoundTests(tests) ==
  /\ \A i \in DOMAIN tests : tests[i].name # "" /\ tests[i].expect \in Nat
  /\ Distinct([i \in DOMAIN tests |-> tests[i].name])

Placeholders(body) ==
  LET values == ValuesIn(body.public) \cup ValuesIn(body.hidden)
                \cup {body.starter.bounds[k] : k \in Params}
                \cup {body.reference.bounds[k] : k \in Params}
  IN  {v.param : v \in values} \ {"none"}

(* content_issues, each by its name. *)
ContentIssues(body, isCheckpoint) ==
  LET broken ==
    [markers   |-> body.start = 0 \/ body.end = 0,
     order     |-> body.start # 0 /\ body.end # 0 /\ body.end <= body.start,
     app       |-> ~body.app,
     public    |-> body.public = <<>> \/ ~SoundTests(body.public),
     generator |-> body.generator \notin {"none", "signup_boundaries"},
     hidden    |-> body.generator = "none" /\
                     (~SoundTests(body.hidden) \/ (isCheckpoint /\ body.hidden = <<>>)),
     tiers     |-> ~Distinct(body.tiers) \/ \E i \in DOMAIN body.tiers : body.tiers[i] \notin 1..3,
     unknown   |-> ~(Placeholders(body) \subseteq DOMAIN body.params),
     options   |-> \E k \in DOMAIN body.params : body.params[k] = <<>>]
  IN  {issue \in DOMAIN broken : broken[issue]}

(* Mutant of Issues: the starter code may reach the threshold. *)
AboveThreshold(flaws, threshold, run, starter) ==
  flaws \cup {i \in {"reference"} : run.verdict # "graded" \/ run.score < 100}
        \cup {i \in {"starter"} : starter.verdict = "graded" /\ starter.score > threshold}

(* test_run: what blocks publishing.  A starter that was not graded is no issue. *)
Issues(flaws, threshold, run, starter) ==
  flaws \cup {i \in {"reference"} : run.verdict # "graded" \/ run.score < 100}
        \cup {i \in {"starter"} : starter.verdict = "graded" /\ starter.score >= threshold}

ReferenceRun(body, seed, up) == RunCases(body, seed, FillCode(body.reference, Pick(body, seed)), up)
(* _starter_region: the editable lines of the starter code, untouched. *)
StarterRun(body, seed, up)   == RunCases(body, seed, FillCode(body.starter, Pick(body, seed)), up)
=============================================================================
