------------------------------ MODULE MCContent ------------------------------
(* Content for TLC: a practice game and a checkpoint, two releases of the seed files, and *)
(* three edits of the checkpoint, of which one may be published.                          *)
EXTENDS Content, TLC

MCDraw ==
  LET By(a, b, c, d, luck) ==
        [k \in Params \cup {"luck"} |->
           CASE k = "min_age" -> a [] k = "max_age" -> b [] k = "name_min" -> c
             [] k = "name_max" -> d [] k = "luck" -> luck]
  IN  << By(0, 0, 0, 0, 0), By(1, 1, 1, 0, 5) >>

Bounds(lo, hi, nmin, nmax) ==
  [k \in Params |-> CASE k = "min_age" -> lo [] k = "max_age" -> hi
                      [] k = "name_min" -> nmin [] k = "name_max" -> nmax]

Exact    == [k \in Params |-> Placeholder(k)]
Anything == Bounds(Number(0), Number(99), Number(0), Number(99))

PublicTests ==
  << Test("a grown-up", Placeholder("max_age"), Placeholder("name_min"), 201),
     Test("a child", Number(1), Placeholder("name_min"), 422) >>

Gate == [start |-> 3, end |-> 9, app |-> TRUE, public |-> PublicTests,
         generator |-> "signup_boundaries", hidden |-> <<>>, tiers |-> <<1, 2>>,
         params |-> [k \in Params |-> CASE k = "min_age" -> <<18, 21>> [] k = "max_age" -> <<60, 65>>
                                        [] k = "name_min" -> <<3, 2>> [] k = "name_max" -> <<8>>],
         starter |-> Code("runs", Anything), reference |-> Code("runs", Exact)]

Booth == [Gate EXCEPT !.generator = "none", !.tiers = <<>>,
                      !.hidden = << Test("too young", Number(5), Placeholder("name_min"), 422) >>]

(* A release changes the gate.  Edits of the gate: one that publishing accepts while  *)
(* the threshold is high, one whose reference fails on the second variant, one without     *)
(* edit markers, which is never saved.                                                    *)
MCBody ==
  [b \in {"booth", "gate1", "gate2", "edited", "wrong", "unmarked"} |->
     CASE b = "booth"    -> Booth
       [] b = "gate1"    -> Gate
       [] b = "gate2"    -> [Gate EXCEPT !.tiers = <<1>>]
       [] b = "edited"   -> [Gate EXCEPT !.params["min_age"] = <<21, 16>>]
       [] b = "wrong"    -> [Gate EXCEPT !.reference.bounds["max_age"] = Number(60)]
       [] b = "unmarked" -> [Gate EXCEPT !.end = 0]]

MCSeedFiles == {[g \in {"booth", "gate"} |-> IF g = "booth" THEN "booth" ELSE gate] :
                  gate \in {"gate1", "gate2"}}
MCEdits     == [g \in {"gate"} |-> {"edited", "wrong", "unmarked"}]
Parties     == Permutations(Admins) \cup Permutations(Syncs)

MCSlips == {[k \in Params |-> IF k = j THEN i ELSE 0] : j \in Params, i \in {-1, 1}}
MCCurriculum == <<"booth", "gate">>

(* The content of this instance is as GradesAreFair takes it. *)
ASSUME MCContentIsFair == FairContent
=============================================================================
