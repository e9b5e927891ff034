----------------------------- MODULE MCRewards -----------------------------
(* Rewards for TLC: three topics of which one has a checkpoint, one warm-up game, rounds of *)
(* two quizzes, a learner who has played on two days, and three requests: up to three of    *)
(* them before a midnight of UTC, the others on the third day; UTC and a zone half a day    *)
(* west of it, for which it is noon.                                                        *)
EXTENDS Rewards

MCTopicOf   == [v \in {"v", "front-desk"} |-> "gate"]
MCBriefings == {<<"gate", "cables", "pipes">>}

Round(quiz, score, combo) == [quiz |-> quiz, score |-> score, total |-> 5, combo |-> combo]
MCRounds == {Round("daily", 5, 5), Round("status-speed-round", 4, 5)}

MCZones == {0, -Half}

MCHistory == {{Dated(Round("status-speed-round", 5, 2), at) : at \in {7, 19, 20}}}

(* The levels, against their closed form: level n takes 100 + 50 (n - 1), so it begins at *)
(* 100 (n - 1) + 25 (n - 1) (n - 2).                                                      *)
Begins(n) == 100 * (n - 1) + 25 * (n - 1) * (n - 2)
ASSUME LevelsAreExact ==
  \A xp \in 0..3000 :
    LET l == LevelFor(xp)
    IN  /\ Begins(l.level) + l.into = xp /\ xp < Begins(l.level + 1)
        /\ l.needed = Begins(l.level + 1) - Begins(l.level)
=============================================================================
