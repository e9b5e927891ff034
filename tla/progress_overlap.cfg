SPECIFICATION FairSpec
CONSTANTS
  Requests = {r1, r2}
  Topics = {here, there}
  Here = here
  Checkpoint = {c1}
  Practised = {c1}
  NoVariant = NoVariant
  Calls = {"grade", "hint", "practice", "lesson", "reset", "status"}
  Tiers = {1}
  Raws = {70, 100}
  PracticeScores = {60}
  Threshold = 70
  PerTier = 5
  Cooldown = 0
  MaxClock = 3
INVARIANTS PassIsEarned PassIsRecorded CountedOnce
PROPERTIES PassIsKept PracticePassIsKept RequestsFinish
