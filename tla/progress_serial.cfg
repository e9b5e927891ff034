SPECIFICATION Spec
CONSTANTS
  Requests = {r1}
  Topics = {here}
  Here = here
  Checkpoint = {c1, c2}
  Practised = {p1}
  NoVariant = NoVariant
  Calls = {"grade", "hint", "practice", "lesson", "reset", "status"}
  Tiers = {1, 2}
  Raws = {0, 100}
  PracticeScores = {60}
  Threshold = 80
  PerTier = 10
  Cooldown = 2
  MaxClock = 4
INVARIANTS TypeOK SummaryMatchesAttempts EveryHintIsCharged
PROPERTY KeepsTheBook
