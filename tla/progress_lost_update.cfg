SPECIFICATION Spec
CONSTANTS
  Requests = {r1, r2}
  Topics = {here}
  Here = here
  Checkpoint = {c1}
  Practised = {}
  NoVariant = NoVariant
  Calls = {"grade"}
  Tiers = {1}
  Raws = {70, 100}
  PracticeScores = {60}
  Threshold = 70
  PerTier = 5
  Cooldown = 0
  MaxClock = 3
INVARIANT SummaryMatchesAttempts
