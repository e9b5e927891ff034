SPECIFICATION Spec
CONSTANTS
  Requests = {r1}
  Topics = {here}
  Here = here
  Checkpoint = {c1, c2}
  Practised = {}
  NoVariant = NoVariant
  Calls = {"grade", "hint"}
  Tiers = {1}
  Raws = {70, 100}
  PracticeScores = {60}
  Threshold = 70
  PerTier = 5
  Cooldown = 0
  MaxClock = 4
INVARIANT FailsSinceLastPass
