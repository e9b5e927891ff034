SPECIFICATION Spec
CONSTANTS
  Requests = {r1}
  Topics = {here}
  Here = here
  Checkpoint = {c1}
  Practised = {}
  NoVariant = NoVariant
  Calls = {"lesson", "status"}
  Tiers = {1}
  Raws = {70, 100}
  PracticeScores = {60}
  Threshold = 70
  PerTier = 5
  Cooldown = 0
  MaxClock = 2
INVARIANT CompleteByCheckpoint
