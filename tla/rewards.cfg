SPECIFICATION Spec
CONSTANTS
  Games = {"front-desk"}
  Topics = {"gate", "cables", "pipes"}
  HasCheckpoint = {"gate"}
  Variants = {"v"}
  TopicOf <- MCTopicOf
  Briefings <- MCBriefings
  Stars = {2, 3}
  Rounds <- MCRounds
  History <- MCHistory
  PickTheLine = {}
  Half = 6
  Zones <- MCZones
  MaxRequests = 3
  MaxOpen = 2
  MaxClock = 25
  Wakes = {24, 36}
CHECK_DEADLOCK FALSE

INVARIANT StreakIsTheDays
PROPERTIES XpOnlyGrows BadgesStay
