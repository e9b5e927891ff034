SPECIFICATION Spec
CONSTANTS
  Draw <- MCDraw
  Admins = {a1, a2}
  Syncs = {s1}
  Curriculum <- MCCurriculum
  Checkpoints = {"gate"}
  Body <- MCBody
  SeedFiles <- MCSeedFiles
  Edits <- MCEdits
  Thresholds = {64}
  SeedThreshold = 70
  PublishSeeds = {1, 2}
  Played = {2}
  Slips <- MCSlips
  NoVersion = NoVersion
  MaxSaved = 2
  MaxVersion = 3
INVARIANTS TypeOK NumbersAreUnique OnlyTestedIsPlayed GradesAreFair
PROPERTIES PublishedStarterFails SyncSparesAdmins SyncUpdatesAll

SYMMETRY Parties
