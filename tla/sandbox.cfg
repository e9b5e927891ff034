SPECIFICATION Spec
CONSTANTS
  Grades = {g1, g2, g3}
  Boot = Boot
  Parallel = 2
  MaxServers = 2
  MaxJobs = 4
SYMMETRY GradesAlike
INVARIANTS TypeOK EveryWaitIsWatched OwnAnswer NothingQueues CrashHasACause OneServer
PROPERTIES KillsOnlyItsOwn
CHECK_DEADLOCK FALSE
