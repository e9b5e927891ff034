SPECIFICATION Spec
CONSTANTS
  Grades = {g1, g2}
  Boot = Boot
  Parallel = 1
  MaxServers = 2
  MaxJobs = 3
PROPERTIES GradesReturn
CHECK_DEADLOCK FALSE
