SPECIFICATION Spec
CONSTANTS
  Jobs = {j1, j2, j3}
  Parallel = 2
  Endings = {"reported", "failed", "alarmed"}
  Stdin = Stdin
INVARIANTS TypeOK InOnePlace ChildrenAreWatched ReadyIsWatched
PROPERTIES HonestAnswers EveryJobIsAnswered EndsWithTheApi IsAJobServer
CHECK_DEADLOCK FALSE
