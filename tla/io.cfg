SPECIFICATION FairSpec
CONSTANTS
  num_procs = 2
  TubeChunks = 1
  MaxChunks = 1
INVARIANTS TypeOK CounterExact NothingDropped MainShowsAll FailsOnlyAtEnd
PROPERTY Stops
CHECK_DEADLOCK FALSE
