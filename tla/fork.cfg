SPECIFICATION Spec
CONSTANTS
  Files <- ShortFiles
  LineMax = 5
  FdLimit = 14
  Closed <- OneOpen
INVARIANTS TypeOK OutputsRedirected TubesApart TubesReadable OwnMachine
CHECK_DEADLOCK FALSE
