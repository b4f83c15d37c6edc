SPECIFICATION Spec
CONSTANTS
  Process = {0, 1, 2}
  First = 0
  PAGE_SIZE = 2
  Byte = {0, 1}
  Slack = 1
  MaxWrites = 4
INVARIANTS TypeOK OneSettled KeptIsRead
CHECK_DEADLOCK FALSE
