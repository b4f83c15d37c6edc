SPECIFICATION FairStart
CONSTANTS
  num_procs = 3
  Fragile = {1}
  Plain = {1}
INVARIANTS TypeOK BarrierSound CounterBehind ConnectionsIdentified StartTogether ContactsRight
PROPERTIES AllStart ImplementsMesh
CHECK_DEADLOCK FALSE
