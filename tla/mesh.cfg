SPECIFICATION FairSpec
CONSTANT DSM_NODE_NUM = 5
INVARIANTS TypeOK ConnectionsAccounted MeshComplete
PROPERTY InitReturns
CHECK_DEADLOCK FALSE
