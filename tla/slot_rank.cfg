SPECIFICATION Spec
CONSTANT DSM_NODE_NUM = 3
INVARIANT SlotIsRank
CHECK_DEADLOCK FALSE
