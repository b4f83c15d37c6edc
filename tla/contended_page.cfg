SPECIFICATION Spec
CONSTANTS
  DSM_NODE_NUM = 3
  PAGE_NUMBER = 3
  Link <- DirectLink
  Touches <- AllTouch0
  Lengths = {0}
  StdinKind <- Sockets
  WildFds = {3}
  SocketWords = 8
  PromptReplies = TRUE
  Finalizers = {}
  StdinEnds = FALSE
INVARIANTS PageConserved StreamsFramed TablesAgreeButForGivers
PROPERTIES LostUntilTold ImplementsOwnership
CHECK_DEADLOCK FALSE
