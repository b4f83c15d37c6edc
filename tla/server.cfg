SPECIFICATION FairSpec
CONSTANTS
  DSM_NODE_NUM = 3
  PAGE_NUMBER = 4
  Link <- DirectLink
  Touches <- ApartClients
  Lengths = {5}
  StdinKind <- Sockets
  WildFds = {3}
  SocketWords = 8
  PromptReplies = TRUE
  Finalizers = {}
  StdinEnds = FALSE
INVARIANT NobodyTrapped
PROPERTY PageArrives
CHECK_DEADLOCK FALSE
