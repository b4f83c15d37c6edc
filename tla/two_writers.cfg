SPECIFICATION Spec
CONSTANTS
  DSM_NODE_NUM = 2
  PAGE_NUMBER = 3
  Link <- DirectLink
  Touches <- Crossing
  Lengths = {0}
  StdinKind <- Sockets
  WildFds = {3}
  SocketWords = 8
  PromptReplies = TRUE
  Finalizers = {}
  StdinEnds = FALSE
INVARIANT OneOwner
CHECK_DEADLOCK FALSE
