SPECIFICATION FairSpec
CONSTANTS
  DSM_NODE_NUM = 2
  PAGE_NUMBER = 2
  Link <- DirectLink
  Touches <- Clients
  Lengths = {0, 5}
  StdinKind <- Sockets
  WildFds = {2}
  SocketWords = 8
  PromptReplies = TRUE
  Finalizers = {}
  StdinEnds = FALSE

PROPERTY AccessResumes
CHECK_DEADLOCK FALSE
