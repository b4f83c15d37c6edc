SPECIFICATION Spec
CONSTANTS
  DSM_NODE_NUM = 2
  PAGE_NUMBER = 2
  Link <- DirectLink
  Touches <- Crossing
  Lengths = {2}
  StdinKind <- MixedInputs
  WildFds = {3}
  SocketWords = 3
  PromptReplies = FALSE
  Finalizers = {0,1}
  StdinEnds = TRUE
INVARIANTS TypeOK HangUpHitsOwnPages
PROPERTY ServeFaultIsFatal
CHECK_DEADLOCK FALSE
