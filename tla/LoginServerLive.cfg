\* Liveness, not a local test: a client is logged in by the answer of the account service.
SPECIFICATION Spec
CONSTANTS
  Gates = {g1}
  AuthenIDs <- MCTwoAuthenIDs
  NoAuthen = ""
  PTIDs <- MCPTIDs
  NoPTID = NoPTID
  NoPlayer = NoPlayer
  PtidOf <- MCTwoPtidOf
  Workers = 2
  IsLocalTest = FALSE
  OpenWhitePt = FALSE
  WebCheck = TRUE
  MaxMsg = 2
PROPERTY ApResultSparesOnline
PROPERTY ShutdownCompletes
PROPERTY FailureAnswered
PROPERTY ImplementsDirectory
CHECK_DEADLOCK FALSE
