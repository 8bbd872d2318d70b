\* A local test: a client is logged in at once, and the account check goes on.
SPECIFICATION Spec
SYMMETRY GateSymmetry
CONSTANTS
  Gates = {g1, g2}
  AuthenIDs <- MCAuthenIDs
  NoAuthen = ""
  PTIDs <- MCPTIDs
  NoPTID = NoPTID
  NoPlayer = NoPlayer
  PtidOf <- MCPtidOf
  Workers = 2
  IsLocalTest = TRUE
  OpenWhitePt = FALSE
  WebCheck = TRUE
  MaxMsg = 3
INVARIANT TypeOK
INVARIANT PtidMapAgrees
INVARIANT AnswerDiscipline
CHECK_DEADLOCK FALSE
