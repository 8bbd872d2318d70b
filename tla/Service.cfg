SPECIFICATION Spec
CONSTANTS
  MaxSessions = 3
  Programs = {"Gate", "Game", "Login", "World", "Db"}
INVARIANT LiveIsListed
INVARIANT GoneIsForgotten
INVARIANT AllStoppedAtEnd
INVARIANT DestroyedAlone
PROPERTY FlagEndsProcess
CHECK_DEADLOCK FALSE
