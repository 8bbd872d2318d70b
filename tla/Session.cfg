SPECIFICATION Spec
CONSTANT Messages = {m1, m2, m3}
INVARIANT NoLostWakeup
INVARIANT WrittenInOrder
INVARIANT DisconnectOnce
PROPERTY SentIsWritten
PROPERTY StopIsTold
PROPERTY StopEnds
CHECK_DEADLOCK FALSE
