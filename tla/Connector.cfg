SPECIFICATION Spec
CONSTANTS
  MaxFaults = 5
  InitialRetryDelay = 1
  MaxRetryDelay = 5
INVARIANT NoStraySocket
INVARIANT ReportedOnce
INVARIANT OneWayOn
PROPERTY ReconnectsEventually
PROPERTY NoAttemptAfterStop
CHECK_DEADLOCK FALSE
