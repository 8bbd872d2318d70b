SPECIFICATION Spec
SYMMETRY PTIDSymmetry
CONSTANTS
  MaxClients = 2
  MaxPackets = 2
  MaxBatch = 2
  PTIDs = {t1, t2}
  MaxRequests = 3
  MaxLinks = 2
INVARIANT SessionsLinked
INVARIANT ReachesOwner
INVARIANT LostOnlyBehindStop
INVARIANT LastWordTrue
INVARIANT HeardIsAsked
PROPERTY RequestFromLive
CHECK_DEADLOCK FALSE
