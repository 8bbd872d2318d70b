-------------------------- MODULE LoginRefinement --------------------------
(***************************************************************************)
(* The login server implements LoginDirectory.  The players are the login  *)
(* requests: an id that fetchPlayer has not handed out yet is a request    *)
(* not taken, a player that is in playerMap_ no more has ended.            *)
(***************************************************************************)
EXTENDS LoginServer

\* What LoginDirectory knows of the player i.
StatusOf(i) ==
  IF i > player_idx THEN "none"
  ELSE IF playerMap[i] = NoPlayer THEN "ended"
  ELSE IF playerMap[i].state = "Online" THEN "online" ELSE "pending"

Directory == INSTANCE LoginDirectory
  WITH Requests <- PlayerIDs,
       status <- [i \in PlayerIDs |-> StatusOf(i)],
       holder <- pTIDMap

\* The player tables and the index of platform ids, which several handlers
\* change one after the other (fetchPlayer, kickOffPlayer, releasePlayer,
\* setPTID, changeState), change together as LoginDirectory allows: a request
\* is decided once, late and repeated results of the account check included,
\* and nobody loses a platform id but to its next holder or by a logoff.
ImplementsDirectory == Directory!Spec
=============================================================================
