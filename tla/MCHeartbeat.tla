---------------------------- MODULE MCHeartbeat ----------------------------
(***************************************************************************)
(* A small instance of Heartbeat: the code's proportion of time-out to     *)
(* interval (3 to 1), half-second ticks, and the longest delay that the    *)
(* assumption allows.                                                      *)
(***************************************************************************)
EXTENDS Heartbeat
=============================================================================
