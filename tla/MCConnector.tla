---------------------------- MODULE MCConnector ----------------------------
(***************************************************************************)
(* A small instance of Connector: enough faults for a failed attempt, an   *)
(* expired time-out and a lost session in every order, and for the delay   *)
(* to reach its maximum (1, 2, 4, 5).                                      *)
(***************************************************************************)
EXTENDS Connector
=============================================================================
