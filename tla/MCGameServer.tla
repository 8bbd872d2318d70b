---------------------------- MODULE MCGameServer ----------------------------
(***************************************************************************)
(* Small instances of GameServer: two connections of gates and two ids, so *)
(* that two gates use the same id.                                         *)
(***************************************************************************)
EXTENDS GameServer
=============================================================================
