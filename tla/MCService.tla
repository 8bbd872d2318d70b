----------------------------- MODULE MCService -----------------------------
(***************************************************************************)
(* Small instances of Service: any of the programs, and three connections, *)
(* so that one has gone, one is being closed and one arrives while the     *)
(* server stops.                                                           *)
(***************************************************************************)
EXTENDS Service
=============================================================================
