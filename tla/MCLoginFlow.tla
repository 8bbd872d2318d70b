---------------------------- MODULE MCLoginFlow ----------------------------
(***************************************************************************)
(* Small instances of LoginFlow: two clients and two packets, read one by  *)
(* one or together, so that a packet can stand behind one that stops the   *)
(* session and a client can repeat its request; three requests at the      *)
(* login server, so that a platform id is taken over twice; two platform   *)
(* ids; and two connections, so that one is lost and made again.           *)
(***************************************************************************)
EXTENDS LoginFlow, TLC

\* The platform ids differ only by name.
PTIDSymmetry == Permutations(PTIDs)
=============================================================================
