--------------------------- MODULE MCLoginServer ---------------------------
(***************************************************************************)
(* Small instances of LoginServer.  The names Long1 and Long2 are so long  *)
(* that the buffer of 64 bytes cuts their platform ids to the same string. *)
(***************************************************************************)
EXTENDS LoginRefinement, TLC

MCAuthenIDs == {"Long1", "Long2", ""}
MCTwoAuthenIDs == {"Long1", ""}
MCPTIDs == {"1_1_Long", "1_1_"}
MCTwoPtidOf == ("Long1" :> "1_1_Long") @@ ("" :> "1_1_")
MCPtidOf == ("Long1" :> "1_1_Long") @@ ("Long2" :> "1_1_Long") @@ ("" :> "1_1_")

\* The gates differ only by name.
GateSymmetry == Permutations(Gates)
=============================================================================
