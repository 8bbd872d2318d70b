----------------------------- MODULE MCFraming -----------------------------
(***************************************************************************)
(* Small instances of Framing: three or four packets, sizes below 8, reads *)
(* of two or three bytes, so that a packet takes one to four reads and a   *)
(* read may end one packet and begin the next.                             *)
(***************************************************************************)
EXTENDS Framing
=============================================================================
