----------------------------- MODULE MCSession -----------------------------
(***************************************************************************)
(* Small instances of Session: three messages, so that one is written, one *)
(* is queued and one is posted at the same time.                           *)
(***************************************************************************)
EXTENDS Session
=============================================================================
