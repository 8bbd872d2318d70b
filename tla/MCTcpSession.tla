---------------------------- MODULE MCTcpSession ----------------------------
(***************************************************************************)
(* A small instance of TcpSession: two threads send two messages, empty or *)
(* of two bytes; a buffer of 2 bytes grows to 3, and the peer cuts 4 bytes *)
(* into packets in every way that fits.                                    *)
(***************************************************************************)
EXTENDS TcpSession
=============================================================================
