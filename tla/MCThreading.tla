---------------------------- MODULE MCThreading ----------------------------
(***************************************************************************)
(* A small instance of Threading for TLC: three threads and one mutex.     *)
(***************************************************************************)
EXTENDS Threading

CONSTANTS t1, t2, t3
=============================================================================
