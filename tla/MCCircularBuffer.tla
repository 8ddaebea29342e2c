-------------------------- MODULE MCCircularBuffer --------------------------
(***************************************************************************)
(* The ring at the capacity of the code, for TLC: entries that tell apart  *)
(* what has no bytes and what has several.                                 *)
(***************************************************************************)
EXTENDS RingLog

(* An entry of no bytes and one of two, in different buffers.              *)
MCEntries == {[buffptr |-> "empty", size |-> 0], [buffptr |-> "two", size |-> 2]}
=============================================================================
