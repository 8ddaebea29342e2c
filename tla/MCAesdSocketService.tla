------------------------ MODULE MCAesdSocketService ------------------------
(***************************************************************************)
(* A small instance of AesdSocketService for TLC: whole lines of two       *)
(* clients, and a third that only connects.                                *)
(***************************************************************************)
EXTENDS MCAesdSocket, AesdSocketService

ServiceScript ==
  (c1 :> << <<"x", MCNewLine>> >>) @@
  (c2 :> << <<"y", MCNewLine>> >>) @@
  (c3 :> << >>)
=============================================================================
