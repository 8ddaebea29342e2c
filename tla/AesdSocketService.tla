------------------------- MODULE AesdSocketService -------------------------
(***************************************************************************)
(* AesdSocket with a history: how many threads were at work at most.       *)
(***************************************************************************)
EXTENDS AesdSocket, FiniteSets

VARIABLE peak

(* Threads at work: started, and neither done nor gone.                    *)
Serving == {c \in Conns : tpc[c] \notin {"none", "exited", "oops"} /\ ~client_done[c]}

(* Threads that left on an error, or died.  They are never marked as done, *)
(* so main never joins them.                                               *)
Abandoned == {c \in Conns : tpc[c] \in {"exited", "oops"} /\ ~client_done[c]}

ServiceInit == Init /\ peak = 0

ServiceNext ==
  /\ Next
  /\ peak' = IF Cardinality(Serving') > peak THEN Cardinality(Serving') ELSE peak

ServiceSafety == ServiceInit /\ [][ServiceNext]_<<vars, peak>>

ServiceSpec == ServiceSafety /\ Fairness

(***************************************************************************)
(* Main joins at most one thread for each connection (aesdsocket.c:611).   *)
(* That is enough to keep the threads that are done from piling up: when   *)
(* main waits for a client, it keeps, besides the threads that left on an  *)
(* error and that it never joins, no more than were at work at the same    *)
(* time once.                                                              *)
(***************************************************************************)
ListBoundedByPeak ==
  mpc = "accept" => Len(thread_list) <= peak + Cardinality(Abandoned)
=============================================================================
