--------------------------- MODULE MCSystemCalls ---------------------------
(***************************************************************************)
(* Small instances of SystemCalls for TLC: the calls of the threads.       *)
(***************************************************************************)
EXTENDS SystemCalls, TLC

CONSTANTS t1, t2, k1, k2, k3

(* Every kind of call, by two threads whose calls overlap.                 *)
TwoThreads ==
  (t1 :> <<"do_exec", "do_system">>) @@ (t2 :> <<"do_system(NULL)", "do_exec_redirect">>)

(* One thread that calls again.                                            *)
OneThread == (t1 :> <<"do_exec", "do_exec">>) @@ (t2 :> << >>)
=============================================================================
