----------------------------- MODULE Threading -----------------------------
(***************************************************************************)
(* start_thread_obtaining_mutex and threadfunc                             *)
(* (examples/threading/threading.c): threads that sleep, take the mutex    *)
(* they were given, sleep with it and give it back, and that return their  *)
(* thread_data for the joiner to free.  The caller, which starts and joins *)
(* them, and the calls of the C library are external.                      *)
(***************************************************************************)
EXTENDS Naturals, FiniteSets

CONSTANTS
  Threads,   (* Threads: each stands for one call that starts one.         *)
  NULL

ASSUME NullAssumption == NULL \notin Threads

VARIABLES
  pc,          (* Where each call, and then its thread, is                 *)
  allocated,   (* Threads whose thread_data is allocated                   *)
  success,     (* pThreadData->thread_complete_success                     *)
  started,     (* What start_thread_obtaining_mutex returned               *)
  mutex        (* The thread that holds the mutex, or NULL                 *)

vars == <<pc, allocated, success, started, mutex>>

Init ==
  /\ pc = [t \in Threads |-> "new"]
  /\ allocated = {}
  /\ success = [t \in Threads |-> FALSE]
  /\ started = {}
  /\ mutex = NULL

Goto(t, label) == pc' = [pc EXCEPT ![t] = label]

-----------------------------------------------------------------------------
(* start_thread_obtaining_mutex.                                           *)

(* malloc and the assignments to the new thread_data.                      *)
Allocate(t) ==
  /\ pc[t] = "new"
  /\ \/ /\ allocated' = allocated \cup {t}
        /\ success' = [success EXCEPT ![t] = FALSE]
        /\ Goto(t, "create")
     \/ Goto(t, "refused") /\ UNCHANGED <<allocated, success>>
  /\ UNCHANGED <<started, mutex>>

(* Variant: the result of pthread_create is not looked at.                 *)
CreateUnchecked(t) ==
  /\ pc[t] = "create"
  /\ Goto(t, "sleep") \/ Goto(t, "refused")
  /\ started' = started \cup {t}
  /\ UNCHANGED <<allocated, success, mutex>>

(* pthread_create; when it fails nobody has the thread_data any more.      *)
Create(t) ==
  /\ pc[t] = "create"
  /\ \/ Goto(t, "sleep") /\ started' = started \cup {t}
     \/ Goto(t, "refused") /\ UNCHANGED started
  /\ UNCHANGED <<allocated, success, mutex>>

-----------------------------------------------------------------------------
(* threadfunc.                                                             *)

(* Variant: a thread that gives up leaves thread_complete_success alone.   *)
GivesUpSuccessful(t) ==
  /\ success' = [success EXCEPT ![t] = TRUE]
  /\ Goto(t, "returned")

(* The error returns: whatever the thread has locked stays locked.         *)
GivesUp(t) ==
  /\ success' = [success EXCEPT ![t] = FALSE]
  /\ Goto(t, "returned")

(* usleep(wait_to_obtain_ms * 1000), which a signal can interrupt.         *)
Sleep(t) ==
  /\ pc[t] = "sleep"
  /\ (Goto(t, "lock") /\ UNCHANGED success) \/ GivesUp(t)
  /\ UNCHANGED <<allocated, started, mutex>>

(* Variant: no mutual exclusion.                                           *)
MayLockAnyway == TRUE

(* A mutex that nobody holds.                                              *)
MayLock == mutex = NULL

Lock(t) ==
  /\ pc[t] = "lock"
  /\ MayLock
  /\ mutex' = t
  /\ Goto(t, "hold")
  /\ UNCHANGED <<allocated, success, started>>

(* pthread_mutex_lock returns an error.                                    *)
LockFails(t) ==
  /\ pc[t] = "lock"
  /\ GivesUp(t)
  /\ UNCHANGED <<allocated, started, mutex>>

(* usleep(wait_to_release_ms * 1000), with the mutex.                      *)
Hold(t) ==
  /\ pc[t] = "hold"
  /\ (Goto(t, "unlock") /\ UNCHANGED success) \/ GivesUp(t)
  /\ UNCHANGED <<allocated, started, mutex>>

(* Variant: the mutex is not unlocked.                                     *)
ReleasesNot(t) == UNCHANGED mutex

(* pthread_mutex_unlock.                                                   *)
Releases(t) == mutex' = IF mutex = t THEN NULL ELSE mutex

Unlock(t) ==
  /\ pc[t] = "unlock"
  /\ \/ /\ Releases(t)
        /\ success' = [success EXCEPT ![t] = TRUE]
        /\ Goto(t, "returned")
     \/ GivesUp(t) /\ UNCHANGED mutex
  /\ UNCHANGED <<allocated, started>>

-----------------------------------------------------------------------------
(* Variant: the caller does not wait for the thread.                       *)
JoinableAnyway(t) == TRUE

(* pthread_join has the pointer a thread returned.                         *)
Joinable(t) == pc[t] = "returned"

(* The caller joins a thread it started, once, and frees what it returned. *)
Join(t) ==
  /\ t \in started \cap allocated
  /\ Joinable(t)
  /\ allocated' = allocated \ {t}
  /\ UNCHANGED <<pc, success, started, mutex>>

ThreadStep(t) == Sleep(t) \/ Lock(t) \/ Hold(t) \/ Unlock(t)

Next ==
  \E t \in Threads : Allocate(t) \/ Create(t) \/ ThreadStep(t) \/ LockFails(t) \/ Join(t)

(* A thread that can go on does; a mutex that stays free is taken.         *)
Fairness == \A t \in Threads : WF_vars(ThreadStep(t))

Spec == Init /\ [][Next]_vars /\ Fairness

-----------------------------------------------------------------------------
(***************************************************************************)
(* Types, that a call returns true exactly if it has started a thread, and *)
(* that the mutex is held by such a thread.                                *)
(***************************************************************************)
TypeOK ==
  /\ pc \in [Threads -> {"new", "refused", "create", "sleep", "lock", "hold", "unlock",
                         "returned"}]
  /\ allocated \subseteq Threads
  /\ success \in [Threads -> BOOLEAN]
  /\ started = {t \in Threads : pc[t] \notin {"new", "refused", "create"}}
  /\ mutex \in started \cup {NULL}

(***************************************************************************)
(* A thread between its lock and its unlock has the mutex, and whoever has *)
(* it otherwise is over, has not reported success, and has taken the mutex *)
(* with it (threading.c:30-36).                                            *)
(***************************************************************************)
HoldersAreHonest ==
  /\ \A t \in Threads : pc[t] \in {"hold", "unlock"} => mutex = t
  /\ mutex # NULL /\ pc[mutex] \notin {"hold", "unlock"} =>
       pc[mutex] = "returned" /\ ~success[mutex]

(***************************************************************************)
(* The thread_data of a thread is there for as long as the thread or its   *)
(* joiner uses it, and what stays behind in the end is that of calls whose *)
(* pthread_create failed (threading.c:54, 68-69).                          *)
(***************************************************************************)
DataOutlivesThread ==
  /\ \A t \in Threads : pc[t] \in {"sleep", "lock", "hold", "unlock"} => t \in allocated
  /\ \A t \in allocated \ started : pc[t] \in {"create", "refused"}

(***************************************************************************)
(* A thread that waits for the mutex gets on, unless one has failed with   *)
(* it (threading.c:30-36).                                                 *)
(***************************************************************************)
Stuck == mutex # NULL /\ pc[mutex] = "returned" /\ ~success[mutex]

EveryThreadReturns ==
  \A t \in Threads : t \in started ~> pc[t] = "returned" \/ Stuck
=============================================================================
