-------------------------- MODULE ThreadingProofs --------------------------
(***************************************************************************)
(* Proofs of the safety of Threading: for any number of threads, and       *)
(* whatever call fails, the mutex and the thread_data are where they       *)
(* should be.                                                              *)
(***************************************************************************)
EXTENDS Threading, TLAPS

(* A thread between its lock and its unlock has the mutex.                 *)
InsideHolds == \A t \in Threads : pc[t] \in {"hold", "unlock"} => mutex = t

(* The data of a call whose thread runs, or was just allocated, is there.  *)
DataThere ==
  \A t \in Threads :
    pc[t] \in {"create", "sleep", "lock", "hold", "unlock"} => t \in allocated

(* Nothing is allocated for a call that has not begun.                     *)
NoneYet == \A t \in Threads : pc[t] = "new" => t \notin allocated

(***************************************************************************)
(* The inductive invariant.  That holders are honest is inductive only     *)
(* with the types, and DataOutlivesThread only with the calls that have    *)
(* not reached pthread_create.                                             *)
(***************************************************************************)
IInv == TypeOK /\ HoldersAreHonest /\ DataThere /\ NoneYet

LEMMA InitIInv == Init => IInv
  BY NullAssumption DEF Init, IInv, TypeOK, HoldersAreHonest, DataThere, NoneYet

USE DEF Goto

(* One lemma per action: each keeps the invariant.                         *)
LEMMA AllocateIInv == ASSUME IInv, NEW t \in Threads, Allocate(t) PROVE IInv'
  BY NullAssumption DEF IInv, TypeOK, HoldersAreHonest, DataThere, NoneYet, Allocate

LEMMA CreateIInv == ASSUME IInv, NEW t \in Threads, Create(t) PROVE IInv'
  BY NullAssumption DEF IInv, TypeOK, HoldersAreHonest, DataThere, NoneYet, Create

LEMMA SleepIInv == ASSUME IInv, NEW t \in Threads, Sleep(t) PROVE IInv'
  BY NullAssumption DEF IInv, TypeOK, HoldersAreHonest, DataThere, NoneYet, Sleep, GivesUp

LEMMA LockIInv == ASSUME IInv, NEW t \in Threads, Lock(t) PROVE IInv'
  BY NullAssumption DEF IInv, TypeOK, HoldersAreHonest, DataThere, NoneYet, Lock, MayLock

LEMMA LockFailsIInv == ASSUME IInv, NEW t \in Threads, LockFails(t) PROVE IInv'
  BY NullAssumption DEF IInv, TypeOK, HoldersAreHonest, DataThere, NoneYet, LockFails, GivesUp

LEMMA HoldIInv == ASSUME IInv, NEW t \in Threads, Hold(t) PROVE IInv'
  BY NullAssumption DEF IInv, TypeOK, HoldersAreHonest, DataThere, NoneYet, Hold, GivesUp

LEMMA UnlockIInv == ASSUME IInv, NEW t \in Threads, Unlock(t) PROVE IInv'
  BY NullAssumption
     DEF IInv, TypeOK, HoldersAreHonest, DataThere, NoneYet, Unlock, Releases, GivesUp

LEMMA JoinIInv == ASSUME IInv, NEW t \in Threads, Join(t) PROVE IInv'
  BY NullAssumption DEF IInv, TypeOK, HoldersAreHonest, DataThere, NoneYet, Join, Joinable

(***************************************************************************)
(* The invariant holds in every reachable state.                           *)
(***************************************************************************)
THEOREM Invariance == Spec => []IInv
<1>1. IInv /\ [Next]_vars => IInv'
  <2> SUFFICES ASSUME IInv, [Next]_vars PROVE IInv'
    OBVIOUS
  <2>1. CASE UNCHANGED vars
    BY <2>1 DEF IInv, TypeOK, HoldersAreHonest, DataThere, NoneYet, vars
  <2>2. ASSUME NEW t \in Threads,
               Allocate(t) \/ Create(t) \/ ThreadStep(t) \/ LockFails(t) \/ Join(t)
        PROVE  IInv'
    BY <2>2, AllocateIInv, CreateIInv, SleepIInv, LockIInv, LockFailsIInv, HoldIInv,
       UnlockIInv, JoinIInv DEF ThreadStep
  <2> QED BY <2>1, <2>2 DEF Next
<1> QED BY InitIInv, <1>1, PTL DEF Spec

(***************************************************************************)
(* Types, for any set of threads (TypeOK).                                 *)
(***************************************************************************)
THEOREM TypeCorrect == Spec => []TypeOK
  BY Invariance, PTL DEF IInv

(***************************************************************************)
(* Whoever has the mutex is at work with it, or has returned and said that *)
(* it failed (threading.c:30-36).                                          *)
(***************************************************************************)
THEOREM Holders == Spec => []HoldersAreHonest
  BY Invariance, PTL DEF IInv

(***************************************************************************)
(* The thread_data of a thread outlives the thread, and only that of a     *)
(* failed pthread_create is lost (threading.c:54, 68-69).                  *)
(***************************************************************************)
THEOREM DataOutlives == Spec => []DataOutlivesThread
<1>1. IInv => DataOutlivesThread
  BY DEF IInv, TypeOK, DataThere, NoneYet, DataOutlivesThread
<1> QED BY Invariance, <1>1, PTL
=============================================================================
