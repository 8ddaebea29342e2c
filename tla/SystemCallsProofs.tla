------------------------- MODULE SystemCallsProofs -------------------------
(***************************************************************************)
(* Proofs of the safety of SystemCalls: for any number of threads, calls   *)
(* and process numbers.                                                    *)
(***************************************************************************)
EXTENDS SystemCalls, FiniteSetTheorems, SequenceTheorems, TLAPS

(* A call of do_system that succeeds is over with its own child, which no  *)
(* later step touches.                                                     *)
OwnStatus ==
  \A t \in Threads :
    pc[t] = "return" /\ fn[t] = "do_system" /\ result[t] =>
      /\ child_pid[t] \in Pids
      /\ child[child_pid[t]] = "reaped"
      /\ status[child_pid[t]] = "zero"

(* A child that redirects its output has done so when it comes to execv,   *)
(* and only a number that was given out is that of such a child.           *)
RedirectedBefore ==
  /\ \A p \in redirect : child[p] # "none"
  /\ \A p \in redirect : child[p] \in {"exec", "command"} => stdout[p] = "file"

(***************************************************************************)
(* The inductive invariant.                                                *)
(***************************************************************************)
IInv == TypeOK /\ ChildrenAccounted /\ OwnStatus /\ RedirectedBefore

LEMMA FiniteSets1 == IsFiniteSet(Unreaped) /\ IsFiniteSet(Waiting)
  BY PidsAssumption, FS_Subset DEF Unreaped, Waiting

LEMMA InitIInv == Init => IInv
<1> SUFFICES ASSUME Init PROVE IInv
  OBVIOUS
<1>1. TypeOK
  BY PidsAssumption, ScriptAssumption DEF Init, TypeOK
<1>2. Unreaped = {} /\ Waiting = {}
  BY DEF Init, Unreaped, Waiting
<1>3. ChildrenAccounted
  BY <1>2, FS_EmptySet DEF ChildrenAccounted, Init
<1> QED BY <1>1, <1>3 DEF IInv, Init, OwnStatus, RedirectedBefore

-----------------------------------------------------------------------------
(***************************************************************************)
(* How the two sets change.  A step that changes neither keeps the account.*)
(***************************************************************************)
LEMMA AccountKept ==
  ASSUME IInv, Unreaped' = Unreaped, Waiting' = Waiting, failed' = failed
  PROVE  ChildrenAccounted'
  BY DEF IInv, ChildrenAccounted

USE DEF Goto, Returns

LEMMA CallIInv == ASSUME IInv, NEW t \in Threads, Call(t) PROVE IInv'
<1>1. TypeOK'
  <2>1. Head(todo[t]) \in Function /\ Tail(todo[t]) \in Seq(Function)
    BY HeadTailProperties DEF IInv, TypeOK, Call
  <2> QED BY <2>1 DEF IInv, TypeOK, Call, children
<1>2. Unreaped' = Unreaped /\ Waiting' = Waiting /\ failed' = failed
  BY DEF IInv, TypeOK, Call, children, Unreaped, Waiting
<1>3. OwnStatus' /\ RedirectedBefore'
  BY DEF IInv, TypeOK, Call, children, OwnStatus, RedirectedBefore
<1> QED BY <1>1, <1>2, <1>3, AccountKept DEF IInv

LEMMA ForkIInv == ASSUME IInv, NEW t \in Threads, Fork(t) PROVE IInv'
<1>1. CASE Returns(t, FALSE) /\ UNCHANGED <<child, child_pid, redirect>>
  <2>1. TypeOK' /\ OwnStatus' /\ RedirectedBefore'
    BY <1>1 DEF IInv, TypeOK, Fork, OwnStatus, RedirectedBefore
  <2>2. Unreaped' = Unreaped /\ Waiting' = Waiting /\ failed' = failed
    BY <1>1 DEF IInv, TypeOK, Fork, Unreaped, Waiting
  <2> QED BY <2>1, <2>2, AccountKept DEF IInv
<1>2. ASSUME NEW p \in Pids,
             child[p] = "none",
             child' = [child EXCEPT ![p] = FirstStep(fn[t])],
             child_pid' = [child_pid EXCEPT ![t] = p],
             redirect' = IF fn[t] = "do_exec_redirect" THEN redirect \cup {p} ELSE redirect,
             Goto(t, "wait"), UNCHANGED result
      PROVE  IInv'
  <2>1. pc[t] = "fork" /\ UNCHANGED <<todo, fn, status, stdout, failed>>
    BY DEF Fork
  <2>2. TypeOK'
    BY <1>2, <2>1 DEF IInv, TypeOK, FirstStep
  <2>3. OwnStatus' /\ RedirectedBefore'
    BY <1>2, <2>1 DEF IInv, TypeOK, OwnStatus, RedirectedBefore, FirstStep
  <2>4. Unreaped' = Unreaped \cup {p} /\ p \notin Unreaped
    BY <1>2 DEF IInv, TypeOK, Unreaped, FirstStep
  <2>5. Waiting' = Waiting \cup {t} /\ t \notin Waiting
    BY <1>2, <2>1 DEF IInv, TypeOK, Waiting
  <2>6. Cardinality(Unreaped') = Cardinality(Unreaped) + 1
    BY <2>4, FiniteSets1, FS_AddElement
  <2>7. Cardinality(Waiting') = Cardinality(Waiting) + 1
    BY <2>5, FiniteSets1, FS_AddElement
  <2>8. Cardinality(Waiting) \in Nat /\ failed \in Nat
    BY FiniteSets1, FS_CardinalityType DEF IInv, TypeOK
  <2>9. ChildrenAccounted'
    BY <2>1, <2>6, <2>7, <2>8 DEF IInv, ChildrenAccounted
  <2> QED BY <2>2, <2>3, <2>9 DEF IInv
<1> QED BY <1>1, <1>2 DEF Fork

LEMMA WaitIInv == ASSUME IInv, NEW t \in Threads, Wait(t) PROVE IInv'
<1>1. PICK p \in WaitsFor(t) \cap Zombies :
        Reap(p) /\ Returns(t, Success(fn[t], status[p]))
  BY DEF Wait
<1>2. /\ pc[t] = "wait" /\ p \in Pids /\ child[p] = "zombie"
      /\ UNCHANGED <<todo, fn, child_pid, status, stdout, redirect, failed>>
  BY <1>1 DEF Wait, Zombies
<1>3. TypeOK'
  BY <1>1, <1>2 DEF IInv, TypeOK, Reap, Success
<1>4. OwnStatus'
  <2> SUFFICES ASSUME NEW u \in Threads, pc'[u] = "return", fn[u] = "do_system", result'[u]
               PROVE  /\ child_pid[u] \in Pids
                      /\ child'[child_pid[u]] = "reaped"
                      /\ status[child_pid[u]] = "zero"
    BY <1>2 DEF OwnStatus
  <2>1. child \in [Pids -> {"none", "open", "dup2", "exec", "command", "zombie", "reaped"}]
    BY DEF IInv, TypeOK
  <2>2. CASE u = t
    <3>1. p = child_pid[t]
      BY <1>1, <2>2 DEF WaitsFor
    <3>2. status[p] = "zero"
      BY <1>1, <2>2 DEF IInv, TypeOK, Success
    <3> QED BY <1>1, <1>2, <2>1, <2>2, <3>1, <3>2 DEF Reap
  <2>3. CASE u # t
    <3>1. pc[u] = "return" /\ result[u]
      BY <1>1, <2>3 DEF IInv, TypeOK
    <3>2. /\ child_pid[u] \in Pids
          /\ child[child_pid[u]] = "reaped"
          /\ status[child_pid[u]] = "zero"
      BY <3>1 DEF IInv, OwnStatus
    <3> QED BY <1>1, <2>1, <3>2 DEF Reap
  <2> QED BY <2>2, <2>3
<1>5. RedirectedBefore'
  BY <1>1, <1>2 DEF IInv, TypeOK, RedirectedBefore, Reap
<1>6. Unreaped' = Unreaped \ {p} /\ p \in Unreaped
  BY <1>1, <1>2 DEF IInv, TypeOK, Reap, Unreaped
<1>7. Waiting' = Waiting \ {t} /\ t \in Waiting
  BY <1>1, <1>2 DEF IInv, TypeOK, Waiting
<1>8. Cardinality(Unreaped') = Cardinality(Unreaped) - 1
  BY <1>6, FiniteSets1, FS_RemoveElement
<1>9. Cardinality(Waiting') = Cardinality(Waiting) - 1
  BY <1>7, FiniteSets1, FS_RemoveElement
<1>10. Cardinality(Waiting) \in Nat /\ failed \in Nat
  BY FiniteSets1, FS_CardinalityType DEF IInv, TypeOK
<1>11. ChildrenAccounted'
  BY <1>2, <1>8, <1>9, <1>10 DEF IInv, ChildrenAccounted
<1> QED BY <1>3, <1>4, <1>5, <1>11 DEF IInv

LEMMA WaitFailsIInv == ASSUME IInv, NEW t \in Threads, WaitFails(t) PROVE IInv'
<1>1. TypeOK' /\ OwnStatus' /\ RedirectedBefore'
  BY DEF IInv, TypeOK, WaitFails, children, OwnStatus, RedirectedBefore
<1>2. Unreaped' = Unreaped
  BY DEF WaitFails, children, Unreaped
<1>3. Waiting' = Waiting \ {t} /\ t \in Waiting
  BY DEF IInv, TypeOK, WaitFails, Waiting
<1>4. Cardinality(Waiting') = Cardinality(Waiting) - 1
  BY <1>3, FiniteSets1, FS_RemoveElement
<1>5. Cardinality(Waiting) \in Nat /\ failed \in Nat /\ failed' = failed + 1
  BY FiniteSets1, FS_CardinalityType DEF IInv, TypeOK, WaitFails
<1>6. ChildrenAccounted'
  BY <1>2, <1>4, <1>5 DEF IInv, ChildrenAccounted
<1> QED BY <1>1, <1>6 DEF IInv

LEMMA ReturnIInv == ASSUME IInv, NEW t \in Threads, Return(t) PROVE IInv'
<1>1. TypeOK' /\ OwnStatus' /\ RedirectedBefore'
  BY DEF IInv, TypeOK, Return, children, OwnStatus, RedirectedBefore
<1>2. Unreaped' = Unreaped /\ Waiting' = Waiting /\ failed' = failed
  BY DEF IInv, TypeOK, Return, children, Unreaped, Waiting
<1> QED BY <1>1, <1>2, AccountKept DEF IInv

(* A child that goes from one step to another stays a child.               *)
LEMMA ChildIInv == ASSUME IInv, NEW p \in Pids, ChildStep(p) \/ End(p) PROVE IInv'
<1>1. UNCHANGED <<todo, fn, pc, child_pid, result, redirect, failed>>
  BY DEF ChildStep, OpenOutput, Dup2, Exec, End, calls
<1>2. child[p] \in {"open", "dup2", "exec", "command"}
  BY DEF ChildStep, OpenOutput, Dup2, Exec, End
<1>3. PICK c \in {"dup2", "exec", "command", "zombie"},
           s \in {"running", "zero", "nonzero", "killed"},
           o \in {"caller", "file"} :
        /\ child' = [child EXCEPT ![p] = c]
        /\ status' = [status EXCEPT ![p] = s]
        /\ stdout' = [stdout EXCEPT ![p] = o]
        /\ c = "dup2" => child[p] = "open" /\ o = stdout[p]
        /\ c = "exec" => o = "file"
        /\ c = "command" => child[p] = "exec" /\ o = stdout[p]
        /\ o # stdout[p] => child[p] = "dup2"
  <2>1. /\ child = [child EXCEPT ![p] = child[p]]
        /\ status = [status EXCEPT ![p] = status[p]] /\ status[p] \in {"running", "zero", "nonzero", "killed"}
        /\ stdout = [stdout EXCEPT ![p] = stdout[p]] /\ stdout[p] \in {"caller", "file"}
    BY DEF IInv, TypeOK
  <2>2. CASE OpenOutput(p)
    BY <2>1, <2>2 DEF OpenOutput, Exits
  <2>3. CASE Dup2(p)
    BY <2>1, <2>3 DEF Dup2, Exits
  <2>4. CASE Exec(p)
    BY <2>1, <2>4 DEF Exec, Exits
  <2>5. CASE End(p)
    <3>1. PICK s \in {"zero", "nonzero", "killed"} : status' = [status EXCEPT ![p] = s]
      BY <2>5 DEF End
    <3> QED BY <2>1, <2>5, <3>1 DEF End
  <2> QED BY <2>2, <2>3, <2>4, <2>5 DEF ChildStep
<1>4. TypeOK'
  BY <1>1, <1>2, <1>3 DEF IInv, TypeOK
<1>5. Unreaped' = Unreaped /\ Waiting' = Waiting
  BY <1>1, <1>2, <1>3 DEF IInv, TypeOK, Unreaped, Waiting
<1>6. OwnStatus'
  BY <1>1, <1>2, <1>3 DEF IInv, TypeOK, OwnStatus
<1>7. RedirectedBefore'
  BY <1>1, <1>2, <1>3 DEF IInv, TypeOK, RedirectedBefore
<1> QED BY <1>1, <1>4, <1>5, <1>6, <1>7, AccountKept DEF IInv

-----------------------------------------------------------------------------
(***************************************************************************)
(* The invariant holds in every reachable state.                           *)
(***************************************************************************)
THEOREM Invariance == Spec => []IInv
<1>1. IInv /\ [Next]_vars => IInv'
  <2> SUFFICES ASSUME IInv, [Next]_vars PROVE IInv'
    OBVIOUS
  <2>1. CASE UNCHANGED vars
    BY <2>1 DEF IInv, TypeOK, ChildrenAccounted, OwnStatus, RedirectedBefore, Unreaped,
       Waiting, vars, calls, children
  <2>2. ASSUME NEW t \in Threads, Call(t) \/ CallStep(t)
        PROVE  IInv'
    BY <2>2, CallIInv, ForkIInv, WaitIInv, WaitFailsIInv, ReturnIInv DEF CallStep
  <2>3. ASSUME NEW p \in Pids, ChildStep(p) \/ End(p)
        PROVE  IInv'
    BY <2>3, ChildIInv
  <2> QED BY <2>1, <2>2, <2>3 DEF Next
<1> QED BY InitIInv, <1>1, PTL DEF Spec

(***************************************************************************)
(* Types, for any threads and process numbers (TypeOK).                    *)
(***************************************************************************)
THEOREM TypeCorrect == Spec => []TypeOK
  BY Invariance, PTL DEF IInv

(***************************************************************************)
(* There is a child for every thread that waits and for every wait that    *)
(* has failed (systemcalls.c:76, 142).                                     *)
(***************************************************************************)
THEOREM Accounted == Spec => []ChildrenAccounted
  BY Invariance, PTL DEF IInv

(***************************************************************************)
(* So a thread that waits never finds the process without children: the    *)
(* wait of do_exec fails only because of a signal (systemcalls.c:76, 142). *)
(***************************************************************************)
THEOREM HasChild == Spec => [](\A t \in Waiting : Unreaped # {})
<1>1. IInv => \A t \in Waiting : Unreaped # {}
  <2> SUFFICES ASSUME IInv, NEW t \in Waiting, Unreaped = {} PROVE FALSE
    OBVIOUS
  <2>1. Cardinality(Unreaped) = 0
    BY FS_EmptySet
  <2>2. Cardinality(Waiting) \in Nat /\ Cardinality(Waiting) # 0 /\ failed \in Nat
    BY FiniteSets1, FS_CardinalityType, FS_EmptySet DEF IInv, TypeOK
  <2> QED BY <2>1, <2>2 DEF IInv, ChildrenAccounted
<1> QED BY Invariance, <1>1, PTL

(***************************************************************************)
(* do_system succeeds only if its own command exited with 0, whatever the  *)
(* calls of do_exec in other threads take (systemcalls.c:19-20).           *)
(***************************************************************************)
THEOREM SystemSound == Spec => []SystemTrusted
<1>1. IInv => SystemTrusted
  BY DEF IInv, OwnStatus, SystemTrusted
<1> QED BY Invariance, <1>1, PTL

(***************************************************************************)
(* No command of do_exec_redirect runs with the output of the caller       *)
(* (systemcalls.c:152-171).                                                *)
(***************************************************************************)
THEOREM Redirection == Spec => []CommandRedirected
<1>1. IInv => CommandRedirected
  BY DEF IInv, RedirectedBefore, CommandRedirected
<1> QED BY Invariance, <1>1, PTL
=============================================================================
