---------------------------- MODULE SystemCalls ----------------------------
(***************************************************************************)
(* do_system, do_exec and do_exec_redirect                                 *)
(* (examples/systemcalls/systemcalls.c), called by threads of one process: *)
(* fork, what the child does until the command runs, and wait, which takes *)
(* the status of any child of the process.  The kernel's table of children *)
(* and the command itself, which exits or is killed, are external.         *)
(***************************************************************************)
EXTENDS Integers, Sequences, FiniteSets

CONSTANTS
  Threads,   (* Threads of the process.                                    *)
  Script,    (* Script[t] is the sequence of functions thread t calls.     *)
  Pids,      (* Process numbers.  Bound: none is given out twice.          *)
  NULL

Function == {"do_system", "do_system(NULL)", "do_exec", "do_exec_redirect"}

ASSUME ScriptAssumption == Script \in [Threads -> Seq(Function)]

ASSUME PidsAssumption == IsFiniteSet(Pids) /\ IsFiniteSet(Threads) /\ NULL \notin Pids

VARIABLES
  todo,        (* What each thread has yet to call                         *)
  fn,          (* The function it is in, or NULL                           *)
  pc,          (* Where it is in it                                        *)
  child_pid,   (* What fork returned                                       *)
  result,      (* What the function returns                                *)
  child,       (* How far each child is                                    *)
  status,      (* How it ended                                             *)
  stdout,      (* Where its output goes                                    *)
  redirect,    (* Children that are to redirect their output               *)
  failed       (* History: how many waits have failed                      *)

calls    == <<todo, fn, pc, child_pid, result>>
children == <<child, status, stdout, redirect>>
vars     == <<calls, children, failed>>

Init ==
  /\ todo = Script
  /\ fn = [t \in Threads |-> NULL]
  /\ pc = [t \in Threads |-> "idle"]
  /\ child_pid = [t \in Threads |-> NULL]
  /\ result = [t \in Threads |-> FALSE]
  /\ child = [p \in Pids |-> "none"]
  /\ status = [p \in Pids |-> "running"]
  /\ stdout = [p \in Pids |-> "caller"]
  /\ redirect = {}
  /\ failed = 0

-----------------------------------------------------------------------------
(* Helpers.                                                                *)

Goto(t, label) == pc' = [pc EXCEPT ![t] = label]

Returns(t, value) ==
  /\ Goto(t, "return")
  /\ result' = [result EXCEPT ![t] = value]

(* Children that no wait has taken yet.                                    *)
Unreaped == {p \in Pids : child[p] \notin {"none", "reaped"}}

Zombies == {p \in Pids : child[p] = "zombie"}

Waiting == {t \in Threads : pc[t] = "wait"}

(* Variant: all children that are over are taken at once.                  *)
ReapsAll(p) == child' = [q \in Pids |-> IF child[q] = "zombie" THEN "reaped" ELSE child[q]]

(* wait takes the child out of the table.                                  *)
Reap(p) == child' = [child EXCEPT ![p] = "reaped"]

(* Variant: the child goes on after a call that failed.                    *)
ExitsNot(p) == child' = [child EXCEPT ![p] = "exec"] /\ UNCHANGED status

(* exit(EXIT_FAILURE) in the child.                                        *)
Exits(p) ==
  /\ child' = [child EXCEPT ![p] = "zombie"]
  /\ status' = [status EXCEPT ![p] = "nonzero"]

-----------------------------------------------------------------------------
(* The calling threads.                                                    *)

Call(t) ==
  /\ pc[t] = "idle"
  /\ todo[t] # <<>>
  /\ fn' = [fn EXCEPT ![t] = Head(todo[t])]
  /\ todo' = [todo EXCEPT ![t] = Tail(@)]
  /\ IF Head(todo[t]) = "do_system(NULL)"
     THEN Returns(t, FALSE)
     ELSE Goto(t, "fork") /\ UNCHANGED result
  /\ UNCHANGED <<child_pid, children, failed>>

(* Variant: every child redirects its output.                              *)
RedirectsAlways(f) == "open"

(* Where the child of each function starts.                                *)
FirstStep(f) == IF f = "do_exec_redirect" THEN "open" ELSE "exec"

Fork(t) ==
  /\ pc[t] = "fork"
  /\ \/ /\ \E p \in Pids :
             /\ child[p] = "none"
             /\ child' = [child EXCEPT ![p] = FirstStep(fn[t])]
             /\ child_pid' = [child_pid EXCEPT ![t] = p]
             /\ redirect' = IF fn[t] = "do_exec_redirect" THEN redirect \cup {p} ELSE redirect
        /\ Goto(t, "wait")
        /\ UNCHANGED result
     \/ /\ Returns(t, FALSE)
        /\ UNCHANGED <<child, child_pid, redirect>>
  /\ UNCHANGED <<todo, fn, status, stdout, failed>>

(* WIFEXITED && WEXITSTATUS is what do_exec looks at, and do_system at     *)
(* whether the whole status is 0.                                          *)
Success(f, s) == IF f = "do_system" THEN s = "zero" ELSE s # "nonzero"

(* Variant: do_system takes any child.                                     *)
WaitsForAny(t) == Pids

(* wait is satisfied by any child, the waitpid of system(3) by its own.    *)
WaitsFor(t) == IF fn[t] = "do_system" THEN {child_pid[t]} ELSE Pids

Wait(t) ==
  /\ pc[t] = "wait"
  /\ \E p \in WaitsFor(t) \cap Zombies :
       /\ Reap(p)
       /\ Returns(t, Success(fn[t], status[p]))
  /\ UNCHANGED <<todo, fn, child_pid, status, stdout, redirect, failed>>

(* Variant: the wait is tried again.                                       *)
WaitsAgain(t) == pc[t] = "wait" /\ UNCHANGED vars

(* ECHILD: nothing left to wait for.  EINTR: a signal, which system(3)     *)
(* does not give up for.                                                   *)
WaitFails(t) ==
  /\ pc[t] = "wait"
  /\ WaitsFor(t) \cap Unreaped = {} \/ fn[t] # "do_system"
  /\ Returns(t, FALSE)
  /\ failed' = failed + 1
  /\ UNCHANGED <<todo, fn, child_pid, children>>

Return(t) ==
  /\ pc[t] = "return"
  /\ Goto(t, "idle")
  /\ fn' = [fn EXCEPT ![t] = NULL]
  /\ child_pid' = [child_pid EXCEPT ![t] = NULL]
  /\ UNCHANGED <<todo, result, children, failed>>

-----------------------------------------------------------------------------
(* The child.                                                              *)

OpenOutput(p) ==
  /\ child[p] = "open"
  /\ \/ child' = [child EXCEPT ![p] = "dup2"] /\ UNCHANGED status
     \/ Exits(p)
  /\ UNCHANGED <<calls, stdout, redirect, failed>>

Dup2(p) ==
  /\ child[p] = "dup2"
  /\ \/ /\ child' = [child EXCEPT ![p] = "exec"]
        /\ stdout' = [stdout EXCEPT ![p] = "file"]
        /\ UNCHANGED status
     \/ Exits(p) /\ UNCHANGED stdout
  /\ UNCHANGED <<calls, redirect, failed>>

Exec(p) ==
  /\ child[p] = "exec"
  /\ \/ child' = [child EXCEPT ![p] = "command"] /\ UNCHANGED status
     \/ Exits(p)
  /\ UNCHANGED <<calls, stdout, redirect, failed>>

(* The command exits, or a signal kills the child.                         *)
End(p) ==
  /\ child[p] \in {"open", "dup2", "exec", "command"}
  /\ \E s \in IF child[p] = "command" THEN {"zero", "nonzero", "killed"} ELSE {"killed"} :
       status' = [status EXCEPT ![p] = s]
  /\ child' = [child EXCEPT ![p] = "zombie"]
  /\ UNCHANGED <<calls, stdout, redirect, failed>>

-----------------------------------------------------------------------------
CallStep(t) == Fork(t) \/ Wait(t) \/ WaitFails(t) \/ Return(t)

ChildStep(p) == OpenOutput(p) \/ Dup2(p) \/ Exec(p) \/ (child[p] = "command" /\ End(p))

Next ==
  \/ \E t \in Threads : Call(t) \/ CallStep(t)
  \/ \E p \in Pids : ChildStep(p) \/ End(p)

Spec == Init /\ [][Next]_vars

(***************************************************************************)
(* Threads that can go on do, and so do children; commands come to an end. *)
(* No signal has to arrive: the failing wait is fair only for ECHILD.      *)
(***************************************************************************)
Fairness ==
  /\ \A t \in Threads :
       /\ WF_vars(Fork(t) \/ Wait(t) \/ Return(t))
       /\ WF_vars(WaitsFor(t) \cap Unreaped = {} /\ WaitFails(t))
  /\ \A p \in Pids : WF_vars(ChildStep(p))

FairSpec == Spec /\ Fairness

-----------------------------------------------------------------------------
(***************************************************************************)
(* Types, that a thread waits only in a call that has forked, and that     *)
(* only children of do_exec_redirect touch their output.                   *)
(***************************************************************************)
TypeOK ==
  /\ todo \in [Threads -> Seq(Function)]
  /\ fn \in [Threads -> Function \cup {NULL}]
  /\ pc \in [Threads -> {"idle", "fork", "wait", "return"}]
  /\ child_pid \in [Threads -> Pids \cup {NULL}]
  /\ result \in [Threads -> BOOLEAN]
  /\ child \in [Pids -> {"none", "open", "dup2", "exec", "command", "zombie", "reaped"}]
  /\ status \in [Pids -> {"running", "zero", "nonzero", "killed"}]
  /\ stdout \in [Pids -> {"caller", "file"}]
  /\ redirect \subseteq Pids
  /\ failed \in Nat
  /\ \A t \in Threads : pc[t] = "wait" => child_pid[t] \in Pids
  /\ \A p \in Pids : child[p] \in {"open", "dup2"} \/ stdout[p] = "file" => p \in redirect

(***************************************************************************)
(* Whoever takes whose child, there is one for every thread that waits,    *)
(* and every wait that fails leaves one behind: a zombie that stays if no  *)
(* later call takes its status for that of its own command                 *)
(* (systemcalls.c:76, 142).                                                *)
(***************************************************************************)
ChildrenAccounted == Cardinality(Unreaped) = Cardinality(Waiting) + failed

(***************************************************************************)
(* do_system says true only of a command that exited with 0, also while    *)
(* calls of do_exec take its child from it (systemcalls.c:19-20).          *)
(***************************************************************************)
SystemTrusted ==
  \A t \in Threads :
    pc[t] = "return" /\ fn[t] = "do_system" /\ result[t] => status[child_pid[t]] = "zero"

(***************************************************************************)
(* A command of do_exec_redirect never writes to the output of the caller, *)
(* whatever fails before it runs (systemcalls.c:152-171).                  *)
(***************************************************************************)
CommandRedirected == \A p \in redirect : child[p] = "command" => stdout[p] = "file"

(***************************************************************************)
(* Every call returns, whoever takes whose child (systemcalls.c:76, 142).  *)
(***************************************************************************)
EveryCallReturns == \A t \in Threads : pc[t] # "idle" ~> pc[t] = "idle"

(***************************************************************************)
(* "@return true if the command ... executed successfully ..., false ...   *)
(* if a non-zero return value was returned by the command"                 *)
(* (systemcalls.c:33-36).                                                  *)
(***************************************************************************)
NonZeroReported ==
  \A t \in Threads :
    pc[t] = "return" /\ result[t] => status[child_pid[t]] # "nonzero"
=============================================================================
