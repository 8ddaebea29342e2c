-------------------------- MODULE AesdModuleProofs --------------------------
(***************************************************************************)
(* What is proved of loading and unloading the driver, for every number of *)
(* processes and device numbers: handlers run only in a module that is     *)
(* there, and with valid pointers; an unload leaves neither memory nor a   *)
(* number behind but those of a cleanup that was interrupted; and the node *)
(* leads to the device unless such a number is left.                       *)
(***************************************************************************)
EXTENDS AesdModule, AesdCharProofs

(***************************************************************************)
(* The inductive invariant, in two parts.  What a handler needs (Kept)     *)
(* holds while there is a module; without one, nobody is in a handler,     *)
(* because a process in a handler keeps its file open and open files keep  *)
(* the module.  That is what lets insmod reset the mutex and the ring,     *)
(* whatever an earlier life of the module has left.                        *)
(***************************************************************************)
CallersHaveFile ==
  \A p \in Procs : pc[p] \notin {"idle", "oops"} => req[p].file \in opened

Usable ==
  /\ ModuleTypeOK
  /\ MutexKept
  /\ CallersHaveFile
  /\ opened # {} => cdev # NULL
  /\ script \in {"insmod", "cleanup"} => cdev = NULL
  /\ aesd_major # NULL => Kept

(***************************************************************************)
(* Scripts, numbers and memory belong together: what the module does not   *)
(* know is what interrupted cleanups have left.                            *)
(***************************************************************************)
ScriptAgrees ==
  /\ script \in {"none", "mknod"} => cdev = aesd_major
  /\ script \in {"insmod", "mknod", "cleanup"} => aesd_major # NULL
  /\ script = "rm" => aesd_major = NULL
  /\ NodeLeadsToDevice

NumbersKnown ==
  /\ aesd_major \notin left_numbers
  /\ regions = left_numbers \cup ({aesd_major} \ {NULL})

BlocksKnown ==
  /\ aesd_major # NULL => Lost = left_blocks
  /\ aesd_major = NULL \/ script = "insmod" => live = left_blocks

Sound == ScriptAgrees /\ NumbersKnown /\ BlocksKnown

MInv == Usable /\ Sound

-----------------------------------------------------------------------------
LEMMA InitMInv == ModuleInit => MInv
<1> SUFFICES ASSUME ModuleInit PROVE Usable /\ Sound
  BY DEF MInv
<1> USE DEF ModuleInit, left
<1>1. IInv /\ Kept
  BY InitInv, WholeIsKept
<1>2. ModuleTypeOK
  BY <1>1 DEF ModuleTypeOK, IInv
<1>3. MutexKept
  BY <1>1 DEF Kept
<1>4. CallersHaveFile /\ opened = {} /\ live = {}
  BY DEF Init, CallersHaveFile
<1>5. Usable
  BY <1>1, <1>2, <1>3, <1>4 DEF Usable
<1>6. Sound
  BY <1>4 DEF Sound, ScriptAgrees, NumbersKnown, BlocksKnown, NodeLeadsToDevice
<1> QED BY <1>5, <1>6

(* Only an open file can be used, and open files keep the module.          *)
LEMMA DriverInModule ==
  ASSUME Usable, NEW p \in Procs, DriverStep(p)
  PROVE  cdev # NULL /\ opened' = opened /\ CallersHaveFile'
<1>1. TypeOK
  BY DEF Usable, ModuleTypeOK
<1>2. CASE Acquire(p) \/ Interrupted(p) \/ Handler(p)
  <2>1. req[p].file \in opened
    BY <1>1, <1>2, CallGoesOn DEF Usable, CallersHaveFile
  <2> QED BY <1>1, <1>2, <2>1, CallGoesOn DEF Usable, CallersHaveFile
<1>3. ASSUME NEW r \in Requests, Call(p, r)
      PROVE  cdev # NULL /\ opened' = opened /\ CallersHaveFile'
  BY <1>1, <1>3 DEF Call, Goto, TypeOK, files, Usable, CallersHaveFile
<1>4. CASE Return(p)
  BY <1>1, <1>4 DEF Return, Goto, TypeOK, Usable, CallersHaveFile
<1> QED BY <1>2, <1>3, <1>4 DEF DriverStep

(* The steps of AesdChar, in a module that is there, keep the invariant.   *)
LEMMA DriverStays ==
  ASSUME MInv, \/ \E p \in Procs : DriverStep(p)
               \/ \E f \in Files : OpenNode(f) \/ (Release(f) /\ UNCHANGED modvars)
  PROVE  MInv'
<1> USE DEF MInv
<1>1. cdev # NULL /\ CallersHaveFile' /\ UNCHANGED modvars /\ Next
  <2>1. ASSUME NEW p \in Procs, DriverStep(p)
        PROVE  cdev # NULL /\ CallersHaveFile' /\ UNCHANGED modvars /\ Next
    BY <2>1, DriverInModule DEF DriverStep, Next
  <2>2. ASSUME NEW f \in Files, OpenNode(f)
        PROVE  cdev # NULL /\ CallersHaveFile' /\ UNCHANGED modvars /\ Next
    BY <2>2 DEF OpenNode, Open, Usable, CallersHaveFile, Next
  <2>3. ASSUME NEW f \in Files, Release(f), UNCHANGED modvars
        PROVE  cdev # NULL /\ CallersHaveFile' /\ UNCHANGED modvars /\ Next
    BY <2>3 DEF Release, Using, Usable, CallersHaveFile, Next
  <2> QED BY <2>1, <2>2, <2>3
<1>2. aesd_major # NULL /\ Kept
  BY <1>1 DEF Usable, ModuleTypeOK
<1>3. Kept' /\ Lost' = Lost
  BY <1>1, <1>2, KeptInductive
<1>4. UNCHANGED <<aesd_major, cdev, regions, node, script, left_blocks, left_numbers>>
  BY <1>1 DEF modvars, left
<1>5. Usable'
  BY <1>1, <1>3, <1>4 DEF Usable, ModuleTypeOK, Kept
<1>6. Sound'
  <2>1. script # "insmod"
    BY <1>1 DEF Usable
  <2> QED BY <1>2, <1>3, <1>4, <2>1
          DEF Sound, ScriptAgrees, NumbersKnown, BlocksKnown, NodeLeadsToDevice
<1> QED BY <1>5, <1>6

-----------------------------------------------------------------------------
(* insmod starts the driver anew: nobody is in a handler, whoever died in  *)
(* one and whatever memory is lost.                                        *)
LEMMA InsmodStays ==
  ASSUME MInv, Insmod
  PROVE  MInv'
<1> USE DEF MInv
<1>1. /\ circ_buf' = EmptyRing /\ partial_write' = EmptyEntry /\ lock' = NULL
      /\ aesd_major' \in Majors \ regions /\ regions' = regions \cup {aesd_major'}
      /\ aesd_major = NULL /\ script = "none" /\ script' = "insmod"
      /\ UNCHANGED <<heap, live, opened, f_pos, pc, req, pos, found, kmem_buf, ret, ubuf,
                     cdev, node, left_blocks, left_numbers>>
  BY DEF Insmod, files, locals, left
<1>2. cdev = NULL /\ opened = {} /\ ModuleTypeOK
  BY <1>1 DEF Usable, ModuleTypeOK
<1>3. \A p \in Procs : pc[p] \in {"idle", "oops"}
  BY <1>2 DEF Usable, CallersHaveFile
<1>4. TypeOK'
  <2>1. EmptyRing \in Ring(Pointer) /\ EmptyEntry \in Entry(Pointer)
    BY EmptyRingType DEF Pointer
  <2> QED BY <1>1, <1>2, <2>1 DEF ModuleTypeOK, TypeOK, StepOfCall
<1>5. MutexKept'
  BY <1>1, <1>3, PointersAssumption DEF MutexKept, Critical
<1>6. RingInShape'
  BY <1>1, MaxOpsAssumption DEF RingInShape, RingShape, EmptyRing, EmptyEntry, Index
<1>7. RingBlocks' = {} /\ PendingBlocks' = {}
  BY <1>1, MaxOpsAssumption DEF RingBlocks, PendingBlocks, EmptyRing, EmptyEntry, Index
<1>8. BlocksKept' /\ Lost' = live
  BY <1>1, <1>7, PointersAssumption DEF BlocksKept, Lost, EmptyRing, EmptyEntry, Bytes
<1>9. CopyTargetsValid'
  BY <1>1, <1>3 DEF CopyTargetsValid
<1>10. Kept'
  BY <1>4, <1>5, <1>6, <1>8, <1>9 DEF Kept
<1>11. Usable'
  BY <1>1, <1>2, <1>4, <1>5, <1>10, MajorsAssumption
     DEF Usable, ModuleTypeOK, CallersHaveFile
<1>12. Sound'
  <2>1. live = left_blocks /\ regions = left_numbers
    BY <1>1 DEF Sound, BlocksKnown, NumbersKnown
  <2>2. NumbersKnown'
    BY <1>1, <2>1, MajorsAssumption DEF NumbersKnown
  <2> QED BY <1>1, <1>2, <1>8, <2>1, <2>2, MajorsAssumption
          DEF Sound, ScriptAgrees, BlocksKnown, NodeLeadsToDevice
<1> QED BY <1>11, <1>12

(* What a step of the scripts that leaves the driver alone keeps of it.    *)
LEMMA DriverAlone ==
  ASSUME Usable, UNCHANGED vars
  PROVE  /\ TypeOK' /\ MutexKept' /\ CallersHaveFile'
         /\ Kept => Kept'
         /\ UNCHANGED <<opened, lock, live, Lost>>
<1>1. TypeOK'
  BY DEF Usable, ModuleTypeOK, vars, device, files, locals, TypeOK, StepOfCall
<1>2. MutexKept' /\ CallersHaveFile'
  BY DEF Usable, vars, files, MutexKept, CallersHaveFile
<1>3. Kept => Kept'
  <2>1. [Next]_vars
    OBVIOUS
  <2> QED BY <2>1, KeptInductive
<1>4. UNCHANGED <<opened, lock, live, Lost>>
  BY DEF vars, device, files, Lost, RingBlocks, PendingBlocks
<1> QED BY <1>1, <1>2, <1>3, <1>4

(* The other steps of the scripts but the frees leave the driver alone.    *)
LEMMA ScriptStays ==
  ASSUME MInv, SetupCdev \/ MakeNode \/ Rmmod \/ RemoveNode
  PROVE  MInv'
<1> USE DEF MInv, Usable, Sound, ModuleTypeOK, ScriptAgrees, NumbersKnown, BlocksKnown,
            NodeLeadsToDevice
<1>1. UNCHANGED vars /\ UNCHANGED <<left_blocks, left_numbers>>
  BY DEF SetupCdev, MakeNode, Rmmod, RemoveNode, left
<1>2. /\ TypeOK' /\ MutexKept' /\ CallersHaveFile'
      /\ Kept => Kept'
      /\ UNCHANGED <<opened, lock, live, Lost>>
  BY <1>1, DriverAlone
<1>3. CASE SetupCdev
  <2>1. CASE cdev' = aesd_major /\ script' = "mknod" /\ UNCHANGED <<regions, aesd_major>>
    BY <1>1, <1>2, <1>3, <2>1 DEF SetupCdev
  <2>2. CASE Unregister /\ aesd_major' = NULL /\ script' = "none" /\ UNCHANGED cdev
    <3>1. /\ aesd_major \notin left_numbers /\ regions' = left_numbers
          /\ live = left_blocks /\ cdev = NULL /\ UNCHANGED node
      BY <1>3, <2>2 DEF SetupCdev, Unregister
    <3>2. NumbersKnown' /\ BlocksKnown'
      BY <1>1, <1>2, <2>2, <3>1, MajorsAssumption
    <3> QED BY <1>1, <1>2, <2>2, <3>1, <3>2
  <2> QED BY <1>3, <2>1, <2>2 DEF SetupCdev
<1>4. CASE MakeNode
  <2>1. regions = {aesd_major} <=> left_numbers = {}
    BY <1>4 DEF MakeNode
  <2> QED BY <1>1, <1>2, <1>4, <2>1 DEF MakeNode
<1>5. CASE Rmmod
  BY <1>1, <1>2, <1>5 DEF Rmmod, InUse
<1>6. CASE RemoveNode
  BY <1>1, <1>2, <1>6 DEF RemoveNode
<1> QED BY <1>3, <1>4, <1>5, <1>6

(* A cleanup that gives up leaves nobody in a handler, and all that the    *)
(* module has.                                                             *)
LEMMA InterruptedStays ==
  ASSUME MInv, CleanupInterrupted
  PROVE  MInv'
<1> USE DEF MInv
<1>1. TypeOK' /\ MutexKept' /\ CallersHaveFile' /\ UNCHANGED <<opened, live>>
  BY DriverAlone DEF CleanupInterrupted
<1>2. /\ script = "cleanup" /\ cdev = NULL /\ aesd_major \in Majors /\ aesd_major' = NULL
      /\ left_blocks' = left_blocks \cup Freed
      /\ left_numbers' = left_numbers \cup {aesd_major}
      /\ script' = "rm" /\ UNCHANGED <<cdev, regions, node>>
  BY DEF CleanupInterrupted, Usable, ModuleTypeOK, Sound, ScriptAgrees
<1>3. Freed \subseteq live /\ live = Lost \cup Freed /\ live \subseteq Blocks
  BY <1>2, MajorsAssumption
     DEF Usable, ModuleTypeOK, TypeOK, Kept, BlocksKept, Lost, Freed
<1>4. Usable'
  BY <1>1, <1>2, <1>3 DEF Usable, ModuleTypeOK
<1>5. NumbersKnown'
  BY <1>2, MajorsAssumption DEF Sound, NumbersKnown, Usable, ModuleTypeOK
<1>6. BlocksKnown'
  BY <1>1, <1>2, <1>3, MajorsAssumption DEF Sound, BlocksKnown
<1>7. ScriptAgrees'
  BY <1>2 DEF ScriptAgrees, NodeLeadsToDevice
<1> QED BY <1>4, <1>5, <1>6, <1>7 DEF Sound

(* The frees of aesd_cleanup_module leave no block but those that were     *)
(* lost before, because every other is in the ring or in the pending       *)
(* command.                                                                *)
LEMMA CleanupStays ==
  ASSUME MInv, Cleanup
  PROVE  MInv'
<1> USE DEF MInv
<1>1. script = "cleanup" /\ cdev = NULL /\ opened = {} /\ ModuleTypeOK
  BY DEF Cleanup, Usable
<1>2. live' = Lost /\ regions' = regions \ {aesd_major} /\ aesd_major' = NULL /\ script' = "rm"
  BY DEF Cleanup, Unregister, Freed, Lost
<1>3. /\ UNCHANGED <<circ_buf, partial_write, lock, opened, f_pos, pc, req, pos, found,
                     kmem_buf, ret, ubuf, cdev, node, left_blocks, left_numbers>>
      /\ heap' = [b \in Blocks |-> IF b \in Freed THEN <<>> ELSE heap[b]]
  BY DEF Cleanup, files, locals, left
<1>4. TypeOK'
  <2>1. heap' \in [Blocks -> Seq(Byte)]
    <3>1. <<>> \in Seq(Byte)
      OBVIOUS
    <3> QED BY <1>1, <1>3, <3>1 DEF ModuleTypeOK, TypeOK
  <2>2. live' \in SUBSET Blocks
    BY <1>1, <1>2 DEF ModuleTypeOK, TypeOK, Lost
  <2> QED BY <1>1, <1>3, <2>1, <2>2 DEF ModuleTypeOK, TypeOK, StepOfCall
<1>5. MutexKept' /\ CallersHaveFile'
  BY <1>3 DEF Usable, MutexKept, CallersHaveFile
<1>6. Usable'
  BY <1>1, <1>2, <1>3, <1>4, <1>5 DEF Usable, ModuleTypeOK
<1>7. Sound'
  <2>1. Lost = left_blocks /\ regions = left_numbers \cup {aesd_major}
        /\ aesd_major \notin left_numbers /\ aesd_major # NULL
    BY <1>1 DEF Sound, ScriptAgrees, NumbersKnown, BlocksKnown
  <2>2. NumbersKnown'
    BY <1>1, <1>2, <1>3, <2>1, MajorsAssumption DEF NumbersKnown, ModuleTypeOK
  <2>3. BlocksKnown' /\ ScriptAgrees'
    BY <1>1, <1>2, <1>3, <2>1 DEF BlocksKnown, ScriptAgrees, NodeLeadsToDevice
  <2> QED BY <2>2, <2>3 DEF Sound
<1> QED BY <1>6, <1>7

-----------------------------------------------------------------------------
THEOREM ModuleInvariance == ModuleSpec => []MInv
<1>1. ASSUME MInv, [ModuleNext]_modulevars PROVE MInv'
  <2>1. CASE UNCHANGED modulevars
    <3>1. /\ UNCHANGED vars
          /\ UNCHANGED <<aesd_major, cdev, regions, node, script, left_blocks, left_numbers>>
      BY <2>1 DEF modulevars, modvars, left
    <3>2. /\ TypeOK' /\ MutexKept' /\ CallersHaveFile' /\ (Kept => Kept')
          /\ UNCHANGED <<opened, live, Lost>>
      BY <1>1, <3>1, DriverAlone DEF MInv
    <3>3. Usable'
      BY <1>1, <3>1, <3>2 DEF MInv, Usable, ModuleTypeOK
    <3>4. Sound'
      BY <1>1, <3>1, <3>2
         DEF MInv, Sound, ScriptAgrees, NumbersKnown, BlocksKnown, NodeLeadsToDevice
    <3> QED BY <3>3, <3>4 DEF MInv
  <2>2. CASE ModuleNext
    BY <1>1, <2>2, InsmodStays, ScriptStays, CleanupStays, InterruptedStays, DriverStays
       DEF ModuleNext, LoadStep, UnloadStep
  <2> QED BY <1>1, <2>1, <2>2
<1> QED BY <1>1, InitMInv, PTL DEF ModuleSpec

(***************************************************************************)
(* Types, and that the device can be opened only under the number of the   *)
(* module, over loads, unloads and interrupted cleanups.                   *)
(***************************************************************************)
THEOREM ModuleTypes == ModuleSpec => []ModuleTypeOK
<1>1. MInv => ModuleTypeOK
  BY DEF MInv, Usable
<1> QED BY <1>1, ModuleInvariance, PTL

(***************************************************************************)
(* While there is no module, memory and numbers are exactly those that     *)
(* interrupted cleanups left (main.c:358-360, 381-403).                    *)
(***************************************************************************)
THEOREM NothingLeft == ModuleSpec => []UnloadLeavesNothing
<1>1. MInv => UnloadLeavesNothing
  BY DEF MInv, Sound, NumbersKnown, BlocksKnown, UnloadLeavesNothing
<1> QED BY <1>1, ModuleInvariance, PTL

(***************************************************************************)
(* Between two scripts the node has the number of the device, or there is  *)
(* none because an interrupted cleanup left a number (aesdchar_load:21-23).*)
(***************************************************************************)
THEOREM NodeLeads == ModuleSpec => []NodeLeadsToDevice
<1>1. MInv => NodeLeadsToDevice
  BY DEF MInv, Sound, ScriptAgrees
<1> QED BY <1>1, ModuleInvariance, PTL

(***************************************************************************)
(* No handler runs in a module that is gone, and none copies to or from a  *)
(* block that was freed, whatever an interrupted cleanup left behind       *)
(* (main.c:307, 374, 381).                                                 *)
(***************************************************************************)
THEOREM InModule == ModuleSpec => []HandlersHaveModule
<1>1. MInv => HandlersHaveModule
  <2> SUFFICES ASSUME Usable PROVE HandlersHaveModule
    BY DEF MInv
  <2>1. \A p \in Procs : pc[p] \notin {"idle", "oops"} => cdev # NULL
    BY DEF Usable, CallersHaveFile
  <2>2. CASE aesd_major # NULL
    BY <2>1, <2>2 DEF Usable, Kept, HandlersHaveModule
  <2>3. CASE aesd_major = NULL
    <3>1. cdev = NULL
      BY <2>3 DEF Usable, ModuleTypeOK
    <3>2. CopyTargetsValid
      BY <2>1, <3>1 DEF CopyTargetsValid
    <3> QED BY <2>1, <3>2 DEF HandlersHaveModule
  <2> QED BY <2>2, <2>3
<1> QED BY <1>1, ModuleInvariance, PTL
=============================================================================
