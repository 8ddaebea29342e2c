----------------------------- MODULE AesdModule -----------------------------
(***************************************************************************)
(* The driver of module AesdChar as a kernel module: aesd_init_module and  *)
(* aesd_cleanup_module (aesd-char-driver/main.c:316-404) and the scripts   *)
(* aesdchar_load and aesdchar_unload around them, while processes open and *)
(* use the device.  One script runs at a time.                             *)
(*                                                                         *)
(* From the kernel comes that a module whose files are open cannot be      *)
(* removed, that a device number is in use until it is unregistered,       *)
(* whoever registered it, and that a device can be opened through a node   *)
(* that has its number from cdev_add until cdev_del.                       *)
(***************************************************************************)
EXTENDS AesdChar

CONSTANT Majors   (* Major device numbers the kernel can give out.         *)

ASSUME MajorsAssumption == NULL \notin Majors

VARIABLES
  aesd_major,     (* The number of the module, or NULL                     *)
  cdev,           (* The number under which the device can be opened       *)
  regions,        (* Numbers that /proc/devices lists for "aesdchar"       *)
  node,           (* The number of /dev/aesdchar, or NULL                  *)
  script,         (* Where the load or unload script is                    *)
  left_blocks,    (* History: the memory interrupted cleanups did not free *)
  left_numbers    (* History: the numbers they did not unregister          *)

left == <<left_blocks, left_numbers>>

modvars == <<aesd_major, cdev, regions, node, script, left>>

(* No module yet, and perhaps a node from an earlier life of the system.   *)
ModuleInit ==
  /\ Init
  /\ aesd_major = NULL
  /\ cdev = NULL
  /\ regions = {}
  /\ node \in Majors \cup {NULL}
  /\ script = "none"
  /\ left_blocks = {}
  /\ left_numbers = {}

-----------------------------------------------------------------------------
(* aesdchar_load.                                                          *)

(* insmod: aesd_init_module up to mutex_init.  If there is no number left, *)
(* or a module is there already, insmod fails and nothing changes.         *)
Insmod ==
  /\ script = "none"
  /\ aesd_major = NULL
  /\ \E major \in Majors \ regions :
       /\ aesd_major' = major
       /\ regions' = regions \cup {major}
  /\ circ_buf' = EmptyRing
  /\ partial_write' = EmptyEntry
  /\ lock' = NULL
  /\ script' = "insmod"
  /\ UNCHANGED <<heap, live, files, pc, req, locals, ret, ubuf, cdev, node, left>>

(* Variant: the number of a device that could not be added stays in use.   *)
UnregisterForgotten == UNCHANGED regions

(* unregister_chrdev_region.                                               *)
Unregister == regions' = regions \ {aesd_major}

(* aesd_setup_cdev, with which the device is there, or insmod fails.       *)
SetupCdev ==
  /\ script = "insmod"
  /\ \/ /\ cdev' = aesd_major
        /\ script' = "mknod"
        /\ UNCHANGED <<regions, aesd_major>>
     \/ /\ Unregister
        /\ aesd_major' = NULL
        /\ script' = "none"
        /\ UNCHANGED cdev
  /\ UNCHANGED <<vars, node, left>>

(* The rest of the script: rm, and mknod with every number that awk finds. *)
(* It fails if there is more than one.                                     *)
MakeNode ==
  /\ script = "mknod"
  /\ node' = IF regions = {aesd_major} THEN aesd_major ELSE NULL
  /\ script' = "none"
  /\ UNCHANGED <<vars, aesd_major, cdev, regions, left>>

-----------------------------------------------------------------------------
(* aesdchar_unload.                                                        *)

(* Variant: the operations do not name the module as their owner.          *)
NeverInUse == FALSE

(* Open files hold the module, through .owner.                             *)
InUse == opened # {}

(* rmmod: from here on the module cannot be used, and cdev_del.            *)
Rmmod ==
  /\ script = "none"
  /\ cdev # NULL
  /\ ~InUse
  /\ cdev' = NULL
  /\ script' = "cleanup"
  /\ UNCHANGED <<vars, aesd_major, regions, node, left>>

(* Variant: the pending command is forgotten.                              *)
FreedButPending == RingBlocks

(* What the kfrees of aesd_cleanup_module get.                             *)
Freed == RingBlocks \cup PendingBlocks

(* aesd_cleanup_module behind cdev_del.                                    *)
Cleanup ==
  /\ script = "cleanup"
  /\ lock = NULL
  /\ live' = live \ Freed
  /\ heap' = [b \in Blocks |-> IF b \in Freed THEN <<>> ELSE heap[b]]
  /\ Unregister
  /\ aesd_major' = NULL
  /\ script' = "rm"
  /\ UNCHANGED <<circ_buf, partial_write, lock, files, pc, req, locals, ret, ubuf,
                 cdev, node, left>>

(* A process died with the mutex, and a signal ends the wait for it:       *)
(* the module goes and leaves its memory and its number behind.            *)
CleanupInterrupted ==
  /\ script = "cleanup"
  /\ lock # NULL
  /\ aesd_major' = NULL
  /\ left_blocks' = left_blocks \cup Freed
  /\ left_numbers' = left_numbers \cup {aesd_major}
  /\ script' = "rm"
  /\ UNCHANGED <<vars, cdev, regions, node>>

RemoveNode ==
  /\ script = "rm"
  /\ node' = NULL
  /\ script' = "none"
  /\ UNCHANGED <<vars, aesd_major, cdev, regions, left>>

-----------------------------------------------------------------------------
(* The driver can be opened when the node leads to it, and is otherwise as *)
(* in AesdChar.                                                            *)
OpenNode(f) ==
  /\ cdev # NULL
  /\ node = cdev
  /\ Open(f)
  /\ UNCHANGED modvars

DriverStep(p) ==
  /\ \/ \E r \in Requests : Call(p, r)
     \/ Acquire(p)
     \/ Interrupted(p)
     \/ Handler(p)
     \/ Return(p)
  /\ UNCHANGED modvars

LoadStep == SetupCdev \/ MakeNode

UnloadStep == Cleanup \/ RemoveNode

ModuleNext ==
  \/ Insmod \/ LoadStep
  \/ Rmmod \/ UnloadStep \/ CleanupInterrupted
  \/ \E f \in Files : OpenNode(f) \/ (Release(f) /\ UNCHANGED modvars)
  \/ \E p \in Procs : DriverStep(p)

modulevars == <<vars, modvars>>

ModuleSpec == ModuleInit /\ [][ModuleNext]_modulevars

(***************************************************************************)
(* The fairness of the driver, and scripts that go on.  Nobody has to      *)
(* start one, and no signal has to arrive.                                 *)
(***************************************************************************)
ModuleFairness ==
  /\ Fairness
  /\ WF_modulevars(LoadStep)
  /\ WF_modulevars(UnloadStep)

FairModuleSpec == ModuleSpec /\ ModuleFairness

-----------------------------------------------------------------------------
(***************************************************************************)
(* Types: the numbers and the steps of the scripts, and that the device    *)
(* can be opened only under the number of the module.                      *)
(***************************************************************************)
ModuleTypeOK ==
  /\ TypeOK
  /\ aesd_major \in Majors \cup {NULL}
  /\ cdev \in {NULL, aesd_major}
  /\ regions \subseteq Majors
  /\ node \in Majors \cup {NULL}
  /\ script \in {"none", "insmod", "mknod", "cleanup", "rm"}
  /\ left_blocks \subseteq Blocks
  /\ left_numbers \subseteq Majors

(***************************************************************************)
(* No handler runs in a module that is being removed or gone, and whatever *)
(* a handler copies to or from is still allocated (main.c:307, 321, 374):  *)
(* unloading cannot pull the device from under a process that uses it.     *)
(***************************************************************************)
HandlersHaveModule ==
  /\ \A p \in Procs : pc[p] \notin {"idle", "oops"} => cdev # NULL
  /\ CopyTargetsValid

(***************************************************************************)
(* While there is no module, memory and numbers are exactly those that     *)
(* interrupted cleanups left (main.c:358-360, 381-403): no failed load,    *)
(* complete cleanup or later life of the module adds to them, or frees     *)
(* what it no longer knows.                                                *)
(***************************************************************************)
UnloadLeavesNothing ==
  aesd_major = NULL => live = left_blocks /\ regions = left_numbers

(***************************************************************************)
(* After a load the node leads to the device, whatever happened in loads   *)
(* and unloads before.  Once a cleanup has left its number, mknod gets two *)
(* numbers and there is no node at all; a node never has the number of     *)
(* another module (aesdchar_load:21-23, main.c:381-383).                   *)
(***************************************************************************)
NodeLeadsToDevice ==
  script = "none" /\ cdev # NULL =>
    node = cdev \/ (left_numbers # {} /\ node = NULL)

(***************************************************************************)
(* An unload comes to its end, unless a process died in the driver with    *)
(* the mutex that the cleanup waits for (main.c:381).                      *)
(***************************************************************************)
UnloadEnds ==
  script = "cleanup" ~> script = "none" \/ \E p \in Procs : pc[p] = "oops"
=============================================================================
