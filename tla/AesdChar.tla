------------------------------ MODULE AesdChar ------------------------------
(***************************************************************************)
(* The driver of /dev/aesdchar (aesd-char-driver/main.c): processes call   *)
(* read, write, llseek and ioctl on open files of one device.  One step is *)
(* one stretch of a handler between two points where another process can   *)
(* see or be seen: entry to the mutex, the copies from and to user space,  *)
(* the return to the system call layer.                                    *)
(*                                                                         *)
(* The kernel around the driver is external and kept to what the driver    *)
(* depends on: kmalloc and kfree hand out and take back blocks, read(2)    *)
(* and write(2) work on a copy of the file position that is stored back    *)
(* when the handler succeeds, and a mutex that a process waits for can be  *)
(* given up because of a signal.                                           *)
(***************************************************************************)
EXTENDS CircularBuffer, FiniteSets, SequencesExt

CONSTANTS
  Procs,        (* Processes that use the device.                          *)
  Files,        (* Open file descriptions (struct file).                   *)
  Blocks,       (* Memory blocks kmalloc can return.                       *)
  Byte,         (* Byte values.                                            *)
  NewLine,      (* '\n'.                                                   *)
  ZeroSizePtr,  (* What kmalloc(0) returns: ZERO_SIZE_PTR, not NULL.       *)
  Requests,     (* The system calls the processes make.                    *)
  MaxPartial,   (* Bound: no write starts on a longer pending command.     *)
  MaxPos        (* Bound: no call starts on a file positioned further.     *)

EINTR  == 4
ENOMEM == 12
EFAULT == 14
EINVAL == 22

ReadRequest  == [op: {"read"}, file: Files, count: Nat]
WriteRequest == [op: {"write"}, file: Files, data: Seq(Byte)]
SeekRequest  == [op: {"llseek"}, file: Files, offset: Int, whence: STRING]
IoctlRequest == [op: {"ioctl"}, file: Files, cmd: STRING,
                 write_cmd: Nat, write_cmd_offset: Nat]

NoRequest == [op |-> "none"]

ASSUME RequestsAssumption ==
  Requests \subseteq ReadRequest \cup WriteRequest \cup SeekRequest \cup IoctlRequest

ASSUME PointersAssumption ==
  /\ NULL \notin Blocks \cup Procs
  /\ ZeroSizePtr \notin Blocks \cup {NULL}

ASSUME ByteAssumption == NewLine \in Byte

ASSUME BoundsAssumption ==
  /\ MaxPartial \in Nat
  /\ MaxPos \in Nat

VARIABLES
  circ_buf,       (* aesd_device.circ_buf                                  *)
  partial_write,  (* aesd_device.partial_write                             *)
  lock,           (* aesd_device.lock: its holder, or NULL                 *)
  heap,           (* The bytes written so far to each allocated block      *)
  live,           (* Blocks allocated and not freed                        *)
  opened,         (* Files that are open                                   *)
  f_pos,          (* filp->f_pos of each file                              *)
  pc,             (* Where each process is                                 *)
  req,            (* The call each process is making                       *)
  pos,            (* The copy of f_pos that read(2) and write(2) pass      *)
  found,          (* p_cir_buf_entry and cir_buf_entry_offset in aesd_read *)
  kmem_buf,       (* kmem_buf in aesd_write                                *)
  ret,            (* What the handler returns                              *)
  ubuf            (* What read(2) left in the user's buffer                *)

device == <<circ_buf, partial_write, heap, live>>
files  == <<opened, f_pos>>
locals == <<pos, found, kmem_buf>>
vars   == <<device, lock, files, pc, req, locals, ret, ubuf>>

Init ==
  /\ circ_buf = EmptyRing
  /\ partial_write = EmptyEntry
  /\ lock = NULL
  /\ heap = [b \in Blocks |-> <<>>]
  /\ live = {}
  /\ opened = {}
  /\ f_pos = [f \in Files |-> 0]
  /\ pc = [p \in Procs |-> "idle"]
  /\ req = [p \in Procs |-> NoRequest]
  /\ pos = [p \in Procs |-> 0]
  /\ found = [p \in Procs |-> NotFound]
  /\ kmem_buf = [p \in Procs |-> NULL]
  /\ ret = [p \in Procs |-> 0]
  /\ ubuf = [p \in Procs |-> <<>>]

-----------------------------------------------------------------------------
(* Helpers.                                                                *)

Goto(p, label) == pc' = [pc EXCEPT ![p] = label]

(* Variant: the handler returns without mutex_unlock.                      *)
FinishLocked(p, v) ==
  /\ Goto(p, "return")
  /\ ret' = [ret EXCEPT ![p] = v]
  /\ UNCHANGED lock

(* The handler gives up the mutex, if it has it, and returns v.            *)
Finish(p, v) ==
  /\ Goto(p, "return")
  /\ ret' = [ret EXCEPT ![p] = v]
  /\ lock' = IF lock = p THEN NULL ELSE lock

(* How many of n bytes copy_to_user or copy_from_user can move: it stops   *)
(* at the first address that faults, which may be the very first.          *)
Copied(n) == 0 .. n

(* The bytes of a ring entry, and of the whole ring, oldest first.         *)
Bytes(e) == IF e.buffptr \in Blocks THEN heap[e.buffptr] ELSE <<>>

Commands == [k \in 1 .. Count(circ_buf) |-> Bytes(Nth(circ_buf, k - 1))]

(* Processes in the middle of a call on file f.                            *)
Using(f) == {p \in Procs : pc[p] \notin {"idle", "oops"} /\ req[p].file = f}

-----------------------------------------------------------------------------
(* open(2), close(2), and the entry and exit of the other system calls.    *)

Open(f) ==
  /\ f \notin opened
  /\ opened' = opened \cup {f}
  /\ f_pos' = [f_pos EXCEPT ![f] = 0]
  /\ UNCHANGED <<device, lock, pc, req, locals, ret, ubuf>>

(* release runs when the last user of the file is gone.                    *)
Release(f) ==
  /\ f \in opened
  /\ Using(f) = {}
  /\ opened' = opened \ {f}
  /\ UNCHANGED <<device, lock, f_pos, pc, req, locals, ret, ubuf>>

Call(p, r) ==
  /\ pc[p] = "idle"
  /\ r.file \in opened
  /\ f_pos[r.file] <= MaxPos
  /\ r.op = "write" => partial_write.size <= MaxPartial
  /\ req' = [req EXCEPT ![p] = r]
  /\ pos' = [pos EXCEPT ![p] = IF r.op \in {"read", "write"} THEN f_pos[r.file] ELSE 0]
  /\ Goto(p, IF r.op = "ioctl" THEN "ioctl" ELSE "lock")
  /\ UNCHANGED <<device, lock, files, found, kmem_buf, ret, ubuf>>

(* read(2) and write(2) store the position back; llseek(2) and ioctl(2)    *)
(* have changed filp->f_pos themselves.                                    *)
Return(p) ==
  /\ pc[p] = "return"
  /\ f_pos' = IF req[p].op \in {"read", "write"} /\ ret[p] >= 0
              THEN [f_pos EXCEPT ![req[p].file] = pos[p]]
              ELSE f_pos
  /\ Goto(p, "idle")
  /\ req' = [req EXCEPT ![p] = NoRequest]
  /\ pos' = [pos EXCEPT ![p] = 0]
  /\ found' = [found EXCEPT ![p] = NotFound]
  /\ kmem_buf' = [kmem_buf EXCEPT ![p] = NULL]
  /\ ret' = [ret EXCEPT ![p] = 0]
  /\ ubuf' = [ubuf EXCEPT ![p] = <<>>]
  /\ UNCHANGED <<device, lock, opened>>

-----------------------------------------------------------------------------
(* mutex_lock_interruptible, the first thing each handler does.            *)

FirstStep(op) ==
  CASE op = "read"   -> "find"
    [] op = "write"  -> "reserve"
    [] op = "llseek" -> "seek"
    [] op = "ioctl"  -> "adjust"

(* Variant: no mutex.                                                      *)
AlwaysFree(p) == TRUE

(* A mutex that nobody holds.                                              *)
MayLock(p) == lock = NULL

Acquire(p) ==
  /\ pc[p] = "lock"
  /\ MayLock(p)
  /\ lock' = p
  /\ Goto(p, FirstStep(req[p].op))
  /\ UNCHANGED <<device, files, req, locals, ret, ubuf>>

(* A signal arrives while the process sleeps on a mutex another one holds. *)
Interrupted(p) ==
  /\ pc[p] = "lock"
  /\ lock # NULL
  /\ Finish(p, -EINTR)
  /\ UNCHANGED <<device, files, req, locals, ubuf>>

-----------------------------------------------------------------------------
(* aesd_read.                                                              *)

ReadFind(p) ==
  LET location == FindEntry(circ_buf, pos[p])
  IN  /\ pc[p] = "find"
      /\ \/ /\ location = NotFound
            /\ Finish(p, 0)
            /\ UNCHANGED found
         \/ /\ location # NotFound
            /\ found' = [found EXCEPT ![p] = location]
            /\ Goto(p, "copy_to_user")
            /\ UNCHANGED <<lock, ret>>
      /\ UNCHANGED <<device, files, req, pos, kmem_buf, ubuf>>

ReadCopy(p) ==
  LET entry     == circ_buf.entry[found[p].index]
      available == entry.size - found[p].offset
      wanted    == IF available < req[p].count THEN available ELSE req[p].count
  IN  /\ pc[p] = "copy_to_user"
      /\ \E k \in Copied(wanted) :
           /\ ubuf' = [ubuf EXCEPT ![p] =
                         SubSeq(Bytes(entry), found[p].offset + 1, found[p].offset + k)]
           /\ pos' = [pos EXCEPT ![p] = @ + k]
           /\ Finish(p, k)
      /\ UNCHANGED <<device, files, req, found, kmem_buf>>

-----------------------------------------------------------------------------
(* aesd_write.                                                             *)

(* Variant: the pending command is given up.                               *)
ReserveFailsDropping(p) ==
  /\ Finish(p, -ENOMEM)
  /\ partial_write' = EmptyEntry
  /\ UNCHANGED <<heap, live, kmem_buf>>

(* kmalloc returned NULL.                                                  *)
ReserveFails(p) ==
  /\ Finish(p, -ENOMEM)
  /\ UNCHANGED <<partial_write, heap, live, kmem_buf>>

(* kmalloc a block for the pending command and this write, move the        *)
(* pending bytes to it and free the block they were in.                    *)
WriteReserve(p) ==
  LET prior == IF partial_write.buffptr = NULL THEN 0 ELSE partial_write.size
      count == Len(req[p].data)
  IN  /\ pc[p] = "reserve"
      /\ \/ /\ count + prior > 0
            /\ ReserveFails(p)
         \/ /\ \E b \in IF count + prior = 0 THEN {ZeroSizePtr} ELSE Blocks \ live :
                 /\ live' = (live \ {partial_write.buffptr}) \cup ({b} \cap Blocks)
                 /\ heap' = [c \in Blocks |->
                               IF c = b THEN Bytes(partial_write)
                               ELSE IF c = partial_write.buffptr THEN <<>>
                               ELSE heap[c]]
                 /\ partial_write' = [buffptr |-> b, size |-> prior]
                 /\ kmem_buf' = [kmem_buf EXCEPT ![p] = b]
            /\ Goto(p, "copy_from_user")
            /\ UNCHANGED <<lock, ret>>
      /\ UNCHANGED <<circ_buf, files, req, pos, found, ubuf>>

(* Variant: the handler looks at the first byte written.                   *)
FirstByte(p, k) == IF k > 0 THEN {req[p].data[1]} ELSE Byte

(* Variant: it looks at the byte behind them, whatever that is.            *)
ByteBehind(p, k) == Byte

(* What *(kmem_buf + (retval - 1)) can be when k bytes were copied.  With  *)
(* nothing copied it is the byte before the new data: the last pending     *)
(* byte, or whatever lies in memory before the block.                      *)
LastByte(p, k) ==
  IF k > 0 THEN {req[p].data[k]}
  ELSE IF partial_write.size > 0 THEN {heap[kmem_buf[p]][partial_write.size]}
  ELSE Byte

(* add_entry, the kfree of what it pushes out, and the reset of            *)
(* partial_write.  pending is what partial_write has become.               *)
CompleteCommand(pending, contents) ==
  /\ circ_buf' = AddEntry(circ_buf, pending)
  /\ live' = live \ {PushedOut(circ_buf)}
  /\ heap' = [b \in Blocks |-> IF b = PushedOut(circ_buf) THEN <<>> ELSE contents[b]]
  /\ partial_write' = EmptyEntry

(* k bytes arrive, and the byte at kmem_buf + (k - 1) is last.             *)
CopyIn(p, k, last) ==
  LET contents == [heap EXCEPT ![kmem_buf[p]] = @ \o SubSeq(req[p].data, 1, k)]
      pending  == [partial_write EXCEPT !.size = @ + k]
  IN  /\ pos' = [pos EXCEPT ![p] = @ + k]
      /\ \/ last = NewLine /\ CompleteCommand(pending, contents)
         \/ /\ last # NewLine
            /\ partial_write' = pending
            /\ heap' = contents
            /\ UNCHANGED <<circ_buf, live>>
      /\ Finish(p, k)

WriteCopy(p) ==
  /\ pc[p] = "copy_from_user"
  /\ kmem_buf[p] # ZeroSizePtr
  /\ \E k \in Copied(Len(req[p].data)) : \E last \in LastByte(p, k) : CopyIn(p, k, last)
  /\ UNCHANGED <<files, req, found, kmem_buf, ubuf>>

(* Reading below ZERO_SIZE_PTR faults in the kernel: the process dies      *)
(* where it is, with the mutex held.                                       *)
Oops(p) ==
  /\ pc[p] = "copy_from_user"
  /\ kmem_buf[p] = ZeroSizePtr
  /\ Goto(p, "oops")
  /\ UNCHANGED <<device, lock, files, req, locals, ret, ubuf>>

-----------------------------------------------------------------------------
(* aesd_llseek, with fixed_size_llseek of the kernel.                      *)

Seek(p) ==
  LET f      == req[p].file
      size   == BufferSize(circ_buf)
      target == CASE req[p].whence = "SEEK_SET" -> req[p].offset
                  [] req[p].whence = "SEEK_CUR" -> f_pos[f] + req[p].offset
                  [] req[p].whence = "SEEK_END" -> size + req[p].offset
                  [] OTHER -> -1
      stay   == req[p].whence = "SEEK_CUR" /\ req[p].offset = 0
  IN  /\ pc[p] = "seek"
      /\ \/ /\ stay \/ target \in 0 .. size
            /\ f_pos' = [f_pos EXCEPT ![f] = target]
            /\ Finish(p, target)
         \/ /\ ~stay /\ target \notin 0 .. size
            /\ Finish(p, -EINVAL)
            /\ UNCHANGED f_pos
      /\ UNCHANGED <<device, opened, req, locals, ubuf>>

(* aesd_unlocked_ioctl, and the range check of aesd_adjust_file_offset     *)
(* before it takes the mutex.                                              *)
IoctlCheck(p) ==
  LET valid == req[p].cmd = "AESDCHAR_IOCSEEKTO"
  IN  /\ pc[p] = "ioctl"
      /\ \/ valid /\ Finish(p, -EFAULT)
         \/ /\ ~valid \/ req[p].write_cmd >= MaxOps
            /\ Finish(p, -EINVAL)
         \/ /\ valid /\ req[p].write_cmd < MaxOps
            /\ Goto(p, "lock")
            /\ UNCHANGED <<lock, ret>>
      /\ UNCHANGED <<device, files, req, locals, ubuf>>

(* aesd_adjust_file_offset under the mutex.                                *)
Adjust(p) ==
  LET entry  == Nth(circ_buf, req[p].write_cmd)
      exists == entry.buffptr # NULL /\ req[p].write_cmd_offset < entry.size
  IN  /\ pc[p] = "adjust"
      /\ \/ /\ exists
            /\ f_pos' = [f_pos EXCEPT ![req[p].file] =
                           BytesBefore(circ_buf, req[p].write_cmd) + req[p].write_cmd_offset]
            /\ Finish(p, 0)
         \/ /\ ~exists
            /\ Finish(p, -EINVAL)
            /\ UNCHANGED f_pos
      /\ UNCHANGED <<device, opened, req, locals, ubuf>>

-----------------------------------------------------------------------------
Handler(p) ==
  \/ ReadFind(p) \/ ReadCopy(p)
  \/ WriteReserve(p) \/ WriteCopy(p) \/ Oops(p)
  \/ Seek(p)
  \/ IoctlCheck(p) \/ Adjust(p)

Next ==
  \/ \E f \in Files : Open(f) \/ Release(f)
  \/ \E p \in Procs :
       \/ \E r \in Requests : Call(p, r)
       \/ Acquire(p)
       \/ Interrupted(p)
       \/ Handler(p)
       \/ Return(p)

Spec == Init /\ [][Next]_vars

(***************************************************************************)
(* A process inside the driver keeps running, and the kernel's mutex hands *)
(* itself over to a waiter that spins or sleeps long enough.  Nobody has   *)
(* to call the driver, and no signal has to arrive.                        *)
(***************************************************************************)
Fairness ==
  \A p \in Procs :
    /\ SF_vars(Acquire(p))
    /\ WF_vars(Handler(p))
    /\ WF_vars(Return(p))

FairSpec == Spec /\ Fairness
-----------------------------------------------------------------------------
(***************************************************************************)
(* Types.  Every variable of the model has the values its C counterpart    *)
(* can have, and a process is in a step of the handler it called, past the *)
(* checks that come before that step.                                      *)
(***************************************************************************)
Pointer == Blocks \cup {NULL, ZeroSizePtr}

Label == {"idle", "lock", "find", "copy_to_user", "reserve", "copy_from_user",
          "seek", "ioctl", "adjust", "return", "oops"}

StepOfCall(p) ==
  /\ pc[p] # "idle" => req[p] \in Requests
  /\ pc[p] \in {"find", "copy_to_user"} => req[p].op = "read"
  /\ pc[p] \in {"reserve", "copy_from_user"} => req[p].op = "write"
  /\ pc[p] = "seek" => req[p].op = "llseek"
  /\ pc[p] \in {"ioctl", "adjust"} => req[p].op = "ioctl"
  /\ pc[p] \in {"lock", "adjust"} /\ req[p].op = "ioctl" => req[p].write_cmd < MaxOps
  /\ pc[p] = "copy_to_user" => found[p] \in Location

TypeOK ==
  /\ circ_buf \in Ring(Pointer)
  /\ partial_write \in Entry(Pointer)
  /\ lock \in Procs \cup {NULL}
  /\ heap \in [Blocks -> Seq(Byte)]
  /\ live \in SUBSET Blocks
  /\ opened \in SUBSET Files
  /\ f_pos \in [Files -> Nat]
  /\ pc \in [Procs -> Label]
  /\ req \in [Procs -> Requests \cup {NoRequest}]
  /\ pos \in [Procs -> Nat]
  /\ found \in [Procs -> Location \cup {NotFound}]
  /\ kmem_buf \in [Procs -> Pointer]
  /\ ret \in [Procs -> Int]
  /\ ubuf \in [Procs -> Seq(Byte)]
  /\ \A p \in Procs : StepOfCall(p)

(***************************************************************************)
(* The mutex protects every handler: a process between its lock and its    *)
(* unlock holds it, so no two are there at once, the one that died there   *)
(* included (main.c:66, 94, 144, 241).                                     *)
(***************************************************************************)
Critical == {"find", "copy_to_user", "reserve", "copy_from_user", "seek", "adjust", "oops"}

MutualExclusion == \A p \in Procs : pc[p] \in Critical <=> lock = p

(***************************************************************************)
(* Memory.  Every allocated block is reachable, from one ring entry or     *)
(* from partial_write but never from two places, and every pointer the     *)
(* device keeps leads to an allocated block of the size it records: no     *)
(* leak, no double free and no use after free, over evictions              *)
(* (main.c:201), grown pending commands (main.c:161) and failing kmallocs. *)
(***************************************************************************)
RingBlocks == {circ_buf.entry[i].buffptr : i \in Index} \ {NULL}

PendingBlocks == {partial_write.buffptr} \ {NULL, ZeroSizePtr}

HeapOwned ==
  /\ live = RingBlocks \cup PendingBlocks
  /\ RingBlocks \cap PendingBlocks = {}
  /\ \A i, j \in Index :
       circ_buf.entry[i].buffptr = circ_buf.entry[j].buffptr =>
         i = j \/ circ_buf.entry[i].buffptr = NULL
  /\ \A i \in Index : circ_buf.entry[i].size = Len(Bytes(circ_buf.entry[i]))
  /\ partial_write.size = Len(Bytes(partial_write))

(***************************************************************************)
(* The ring stays in shape whatever is written to it.                      *)
(***************************************************************************)
RingInShape == RingShape(circ_buf)

(***************************************************************************)
(* What a handler found before it copies is still true when it copies:     *)
(* the entry of a read holds bytes at the offset found (main.c:115-121),   *)
(* and a write fills the allocated block that partial_write names          *)
(* (main.c:193).  Both copies can sleep.                                   *)
(***************************************************************************)
CopyTargetsValid ==
  \A p \in Procs :
    /\ pc[p] = "copy_to_user" =>
         LET entry == circ_buf.entry[found[p].index]
         IN  entry.buffptr \in live /\ found[p].offset < entry.size
    /\ pc[p] = "copy_from_user" =>
         /\ kmem_buf[p] = partial_write.buffptr
         /\ kmem_buf[p] \in live \cup {ZeroSizePtr}

(***************************************************************************)
(* A pending command never ends in a newline, so a write that copies       *)
(* nothing, and so looks at the byte before its data (main.c:197), does    *)
(* not complete a command that has bytes.                                  *)
(***************************************************************************)
PendingOpen ==
  LET bytes == Bytes(partial_write)
  IN  bytes # <<>> => bytes[Len(bytes)] # NewLine

(***************************************************************************)
(* A complete command that has bytes ends in a newline, however writes are *)
(* cut by faults and whichever process writes them (main.c:193-197).       *)
(***************************************************************************)
EndsInNewLine(command) == command # <<>> /\ command[Len(command)] = NewLine

NoOpenCommand ==
  \A k \in DOMAIN Commands : Commands[k] = <<>> \/ EndsInNewLine(Commands[k])

(***************************************************************************)
(* read(2) delivers a piece of the concatenated commands that starts at    *)
(* the position the caller had, and no more of it than was asked for.  It  *)
(* tells the end of file, without a copy, exactly when that position is    *)
(* past the last byte (main.c:102-125).  A copy that faults at once also   *)
(* returns 0, in the middle of the contents.                               *)
(***************************************************************************)
Contents == FlattenSeq(Commands)

ReadExact ==
  [][\A p \in Procs :
       req[p].op = "read" /\ lock = p /\ pc'[p] = "return" =>
         /\ ret'[p] = Len(ubuf'[p])
         /\ ret'[p] <= req[p].count
         /\ ubuf'[p] = SubSeq(Contents, pos[p] + 1, pos[p] + ret'[p])
         /\ pos'[p] = pos[p] + ret'[p]
         /\ pc[p] = "find" <=> pos[p] >= Len(Contents)]_vars

(***************************************************************************)
(* AESDCHAR_IOCSEEKTO leaves the file at the byte it names: the offset     *)
(* that adds up the sizes of the commands (main.c:245-264) is where the    *)
(* walk of a read (aesd-circular-buffer.c:47-58) finds that command and    *)
(* that byte again.  It fails exactly when there is no such byte.          *)
(***************************************************************************)
SeekToExact ==
  [][\A p \in Procs :
       LET command == req[p].write_cmd
           offset  == req[p].write_cmd_offset
           there   == command < Len(Commands) /\ offset < Len(Commands[command + 1])
       IN  pc[p] = "adjust" /\ pc'[p] = "return" =>
             /\ ret'[p] = 0 <=> there
             /\ there => FindEntry(circ_buf, f_pos'[req[p].file]) =
                           [index |-> (circ_buf.out_offs + command) % MaxOps,
                            offset |-> offset]]_vars

(***************************************************************************)
(* A failed call changes nothing another call can see: not the device      *)
(* and not the position of the file (the -EINTR, -ENOMEM, -EINVAL and      *)
(* -EFAULT returns of every handler).                                      *)
(***************************************************************************)
FailureLeavesNoTrace ==
  [][\A p \in Procs :
       pc[p] # "return" /\ pc'[p] = "return" /\ ret'[p] < 0 =>
         UNCHANGED <<device, f_pos>>]_vars

(***************************************************************************)
(* The driver implements the log of commands its users see: a step of a    *)
(* handler extends the pending command, completes it, or leaves both.  The *)
(* one exception is a write whose copy faults before its first byte: it    *)
(* changes nothing, or adds an empty command (main.c:193-206).             *)
(***************************************************************************)
Log == INSTANCE CommandLog WITH
  commands <- Commands,
  pending  <- Bytes(partial_write),
  Chunks   <- UNION {{SubSeq(r.data, 1, k) : k \in 1 .. Len(r.data)} :
                      r \in {r \in Requests : r.op = "write"}}

CopyFaulted ==
  \E p \in Procs :
    /\ pc[p] = "copy_from_user" /\ pc'[p] = "return"
    /\ req[p].data # <<>> /\ ret'[p] = 0

ImplementsLog ==
  /\ Log!LogInit
  /\ [][Log!LogNext \/ (CopyFaulted /\ Log!AddEmpty)]_(Log!logvars)

(***************************************************************************)
(* Every call returns, unless some process died in the driver with the     *)
(* mutex held.                                                             *)
(***************************************************************************)
EveryCallReturns ==
  \A p \in Procs :
    pc[p] # "idle" ~> pc[p] = "idle" \/ \E q \in Procs : pc[q] = "oops"

-----------------------------------------------------------------------------
(* What a comment in the code says of it, and it does not keep.            *)

(***************************************************************************)
(* main.c:189: "If newline terminated, add to circular buffer", so every   *)
(* complete command ends in a newline.                                     *)
(***************************************************************************)
CommandsTerminated == \A k \in DOMAIN Commands : EndsInNewLine(Commands[k])
=============================================================================
