--------------------------- MODULE AesdCharProofs ---------------------------
(***************************************************************************)
(* What is proved of the driver, for every number of processes, files and  *)
(* blocks, every ring capacity and every set of calls: type correctness,   *)
(* mutual exclusion, that no memory is leaked, freed twice or used after   *)
(* it was freed; that failed calls leave no trace; that the driver is the  *)
(* log of commands of CommandLog; and that reads and seeks address the     *)
(* bytes of the commands laid end to end.                                  *)
(***************************************************************************)
EXTENDS AesdChar, CircularBufferProofs

(***************************************************************************)
(* The inductive invariant, in two parts.  Kept is what a handler needs    *)
(* and what a step keeps even if a process died in the driver in an        *)
(* earlier life of the module, and a cleanup left memory behind: whoever   *)
(* runs under the mutex has it, the shape of the ring says which block     *)
(* add_entry replaces, and the pointers of the device lead to blocks of    *)
(* their own.  Mutual exclusion is what carries over what a handler found  *)
(* to its next step (CopyTargetsValid); that a write fills the block       *)
(* partial_write names is what keeps ownership of blocks.                  *)
(***************************************************************************)
MutexKept ==
  \A p \in Procs :
    /\ pc[p] \in Critical \ {"oops"} => lock = p
    /\ lock = p => pc[p] \in Critical

BlocksKept ==
  /\ RingBlocks \cup PendingBlocks \subseteq live
  /\ RingBlocks \cap PendingBlocks = {}
  /\ \A i, j \in Index :
       circ_buf.entry[i].buffptr = circ_buf.entry[j].buffptr =>
         i = j \/ circ_buf.entry[i].buffptr = NULL
  /\ \A i \in Index : circ_buf.entry[i].size = Len(Bytes(circ_buf.entry[i]))
  /\ partial_write.size = Len(Bytes(partial_write))

Kept ==
  /\ TypeOK
  /\ MutexKept
  /\ RingInShape
  /\ BlocksKept
  /\ CopyTargetsValid

(* Blocks that are allocated and that nothing leads to.                    *)
Lost == live \ (RingBlocks \cup PendingBlocks)

(* With a mutex that keeps out everybody and no lost block.                *)
IInv ==
  /\ TypeOK
  /\ MutualExclusion
  /\ RingInShape
  /\ HeapOwned
  /\ CopyTargetsValid

LEMMA WholeIsKept ==
  /\ IInv => Kept
  /\ Kept /\ MutualExclusion /\ Lost = {} => IInv
  /\ IInv => Lost = {}
BY DEF IInv, Kept, MutualExclusion, MutexKept, HeapOwned, BlocksKept, Lost

-----------------------------------------------------------------------------
(* The arguments a handler sees have the types of its call.                *)
LEMMA RequestKinds ==
  ASSUME NEW r \in Requests
  PROVE  /\ r.file \in Files
         /\ r.op \in {"read", "write", "llseek", "ioctl"}
         /\ r.op = "read" => r.count \in Nat
         /\ r.op = "write" => r.data \in Seq(Byte)
         /\ r.op = "llseek" => r.offset \in Int
         /\ r.op = "ioctl" => r.write_cmd \in Nat /\ r.write_cmd_offset \in Nat
BY RequestsAssumption DEF ReadRequest, WriteRequest, SeekRequest, IoctlRequest

(* The pieces of a request that the model hands out are byte strings.      *)
LEMMA SubSeqType ==
  ASSUME NEW S, NEW s \in Seq(S), NEW m \in Nat \ {0}, NEW n \in 0 .. Len(s)
  PROVE  /\ SubSeq(s, m, n) \in Seq(S)
         /\ m = 1 => Len(SubSeq(s, m, n)) = n
BY SubSeqProperties

(* The bytes behind a pointer of the device are a byte string.             *)
LEMMA BytesType ==
  ASSUME TypeOK, NEW e \in Entry(Pointer)
  PROVE  Bytes(e) \in Seq(Byte)
BY DEF TypeOK, Bytes

(* The driver starts in the invariant: no call, no block, an empty ring.   *)
LEMMA InitInv ==
  ASSUME Init
  PROVE  IInv
<1> USE DEF Init
<1>1. TypeOK
  <2>1. EmptyRing \in Ring(Pointer) /\ EmptyEntry \in Entry(Pointer)
    BY EmptyRingType DEF Pointer
  <2> QED BY <2>1 DEF TypeOK, StepOfCall, Label, Pointer
<1>2. MutualExclusion
  BY PointersAssumption DEF MutualExclusion, Critical
<1>3. RingInShape
  BY MaxOpsAssumption DEF RingInShape, RingShape, EmptyRing, EmptyEntry, Index
<1>4. HeapOwned
  BY PointersAssumption DEF HeapOwned, RingBlocks, PendingBlocks, EmptyRing, EmptyEntry, Bytes
<1>5. CopyTargetsValid
  BY DEF CopyTargetsValid
<1> QED BY <1>1, <1>2, <1>3, <1>4, <1>5 DEF IInv
-----------------------------------------------------------------------------
(* Every step keeps the types.                                             *)

(* Finish moves a process out of its handler with an integer result.       *)
LEMMA FinishTypes ==
  ASSUME TypeOK, NEW p \in Procs, NEW v \in Int, Finish(p, v)
  PROVE  /\ pc' \in [Procs -> Label] /\ pc' = [pc EXCEPT ![p] = "return"]
         /\ ret' \in [Procs -> Int]
         /\ lock' \in Procs \cup {NULL}
BY DEF TypeOK, Finish, Goto, Label

(* A process that finishes its handler is still in the call it made.       *)
LEMMA FinishSteps ==
  ASSUME TypeOK, NEW p \in Procs, NEW v, Finish(p, v), pc[p] # "idle",
         req' = req, \A q \in Procs : q # p => found'[q] = found[q]
  PROVE  \A q \in Procs : StepOfCall(q)'
<1>1. StepOfCall(p)'
  BY DEF TypeOK, Finish, Goto, StepOfCall
<1>2. \A q \in Procs : q # p => StepOfCall(q)'
  BY DEF TypeOK, Finish, Goto, StepOfCall
<1> QED BY <1>1, <1>2

(* open, release, and the entry and exit of a system call keep the types.  *)
LEMMA SystemCallTypes ==
  ASSUME TypeOK,
         \/ \E f \in Files : Open(f) \/ Release(f)
         \/ \E p \in Procs : Return(p) \/ \E r \in Requests : Call(p, r)
  PROVE  TypeOK'
<1> USE DEF TypeOK, device, files, locals, Goto, Label
<1>1. ASSUME NEW f \in Files, Open(f) PROVE TypeOK'
  BY <1>1 DEF Open, StepOfCall
<1>2. ASSUME NEW f \in Files, Release(f) PROVE TypeOK'
  BY <1>2 DEF Release, StepOfCall
<1>3. ASSUME NEW p \in Procs, Return(p) PROVE TypeOK'
  <2>1. f_pos' \in [Files -> Nat]
    BY <1>3 DEF Return
  <2>2. \A q \in Procs : StepOfCall(q)'
    BY <1>3 DEF Return, StepOfCall
  <2>3. kmem_buf' \in [Procs -> Pointer]
    BY <1>3 DEF Return, Pointer
  <2>4. /\ req' \in [Procs -> Requests \cup {NoRequest}]
        /\ pc' \in [Procs -> Label]
        /\ found' \in [Procs -> Location \cup {NotFound}]
    BY <1>3 DEF Return
  <2>5. pos' \in [Procs -> Nat] /\ ret' \in [Procs -> Int]
    <3>1. pos' = [pos EXCEPT ![p] = 0] /\ ret' = [ret EXCEPT ![p] = 0]
      BY <1>3 DEF Return
    <3> QED BY <3>1
  <2>6. ubuf' \in [Procs -> Seq(Byte)]
    <3>1. <<>> \in Seq(Byte)
      OBVIOUS
    <3>2. ubuf' = [ubuf EXCEPT ![p] = <<>>]
      BY <1>3 DEF Return
    <3> QED BY <3>1, <3>2
  <2> QED BY <1>3, <2>1, <2>2, <2>3, <2>4, <2>5, <2>6 DEF Return
<1>4. ASSUME NEW p \in Procs, NEW r \in Requests, Call(p, r) PROVE TypeOK'
  <2>1. r.file \in Files /\ (r.op = "ioctl" \/ r.op # "ioctl")
    BY RequestKinds
  <2>2. pos' \in [Procs -> Nat] /\ pc' \in [Procs -> Label]
    BY <1>4, <2>1 DEF Call
  <2>3. \A q \in Procs : StepOfCall(q)'
    BY <1>4 DEF Call, StepOfCall
  <2> QED BY <1>4, <2>2, <2>3 DEF Call
<1> QED BY <1>1, <1>2, <1>3, <1>4

(* Getting the mutex, or giving up on it, keeps the types.                 *)
LEMMA LockTypes ==
  ASSUME TypeOK, NEW p \in Procs, Acquire(p) \/ Interrupted(p)
  PROVE  TypeOK'
<1> USE DEF TypeOK, device, files, locals, Label
<1>1. CASE Acquire(p)
  <2>1. req[p] \in Requests /\ pc[p] = "lock"
    BY <1>1 DEF Acquire, StepOfCall
  <2>2. req[p].op \in {"read", "write", "llseek", "ioctl"}
    BY <2>1, RequestKinds
  <2>3. FirstStep(req[p].op) \in Label
    BY <2>2 DEF FirstStep
  <2>4. pc' \in [Procs -> Label]
    BY <1>1, <2>3 DEF Acquire, Goto
  <2>5. StepOfCall(p)'
    BY <1>1, <2>1, <2>2 DEF Acquire, StepOfCall, FirstStep, Goto
  <2>6. \A q \in Procs : q # p => StepOfCall(q)'
    BY <1>1 DEF Acquire, StepOfCall, Goto
  <2> QED BY <1>1, <2>4, <2>5, <2>6 DEF Acquire
<1>2. CASE Interrupted(p)
  <2>1. -EINTR \in Int
    BY DEF EINTR
  <2>2. pc' \in [Procs -> Label] /\ ret' \in [Procs -> Int] /\ lock' \in Procs \cup {NULL}
        /\ pc' = [pc EXCEPT ![p] = "return"]
    BY <1>2, <2>1, FinishTypes DEF Interrupted
  <2>3. \A q \in Procs : StepOfCall(q)'
    BY <1>2, FinishSteps DEF Interrupted
  <2> QED BY <1>2, <2>2, <2>3 DEF Interrupted
<1> QED BY <1>1, <1>2

(* Both halves of aesd_read keep the types.                                *)
LEMMA ReadTypes ==
  ASSUME Kept, NEW p \in Procs, ReadFind(p) \/ ReadCopy(p)
  PROVE  TypeOK'
<1> USE DEF TypeOK, device, files, locals, Label
<1>0. TypeOK
  BY DEF Kept
<1>1. CASE ReadFind(p)
  <2> DEFINE location == FindEntry(circ_buf, pos[p])
  <2>1. pc[p] = "find" /\ req[p] \in Requests /\ req[p].op = "read"
    BY <1>0, <1>1 DEF ReadFind, StepOfCall
  <2>2. CASE location = NotFound
    <3>1. Finish(p, 0) /\ UNCHANGED <<device, files, req, locals, ubuf>>
      BY <1>1, <2>2 DEF ReadFind
    <3>2. pc' \in [Procs -> Label] /\ ret' \in [Procs -> Int] /\ lock' \in Procs \cup {NULL}
          /\ pc' = [pc EXCEPT ![p] = "return"]
      BY <1>0, <3>1, FinishTypes
    <3>3. \A q \in Procs : StepOfCall(q)'
      BY <1>0, <2>1, <3>1, FinishSteps
    <3> QED BY <1>0, <3>1, <3>2, <3>3
  <2>3. CASE location # NotFound
    <3>1. location \in Location
      BY <1>0, <2>3, FindEntryFindsByte
    <3> HIDE DEF location
    <3>2. /\ found' = [found EXCEPT ![p] = location]
          /\ pc' = [pc EXCEPT ![p] = "copy_to_user"]
          /\ UNCHANGED <<device, lock, files, req, pos, kmem_buf, ret, ubuf>>
      BY <1>1, <2>3 DEF ReadFind, Goto, location
    <3>3. \A q \in Procs : StepOfCall(q)'
      BY <1>0, <2>1, <3>1, <3>2 DEF StepOfCall
    <3> QED BY <1>0, <3>1, <3>2, <3>3
  <2> QED BY <2>2, <2>3
<1>2. CASE ReadCopy(p)
  <2> DEFINE entry     == circ_buf.entry[found[p].index]
             available == entry.size - found[p].offset
             wanted    == IF available < req[p].count THEN available ELSE req[p].count
  <2>1. pc[p] = "copy_to_user" /\ req[p] \in Requests /\ req[p].op = "read"
        /\ found[p] \in Location
    BY <1>0, <1>2 DEF ReadCopy, StepOfCall
  <2>2. entry \in Entry(Pointer) /\ found[p].offset \in Nat /\ found[p].offset < entry.size
    BY <1>0, <2>1 DEF Kept, CopyTargetsValid, Ring, Location
  <2>3. entry.size = Len(Bytes(entry)) /\ Bytes(entry) \in Seq(Byte)
    BY <1>0, <2>1, <2>2, BytesType DEF Kept, BlocksKept, Location
  <2>4. req[p].count \in Nat
    BY <2>1, RequestKinds
  <2>5. wanted \in Nat /\ found[p].offset + wanted <= Len(Bytes(entry))
    BY <2>2, <2>3, <2>4 DEF Entry
  <2> HIDE DEF wanted, entry
  <2>6. PICK k \in Copied(wanted) :
          /\ ubuf' = [ubuf EXCEPT ![p] =
                         SubSeq(Bytes(entry), found[p].offset + 1, found[p].offset + k)]
          /\ pos' = [pos EXCEPT ![p] = @ + k]
          /\ Finish(p, k)
    BY <1>2 DEF ReadCopy, entry, wanted
  <2>7. k \in Nat /\ k <= wanted
    BY <2>5, <2>6 DEF Copied
  <2>8. SubSeq(Bytes(entry), found[p].offset + 1, found[p].offset + k) \in Seq(Byte)
    BY <2>2, <2>3, <2>5, <2>7, SubSeqType
  <2>9. pc' \in [Procs -> Label] /\ ret' \in [Procs -> Int] /\ lock' \in Procs \cup {NULL}
        /\ pc' = [pc EXCEPT ![p] = "return"]
    BY <1>0, <2>6, <2>7, FinishTypes
  <2>10. UNCHANGED <<device, files, req, found, kmem_buf>>
    BY <1>2 DEF ReadCopy
  <2>11. \A q \in Procs : StepOfCall(q)'
    BY <1>0, <2>1, <2>6, <2>10, FinishSteps
  <2>12. pos' \in [Procs -> Nat] /\ ubuf' \in [Procs -> Seq(Byte)]
    BY <1>0, <2>6, <2>7, <2>8
  <2> QED BY <1>0, <2>9, <2>10, <2>11, <2>12
<1> QED BY <1>1, <1>2
(* The byte counts of the device are numbers, so are the positions a seek  *)
(* computes from them.                                                     *)
LEMMA SeekTypes ==
  ASSUME TypeOK, NEW p \in Procs, Seek(p) \/ IoctlCheck(p) \/ Adjust(p)
  PROVE  TypeOK'
<1> USE DEF TypeOK, device, files, locals, Label
<1>1. CASE Seek(p)
  <2> DEFINE f      == req[p].file
             size   == BufferSize(circ_buf)
             target == CASE req[p].whence = "SEEK_SET" -> req[p].offset
                         [] req[p].whence = "SEEK_CUR" -> f_pos[f] + req[p].offset
                         [] req[p].whence = "SEEK_END" -> size + req[p].offset
                         [] OTHER -> -1
             stay   == req[p].whence = "SEEK_CUR" /\ req[p].offset = 0
  <2>1. pc[p] = "seek" /\ req[p] \in Requests /\ f \in Files /\ req[p].offset \in Int
    BY <1>1, RequestKinds DEF Seek, StepOfCall
  <2>2. size \in Nat
    BY BytesBeforeNat, MaxOpsAssumption DEF BufferSize
  <2>3. stay => target = f_pos[f]
    BY <2>1
  <2>4. UNCHANGED <<device, opened, req, locals, ubuf>>
    BY <1>1 DEF Seek
  <2>5. \/ (stay \/ target \in 0 .. size) /\ f_pos' = [f_pos EXCEPT ![f] = target] /\ Finish(p, target)
        \/ Finish(p, -EINVAL) /\ UNCHANGED f_pos
    BY <1>1 DEF Seek
  <2> HIDE DEF f, size, target, stay
  <2>6. /\ f_pos' \in [Files -> Nat]
        /\ \E v \in Int : Finish(p, v)
    <3>1. -EINVAL \in Int
      BY DEF EINVAL
    <3>2. stay \/ target \in 0 .. size => target \in Nat
      BY <2>1, <2>2, <2>3
    <3> QED BY <2>1, <2>5, <3>1, <3>2
  <2>7. pc' \in [Procs -> Label] /\ ret' \in [Procs -> Int] /\ lock' \in Procs \cup {NULL}
    BY <2>6, FinishTypes
  <2>8. \A q \in Procs : StepOfCall(q)'
    BY <2>1, <2>4, <2>6, FinishSteps
  <2> QED BY <2>4, <2>6, <2>7, <2>8
<1>2. CASE IoctlCheck(p)
  <2>1. pc[p] = "ioctl" /\ req[p] \in Requests
    BY <1>2 DEF IoctlCheck, StepOfCall
  <2>2. UNCHANGED <<device, files, req, locals, ubuf>>
    BY <1>2 DEF IoctlCheck
  <2>3. CASE \E v \in {-EFAULT, -EINVAL} : Finish(p, v)
    <3>1. PICK v \in Int : Finish(p, v)
      BY <2>3 DEF EFAULT, EINVAL
    <3>2. pc' \in [Procs -> Label] /\ ret' \in [Procs -> Int] /\ lock' \in Procs \cup {NULL}
      BY <3>1, FinishTypes
    <3>3. \A q \in Procs : StepOfCall(q)'
      BY <2>1, <2>2, <3>1, FinishSteps
    <3> QED BY <2>2, <3>2, <3>3
  <2>4. CASE /\ req[p].write_cmd < MaxOps
             /\ Goto(p, "lock")
             /\ UNCHANGED <<lock, ret>>
    <3>1. \A q \in Procs : StepOfCall(q)'
      BY <2>1, <2>2, <2>4 DEF Goto, StepOfCall
    <3> QED BY <2>2, <2>4, <3>1 DEF Goto
  <2> QED BY <1>2, <2>3, <2>4 DEF IoctlCheck
<1>3. CASE Adjust(p)
  <2>1. /\ pc[p] = "adjust" /\ req[p] \in Requests /\ req[p].op = "ioctl"
        /\ req[p].write_cmd < MaxOps
    BY <1>3 DEF Adjust, StepOfCall
  <2>2. req[p].file \in Files /\ req[p].write_cmd \in Nat /\ req[p].write_cmd_offset \in Nat
    BY <2>1, RequestKinds
  <2>3. BytesBefore(circ_buf, req[p].write_cmd) \in Nat
    BY <2>1, <2>2, BytesBeforeNat, MaxOpsAssumption
  <2>4. UNCHANGED <<device, opened, req, locals, ubuf>>
    BY <1>3 DEF Adjust
  <2>5. f_pos' \in [Files -> Nat]
    <3>1. BytesBefore(circ_buf, req[p].write_cmd) + req[p].write_cmd_offset \in Nat
      BY <2>2, <2>3
    <3>2. \/ f_pos' = f_pos
          \/ f_pos' = [f_pos EXCEPT ![req[p].file] =
                          BytesBefore(circ_buf, req[p].write_cmd) + req[p].write_cmd_offset]
      BY <1>3 DEF Adjust
    <3> QED BY <2>2, <3>1, <3>2
  <2>6. PICK v \in Int : Finish(p, v)
    BY <1>3 DEF Adjust, EINVAL
  <2>7. pc' \in [Procs -> Label] /\ ret' \in [Procs -> Int] /\ lock' \in Procs \cup {NULL}
    BY <2>6, FinishTypes
  <2>8. \A q \in Procs : StepOfCall(q)'
    BY <2>1, <2>4, <2>6, FinishSteps
  <2> QED BY <2>4, <2>5, <2>7, <2>8
<1> QED BY <1>1, <1>2, <1>3

(* A write finds room for its data behind the pending bytes.               *)
LEMMA ReserveTypes ==
  ASSUME Kept, NEW p \in Procs, WriteReserve(p)
  PROVE  TypeOK'
<1> USE DEF TypeOK, device, files, locals, Label
<1> DEFINE prior == IF partial_write.buffptr = NULL THEN 0 ELSE partial_write.size
           count == Len(req[p].data)
<1>0. TypeOK
  BY DEF Kept
<1>1. pc[p] = "reserve" /\ req[p] \in Requests /\ req[p].op = "write"
  BY <1>0 DEF WriteReserve, StepOfCall
<1>2. UNCHANGED <<circ_buf, files, req, pos, found, ubuf>>
  BY DEF WriteReserve
<1>3. CASE ReserveFails(p)
  <2>1. -ENOMEM \in Int /\ Finish(p, -ENOMEM)
    BY <1>3 DEF ENOMEM, ReserveFails
  <2>2. pc' \in [Procs -> Label] /\ ret' \in [Procs -> Int] /\ lock' \in Procs \cup {NULL}
    BY <1>0, <2>1, FinishTypes
  <2>3. \A q \in Procs : StepOfCall(q)'
    BY <1>0, <1>1, <1>2, <2>1, FinishSteps
  <2> QED BY <1>0, <1>2, <1>3, <2>2, <2>3 DEF ReserveFails
<1>4. CASE ~ReserveFails(p)
  <2> HIDE DEF count
  <2>1. PICK b \in IF count + prior = 0 THEN {ZeroSizePtr} ELSE Blocks \ live :
          /\ live' = (live \ {partial_write.buffptr}) \cup ({b} \cap Blocks)
          /\ heap' = [c \in Blocks |->
                        IF c = b THEN Bytes(partial_write)
                        ELSE IF c = partial_write.buffptr THEN <<>>
                        ELSE heap[c]]
          /\ partial_write' = [buffptr |-> b, size |-> prior]
          /\ kmem_buf' = [kmem_buf EXCEPT ![p] = b]
    BY <1>4 DEF WriteReserve, count
  <2>2. b \in Pointer
    BY <2>1 DEF Pointer
  <2>3. prior \in Nat
    BY <1>0 DEF Entry
  <2>4. partial_write' \in Entry(Pointer) /\ kmem_buf' \in [Procs -> Pointer]
    BY <1>0, <2>1, <2>2, <2>3 DEF Entry
  <2>5. heap' \in [Blocks -> Seq(Byte)] /\ live' \in SUBSET Blocks
    <3>1. Bytes(partial_write) \in Seq(Byte) /\ <<>> \in Seq(Byte)
      BY <1>0, BytesType
    <3> QED BY <1>0, <2>1, <3>1
  <2>6. Goto(p, "copy_from_user") /\ UNCHANGED <<lock, ret>>
    BY <1>4 DEF WriteReserve
  <2>7. \A q \in Procs : StepOfCall(q)'
    BY <1>0, <1>1, <1>2, <2>6 DEF Goto, StepOfCall
  <2> QED BY <1>0, <1>2, <2>4, <2>5, <2>6, <2>7 DEF Goto
<1> QED BY <1>3, <1>4
(* The bytes a write copies go to the end of the block it reserved.        *)
LEMMA CopyTypes ==
  ASSUME Kept, NEW p \in Procs, WriteCopy(p) \/ Oops(p)
  PROVE  TypeOK'
<1> USE DEF TypeOK, device, files, locals, Label
<1>0. TypeOK
  BY DEF Kept
<1>1. CASE Oops(p)
  <2>1. pc[p] = "copy_from_user" /\ Goto(p, "oops")
        /\ UNCHANGED <<device, lock, files, req, locals, ret, ubuf>>
    BY <1>1 DEF Oops
  <2>2. \A q \in Procs : StepOfCall(q)'
    BY <1>0, <2>1 DEF Goto, StepOfCall
  <2> QED BY <1>0, <2>1, <2>2 DEF Goto
<1>2. CASE WriteCopy(p)
  <2>1. /\ pc[p] = "copy_from_user" /\ req[p] \in Requests /\ req[p].op = "write"
        /\ kmem_buf[p] # ZeroSizePtr
    BY <1>0, <1>2 DEF WriteCopy, StepOfCall
  <2>2. kmem_buf[p] \in Blocks
    BY <1>0, <2>1 DEF Kept, CopyTargetsValid
  <2>3. req[p].data \in Seq(Byte)
    BY <2>1, RequestKinds
  <2>4. PICK k \in Copied(Len(req[p].data)) : \E last \in LastByte(p, k) : CopyIn(p, k, last)
    BY <1>2 DEF WriteCopy
  <2> PICK last \in LastByte(p, k) : CopyIn(p, k, last)
    BY <2>4
  <2> DEFINE contents == [heap EXCEPT ![kmem_buf[p]] = @ \o SubSeq(req[p].data, 1, k)]
             pending  == [partial_write EXCEPT !.size = @ + k]
  <2>5. k \in Nat /\ k <= Len(req[p].data)
    BY <2>3, <2>4 DEF Copied
  <2>6. contents \in [Blocks -> Seq(Byte)]
    <3>1. SubSeq(req[p].data, 1, k) \in Seq(Byte)
      BY <2>3, <2>5, SubSeqType
    <3>2. heap[kmem_buf[p]] \o SubSeq(req[p].data, 1, k) \in Seq(Byte)
      BY <1>0, <2>2, <3>1
    <3> QED BY <1>0, <3>2
  <2>7. pending \in Entry(Pointer)
    <3>1. partial_write \in [buffptr: Pointer, size: Nat]
      BY <1>0 DEF Entry
    <3>2. pending = [buffptr |-> partial_write.buffptr, size |-> partial_write.size + k]
      BY <3>1
    <3> QED BY <2>5, <3>1, <3>2 DEF Entry
  <2> HIDE DEF contents, pending
  <2>8. circ_buf' \in Ring(Pointer) /\ partial_write' \in Entry(Pointer)
        /\ heap' \in [Blocks -> Seq(Byte)] /\ live' \in SUBSET Blocks
    <3>1. CASE CompleteCommand(pending, contents)
      <4>1. circ_buf' \in Ring(Pointer)
        BY <1>0, <2>7, <3>1, AddEntryType DEF CompleteCommand
      <4>2. partial_write' \in Entry(Pointer)
        BY <3>1, EmptyRingType DEF CompleteCommand, Pointer
      <4>3. heap' \in [Blocks -> Seq(Byte)]
        <5>1. <<>> \in Seq(Byte)
          OBVIOUS
        <5> QED BY <2>6, <3>1, <5>1 DEF CompleteCommand
      <4> QED BY <1>0, <3>1, <4>1, <4>2, <4>3 DEF CompleteCommand
    <3>2. CASE partial_write' = pending /\ heap' = contents /\ UNCHANGED <<circ_buf, live>>
      BY <1>0, <2>6, <2>7, <3>2
    <3> QED BY <3>1, <3>2 DEF CopyIn, contents, pending
  <2>9. UNCHANGED <<files, req, found, kmem_buf, ubuf>>
    BY <1>2 DEF WriteCopy
  <2>10. pc' \in [Procs -> Label] /\ ret' \in [Procs -> Int] /\ lock' \in Procs \cup {NULL}
    BY <1>0, <2>5, FinishTypes DEF CopyIn
  <2>11. \A q \in Procs : StepOfCall(q)'
    BY <1>0, <2>1, <2>9, FinishSteps DEF CopyIn
  <2>12. pos' \in [Procs -> Nat]
    BY <1>0, <2>5 DEF CopyIn
  <2> QED BY <1>0, <2>8, <2>9, <2>10, <2>11, <2>12
<1> QED BY <1>1, <1>2

-----------------------------------------------------------------------------
(* Every step keeps the mutex with the process that is in a handler.       *)
LEMMA MutexStep ==
  ASSUME Kept, Next
  PROVE  MutexKept' /\ (MutualExclusion => MutualExclusion')
<1> USE DEF MutualExclusion, MutexKept, Critical, Goto
<1> DEFINE Stays == MutexKept' /\ (MutualExclusion => MutualExclusion')
<1>0. /\ pc \in [Procs -> Label] /\ MutexKept /\ NULL \notin Procs
      /\ \A p \in Procs : pc[p] = "lock" => req[p] \in Requests
  BY PointersAssumption DEF Kept, TypeOK, StepOfCall
(* Leaving the handler and the mutex together, from wherever p was.        *)
<1>1. ASSUME NEW p \in Procs, NEW v, Finish(p, v) PROVE Stays
  BY <1>0, <1>1 DEF Finish
(* Moving between two labels on the same side of the lock.                 *)
<1>2. ASSUME NEW p \in Procs, NEW label, Goto(p, label), lock' = lock,
             pc[p] \in Critical <=> label \in Critical, pc[p] # "oops"
      PROVE  Stays
  BY <1>0, <1>2
<1>3. ASSUME NEW f \in Files, Open(f) \/ Release(f) PROVE Stays
  BY <1>0, <1>3 DEF Open, Release
<1>4. ASSUME NEW p \in Procs, NEW r \in Requests, Call(p, r) PROVE Stays
  <2>1. pc[p] = "idle" /\ lock' = lock
    BY <1>4 DEF Call
  <2>2. Goto(p, "ioctl") \/ Goto(p, "lock")
    BY <1>4 DEF Call
  <2> QED BY <1>2, <2>1, <2>2
<1>5. ASSUME NEW p \in Procs, Acquire(p) PROVE Stays
  <2>1. req[p].op \in {"read", "write", "llseek", "ioctl"}
    BY <1>0, <1>5, RequestKinds DEF Acquire
  <2>2. FirstStep(req[p].op) \in Critical
    BY <2>1 DEF FirstStep
  <2>3. lock = NULL /\ lock' = p /\ pc' = [pc EXCEPT ![p] = FirstStep(req[p].op)]
    BY <1>5 DEF Acquire, MayLock
  <2> QED BY <1>0, <2>2, <2>3
<1>6. ASSUME NEW p \in Procs, Interrupted(p) PROVE Stays
  BY <1>1, <1>6 DEF Interrupted
<1>7. ASSUME NEW p \in Procs, Handler(p) PROVE Stays
  <2>1. CASE ReadFind(p)
    BY <1>1, <1>2, <2>1 DEF ReadFind
  <2>2. CASE ReadCopy(p)
    BY <1>1, <2>2 DEF ReadCopy
  <2>3. CASE WriteReserve(p)
    BY <1>1, <1>2, <2>3 DEF WriteReserve, ReserveFails
  <2>4. CASE WriteCopy(p)
    BY <1>1, <2>4 DEF WriteCopy, CopyIn
  <2>5. CASE Oops(p)
    BY <1>2, <2>5 DEF Oops
  <2>6. CASE Seek(p)
    BY <1>1, <2>6 DEF Seek
  <2>7. CASE IoctlCheck(p)
    BY <1>1, <1>2, <2>7 DEF IoctlCheck
  <2>8. CASE Adjust(p)
    BY <1>1, <2>8 DEF Adjust
  <2> QED BY <1>7, <2>1, <2>2, <2>3, <2>4, <2>5, <2>6, <2>7, <2>8 DEF Handler
<1>8. ASSUME NEW p \in Procs, Return(p) PROVE Stays
  <2>1. pc[p] = "return" /\ Goto(p, "idle") /\ lock' = lock
    BY <1>8 DEF Return
  <2> QED BY <1>2, <2>1
<1> QED BY <1>3, <1>4, <1>5, <1>6, <1>7, <1>8 DEF Next
-----------------------------------------------------------------------------
(* Only the two halves of a write change the device.                       *)
LEMMA DeviceStep ==
  ASSUME Next
  PROVE  UNCHANGED device \/ \E p \in Procs : WriteReserve(p) \/ WriteCopy(p)
<1> USE DEF device
<1>1. ASSUME NEW f \in Files, Open(f) \/ Release(f) PROVE UNCHANGED device
  BY <1>1 DEF Open, Release
<1>2. ASSUME NEW p \in Procs, NEW r \in Requests, Call(p, r) PROVE UNCHANGED device
  BY <1>2 DEF Call
<1>3. ASSUME NEW p \in Procs, Acquire(p) \/ Interrupted(p) \/ Return(p)
      PROVE  UNCHANGED device
  BY <1>3 DEF Acquire, Interrupted, Return
<1>4. ASSUME NEW p \in Procs, ReadFind(p) \/ ReadCopy(p) \/ Oops(p) PROVE UNCHANGED device
  BY <1>4 DEF ReadFind, ReadCopy, Oops
<1>5. ASSUME NEW p \in Procs, Seek(p) \/ IoctlCheck(p) \/ Adjust(p) PROVE UNCHANGED device
  BY <1>5 DEF Seek, IoctlCheck, Adjust
<1> QED BY <1>1, <1>2, <1>3, <1>4, <1>5 DEF Next, Handler

(* The block a write fills, before the copy.                               *)
LEMMA CopyBlock ==
  ASSUME Kept, NEW p \in Procs, WriteCopy(p)
  PROVE  /\ kmem_buf[p] = partial_write.buffptr
         /\ kmem_buf[p] \in live /\ kmem_buf[p] \in Blocks /\ kmem_buf[p] # NULL
         /\ req[p].data \in Seq(Byte)
<1>1. pc[p] = "copy_from_user" /\ kmem_buf[p] # ZeroSizePtr
  BY DEF WriteCopy
<1>2. req[p] \in Requests /\ req[p].op = "write"
  BY <1>1 DEF Kept, TypeOK, StepOfCall
<1>3. req[p].data \in Seq(Byte)
  BY <1>2, RequestKinds
<1>4. live \subseteq Blocks
  BY DEF Kept, TypeOK
<1> QED BY <1>1, <1>3, <1>4, PointersAssumption DEF Kept, CopyTargetsValid

(* What the second half of a write does to the device, with the block it   *)
(* replaces in the ring named.                                             *)
LEMMA CopyEffect ==
  ASSUME Kept, NEW p \in Procs, WriteCopy(p)
  PROVE  \E k \in 0 .. Len(req[p].data) :
           LET b        == partial_write.buffptr
               contents == [heap EXCEPT ![b] = @ \o SubSeq(req[p].data, 1, k)]
               pending  == [buffptr |-> b, size |-> partial_write.size + k]
               old      == circ_buf.entry[circ_buf.in_offs].buffptr
           IN  \/ /\ circ_buf' = AddEntry(circ_buf, pending)
                  /\ live' = live \ {old}
                  /\ heap' = [c \in Blocks |-> IF c = old THEN <<>> ELSE contents[c]]
                  /\ partial_write' = EmptyEntry
               \/ /\ partial_write' = pending
                  /\ heap' = contents
                  /\ UNCHANGED <<circ_buf, live>>
<1>1. PICK k \in Copied(Len(req[p].data)) : \E last \in LastByte(p, k) : CopyIn(p, k, last)
  BY DEF WriteCopy
<1>2. PICK last \in LastByte(p, k) : CopyIn(p, k, last)
  BY <1>1
<1>3. k \in 0 .. Len(req[p].data)
  BY DEF Copied
<1>4. kmem_buf[p] = partial_write.buffptr
  BY CopyBlock
<1>5. PushedOut(circ_buf) = circ_buf.entry[circ_buf.in_offs].buffptr
  BY PushedOutIsReplaced DEF Kept, TypeOK, RingInShape
<1>6. [partial_write EXCEPT !.size = @ + k]
        = [buffptr |-> partial_write.buffptr, size |-> partial_write.size + k]
  BY DEF Kept, TypeOK, Entry
<1> DEFINE b        == partial_write.buffptr
           contents == [heap EXCEPT ![b] = @ \o SubSeq(req[p].data, 1, k)]
           pending  == [buffptr |-> b, size |-> partial_write.size + k]
           old      == circ_buf.entry[circ_buf.in_offs].buffptr
<1>7. \/ CompleteCommand(pending, contents)
      \/ partial_write' = pending /\ heap' = contents /\ UNCHANGED <<circ_buf, live>>
  BY <1>2, <1>4, <1>6 DEF CopyIn
<1> HIDE DEF contents, pending
<1>8. CompleteCommand(pending, contents) =>
        /\ circ_buf' = AddEntry(circ_buf, pending)
        /\ live' = live \ {old}
        /\ heap' = [c \in Blocks |-> IF c = old THEN <<>> ELSE contents[c]]
        /\ partial_write' = EmptyEntry
  BY <1>5 DEF CompleteCommand
<1> QED BY <1>3, <1>7, <1>8 DEF contents, pending

(* Every step keeps the shape of the ring.                                 *)
LEMMA RingShapeStep ==
  ASSUME Kept, Next
  PROVE  RingInShape'
<1>1. CASE circ_buf' = circ_buf
  BY <1>1 DEF Kept, RingInShape
<1>2. ASSUME NEW p \in Procs, WriteCopy(p), circ_buf' # circ_buf PROVE RingInShape'
  <2>1. PICK k \in 0 .. Len(req[p].data) :
          circ_buf' = AddEntry(circ_buf, [buffptr |-> partial_write.buffptr,
                                          size |-> partial_write.size + k])
    BY <1>2, CopyEffect
  <2> DEFINE pending == [buffptr |-> partial_write.buffptr, size |-> partial_write.size + k]
  <2>2. partial_write.buffptr \in Pointer /\ partial_write.size \in Nat /\ k \in Nat
    BY DEF Kept, TypeOK, Entry
  <2>3. pending \in Entry(Pointer) /\ pending.buffptr # NULL
    BY <1>2, <2>2, CopyBlock DEF Entry
  <2>4. circ_buf \in Ring(Pointer) /\ RingShape(circ_buf)
    BY DEF Kept, TypeOK, RingInShape
  <2> HIDE DEF pending
  <2>5. RingShape(AddEntry(circ_buf, pending))
    BY <2>3, <2>4, AddEntryShape
  <2> QED BY <2>1, <2>5 DEF RingInShape, pending
<1>3. ASSUME NEW p \in Procs, WriteReserve(p) PROVE circ_buf' = circ_buf
  BY <1>3 DEF WriteReserve
<1> QED BY <1>1, <1>2, <1>3, DeviceStep DEF device

-----------------------------------------------------------------------------
(* Ownership of blocks, in the form the steps below use it.                *)
LEMMA Ownership ==
  ASSUME Kept
  PROVE  /\ \A c \in Blocks : \/ \E i \in Index : circ_buf.entry[i].buffptr = c
                              \/ partial_write.buffptr = c
                              => c \in live
         /\ \A i \in Index : /\ circ_buf.entry[i].buffptr \in live \cup {NULL}
                            /\ circ_buf.entry[i] \in Entry(Pointer)
         /\ partial_write.buffptr \in live \cup {NULL, ZeroSizePtr}
         /\ live \subseteq Blocks /\ NULL \notin Blocks /\ ZeroSizePtr \notin Blocks \cup {NULL}
<1>1. /\ circ_buf.entry \in [Index -> Entry(Pointer)] /\ partial_write.buffptr \in Pointer
      /\ live \subseteq Blocks
  BY DEF Kept, TypeOK, Ring, Entry
<1>2. \A i \in Index : circ_buf.entry[i].buffptr \in live \cup {NULL}
  BY DEF Kept, BlocksKept, RingBlocks
<1>3. partial_write.buffptr \in live \cup {NULL, ZeroSizePtr}
  BY DEF Kept, BlocksKept, PendingBlocks
<1> QED BY <1>1, <1>2, <1>3, PointersAssumption
(* Reserving a block moves the pending bytes to it and frees the old one.  *)
LEMMA ReserveOwned ==
  ASSUME Kept, NEW p \in Procs, WriteReserve(p)
  PROVE  BlocksKept' /\ Lost' = Lost
<1> DEFINE old == partial_write.buffptr
<1>0. BlocksKept /\ circ_buf' = circ_buf /\ partial_write \in Entry(Pointer)
      /\ heap \in [Blocks -> Seq(Byte)]
  BY DEF Kept, TypeOK, WriteReserve
<1>1. CASE ReserveFails(p)
  <2>1. UNCHANGED <<circ_buf, partial_write, heap, live>>
    BY <1>0, <1>1 DEF ReserveFails
  <2> QED BY <1>0, <2>1 DEF BlocksKept, Lost, RingBlocks, PendingBlocks, Bytes
<1>2. CASE ~ReserveFails(p)
  <2>1. PICK b \in (Blocks \ live) \cup {ZeroSizePtr} :
          /\ b = ZeroSizePtr => Len(req[p].data) +
                (IF old = NULL THEN 0 ELSE partial_write.size) = 0
          /\ live' = (live \ {old}) \cup ({b} \cap Blocks)
          /\ heap' = [c \in Blocks |->
                        IF c = b THEN Bytes(partial_write) ELSE IF c = old THEN <<>> ELSE heap[c]]
          /\ partial_write' = [buffptr |-> b, size |-> IF old = NULL THEN 0 ELSE partial_write.size]
    BY <1>2, PointersAssumption DEF WriteReserve
  <2>2. partial_write.size = Len(Bytes(partial_write)) /\ partial_write.size \in Nat
    BY <1>0 DEF BlocksKept, Entry
  <2>3. old = NULL => partial_write.size = 0
    BY <2>2, PointersAssumption DEF Bytes
  <2>4. partial_write' = [buffptr |-> b, size |-> partial_write.size]
    BY <2>1, <2>3
  <2>5. \A i \in Index : LET c == circ_buf.entry[i].buffptr IN c # NULL => c \in live /\ c # old /\ c # b
    BY <1>0, <2>1, Ownership DEF BlocksKept, RingBlocks, PendingBlocks
  <2>6. \A i \in Index : Bytes(circ_buf.entry[i])' = Bytes(circ_buf.entry[i])
    <3> SUFFICES ASSUME NEW i \in Index PROVE Bytes(circ_buf.entry[i])' = Bytes(circ_buf.entry[i])
      OBVIOUS
    <3>1. circ_buf.entry[i].buffptr \in Blocks => heap'[circ_buf.entry[i].buffptr] = heap[circ_buf.entry[i].buffptr]
      BY <2>1, <2>5, Ownership
    <3> QED BY <1>0, <3>1 DEF Bytes
  <2>7. partial_write'.size = Len(Bytes(partial_write)')
    <3>1. CASE b = ZeroSizePtr
      <4>1. partial_write.size = 0
        <5>1. Len(req[p].data) \in Nat
          <6>1. req[p].data \in Seq(Byte)
            BY RequestKinds DEF Kept, TypeOK, StepOfCall, WriteReserve
          <6> QED BY <6>1
        <5>2. (IF old = NULL THEN 0 ELSE partial_write.size) = partial_write.size
          BY <2>3
        <5>3. Len(req[p].data) + partial_write.size = 0
          BY <2>1, <3>1, <5>2
        <5> QED BY <2>2, <5>1, <5>3
      <4>2. Bytes(partial_write)' = <<>>
        BY <2>4, <3>1, PointersAssumption DEF Bytes
      <4> QED BY <2>4, <4>1, <4>2
    <3>2. CASE b \in Blocks
      <4>1. Bytes(partial_write)' = Bytes(partial_write)
        BY <2>1, <2>4, <3>2 DEF Bytes
      <4> QED BY <2>2, <2>4, <4>1
    <3> QED BY <2>1, <3>1, <3>2
  <2>8. RingBlocks' = RingBlocks
    BY <1>0 DEF RingBlocks
  <2>9. PendingBlocks' = {b} \cap Blocks
    BY <2>1, <2>4, PointersAssumption DEF PendingBlocks
  <2>10. /\ RingBlocks' \cup PendingBlocks' \subseteq live'
         /\ RingBlocks' \cap PendingBlocks' = {}
         /\ Lost' = Lost
    <3>1. /\ RingBlocks \subseteq live \ {old}
          /\ \A c \in live : c \in PendingBlocks <=> c = old
      BY <1>0, Ownership DEF BlocksKept, RingBlocks, PendingBlocks
    <3>2. b \notin RingBlocks /\ live \subseteq Blocks
      BY <2>5, Ownership DEF RingBlocks
    <3>3. b \notin live
      BY <2>1, Ownership
    <3> QED BY <2>1, <2>8, <2>9, <3>1, <3>2, <3>3 DEF Lost
  <2>11. \A i, j \in Index :
           circ_buf'.entry[i].buffptr = circ_buf'.entry[j].buffptr =>
             i = j \/ circ_buf'.entry[i].buffptr = NULL
    BY <1>0 DEF BlocksKept
  <2>12. \A i \in Index : circ_buf'.entry[i].size = Len(Bytes(circ_buf.entry[i])')
    BY <1>0, <2>6 DEF BlocksKept
  <2> QED BY <2>7, <2>10, <2>11, <2>12 DEF BlocksKept
<1> QED BY <1>1, <1>2

(* The second half of a write adds bytes to the pending block, and hands   *)
(* it over to the ring when they complete a command.                       *)
LEMMA CopyOwned ==
  ASSUME Kept, NEW p \in Procs, WriteCopy(p)
  PROVE  BlocksKept' /\ Lost' = Lost
<1> DEFINE b   == partial_write.buffptr
           in  == circ_buf.in_offs
           old == circ_buf.entry[in].buffptr
<1>0. /\ BlocksKept /\ partial_write \in Entry(Pointer) /\ circ_buf \in Ring(Pointer)
      /\ heap \in [Blocks -> Seq(Byte)] /\ RingShape(circ_buf)
  BY DEF Kept, TypeOK, RingInShape
<1>1. b \in live /\ b \in Blocks /\ b # NULL /\ req[p].data \in Seq(Byte)
  BY CopyBlock
<1>2. PICK k \in 0 .. Len(req[p].data) :
         LET contents == [heap EXCEPT ![b] = @ \o SubSeq(req[p].data, 1, k)]
             pending  == [buffptr |-> b, size |-> partial_write.size + k]
         IN  \/ /\ circ_buf' = AddEntry(circ_buf, pending)
                /\ live' = live \ {old}
                /\ heap' = [c \in Blocks |-> IF c = old THEN <<>> ELSE contents[c]]
                /\ partial_write' = EmptyEntry
             \/ /\ partial_write' = pending
                /\ heap' = contents
                /\ UNCHANGED <<circ_buf, live>>
  BY CopyEffect
<1> DEFINE contents == [heap EXCEPT ![b] = @ \o SubSeq(req[p].data, 1, k)]
           pending  == [buffptr |-> b, size |-> partial_write.size + k]
<1>3. /\ contents \in [Blocks -> Seq(Byte)]
      /\ Len(contents[b]) = partial_write.size + k
      /\ \A c \in Blocks : c # b => contents[c] = heap[c]
  <2>1. SubSeq(req[p].data, 1, k) \in Seq(Byte) /\ Len(SubSeq(req[p].data, 1, k)) = k
    BY <1>1, SubSeqType
  <2>2. heap[b] \in Seq(Byte) /\ Len(heap[b]) = partial_write.size
    BY <1>0, <1>1 DEF BlocksKept, Bytes
  <2>3. /\ heap[b] \o SubSeq(req[p].data, 1, k) \in Seq(Byte)
        /\ Len(heap[b] \o SubSeq(req[p].data, 1, k)) = partial_write.size + k
    BY <2>1, <2>2
  <2> QED BY <1>0, <1>1, <2>3
<1>4. \A i \in Index : circ_buf.entry[i].buffptr # b
  <2>1. b \in PendingBlocks
    BY <1>1, PointersAssumption DEF PendingBlocks
  <2>2. b \notin RingBlocks
    BY <1>0, <2>1 DEF BlocksKept
  <2> QED BY <1>1, <2>2 DEF RingBlocks
<1>5. pending \in Entry(Pointer) /\ pending.buffptr = b /\ pending.size = partial_write.size + k
  BY <1>0 DEF Entry
<1>6. circ_buf.entry \in [Index -> Entry(Pointer)] /\ in \in Index
  BY <1>0 DEF Ring
<1> HIDE DEF contents, pending
<1>7. CASE /\ circ_buf' = AddEntry(circ_buf, pending)
           /\ live' = live \ {old}
           /\ heap' = [c \in Blocks |-> IF c = old THEN <<>> ELSE contents[c]]
           /\ partial_write' = EmptyEntry
  <2>1. \A i \in Index : circ_buf'.entry[i] = IF i = in THEN pending ELSE circ_buf.entry[i]
    <3>1. AddEntry(circ_buf, pending).entry = [circ_buf.entry EXCEPT ![in] = pending]
      BY DEF AddEntry
    <3> QED BY <1>6, <1>7, <3>1
  <2>2. \A i \in Index : i # in => circ_buf.entry[i].buffptr # old \/ circ_buf.entry[i].buffptr = NULL
    BY <1>0, <1>6 DEF BlocksKept
  <2>3. \A i, j \in Index :
          circ_buf'.entry[i].buffptr = circ_buf'.entry[j].buffptr =>
            i = j \/ circ_buf'.entry[i].buffptr = NULL
    BY <1>0, <1>4, <1>5, <2>1 DEF BlocksKept
  <2>4. PendingBlocks' = {} /\ partial_write'.size = Len(Bytes(partial_write)')
    BY <1>7, PointersAssumption DEF PendingBlocks, EmptyEntry, Bytes
  <2>5. RingBlocks' = (RingBlocks \ {old}) \cup {b}
    BY <1>1, <1>5, <1>6, <2>1, <2>2 DEF RingBlocks
  <2>6. RingBlocks' \subseteq live' /\ Lost' = Lost
    <3>1. PendingBlocks = {b} /\ RingBlocks \cup {b} \subseteq live /\ b # old
      BY <1>0, <1>1, <1>4, <1>6, PointersAssumption DEF BlocksKept, PendingBlocks
    <3>2. old \in RingBlocks \/ old \notin live
      BY <1>6, Ownership DEF RingBlocks
    <3> QED BY <1>7, <2>4, <2>5, <3>1, <3>2 DEF Lost
  <2>7. \A i \in Index : circ_buf'.entry[i].size = Len(Bytes(circ_buf.entry[i])')
    <3> SUFFICES ASSUME NEW i \in Index
                 PROVE  circ_buf'.entry[i].size = Len(Bytes(circ_buf.entry[i])')
      OBVIOUS
    <3>1. CASE i = in
      <4>1. Bytes(circ_buf.entry[i])' = contents[b]
        BY <1>1, <1>4, <1>5, <1>6, <1>7, <2>1, <3>1 DEF Bytes
      <4> QED BY <1>3, <1>5, <2>1, <3>1, <4>1
    <3>2. CASE i # in
      <4>1. Bytes(circ_buf.entry[i])' = Bytes(circ_buf.entry[i])
        <5> DEFINE c == circ_buf.entry[i].buffptr
        <5>1. circ_buf'.entry[i].buffptr = c
          BY <2>1, <3>2
        <5>2. c \in Blocks => heap'[c] = heap[c]
          BY <1>3, <1>4, <1>7, <2>2, <3>2, PointersAssumption
        <5> QED BY <5>1, <5>2 DEF Bytes
      <4> QED BY <1>0, <2>1, <3>2, <4>1 DEF BlocksKept
    <3> QED BY <3>1, <3>2
  <2> QED BY <2>3, <2>4, <2>6, <2>7 DEF BlocksKept
<1>8. CASE partial_write' = pending /\ heap' = contents /\ UNCHANGED <<circ_buf, live>>
  <2>1. RingBlocks' = RingBlocks /\ PendingBlocks' = PendingBlocks
    BY <1>5, <1>8 DEF RingBlocks, PendingBlocks
  <2>2. partial_write'.size = Len(Bytes(partial_write)')
    BY <1>1, <1>3, <1>5, <1>8 DEF Bytes
  <2>3. \A i \in Index : Bytes(circ_buf.entry[i])' = Bytes(circ_buf.entry[i])
    BY <1>3, <1>4, <1>8 DEF Bytes
  <2> QED BY <1>0, <1>8, <2>1, <2>2, <2>3 DEF BlocksKept, Lost
<1> QED BY <1>2, <1>7, <1>8 DEF contents, pending
-----------------------------------------------------------------------------
(* A process gets to a copy by its own step, and then stays there with     *)
(* what it found while the device does not change: whoever would change it *)
(* holds the mutex, and so is the process itself.                          *)
LEMMA CopySteps ==
  ASSUME Kept, Next, NEW q \in Procs, pc'[q] \in {"copy_to_user", "copy_from_user"}
  PROVE  \/ pc'[q] = "copy_to_user" /\ ReadFind(q)
         \/ pc'[q] = "copy_from_user" /\ WriteReserve(q)
         \/ /\ pc'[q] = pc[q] /\ found'[q] = found[q] /\ kmem_buf'[q] = kmem_buf[q]
            /\ UNCHANGED <<circ_buf, partial_write, live>>
<1> USE DEF device, locals, Goto
<1> DEFINE Stays == /\ pc'[q] = pc[q] /\ found'[q] = found[q] /\ kmem_buf'[q] = kmem_buf[q]
                    /\ UNCHANGED <<circ_buf, partial_write, live>>
<1>0. /\ pc \in [Procs -> Label] /\ found \in [Procs -> Location \cup {NotFound}]
      /\ kmem_buf \in [Procs -> Pointer]
  BY DEF Kept, TypeOK
<1>1. ASSUME NEW f \in Files, Open(f) \/ Release(f) PROVE Stays
  BY <1>1 DEF Open, Release
<1>2. ASSUME NEW p \in Procs, NEW r \in Requests, Call(p, r) PROVE Stays
  BY <1>0, <1>2 DEF Call
<1>3. ASSUME NEW p \in Procs, Acquire(p) PROVE Stays
  <2>1. req[p] \in Requests
    BY <1>3 DEF Acquire, Kept, TypeOK, StepOfCall
  <2>2. FirstStep(req[p].op) \notin {"copy_to_user", "copy_from_user"}
    BY <2>1, RequestKinds DEF FirstStep
  <2> QED BY <1>0, <1>3, <2>2 DEF Acquire
<1>4. ASSUME NEW p \in Procs, Interrupted(p) \/ Oops(p) PROVE Stays
  BY <1>0, <1>4 DEF Interrupted, Oops, Finish
<1>5. ASSUME NEW p \in Procs, Return(p) PROVE Stays
  BY <1>0, <1>5 DEF Return
<1>6. ASSUME NEW p \in Procs, ReadFind(p) PROVE Stays \/ (pc'[q] = "copy_to_user" /\ ReadFind(q))
  BY <1>0, <1>6 DEF ReadFind, Finish
<1>7. ASSUME NEW p \in Procs, ReadCopy(p) PROVE Stays
  BY <1>0, <1>7 DEF ReadCopy, Finish
<1>8. ASSUME NEW p \in Procs, Seek(p) \/ IoctlCheck(p) \/ Adjust(p) PROVE Stays
  BY <1>0, <1>8 DEF Seek, IoctlCheck, Adjust, Finish
<1>9. ASSUME NEW p \in Procs, WriteReserve(p) \/ WriteCopy(p)
      PROVE  p = q
  <2>1. pc[p] \in Critical \ {"oops"}
    BY <1>9 DEF WriteReserve, WriteCopy, Critical
  <2>2. SUFFICES ASSUME p # q PROVE FALSE
    OBVIOUS
  <2>3. pc'[q] = pc[q]
    BY <1>0, <1>9, <2>2 DEF WriteReserve, ReserveFails, WriteCopy, CopyIn, Finish
  <2>4. pc[q] \in Critical \ {"oops"}
    BY <2>3 DEF Critical
  <2> QED BY <2>1, <2>2, <2>4 DEF Kept, MutexKept
<1>10. WriteReserve(q) => pc'[q] = "copy_from_user"
  BY <1>0 DEF WriteReserve, ReserveFails, Finish
<1>11. ~WriteCopy(q)
  BY <1>0 DEF WriteCopy, CopyIn, Finish
<1> QED BY <1>1, <1>2, <1>3, <1>4, <1>5, <1>6, <1>7, <1>8, <1>9, <1>10, <1>11 DEF Next, Handler

(* What a handler found before a copy holds until the copy.                *)
LEMMA TargetsStep ==
  ASSUME Kept, Next
  PROVE  CopyTargetsValid'
<1>0. /\ pc \in [Procs -> Label] /\ found \in [Procs -> Location \cup {NotFound}]
      /\ kmem_buf \in [Procs -> Pointer] /\ circ_buf \in Ring(Pointer) /\ pos \in [Procs -> Nat]
  BY DEF Kept, TypeOK
<1>1. ASSUME NEW q \in Procs, pc'[q] = "copy_to_user"
      PROVE  LET entry == circ_buf'.entry[found'[q].index]
             IN  entry.buffptr \in live' /\ found'[q].offset < entry.size
  <2>1. CASE ReadFind(q)
    <3> DEFINE location == FindEntry(circ_buf, pos[q])
    <3>1. location # NotFound /\ found'[q] = location /\ circ_buf' = circ_buf /\ live' = live
      BY <1>0, <1>1, <2>1 DEF ReadFind, Finish, Goto, device
    <3>2. location \in Location /\ location.offset < circ_buf.entry[location.index].size
      BY <1>0, <3>1, FindEntryFindsByte
    <3> HIDE DEF location
    <3>3. circ_buf.entry[location.index].buffptr \in live
      <4>1. location.index \in Index /\ location.offset \in Nat
        BY <3>2 DEF Location
      <4>2. circ_buf.entry[location.index].size # 0
        BY <3>2, <4>1
      <4>3. circ_buf.entry[location.index].buffptr # NULL
        BY <4>1, <4>2 DEF Kept, RingInShape, RingShape
      <4> QED BY <4>1, <4>3, Ownership
    <3> QED BY <3>1, <3>2, <3>3
  <2>2. CASE /\ pc'[q] = pc[q] /\ found'[q] = found[q]
             /\ UNCHANGED <<circ_buf, partial_write, live>>
    BY <1>1, <2>2 DEF Kept, CopyTargetsValid
  <2> QED BY <1>1, <2>1, <2>2, CopySteps
<1>2. ASSUME NEW q \in Procs, pc'[q] = "copy_from_user"
      PROVE  /\ kmem_buf'[q] = partial_write'.buffptr
             /\ kmem_buf'[q] \in live' \cup {ZeroSizePtr}
  <2>1. CASE WriteReserve(q)
    <3>1. ~ReserveFails(q)
      BY <1>0, <1>2 DEF ReserveFails, Finish, Goto
    <3>2. PICK b \in Blocks \cup {ZeroSizePtr} :
            /\ \E prior : partial_write' = [buffptr |-> b, size |-> prior]
            /\ live' = (live \ {partial_write.buffptr}) \cup ({b} \cap Blocks)
            /\ kmem_buf' = [kmem_buf EXCEPT ![q] = b]
      BY <2>1, <3>1 DEF WriteReserve
    <3> QED BY <1>0, <3>2
  <2>2. CASE /\ pc'[q] = pc[q] /\ kmem_buf'[q] = kmem_buf[q]
             /\ UNCHANGED <<circ_buf, partial_write, live>>
    BY <1>2, <2>2 DEF Kept, CopyTargetsValid
  <2> QED BY <1>2, <2>1, <2>2, CopySteps
<1> QED BY <1>1, <1>2 DEF CopyTargetsValid

-----------------------------------------------------------------------------
(* Both parts of the invariant are inductive.                              *)
LEMMA KeptInductive ==
  ASSUME Kept, [Next]_vars
  PROVE  Kept' /\ Lost' = Lost /\ (MutualExclusion => MutualExclusion')
<1>1. CASE Next
  <2>1. TypeOK
    BY DEF Kept
  <2>2. TypeOK'
    <3>1. ASSUME NEW p \in Procs, Handler(p) PROVE TypeOK'
      BY <2>1, <3>1, ReadTypes, SeekTypes, ReserveTypes, CopyTypes DEF Handler
    <3> QED BY <1>1, <2>1, <3>1, SystemCallTypes, LockTypes DEF Next
  <2>3. BlocksKept' /\ Lost' = Lost
    <3>1. CASE UNCHANGED device
      BY <3>1 DEF Kept, BlocksKept, Lost, RingBlocks, PendingBlocks, Bytes, device
    <3> QED BY <1>1, <3>1, DeviceStep, ReserveOwned, CopyOwned
  <2> QED BY <1>1, <2>2, <2>3, MutexStep, RingShapeStep, TargetsStep DEF Kept
<1>2. CASE UNCHANGED vars
  BY <1>2 DEF vars, device, files, locals, Kept, TypeOK, StepOfCall, MutualExclusion, MutexKept,
              RingInShape, BlocksKept, Lost, RingBlocks, PendingBlocks, Bytes, CopyTargetsValid
<1> QED BY <1>1, <1>2

LEMMA Inductive ==
  ASSUME IInv, [Next]_vars
  PROVE  IInv'
<1>1. Kept /\ MutualExclusion /\ Lost = {}
  BY WholeIsKept DEF IInv
<1>2. Kept' /\ MutualExclusion' /\ Lost' = {}
  BY <1>1, KeptInductive
<1> QED BY <1>2 DEF IInv, Kept, HeapOwned, BlocksKept, Lost

(* The inductive invariant holds of the driver.                            *)
THEOREM Invariance == Spec => []IInv
<1>1. Init => IInv
  BY InitInv
<1>2. IInv /\ [Next]_vars => IInv'
  BY Inductive
<1> QED BY <1>1, <1>2, PTL DEF Spec

(* Every variable keeps its type, and every process is in a step of the    *)
(* handler it called.                                                      *)
THEOREM TypeCorrect == Spec => []TypeOK
<1>1. IInv => TypeOK
  BY DEF IInv
<1> QED BY <1>1, Invariance, PTL

(* The mutex of the device works: whoever is between mutex_lock and        *)
(* mutex_unlock holds it.                                                  *)
THEOREM Mutex == Spec => []MutualExclusion
<1>1. IInv => MutualExclusion
  BY DEF IInv
<1> QED BY <1>1, Invariance, PTL

(* No block is leaked, freed twice, or used after it was freed.            *)
THEOREM MemorySafety == Spec => []HeapOwned
<1>1. IInv => HeapOwned
  BY DEF IInv
<1> QED BY <1>1, Invariance, PTL

(* What a handler found under the mutex is still there when it copies.     *)
THEOREM CopyTargets == Spec => []CopyTargetsValid
<1>1. IInv => CopyTargetsValid
  BY DEF IInv
<1> QED BY <1>1, Invariance, PTL

(* The ring never loses its shape.                                         *)
THEOREM RingKeepsShape == Spec => []RingInShape
<1>1. IInv => RingInShape
  BY DEF IInv
<1> QED BY <1>1, Invariance, PTL

-----------------------------------------------------------------------------
(* A process in a handler stays in its call.                               *)
LEMMA CallGoesOn ==
  ASSUME TypeOK, NEW p \in Procs, Acquire(p) \/ Interrupted(p) \/ Handler(p)
  PROVE  /\ pc[p] \notin {"idle", "oops"}
         /\ opened' = opened /\ req' = req
         /\ \A q \in Procs : q # p => pc'[q] = pc[q]
<1> USE DEF TypeOK, files, locals, device, Goto, Finish
<1>1. CASE Acquire(p) \/ Interrupted(p)
  BY <1>1 DEF Acquire, Interrupted
<1>2. CASE ReadFind(p) \/ ReadCopy(p) \/ Oops(p)
  BY <1>2 DEF ReadFind, ReadCopy, Oops
<1>3. CASE WriteReserve(p)
  BY <1>3 DEF WriteReserve, ReserveFails
<1>4. CASE WriteCopy(p)
  BY <1>4 DEF WriteCopy, CopyIn
<1>5. CASE Seek(p) \/ IoctlCheck(p) \/ Adjust(p)
  BY <1>5 DEF Seek, IoctlCheck, Adjust
<1> QED BY <1>1, <1>2, <1>3, <1>4, <1>5 DEF Handler

(* A process moves to its return only by a step of its own.                *)
LEMMA FinishIsOwn ==
  ASSUME TypeOK, NEW p \in Procs, NEW q \in Procs, NEW v,
         Finish(q, v), pc[p] # "return", pc'[p] = "return"
  PROVE  p = q /\ ret'[p] = v
BY DEF TypeOK, Finish, Goto

(* A step that makes a call fail changes neither device nor position.      *)
LEMMA FailureStep ==
  ASSUME TypeOK, Next, NEW p \in Procs,
         pc[p] # "return", pc'[p] = "return", ret'[p] < 0
  PROVE  UNCHANGED <<device, f_pos>>
<1> USE DEF device, files, locals
<1>1. ASSUME NEW f \in Files, Open(f) PROVE FALSE
  BY <1>1 DEF Open
<1>2. ASSUME NEW f \in Files, Release(f) PROVE UNCHANGED <<device, f_pos>>
  BY <1>2 DEF Release
<1>3. ASSUME NEW q \in Procs, NEW r \in Requests, Call(q, r)
      PROVE  UNCHANGED <<device, f_pos>>
  BY <1>3 DEF Call
<1>4. ASSUME NEW q \in Procs,
             \/ Acquire(q) \/ Interrupted(q)
             \/ ReadFind(q) \/ ReadCopy(q) \/ Oops(q) \/ IoctlCheck(q)
      PROVE  UNCHANGED <<device, f_pos>>
  BY <1>4 DEF Acquire, Interrupted, ReadFind, ReadCopy, Oops, IoctlCheck
<1>5. ASSUME NEW q \in Procs, Return(q) PROVE FALSE
  BY <1>5 DEF Return, Goto, TypeOK
<1>6. ASSUME NEW q \in Procs, WriteReserve(q) PROVE UNCHANGED <<device, f_pos>>
  <2>1. ~Goto(q, "copy_from_user")
    BY DEF Goto, TypeOK
  <2> QED BY <1>6, <2>1 DEF WriteReserve, ReserveFails
<1>7. ASSUME NEW q \in Procs, WriteCopy(q) PROVE FALSE
  <2>1. PICK k \in Copied(Len(req[q].data)) : \E last \in LastByte(q, k) : CopyIn(q, k, last)
    BY <1>7 DEF WriteCopy
  <2>2. Finish(q, k) /\ k \in 0 .. Len(req[q].data)
    BY <2>1 DEF CopyIn, Copied
  <2>3. ret'[p] = k
    BY <2>2, FinishIsOwn
  <2> QED BY <2>2, <2>3
<1>8. ASSUME NEW q \in Procs, Seek(q) PROVE UNCHANGED <<device, f_pos>>
  <2> DEFINE f      == req[q].file
             size   == BufferSize(circ_buf)
             target == CASE req[q].whence = "SEEK_SET" -> req[q].offset
                         [] req[q].whence = "SEEK_CUR" -> f_pos[f] + req[q].offset
                         [] req[q].whence = "SEEK_END" -> size + req[q].offset
                         [] OTHER -> -1
             stay   == req[q].whence = "SEEK_CUR" /\ req[q].offset = 0
  <2>1. f \in Files /\ f_pos[f] \in Nat
    <3>1. req[q] \in Requests
      BY <1>8 DEF Seek, TypeOK, StepOfCall
    <3> QED BY <3>1, RequestKinds DEF TypeOK
  <2>2. size \in Nat
    BY BytesBeforeNat, MaxOpsAssumption DEF BufferSize, TypeOK
  <2>3. stay => target = f_pos[f]
    BY <2>1
  <2>4. \/ (stay \/ target \in 0 .. size) /\ Finish(q, target)
        \/ UNCHANGED f_pos
    BY <1>8 DEF Seek
  <2>5. UNCHANGED device
    BY <1>8 DEF Seek
  <2> HIDE DEF f, size, target, stay
  <2>6. (stay \/ target \in 0 .. size) => target \in Nat
    BY <2>1, <2>2, <2>3
  <2>7. ~((stay \/ target \in 0 .. size) /\ Finish(q, target))
    <3> SUFFICES ASSUME target \in Nat, Finish(q, target) PROVE FALSE
      BY <2>6
    <3>1. ret'[p] = target
      BY FinishIsOwn
    <3> QED BY <3>1
  <2> QED BY <2>4, <2>5, <2>7
<1>9. ASSUME NEW q \in Procs, Adjust(q) PROVE UNCHANGED <<device, f_pos>>
  <2>1. ~Finish(q, 0)
    BY FinishIsOwn
  <2> QED BY <1>9, <2>1 DEF Adjust
<1> QED BY <1>1, <1>2, <1>3, <1>4, <1>5, <1>6, <1>7, <1>8, <1>9 DEF Next, Handler

(***************************************************************************)
(* A call that returns an error, whatever the error, has changed nothing   *)
(* in the device and has not moved its file.                               *)
(***************************************************************************)
THEOREM NoTrace == Spec => FailureLeavesNoTrace
<1> DEFINE Step == \A p \in Procs :
              pc[p] # "return" /\ pc'[p] = "return" /\ ret'[p] < 0 =>
                UNCHANGED <<device, f_pos>>
<1>1. TypeOK /\ [Next]_vars => [Step]_vars
  <2>1. TypeOK /\ Next => Step
    BY FailureStep
  <2> QED BY <2>1
<1> QED BY <1>1, TypeCorrect, PTL DEF Spec, FailureLeavesNoTrace
-----------------------------------------------------------------------------
(* Copying in bytes that do not complete the command leaves a command that *)
(* does not end in a newline.                                              *)
LEMMA CopyKeepsOpen ==
  ASSUME IInv, PendingOpen, NEW p \in Procs, WriteCopy(p)
  PROVE  PendingOpen'
<1> DEFINE b == partial_write.buffptr
<1>1. /\ kmem_buf[p] = b /\ b \in Blocks /\ req[p].data \in Seq(Byte)
      /\ partial_write \in Entry(Pointer) /\ heap \in [Blocks -> Seq(Byte)]
  BY WholeIsKept, CopyBlock DEF IInv, TypeOK
<1>2. PICK k \in Copied(Len(req[p].data)) : \E last \in LastByte(p, k) : CopyIn(p, k, last)
  BY DEF WriteCopy
<1>3. PICK last \in LastByte(p, k) : CopyIn(p, k, last)
  BY <1>2
<1>4. k \in 0 .. Len(req[p].data)
  BY DEF Copied
<1>5. CASE partial_write' = EmptyEntry
  BY <1>5, PointersAssumption DEF PendingOpen, Bytes, EmptyEntry
<1>6. CASE /\ last # NewLine
           /\ partial_write' = [partial_write EXCEPT !.size = @ + k]
           /\ heap' = [heap EXCEPT ![b] = @ \o SubSeq(req[p].data, 1, k)]
  <2>1. partial_write'.buffptr = b
    BY <1>1, <1>6 DEF Entry
  <2>2. Bytes(partial_write)' = heap[b] \o SubSeq(req[p].data, 1, k)
    BY <1>1, <1>6, <2>1 DEF Bytes
  <2>3. CASE k = 0
    <3>1. Bytes(partial_write)' = heap[b]
      BY <1>1, <2>2, <2>3
    <3> QED BY <1>1, <3>1 DEF PendingOpen, Bytes
  <2>4. CASE k > 0
    <3> DEFINE d == SubSeq(req[p].data, 1, k)
               h == heap[b]
    <3>1. last = req[p].data[k]
      BY <1>3, <2>4 DEF LastByte
    <3>2. d \in Seq(Byte) /\ h \in Seq(Byte) /\ Len(d) = k /\ d[k] = req[p].data[k]
      BY <1>1, <1>4, <2>4
    <3> HIDE DEF d, h
    <3>3. (h \o d)[Len(h \o d)] = d[k] /\ Len(h \o d) = Len(h) + k
      BY <1>4, <2>4, <3>2
    <3>4. Bytes(partial_write)' = h \o d
      BY <2>2 DEF d, h
    <3> QED BY <1>6, <3>1, <3>2, <3>3, <3>4 DEF PendingOpen
  <2> QED BY <1>4, <2>3, <2>4
<1> QED BY <1>1, <1>3, <1>5, <1>6 DEF CopyIn, CompleteCommand

(* Moving the pending bytes to a larger block leaves them as they are.     *)
LEMMA ReserveKeepsOpen ==
  ASSUME IInv, PendingOpen, NEW p \in Procs, WriteReserve(p)
  PROVE  PendingOpen'
<1>1. CASE UNCHANGED <<partial_write, heap>>
  BY <1>1 DEF PendingOpen, Bytes
<1>2. ASSUME NEW b, NEW n,
             heap' = [c \in Blocks |-> IF c = b THEN Bytes(partial_write)
                                       ELSE IF c = partial_write.buffptr THEN <<>>
                                       ELSE heap[c]],
             partial_write' = [buffptr |-> b, size |-> n]
      PROVE  PendingOpen'
  <2>1. Bytes(partial_write)' = IF b \in Blocks THEN Bytes(partial_write) ELSE <<>>
    BY <1>2 DEF Bytes
  <2> QED BY <2>1 DEF PendingOpen
<1> QED BY <1>1, <1>2 DEF WriteReserve, ReserveFails

(***************************************************************************)
(* The pending command never ends in a newline: a write that copies        *)
(* nothing cannot complete a command that has bytes.                       *)
(***************************************************************************)
THEOREM PendingStaysOpen == Spec => []PendingOpen
<1>1. Init => PendingOpen
  BY PointersAssumption DEF Init, PendingOpen, Bytes, EmptyEntry
<1>2. ASSUME IInv, PendingOpen, [Next]_vars PROVE PendingOpen'
  <2>1. CASE UNCHANGED device
    BY <1>2, <2>1 DEF PendingOpen, Bytes, device
  <2>2. CASE Next
    BY <1>2, <2>1, <2>2, DeviceStep, CopyKeepsOpen, ReserveKeepsOpen
  <2> QED BY <1>2, <2>1, <2>2 DEF vars
<1> QED BY <1>1, <1>2, Invariance, PTL DEF Spec

-----------------------------------------------------------------------------
(* Bytes and Commands as functions of the heap and the ring they look at.  *)
BytesIn(h, e) == IF e.buffptr \in Blocks THEN h[e.buffptr] ELSE <<>>

CommandsIn(h, cb) == [k \in 1 .. Count(cb) |-> BytesIn(h, Nth(cb, k - 1))]

Heaps == [Blocks -> Seq(Byte)]

LEMMA CommandsInType ==
  ASSUME NEW h \in Heaps, NEW cb \in Ring(Pointer), RingShape(cb)
  PROVE  /\ CommandsIn(h, cb) \in Seq(Seq(Byte))
         /\ Len(CommandsIn(h, cb)) = Count(cb)
         /\ Count(cb) \in 0 .. MaxOps
<1>1. Count(cb) \in 0 .. MaxOps
  BY MaxOpsAssumption DEF Count, Ring, Index
<1>2. \A k \in 1 .. Count(cb) : BytesIn(h, Nth(cb, k - 1)) \in Seq(Byte)
  BY DEF BytesIn, Heaps
<1> QED BY <1>1, <1>2, MaxOpsAssumption DEF CommandsIn

(* If add_entry leaves the bytes of the other entries alone, the commands  *)
(* become what the log keeps when one more command is complete.            *)
LEMMA CommandsAfterAdd ==
  ASSUME NEW cb \in Ring(Pointer), NEW e \in Entry(Pointer), RingShape(cb), e.buffptr # NULL,
         NEW h \in Heaps, NEW g \in Heaps,
         \A i \in Index \ {cb.in_offs} : BytesIn(g, cb.entry[i]) = BytesIn(h, cb.entry[i])
  PROVE  CommandsIn(g, AddEntry(cb, e)) = Log!Keep(CommandsIn(h, cb), BytesIn(g, e))
<1> DEFINE new  == AddEntry(cb, e)
           gone == IF cb.full THEN 1 ELSE 0
           old  == CommandsIn(h, cb)
           log  == CommandsIn(g, new)
           rest == IF Len(old) = MaxOps THEN Tail(old) ELSE old
           c    == BytesIn(g, e)
<1>1. new \in Ring(Pointer) /\ RingShape(new)
  BY AddEntryType, AddEntryShape
<1>2. /\ Count(cb) \in 0 .. MaxOps
      /\ Count(cb) = MaxOps <=> cb.full
      /\ Count(new) = Count(cb) + 1 - gone
      /\ Nth(new, Count(new) - 1) = e
      /\ \A k \in 0 .. Count(new) - 2 :
           \E i \in Index \ {cb.in_offs} :
             Nth(new, k) = cb.entry[i] /\ Nth(cb, k + gone) = cb.entry[i]
  BY VisitedAfterAdd
<1> HIDE DEF new
<1>3. /\ old \in Seq(Seq(Byte)) /\ Len(old) = Count(cb)
      /\ log \in Seq(Seq(Byte)) /\ Len(log) = Count(new)
  BY <1>1, CommandsInType
<1>4. c \in Seq(Byte)
  BY DEF BytesIn, Heaps
<1>5. \A k \in 1 .. Count(cb) : old[k] = BytesIn(h, Nth(cb, k - 1))
  BY DEF CommandsIn
<1>6. \A k \in 1 .. Count(new) : log[k] = BytesIn(g, Nth(new, k - 1))
  BY DEF CommandsIn
<1> HIDE DEF old, log, c
<1>7. /\ rest \in Seq(Seq(Byte)) /\ Len(rest) = Count(new) - 1
      /\ \A k \in 1 .. Len(rest) : rest[k] = old[k + gone]
  BY <1>2, <1>3, MaxOpsAssumption
<1> HIDE DEF rest
<1>8. Count(new) \in Nat
  BY <1>3
<1>9. \A k \in 1 .. Count(new) - 1 : log[k] = rest[k]
  <2> SUFFICES ASSUME NEW k \in 1 .. Count(new) - 1 PROVE log[k] = rest[k]
    OBVIOUS
  <2>1. k - 1 \in 0 .. Count(new) - 2 /\ k \in 1 .. Count(new) /\ k \in 1 .. Len(rest)
    BY <1>7, <1>8
  <2>2. PICK i \in Index \ {cb.in_offs} :
               Nth(new, k - 1) = cb.entry[i] /\ Nth(cb, (k - 1) + gone) = cb.entry[i]
    BY <1>2, <2>1
  <2>3. k + gone \in 1 .. Count(cb) /\ (k + gone) - 1 = (k - 1) + gone
    BY <1>2, <2>1
  <2>4. old[k + gone] = BytesIn(h, cb.entry[i])
    BY <1>5, <2>2, <2>3
  <2>5. log[k] = BytesIn(g, cb.entry[i])
    BY <1>6, <2>1, <2>2
  <2> QED BY <1>7, <2>1, <2>4, <2>5
<1>10. log[Count(new)] = c /\ Count(new) \in 1 .. Count(new)
  <2>1. Count(new) \in 1 .. Count(new)
    BY <1>7, <1>8
  <2> QED BY <1>2, <1>6, <2>1 DEF c
<1>11. log = Append(rest, c)
  <2>1. Append(rest, c) \in Seq(Seq(Byte)) /\ Len(Append(rest, c)) = Count(new)
    BY <1>4, <1>7, <1>8
  <2>2. \A k \in 1 .. Count(new) : Append(rest, c)[k] = log[k]
    BY <1>4, <1>7, <1>8, <1>9, <1>10
  <2> HIDE DEF c
  <2> QED BY <1>3, <2>1, <2>2, SeqEqual
<1> QED BY <1>11 DEF rest, Log!Keep, old, log, c, new
-----------------------------------------------------------------------------
(***************************************************************************)
(* What carries the refinement besides IInv: a write that goes on to its   *)
(* copy with a block of its own has something to copy or to complete.      *)
(***************************************************************************)
CopyHasBytes ==
  \A p \in Procs :
    pc[p] = "copy_from_user" /\ kmem_buf[p] \in Blocks =>
      partial_write.size + Len(req[p].data) > 0

(* A process in its copy keeps its request and its position until it has   *)
(* copied.                                                                 *)
LEMMA CopyKeepsCall ==
  ASSUME IInv, Next, NEW q \in Procs,
         pc[q] \in {"copy_to_user", "copy_from_user"}, pc'[q] = pc[q]
  PROVE  req'[q] = req[q] /\ pos'[q] = pos[q]
<1> DEFINE Keeps == req'[q] = req[q] /\ pos'[q] = pos[q]
<1> USE DEF IInv, TypeOK, files, locals, device, Goto, Finish
<1>1. ASSUME NEW p \in Procs, NEW r \in Requests, Call(p, r) PROVE Keeps
  BY <1>1 DEF Call
<1>2. ASSUME NEW p \in Procs, Return(p) PROVE Keeps
  BY <1>2 DEF Return
<1>3. ASSUME NEW f \in Files, Open(f) \/ Release(f) PROVE Keeps
  BY <1>3 DEF Open, Release
<1>4. ASSUME NEW p \in Procs,
             \/ Acquire(p) \/ Interrupted(p) \/ ReadFind(p) \/ WriteReserve(p) \/ Oops(p)
             \/ Seek(p) \/ IoctlCheck(p) \/ Adjust(p)
      PROVE  Keeps
  BY <1>4 DEF Acquire, Interrupted, ReadFind, WriteReserve, Oops, Seek, IoctlCheck, Adjust
<1>5. ASSUME NEW p \in Procs, ReadCopy(p) \/ WriteCopy(p) PROVE Keeps
  BY <1>5, ZenonT(40) DEF ReadCopy, WriteCopy, CopyIn
<1> QED BY <1>1, <1>2, <1>3, <1>4, <1>5 DEF Next, Handler

LEMMA CopyHasBytesStep ==
  ASSUME IInv, CopyHasBytes, [Next]_vars
  PROVE  CopyHasBytes'
<1>1. CASE UNCHANGED vars
  BY <1>1 DEF vars, device, locals, CopyHasBytes
<1> SUFFICES ASSUME Next, NEW q \in Procs, pc'[q] = "copy_from_user", kmem_buf'[q] \in Blocks
             PROVE  partial_write'.size + Len(req'[q].data) > 0
  BY <1>1 DEF CopyHasBytes
<1>2. CASE WriteReserve(q)
  <2> DEFINE prior == IF partial_write.buffptr = NULL THEN 0 ELSE partial_write.size
             count == Len(req[q].data)
  <2>1. ~Finish(q, -ENOMEM) /\ req' = req
    BY <1>2 DEF WriteReserve, Finish, Goto, IInv, TypeOK
  <2>2. PICK b \in IF count + prior = 0 THEN {ZeroSizePtr} ELSE Blocks \ live :
               /\ partial_write' = [buffptr |-> b, size |-> prior]
               /\ kmem_buf' = [kmem_buf EXCEPT ![q] = b]
    BY <1>2, <2>1 DEF WriteReserve, ReserveFails
  <2>3. kmem_buf'[q] = b
    BY <2>2 DEF IInv, TypeOK
  <2>4. count \in Nat /\ prior \in Nat
    <3>1. req[q] \in Requests /\ req[q].op = "write"
      BY <1>2 DEF WriteReserve, IInv, TypeOK, StepOfCall
    <3>2. req[q].data \in Seq(Byte)
      BY <3>1, RequestKinds
    <3> QED BY <3>2 DEF IInv, TypeOK, Entry
  <2>5. count + prior # 0
    BY <2>2, <2>3, PointersAssumption
  <2> HIDE DEF prior, count
  <2>6. partial_write'.size + count > 0
    BY <2>2, <2>4, <2>5
  <2> QED BY <2>1, <2>6 DEF count
<1>3. CASE /\ pc'[q] = pc[q] /\ kmem_buf'[q] = kmem_buf[q]
           /\ UNCHANGED partial_write
  <2>1. req'[q] = req[q]
    BY <1>3, CopyKeepsCall
  <2> QED BY <1>3, <2>1 DEF CopyHasBytes
<1> QED BY <1>2, <1>3, WholeIsKept, CopySteps

-----------------------------------------------------------------------------
(* Moving the pending bytes to a larger block is a stutter of the log.     *)
LEMMA ReserveStutters ==
  ASSUME IInv, NEW p \in Procs, WriteReserve(p)
  PROVE  UNCHANGED <<Commands, Bytes(partial_write)>>
<1>1. CASE UNCHANGED <<circ_buf, partial_write, heap>>
  BY <1>1 DEF Commands, Bytes
<1> DEFINE prior == IF partial_write.buffptr = NULL THEN 0 ELSE partial_write.size
           count == Len(req[p].data)
<1>2. ASSUME NEW b \in IF count + prior = 0 THEN {ZeroSizePtr} ELSE Blocks \ live,
             heap' = [c \in Blocks |-> IF c = b THEN Bytes(partial_write)
                                       ELSE IF c = partial_write.buffptr THEN <<>>
                                       ELSE heap[c]],
             partial_write' = [buffptr |-> b, size |-> prior],
             UNCHANGED circ_buf
      PROVE  UNCHANGED <<Commands, Bytes(partial_write)>>
  <2>1. Bytes(partial_write)' = IF b \in Blocks THEN Bytes(partial_write) ELSE <<>>
    BY <1>2 DEF Bytes
  <2>2. b \notin Blocks => Bytes(partial_write) = <<>>
    <3> SUFFICES ASSUME b \notin Blocks PROVE Bytes(partial_write) = <<>>
      OBVIOUS
    <3>1. count \in Nat /\ partial_write.size \in Nat /\ count + prior = 0
      <4>1. req[p] \in Requests /\ req[p].op = "write"
        BY DEF WriteReserve, IInv, TypeOK, StepOfCall
      <4>2. req[p].data \in Seq(Byte)
        BY <4>1, RequestKinds
      <4> QED BY <1>2, <4>2 DEF IInv, TypeOK, Entry
    <3>2. prior = 0
      BY <3>1
    <3>3. CASE partial_write.buffptr = NULL
      BY <3>3, PointersAssumption DEF Bytes
    <3>4. CASE partial_write.buffptr # NULL
      <4>1. Len(Bytes(partial_write)) = 0 /\ Bytes(partial_write) \in Seq(Byte)
        BY <3>2, <3>4, BytesType DEF IInv, HeapOwned, TypeOK
      <4> QED BY <4>1
    <3> QED BY <3>3, <3>4
  <2>3. \A i \in Index : Bytes(circ_buf.entry[i])' = Bytes(circ_buf.entry[i])
    <3> SUFFICES ASSUME NEW i \in Index, circ_buf.entry[i].buffptr \in Blocks
                 PROVE  heap'[circ_buf.entry[i].buffptr] = heap[circ_buf.entry[i].buffptr]
      BY <1>2 DEF Bytes
    <3> DEFINE c == circ_buf.entry[i].buffptr
    <3>1. c \in live /\ c # partial_write.buffptr
      BY PointersAssumption DEF IInv, HeapOwned, RingBlocks, PendingBlocks
    <3>2. c # b
      BY <1>2, <3>1, PointersAssumption
    <3> QED BY <1>2, <3>1, <3>2
  <2>4. UNCHANGED Commands
    <3>1. \A k \in 1 .. Count(circ_buf) : (circ_buf.out_offs + (k - 1)) % MaxOps \in Index
      <4>1. Count(circ_buf) \in 0 .. MaxOps /\ circ_buf.out_offs \in Index
        BY MaxOpsAssumption DEF IInv, TypeOK, Count, Ring, Index
      <4>2. \A k \in 1 .. Count(circ_buf) : k - 1 \in Index
        BY <4>1, MaxOpsAssumption DEF Index
      <4> QED BY <4>1, <4>2, NthIndex
    <3> QED BY <1>2, <2>3, <3>1 DEF Commands, Nth
  <2> QED BY <2>1, <2>2, <2>4
<1> QED BY <1>1, <1>2 DEF WriteReserve, ReserveFails

(* The second half of a write appends what it copied to the pending bytes, *)
(* and completes the command with them if it takes the last byte for a     *)
(* newline.                                                                *)
LEMMA CopyIsWrite ==
  ASSUME IInv, NEW p \in Procs, WriteCopy(p)
  PROVE  \E k \in Copied(Len(req[p].data)) : \E last \in LastByte(p, k) :
           LET bytes == Bytes(partial_write) \o SubSeq(req[p].data, 1, k)
           IN  /\ \/ /\ last = NewLine
                     /\ Commands' = Log!Keep(Commands, bytes)
                     /\ Bytes(partial_write)' = <<>>
                  \/ /\ last # NewLine
                     /\ Commands' = Commands
                     /\ Bytes(partial_write)' = bytes
               /\ pc'[p] = "return" /\ ret'[p] = k
<1> DEFINE b   == partial_write.buffptr
           old == circ_buf.entry[circ_buf.in_offs].buffptr
<1>0. /\ partial_write \in Entry(Pointer) /\ circ_buf \in Ring(Pointer)
      /\ heap \in Heaps /\ RingShape(circ_buf)
      /\ circ_buf.in_offs \in Index
  BY DEF IInv, TypeOK, RingInShape, Ring, Heaps
<1>1. b \in live /\ b \in Blocks /\ b # NULL /\ req[p].data \in Seq(Byte) /\ kmem_buf[p] = b
  BY WholeIsKept, CopyBlock
<1>2. PICK k \in Copied(Len(req[p].data)) : \E last \in LastByte(p, k) : CopyIn(p, k, last)
  BY DEF WriteCopy
<1>3. PICK last \in LastByte(p, k) : CopyIn(p, k, last)
  BY <1>2
<1>4. k \in 0 .. Len(req[p].data)
  BY DEF Copied
<1> DEFINE bytes    == Bytes(partial_write) \o SubSeq(req[p].data, 1, k)
           contents == [heap EXCEPT ![b] = @ \o SubSeq(req[p].data, 1, k)]
           pending  == [partial_write EXCEPT !.size = @ + k]
<1>5. /\ contents \in Heaps /\ contents[b] = bytes
      /\ \A c \in Blocks : c # b => contents[c] = heap[c]
  <2>1. SubSeq(req[p].data, 1, k) \in Seq(Byte)
    BY <1>1, <1>4, SubSeqType
  <2>2. heap[b] \in Seq(Byte) /\ Bytes(partial_write) = heap[b]
    BY <1>0, <1>1 DEF Heaps, Bytes
  <2> QED BY <1>0, <1>1, <2>1, <2>2 DEF Heaps
<1>6. pending \in Entry(Pointer) /\ pending.buffptr = b
  BY <1>0, <1>4 DEF Entry
<1>7. \A i \in Index : circ_buf.entry[i].buffptr # b
  <2>1. b \in PendingBlocks
    BY <1>1, PointersAssumption DEF PendingBlocks
  <2>2. b \notin RingBlocks
    BY <2>1 DEF IInv, HeapOwned
  <2> QED BY <1>1, <2>2 DEF RingBlocks
<1>8. PushedOut(circ_buf) = old
  BY <1>0, PushedOutIsReplaced
<1>9. \/ last = NewLine /\ CompleteCommand(pending, contents)
      \/ last # NewLine /\ partial_write' = pending /\ heap' = contents /\ UNCHANGED circ_buf
  BY <1>1, <1>3 DEF CopyIn
<1> HIDE DEF contents, pending, bytes
<1>10. Commands = CommandsIn(heap, circ_buf)
  BY DEF Commands, CommandsIn, Bytes, BytesIn
<1>11. Commands' = CommandsIn(heap', circ_buf')
  BY DEF Commands, CommandsIn, Bytes, BytesIn
<1>12. pc'[p] = "return" /\ ret'[p] = k
  BY <1>3 DEF CopyIn, Finish, Goto, IInv, TypeOK
<1>13. CASE last = NewLine /\ CompleteCommand(pending, contents)
  <2>1. /\ circ_buf' = AddEntry(circ_buf, pending)
        /\ heap' = [c \in Blocks |-> IF c = old THEN <<>> ELSE contents[c]]
        /\ partial_write' = EmptyEntry
    BY <1>8, <1>13 DEF CompleteCommand
  <2>2. heap' \in Heaps
    <3>1. <<>> \in Seq(Byte)
      OBVIOUS
    <3> QED BY <1>5, <2>1, <3>1 DEF Heaps
  <2>3. \A i \in Index \ {circ_buf.in_offs} :
          BytesIn(heap', circ_buf.entry[i]) = BytesIn(heap, circ_buf.entry[i])
    <3> SUFFICES ASSUME NEW i \in Index \ {circ_buf.in_offs}, circ_buf.entry[i].buffptr \in Blocks
                 PROVE  heap'[circ_buf.entry[i].buffptr] = heap[circ_buf.entry[i].buffptr]
      BY DEF BytesIn
    <3>1. circ_buf.entry[i].buffptr # old
      BY <1>0, PointersAssumption DEF IInv, HeapOwned
    <3> QED BY <1>5, <1>7, <2>1, <3>1
  <2>4. BytesIn(heap', pending) = bytes
    <3>1. b # old
      BY <1>0, <1>7
    <3> QED BY <1>1, <1>5, <1>6, <2>1, <3>1 DEF BytesIn
  <2>5. Commands' = Log!Keep(Commands, bytes)
    BY <1>0, <1>1, <1>6, <1>10, <1>11, <2>1, <2>2, <2>3, <2>4, CommandsAfterAdd
  <2>6. Bytes(partial_write)' = <<>>
    BY <2>1, PointersAssumption DEF Bytes, EmptyEntry
  <2> QED BY <1>12, <1>13, <2>5, <2>6 DEF bytes
<1>14. CASE last # NewLine /\ partial_write' = pending /\ heap' = contents /\ UNCHANGED circ_buf
  <2>1. \A i \in Index : BytesIn(heap', circ_buf.entry[i]) = BytesIn(heap, circ_buf.entry[i])
    BY <1>5, <1>7, <1>14 DEF BytesIn
  <2>2. \A k0 \in 1 .. Count(circ_buf) : (circ_buf.out_offs + (k0 - 1)) % MaxOps \in Index
    <3>1. Count(circ_buf) \in 0 .. MaxOps /\ circ_buf.out_offs \in Index
      BY <1>0, MaxOpsAssumption DEF Count, Ring, Index
    <3>2. \A k0 \in 1 .. Count(circ_buf) : k0 - 1 \in Index
      BY <3>1, MaxOpsAssumption DEF Index
    <3> QED BY <3>1, <3>2, NthIndex
  <2>3. Commands' = Commands
    BY <1>10, <1>11, <1>14, <2>1, <2>2 DEF CommandsIn, Nth
  <2>4. Bytes(partial_write)' = bytes
    BY <1>1, <1>5, <1>6, <1>14 DEF Bytes
  <2> QED BY <1>12, <1>14, <2>3, <2>4 DEF bytes
<1> QED BY <1>9, <1>13, <1>14

LogStepOrStutter ==
  \/ Log!LogNext
  \/ CopyFaulted /\ Log!AddEmpty
  \/ UNCHANGED <<Commands, Bytes(partial_write)>>

(* A write that copies nothing looks at the last pending byte, which is no *)
(* newline, and changes nothing; or nothing is pending, and then its copy  *)
(* faulted and it may add an empty command.  Any other write delivers what *)
(* it copied.                                                              *)
LEMMA WriteStep ==
  ASSUME IInv, PendingOpen, CopyHasBytes, NEW p \in Procs, WriteCopy(p)
  PROVE  LogStepOrStutter
<1>1. /\ Bytes(partial_write) = heap[kmem_buf[p]] /\ heap[kmem_buf[p]] \in Seq(Byte)
      /\ partial_write.size = Len(Bytes(partial_write))
      /\ kmem_buf[p] \in Blocks /\ req[p].data \in Seq(Byte)
  BY WholeIsKept, CopyBlock DEF Bytes, IInv, TypeOK, HeapOwned
<1>2. req[p] \in Requests /\ req[p].op = "write" /\ pc[p] = "copy_from_user"
  BY DEF WriteCopy, IInv, TypeOK, StepOfCall
<1> DEFINE Effect(n, last) ==
             LET bytes == Bytes(partial_write) \o SubSeq(req[p].data, 1, n)
             IN  /\ \/ /\ last = NewLine
                       /\ Commands' = Log!Keep(Commands, bytes)
                       /\ Bytes(partial_write)' = <<>>
                    \/ /\ last # NewLine
                       /\ Commands' = Commands
                       /\ Bytes(partial_write)' = bytes
                 /\ pc'[p] = "return" /\ ret'[p] = n
<1>0. PICK k \in Copied(Len(req[p].data)) : \E last \in LastByte(p, k) : Effect(k, last)
  BY CopyIsWrite
<1>3. PICK last \in LastByte(p, k) : Effect(k, last)
  BY <1>0
<1>4. k \in 0 .. Len(req[p].data)
  BY DEF Copied
<1>5. CASE k = 0
  <2>1. Bytes(partial_write) \o SubSeq(req[p].data, 1, k) = Bytes(partial_write)
    BY <1>1, <1>5
  <2>2. CASE Len(Bytes(partial_write)) > 0
    <3>1. last = heap[kmem_buf[p]][partial_write.size]
      BY <1>1, <1>3, <1>5, <2>2 DEF LastByte
    <3>2. last # NewLine
      BY <1>1, <2>2, <3>1 DEF PendingOpen
    <3> QED BY <1>3, <2>1, <3>2 DEF LogStepOrStutter
  <2>3. CASE Bytes(partial_write) = <<>>
    <3>1. CopyFaulted
      <4>1. partial_write.size + Len(req[p].data) > 0 /\ partial_write.size = 0
        BY <1>1, <1>2, <2>3 DEF CopyHasBytes
      <4>2. req[p].data # <<>>
        BY <1>1, <4>1
      <4> QED BY <1>2, <1>3, <1>5, <4>2 DEF CopyFaulted
    <3>2. Log!AddEmpty \/ UNCHANGED <<Commands, Bytes(partial_write)>>
      BY <1>3, <2>1, <2>3 DEF Log!AddEmpty
    <3> QED BY <3>1, <3>2 DEF LogStepOrStutter
  <2>4. Len(Bytes(partial_write)) > 0 \/ Bytes(partial_write) = <<>>
    BY <1>1
  <2> QED BY <2>2, <2>3, <2>4
<1>6. CASE k > 0
  <2> DEFINE d == SubSeq(req[p].data, 1, k)
  <2>1. d[Len(d)] = req[p].data[k]
    BY <1>1, <1>4, <1>6
  <2>2. last = req[p].data[k]
    BY <1>3, <1>6 DEF LastByte
  <2>3. d \in UNION {{SubSeq(r.data, 1, n) : n \in 1 .. Len(r.data)} :
                      r \in {r \in Requests : r.op = "write"}}
    <3>1. k \in 1 .. Len(req[p].data)
      BY <1>1, <1>4, <1>6
    <3> QED BY <1>2, <3>1
  <2> HIDE DEF d
  <2>4. Log!Extend(d) \/ Log!Complete(d)
    BY <1>3, <2>1, <2>2 DEF Log!Extend, Log!Complete, d
  <2> QED BY <2>3, <2>4 DEF Log!LogNext, LogStepOrStutter
<1> QED BY <1>4, <1>5, <1>6

(* Every step of the driver is a step of the log, a stutter of it, or a    *)
(* write of nothing that adds an empty command.                            *)
LEMMA LogStep ==
  ASSUME IInv, PendingOpen, CopyHasBytes, [Next]_vars
  PROVE  LogStepOrStutter
<1>1. CASE UNCHANGED device
  BY <1>1 DEF device, Commands, Bytes, LogStepOrStutter
<1>2. ASSUME NEW p \in Procs, WriteReserve(p) PROVE LogStepOrStutter
  BY <1>2, ReserveStutters DEF LogStepOrStutter
<1>3. ASSUME NEW p \in Procs, WriteCopy(p) PROVE LogStepOrStutter
  BY <1>3, WriteStep
<1>4. UNCHANGED vars => UNCHANGED device
  BY DEF vars
<1> QED BY <1>1, <1>2, <1>3, <1>4, DeviceStep

LEMMA LogInitially == Init => Log!LogInit /\ CopyHasBytes
BY MaxOpsAssumption, PointersAssumption
   DEF Init, Log!LogInit, Commands, Count, EmptyRing, Bytes, EmptyEntry, CopyHasBytes

LEMMA CopyHasBytesAlways == Spec => []CopyHasBytes
BY LogInitially, CopyHasBytesStep, Invariance, PTL DEF Spec

(***************************************************************************)
(* The driver is the log of commands its users see, for every capacity of  *)
(* the ring, every number of processes and every interleaving of their     *)
(* calls, but for the empty command a write may add whose copy faults      *)
(* before its first byte (main.c:187-207).                                 *)
(***************************************************************************)
THEOREM Implements == Spec => ImplementsLog
<1>1. IInv /\ PendingOpen /\ CopyHasBytes /\ [Next]_vars
        => [Log!LogNext \/ (CopyFaulted /\ Log!AddEmpty)]_(Log!logvars)
  BY LogStep DEF LogStepOrStutter, Log!logvars
<1> QED BY <1>1, LogInitially, CopyHasBytesAlways, Invariance, PendingStaysOpen, PTL
        DEF Spec, ImplementsLog
-----------------------------------------------------------------------------
(* What one write delivers is a non-empty byte string.                     *)
LEMMA ChunkType ==
  ASSUME NEW d \in UNION {{SubSeq(r.data, 1, n) : n \in 1 .. Len(r.data)} :
                           r \in {r \in Requests : r.op = "write"}}
  PROVE  d \in Seq(Byte) /\ Len(d) > 0
<1>1. PICK r \in Requests : r.op = "write" /\ d \in {SubSeq(r.data, 1, n) : n \in 1 .. Len(r.data)}
  OBVIOUS
<1>2. r.data \in Seq(Byte)
  BY <1>1, RequestKinds
<1>3. PICK n \in 1 .. Len(r.data) : d = SubSeq(r.data, 1, n)
  BY <1>1
<1>4. n \in 0 .. Len(r.data) /\ n > 0
  BY <1>2
<1> QED BY <1>2, <1>3, <1>4, SubSeqType

(* A command that is empty or ends in a newline joins others of the kind.  *)
LEMMA NoOpenCommandAdded ==
  ASSUME IInv, NoOpenCommand, NEW c \in Seq(Byte), c = <<>> \/ EndsInNewLine(c),
         Commands' = Log!Keep(Commands, c)
  PROVE  NoOpenCommand'
<1> DEFINE rest == IF Len(Commands) = MaxOps THEN Tail(Commands) ELSE Commands
           Shut(d) == d = <<>> \/ EndsInNewLine(d)
<1>1. Commands \in Seq(Seq(Byte))
  <2>1. Commands = CommandsIn(heap, circ_buf)
    BY DEF Commands, CommandsIn, Bytes, BytesIn
  <2> QED BY <2>1, CommandsInType DEF IInv, TypeOK, RingInShape, Heaps
<1>2. Commands' = Append(rest, c)
  BY DEF Log!Keep
<1>3. /\ rest \in Seq(Seq(Byte))
      /\ \A k \in 1 .. Len(rest) : \E j \in 1 .. Len(Commands) : rest[k] = Commands[j]
  <2>1. CASE Len(Commands) = MaxOps
    <3>1. rest = Tail(Commands) /\ Len(Commands) > 0
      BY <2>1, MaxOpsAssumption
    <3>2. Len(rest) = Len(Commands) - 1 /\ rest \in Seq(Seq(Byte))
      BY <1>1, <3>1
    <3>3. \A k \in 1 .. Len(rest) : rest[k] = Commands[k + 1] /\ k + 1 \in 1 .. Len(Commands)
      BY <1>1, <3>1, <3>2
    <3> QED BY <3>2, <3>3
  <2>2. CASE Len(Commands) # MaxOps
    BY <1>1, <2>2
  <2> QED BY <2>1, <2>2
<1> HIDE DEF rest
<1>4. \A k \in 1 .. Len(rest) : Shut(rest[k])
  <2> TAKE k \in 1 .. Len(rest)
  <2>1. PICK j \in 1 .. Len(Commands) : rest[k] = Commands[j]
    BY <1>3
  <2>2. j \in DOMAIN Commands
    BY <1>1
  <2> QED BY <2>1, <2>2 DEF NoOpenCommand
<1>5. /\ DOMAIN Append(rest, c) = 1 .. Len(rest) + 1
      /\ \A k \in 1 .. Len(rest) : Append(rest, c)[k] = rest[k]
      /\ Append(rest, c)[Len(rest) + 1] = c
  BY <1>3
<1>6. \A k \in DOMAIN Append(rest, c) : Shut(Append(rest, c)[k])
  <2> TAKE k \in DOMAIN Append(rest, c)
  <2>1. k \in 1 .. Len(rest) \/ k = Len(rest) + 1
    BY <1>3, <1>5
  <2> QED BY <1>4, <1>5, <2>1
<1> QED BY <1>2, <1>6 DEF NoOpenCommand, EndsInNewLine

(* A step of the log, or one that adds an empty command, is such an        *)
(* addition or leaves the commands as they are.                            *)
LEMMA NoOpenCommandStep ==
  ASSUME IInv, NoOpenCommand, LogStepOrStutter
  PROVE  NoOpenCommand'
<1>1. CASE Commands' = Commands
  BY <1>1 DEF NoOpenCommand, EndsInNewLine
<1>2. ASSUME NEW d \in UNION {{SubSeq(r.data, 1, n) : n \in 1 .. Len(r.data)} :
                               r \in {r \in Requests : r.op = "write"}},
             Log!Complete(d)
      PROVE  NoOpenCommand'
  <2> DEFINE c == Bytes(partial_write) \o d
  <2>1. d \in Seq(Byte) /\ Len(d) > 0
    BY ChunkType
  <2>2. Bytes(partial_write) \in Seq(Byte)
    BY BytesType DEF IInv, TypeOK
  <2>3. c # <<>> /\ c[Len(c)] = NewLine /\ c \in Seq(Byte)
    <3>1. d[Len(d)] = NewLine
      BY <1>2 DEF Log!Complete
    <3> QED BY <2>1, <2>2, <3>1
  <2>4. Commands' = Log!Keep(Commands, c)
    BY <1>2 DEF Log!Complete
  <2> HIDE DEF c
  <2>5. EndsInNewLine(c)
    BY <2>3 DEF EndsInNewLine
  <2> QED BY <2>3, <2>4, <2>5, NoOpenCommandAdded
<1>3. CASE Log!AddEmpty
  <2>1. <<>> \in Seq(Byte)
    OBVIOUS
  <2>2. Commands' = Log!Keep(Commands, <<>>)
    BY <1>3 DEF Log!AddEmpty
  <2> QED BY <2>1, <2>2, NoOpenCommandAdded
<1>4. ASSUME NEW d, Log!Extend(d) PROVE Commands' = Commands
  BY <1>4 DEF Log!Extend
<1> QED BY <1>1, <1>2, <1>3, <1>4 DEF LogStepOrStutter, Log!LogNext

(***************************************************************************)
(* Every complete command that has bytes ends in a newline, over evictions *)
(* and commands that grew with many writes, whatever was copied of each    *)
(* (main.c:189-201).                                                       *)
(***************************************************************************)
THEOREM NoneOpen == Spec => []NoOpenCommand
<1>1. Init => NoOpenCommand
  BY MaxOpsAssumption DEF Init, NoOpenCommand, Commands, Count, EmptyRing
<1>2. IInv /\ PendingOpen /\ CopyHasBytes /\ NoOpenCommand /\ [Next]_vars => NoOpenCommand'
  BY LogStep, NoOpenCommandStep
<1> QED BY <1>1, <1>2, CopyHasBytesAlways, Invariance, PendingStaysOpen, PTL DEF Spec

-----------------------------------------------------------------------------
(***************************************************************************)
(* What carries the exactness of reads besides IInv: between its two       *)
(* halves, a read has what the walk finds for its position, and the user's *)
(* buffer is filled by the copy alone.                                     *)
(***************************************************************************)
ReadView ==
  \A p \in Procs :
    /\ pc[p] # "return" => ubuf[p] = <<>>
    /\ pc[p] = "copy_to_user" => found[p] = FindEntry(circ_buf, pos[p])

(* Only the copy of a read fills the user's buffer, and only the return    *)
(* empties it.                                                             *)
LEMMA UserBufferStep ==
  ASSUME IInv, Next, NEW q \in Procs, pc'[q] # "return"
  PROVE  ubuf'[q] = <<>> \/ (ubuf'[q] = ubuf[q] /\ pc[q] # "return")
<1> DEFINE Empty == ubuf'[q] = <<>> \/ (ubuf'[q] = ubuf[q] /\ pc[q] # "return")
<1>0. pc \in [Procs -> Label] /\ ubuf \in [Procs -> Seq(Byte)]
  BY DEF IInv, TypeOK
<1>1. ASSUME NEW p \in Procs, NEW r \in Requests, Call(p, r) PROVE Empty
  BY <1>0, <1>1 DEF Call, Goto
<1>2. ASSUME NEW p \in Procs, Return(p) PROVE Empty
  BY <1>0, <1>2 DEF Return, Goto
<1>3. ASSUME NEW f \in Files, Open(f) \/ Release(f) PROVE Empty
  BY <1>3 DEF Open, Release
<1>4. ASSUME NEW p \in Procs, Acquire(p) \/ Interrupted(p) \/ Handler(p) PROVE Empty
  <2>1. pc[q] # "return"
    <3>1. pc[p] # "return"
      BY <1>4 DEF Acquire, Interrupted, Handler, ReadFind, ReadCopy, WriteReserve, WriteCopy,
                  Oops, Seek, IoctlCheck, Adjust
    <3>2. q # p => pc'[q] = pc[q]
      BY <1>4, CallGoesOn DEF IInv
    <3> QED BY <3>1, <3>2
  <2>2. CASE ReadCopy(p)
    <3>1. p # q
      BY <1>0, <2>2 DEF ReadCopy, Finish, Goto
    <3> QED BY <1>0, <2>1, <2>2, <3>1 DEF ReadCopy
  <2>3. CASE ~ReadCopy(p)
    <3>1. ubuf' = ubuf
      BY <1>4, <2>3 DEF Acquire, Interrupted, Handler, ReadFind, WriteReserve, WriteCopy,
                  Oops, Seek, IoctlCheck, Adjust
    <3> QED BY <2>1, <3>1
  <2> QED BY <2>2, <2>3
<1> QED BY <1>1, <1>2, <1>3, <1>4 DEF Next

LEMMA ReadViewStep ==
  ASSUME IInv, ReadView, [Next]_vars
  PROVE  ReadView'
<1>1. CASE UNCHANGED vars
  BY <1>1 DEF vars, device, locals, ReadView
<1> SUFFICES ASSUME Next, NEW q \in Procs
             PROVE  /\ pc'[q] # "return" => ubuf'[q] = <<>>
                    /\ pc'[q] = "copy_to_user" => found'[q] = FindEntry(circ_buf', pos'[q])
  BY <1>1 DEF ReadView
<1>2. pc'[q] # "return" => ubuf'[q] = <<>>
  BY UserBufferStep DEF ReadView
<1>3. ASSUME pc'[q] = "copy_to_user" PROVE found'[q] = FindEntry(circ_buf', pos'[q])
  <2>1. CASE ReadFind(q)
    BY <1>3, <2>1 DEF ReadFind, Finish, Goto, IInv, TypeOK, device
  <2>2. CASE pc'[q] = pc[q] /\ found'[q] = found[q] /\ UNCHANGED circ_buf
    <3>1. pos'[q] = pos[q]
      BY <1>3, <2>2, CopyKeepsCall
    <3> QED BY <1>3, <2>2, <3>1 DEF ReadView
  <2> QED BY <1>3, <2>1, <2>2, WholeIsKept, CopySteps
<1> QED BY <1>2, <1>3

LEMMA ReadViewAlways == Spec => []ReadView
<1>1. Init => ReadView
  BY DEF Init, ReadView
<1> QED BY <1>1, ReadViewStep, Invariance, PTL DEF Spec

(* The holder of the mutex comes to its return by a step of its handler.   *)
LEMMA ReturnIsOwn ==
  ASSUME IInv, Next, NEW p \in Procs, lock = p, pc'[p] = "return"
  PROVE  Handler(p) /\ pc[p] \in Critical
<1>1. pc[p] \in Critical
  BY DEF IInv, MutualExclusion
<1>2. pc[p] \notin {"idle", "lock", "ioctl", "return"}
  BY <1>1 DEF Critical
<1>0. pc \in [Procs -> Label]
  BY DEF IInv, TypeOK
<1>3. ASSUME NEW f \in Files, Open(f) \/ Release(f) PROVE FALSE
  BY <1>2, <1>3 DEF Open, Release
<1>4. ASSUME NEW q \in Procs, NEW r \in Requests, Call(q, r) PROVE FALSE
  BY <1>0, <1>2, <1>4 DEF Call, Goto
<1>5. ASSUME NEW q \in Procs, Return(q) PROVE FALSE
  BY <1>0, <1>2, <1>5 DEF Return, Goto
<1>6. ASSUME NEW q \in Procs, Acquire(q) \/ Interrupted(q) \/ Handler(q) PROVE q = p
  BY <1>2, <1>6, CallGoesOn DEF IInv
<1>7. ~Acquire(p) /\ ~Interrupted(p)
  BY <1>2 DEF Acquire, Interrupted
<1> QED BY <1>1, <1>3, <1>4, <1>5, <1>6, <1>7 DEF Next

(* The commands are what the occupied entries of the ring hold.            *)
LEMMA CommandsHold ==
  ASSUME IInv
  PROVE  /\ circ_buf \in Ring(Pointer) /\ RingShape(circ_buf)
         /\ Holds(circ_buf, Byte, Commands)
         /\ \A c \in 0 .. Count(circ_buf) - 1 : Commands[c + 1] = Bytes(Nth(circ_buf, c))
<1>1. circ_buf \in Ring(Pointer) /\ RingShape(circ_buf) /\ heap \in Heaps
  BY DEF IInv, TypeOK, RingInShape, Heaps
<1>2. Commands = CommandsIn(heap, circ_buf)
  BY DEF Commands, CommandsIn, Bytes, BytesIn
<1>3. /\ Commands \in Seq(Seq(Byte)) /\ Len(Commands) = Count(circ_buf)
      /\ Count(circ_buf) \in 0 .. MaxOps
  BY <1>1, <1>2, CommandsInType
<1>4. ASSUME NEW c \in 0 .. Count(circ_buf) - 1
      PROVE  /\ Commands[c + 1] = Bytes(Nth(circ_buf, c))
             /\ Len(Commands[c + 1]) = Nth(circ_buf, c).size
  <2>1. c + 1 \in 1 .. Count(circ_buf) /\ (c + 1) - 1 = c /\ c \in Index
    BY <1>3, MaxOpsAssumption DEF Index
  <2>2. Commands[c + 1] = Bytes(Nth(circ_buf, c))
    BY <2>1 DEF Commands
  <2>3. (circ_buf.out_offs + c) % MaxOps \in Index
    BY <1>1, <2>1, NthIndex DEF Ring
  <2>4. Nth(circ_buf, c).size = Len(Bytes(Nth(circ_buf, c)))
    BY <2>3 DEF Nth, IInv, HeapOwned
  <2> QED BY <2>2, <2>4
<1> QED BY <1>1, <1>3, <1>4 DEF Holds

(* AESDCHAR_IOCSEEKTO finds the entry and the byte it names, or fails.     *)
LEMMA AdjustIsExact ==
  ASSUME IInv, NEW p \in Procs, Adjust(p)
  PROVE  LET command == req[p].write_cmd
             offset  == req[p].write_cmd_offset
             there   == command < Len(Commands) /\ offset < Len(Commands[command + 1])
         IN  /\ ret'[p] = 0 <=> there
             /\ there => FindEntry(circ_buf, f_pos'[req[p].file]) =
                           [index |-> (circ_buf.out_offs + command) % MaxOps,
                            offset |-> offset]
<1> DEFINE command == req[p].write_cmd
           offset  == req[p].write_cmd_offset
           there   == command < Len(Commands) /\ offset < Len(Commands[command + 1])
           entry   == Nth(circ_buf, command)
           exists  == entry.buffptr # NULL /\ offset < entry.size
           target  == BytesBefore(circ_buf, command) + offset
<1>1. /\ req[p].file \in Files /\ command \in Index /\ offset \in Nat
  <2>1. pc[p] = "adjust" /\ req[p] \in Requests /\ req[p].op = "ioctl" /\ command < MaxOps
    BY DEF Adjust, IInv, TypeOK, StepOfCall
  <2>2. req[p].file \in Files /\ command \in Nat /\ offset \in Nat
    BY <2>1, RequestKinds
  <2> QED BY <2>1, <2>2, MaxOpsAssumption DEF Index
<1>2. /\ circ_buf \in Ring(Pointer) /\ RingShape(circ_buf)
      /\ Len(Commands) = Count(circ_buf) /\ Count(circ_buf) \in 0 .. MaxOps
      /\ \A c \in 0 .. Count(circ_buf) - 1 : Len(Commands[c + 1]) = Nth(circ_buf, c).size
  BY CommandsHold, Occupied DEF Holds
<1>3. entry.buffptr # NULL <=> command < Count(circ_buf)
  BY <1>1, <1>2, Occupied
<1>4. there <=> exists
  <2>1. command < Count(circ_buf) => Len(Commands[command + 1]) = entry.size
    <3>1. command < Count(circ_buf) => command \in 0 .. Count(circ_buf) - 1
      BY <1>1, <1>2 DEF Index
    <3> QED BY <1>2, <3>1
  <2> QED BY <1>2, <1>3, <2>1
<1>5. /\ \/ exists /\ f_pos' = [f_pos EXCEPT ![req[p].file] = target] /\ Finish(p, 0)
         \/ ~exists /\ Finish(p, -EINVAL)
  BY DEF Adjust
<1>6. ret' = [ret EXCEPT ![p] = IF exists THEN 0 ELSE -EINVAL]
  BY <1>5 DEF Finish
<1>7. ret'[p] = 0 <=> exists
  BY <1>6 DEF EINVAL, IInv, TypeOK
<1>8. there => FindEntry(circ_buf, f_pos'[req[p].file]) =
                 [index |-> (circ_buf.out_offs + command) % MaxOps, offset |-> offset]
  <2> SUFFICES ASSUME there
               PROVE  FindEntry(circ_buf, f_pos'[req[p].file]) =
                        [index |-> (circ_buf.out_offs + command) % MaxOps, offset |-> offset]
    OBVIOUS
  <2>1. f_pos'[req[p].file] = target
    BY <1>1, <1>4, <1>5 DEF IInv, TypeOK
  <2>2. target = Passed(circ_buf, command) + offset
    BY <1>2, PassedIsBytesBefore
  <2>3. command \in 0 .. Count(circ_buf) - 1 /\ offset \in 0 .. entry.size - 1
    <3>1. command < Count(circ_buf) /\ offset < entry.size
      BY <1>3, <1>4
    <3>2. entry.size \in Nat
      BY <1>1, <1>2, PassedSteps
    <3> HIDE DEF command, offset, entry
    <3> QED BY <1>1, <1>2, <3>1, <3>2 DEF Index
  <2> HIDE DEF target, command, offset
  <2>4. FindEntry(circ_buf, Passed(circ_buf, command) + offset) =
          [index |-> (circ_buf.out_offs + command) % MaxOps, offset |-> offset]
    BY <1>2, <2>3, FindEntryExact
  <2> QED BY <2>1, <2>2, <2>4
<1> QED BY <1>4, <1>7, <1>8

(***************************************************************************)
(* The two computations of a position agree: the sum of the ioctl leaves   *)
(* the file where the walk of a read finds the byte asked for, and the     *)
(* call fails exactly if there is no such byte (main.c:245-264,            *)
(* aesd-circular-buffer.c:47-58).                                          *)
(***************************************************************************)
THEOREM SeekTos == Spec => SeekToExact
<1> DEFINE Exact ==
      \A p \in Procs :
        LET command == req[p].write_cmd
            offset  == req[p].write_cmd_offset
            there   == command < Len(Commands) /\ offset < Len(Commands[command + 1])
        IN  pc[p] = "adjust" /\ pc'[p] = "return" =>
              /\ ret'[p] = 0 <=> there
              /\ there => FindEntry(circ_buf, f_pos'[req[p].file]) =
                            [index |-> (circ_buf.out_offs + command) % MaxOps,
                             offset |-> offset]
<1>1. IInv /\ [Next]_vars => [Exact]_vars
  <2>1. ASSUME IInv, Next, NEW p \in Procs, pc[p] = "adjust", pc'[p] = "return"
        PROVE  Adjust(p)
    <3>1. lock = p
      BY <2>1 DEF IInv, MutualExclusion, Critical
    <3>2. Handler(p)
      BY <2>1, <3>1, ReturnIsOwn
    <3> QED BY <2>1, <3>2 DEF Handler, ReadFind, ReadCopy, WriteReserve, WriteCopy, Oops, Seek,
                              IoctlCheck
  <2>2. IInv /\ Next => Exact
    BY <2>1, AdjustIsExact
  <2> QED BY <2>2
<1> QED BY <1>1, Invariance, PTL DEF Spec, SeekToExact
-----------------------------------------------------------------------------
(* k elements of s from behind a on are those of t from behind b on.       *)
SameFrom(s, a, t, b, k) ==
  /\ a + k <= Len(s) /\ b + k <= Len(t)
  /\ \A j \in 1 .. k : s[a + j] = t[b + j]

SamePieceFrom(s, a, t, b, k) ==
  /\ SubSeq(s, a + 1, a + k) = SubSeq(t, b + 1, b + k)
  /\ Len(SubSeq(s, a + 1, a + k)) = k

(* Pieces that agree byte by byte are the same.                            *)
LEMMA SamePiece ==
  ASSUME NEW s \in Seq(Byte), NEW t \in Seq(Byte), NEW a \in Nat, NEW b \in Nat, NEW k \in Nat,
         SameFrom(s, a, t, b, k)
  PROVE  SamePieceFrom(s, a, t, b, k)
<1> USE DEF SameFrom
<1> DEFINE x == SubSeq(s, a + 1, a + k)
           y == SubSeq(t, b + 1, b + k)
<1>1. x \in Seq(Byte) /\ Len(x) = k /\ \A j \in 1 .. k : x[j] = s[a + j]
  <2>1. \A i \in a + 1 .. a + k : s[i] \in Byte
    OBVIOUS
  <2>2. \A j \in 1 .. k : (a + 1) + j - 1 = a + j
    OBVIOUS
  <2> QED BY <2>1, <2>2, SubSeqProperties
<1>2. y \in Seq(Byte) /\ Len(y) = k /\ \A j \in 1 .. k : y[j] = t[b + j]
  <2>1. \A i \in b + 1 .. b + k : t[i] \in Byte
    OBVIOUS
  <2>2. \A j \in 1 .. k : (b + 1) + j - 1 = b + j
    OBVIOUS
  <2> QED BY <2>1, <2>2, SubSeqProperties
<1>3. \A j \in 1 .. k : x[j] = y[j]
  BY <1>1, <1>2
<1> HIDE DEF x, y
<1>4. x = y
  BY <1>1, <1>2, <1>3, SeqEqual
<1> QED BY <1>1, <1>4 DEF x, y, SamePieceFrom

(* A read that finds no entry is at or behind the end of the commands.     *)
LEMMA FindIsExact ==
  ASSUME IInv, NEW p \in Procs
  PROVE  /\ Contents \in Seq(Byte)
         /\ FindEntry(circ_buf, pos[p]) = NotFound <=> pos[p] >= Len(Contents)
<1>1. /\ circ_buf \in Ring(Pointer) /\ RingShape(circ_buf) /\ Holds(circ_buf, Byte, Commands)
      /\ pos[p] \in Nat
  BY CommandsHold DEF IInv, TypeOK
<1>2. Contents \in Seq(Byte) /\ Len(Contents) = Passed(circ_buf, Count(circ_buf))
  BY <1>1, LaidEndToEnd DEF Contents
<1>3. pos[p] >= Len(Contents) => FindEntry(circ_buf, pos[p]) = NotFound
  BY <1>1, <1>2, FindEntryExact
<1>4. ASSUME ~(pos[p] >= Len(Contents)) PROVE FindEntry(circ_buf, pos[p]) # NotFound
  <2>1. pos[p] < Passed(circ_buf, Count(circ_buf))
    BY <1>1, <1>2, <1>4
  <2>2. PICK c \in 0 .. Count(circ_buf) - 1 :
               Passed(circ_buf, c) <= pos[p] /\ pos[p] < Passed(circ_buf, c + 1)
    BY <1>1, <2>1, EntryOfByte
  <2> DEFINE o == pos[p] - Passed(circ_buf, c)
  <2>3. c \in Index /\ c \in 0 .. MaxOps
    <3>1. Count(circ_buf) \in 0 .. MaxOps
      BY <1>1, Occupied
    <3> QED BY <3>1, MaxOpsAssumption DEF Index
  <2>4. o \in 0 .. Nth(circ_buf, c).size - 1 /\ pos[p] = Passed(circ_buf, c) + o
    <3>1. /\ Passed(circ_buf, c) \in Nat /\ Nth(circ_buf, c).size \in Nat
          /\ Passed(circ_buf, c + 1) = Passed(circ_buf, c) + Nth(circ_buf, c).size
      BY <1>1, <2>3, PassedSteps
    <3> QED BY <1>1, <2>2, <3>1
  <2>5. FindEntry(circ_buf, pos[p]) = [index |-> (circ_buf.out_offs + c) % MaxOps, offset |-> o]
    <3> HIDE DEF o
    <3> QED BY <1>1, <2>4, FindEntryExact
  <2>6. (circ_buf.out_offs + c) % MaxOps \in Index
    BY <1>1, <2>3, NthIndex DEF Ring
  <2> QED BY <2>5, <2>6 DEF NotFound, Index
<1> QED BY <1>2, <1>3, <1>4

(* What the handler of a read returns when it gives up the mutex.          *)
ReadResult(p) ==
  /\ ret'[p] = Len(ubuf'[p])
  /\ ret'[p] <= req[p].count
  /\ ubuf'[p] = SubSeq(Contents, pos[p] + 1, pos[p] + ret'[p])
  /\ pos'[p] = pos[p] + ret'[p]
  /\ pc[p] = "find" <=> pos[p] >= Len(Contents)

LEMMA ReadFindIsExact ==
  ASSUME IInv, ReadView, NEW p \in Procs, ReadFind(p), pc'[p] = "return"
  PROVE  ReadResult(p)
<1>1. FindEntry(circ_buf, pos[p]) = NotFound /\ Finish(p, 0) /\ pos' = pos /\ ubuf' = ubuf
  BY DEF ReadFind, Goto, IInv, TypeOK
<1>2. ret'[p] = 0 /\ pos'[p] = pos[p] /\ pos[p] \in Nat
  BY <1>1 DEF Finish, IInv, TypeOK
<1>3. ubuf'[p] = <<>>
  BY <1>1 DEF ReadFind, ReadView
<1>4. pos[p] >= Len(Contents)
  BY <1>1, FindIsExact
<1>5. SubSeq(Contents, pos[p] + 1, pos[p] + 0) = <<>>
  BY <1>2, SubSeqEmpty
<1>6. pc[p] = "find" /\ req[p].count \in Nat
  <2>1. req[p] \in Requests /\ req[p].op = "read" /\ pc[p] = "find"
    BY DEF ReadFind, IInv, TypeOK, StepOfCall
  <2> QED BY <2>1, RequestKinds
<1> QED BY <1>2, <1>3, <1>4, <1>5, <1>6 DEF ReadResult

LEMMA ReadCopyIsExact ==
  ASSUME IInv, ReadView, NEW p \in Procs, ReadCopy(p)
  PROVE  ReadResult(p)
<1> DEFINE x         == pos[p]
           entry     == circ_buf.entry[found[p].index]
           available == entry.size - found[p].offset
           wanted    == IF available < req[p].count THEN available ELSE req[p].count
<1>1. /\ pc[p] = "copy_to_user" /\ req[p] \in Requests /\ req[p].op = "read"
      /\ found[p] = FindEntry(circ_buf, x) /\ found[p] \in Location /\ x \in Nat
  BY DEF ReadCopy, ReadView, IInv, TypeOK, StepOfCall
<1>2. /\ circ_buf \in Ring(Pointer) /\ RingShape(circ_buf) /\ Holds(circ_buf, Byte, Commands)
      /\ \A c \in 0 .. Count(circ_buf) - 1 : Commands[c + 1] = Bytes(Nth(circ_buf, c))
      /\ Contents \in Seq(Byte) /\ Len(Contents) = Passed(circ_buf, Count(circ_buf))
  BY CommandsHold, LaidEndToEnd DEF Contents
<1>3. ~(x >= Len(Contents)) /\ Len(Contents) \in Nat
  <2>1. found[p] # NotFound
    BY <1>1 DEF Location, NotFound, Index
  <2> QED BY <1>1, <1>2, <2>1, FindIsExact
<1>4. PICK c \in 0 .. Count(circ_buf) - 1 :
             Passed(circ_buf, c) <= x /\ x < Passed(circ_buf, c + 1)
  BY <1>1, <1>2, <1>3, EntryOfByte
<1>5. c \in Index /\ c \in 0 .. MaxOps
  <2>1. Count(circ_buf) \in 0 .. MaxOps
    BY <1>2, Occupied
  <2> QED BY <2>1, MaxOpsAssumption DEF Index
<1> DEFINE o    == x - Passed(circ_buf, c)
           size == Nth(circ_buf, c).size
<1>6. /\ Passed(circ_buf, c) \in Nat /\ size \in Nat
      /\ o \in Nat /\ o < size /\ x = Passed(circ_buf, c) + o
  <2>1. /\ Passed(circ_buf, c) \in Nat /\ size \in Nat
        /\ Passed(circ_buf, c + 1) = Passed(circ_buf, c) + size
    BY <1>2, <1>5, PassedSteps
  <2> QED BY <1>1, <1>4, <2>1
<1>7. found[p].offset = o /\ entry = Nth(circ_buf, c)
  <2>1. FindEntry(circ_buf, Passed(circ_buf, c) + o) =
          [index |-> (circ_buf.out_offs + c) % MaxOps, offset |-> o]
    <3>1. o \in 0 .. Nth(circ_buf, c).size - 1
      BY <1>6
    <3> HIDE DEF o
    <3> QED BY <1>2, <3>1, FindEntryExact
  <2> HIDE DEF o, x
  <2>2. found[p] = [index |-> (circ_buf.out_offs + c) % MaxOps, offset |-> o]
    BY <1>1, <1>6, <2>1
  <2> QED BY <2>2 DEF Nth
<1>8. req[p].count \in Nat
  BY <1>1, RequestKinds
<1>9. PICK k \in Copied(wanted) :
        /\ ubuf' = [ubuf EXCEPT ![p] =
                      SubSeq(Bytes(entry), found[p].offset + 1, found[p].offset + k)]
        /\ pos' = [pos EXCEPT ![p] = @ + k]
        /\ Finish(p, k)
  BY DEF ReadCopy
<1>10. available = size - o
  BY <1>7
<1> HIDE DEF x, entry, available, o, size
<1>11. k \in Nat /\ o + k <= size /\ k <= req[p].count
  <2>1. wanted \in Nat /\ o + wanted <= size /\ wanted <= req[p].count
    BY <1>6, <1>8, <1>10
  <2> HIDE DEF wanted
  <2>2. k \in 0 .. wanted
    BY <1>9 DEF Copied
  <2> QED BY <1>6, <1>8, <2>1, <2>2
<1>12. ret'[p] = k /\ pos'[p] = x + k
       /\ ubuf'[p] = SubSeq(Bytes(entry), o + 1, o + k)
  BY <1>7, <1>9 DEF Finish, IInv, TypeOK, x
<1>13. Bytes(entry) \in Seq(Byte) /\ Len(Bytes(entry)) = size /\ Bytes(entry) = Commands[c + 1]
  <2>1. Bytes(entry) = Commands[c + 1] /\ Len(Commands[c + 1]) = size
    BY <1>2, <1>7 DEF Holds, size
  <2>2. entry \in Entry(Pointer)
    BY <1>2, <1>5, <1>7, Occupied
  <2> QED BY <2>1, <2>2, BytesType DEF IInv
<1>14. \A j \in 1 .. size : /\ Contents[Passed(circ_buf, c) + j] = Commands[c + 1][j]
                            /\ Passed(circ_buf, c) + j <= Len(Contents)
  <2> SUFFICES ASSUME NEW j \in 1 .. size
               PROVE  /\ Contents[Passed(circ_buf, c) + j] = Commands[c + 1][j]
                      /\ Passed(circ_buf, c) + j <= Len(Contents)
    OBVIOUS
  <2>1. j \in 1 .. Nth(circ_buf, c).size
    BY DEF size
  <2>2. /\ Contents[Passed(circ_buf, c) + j] = Commands[c + 1][j]
        /\ Passed(circ_buf, c) + j \in 1 .. Len(Contents)
    BY <1>2, <2>1, ByteInWhole DEF Contents
  <2> QED BY <2>2
<1>15. x + k <= Len(Contents)
  <2>1. size \in 1 .. size
    BY <1>6
  <2>2. Passed(circ_buf, c) + size <= Len(Contents)
    BY <1>14, <2>1
  <2> QED BY <1>3, <1>6, <1>11, <2>2
<1>16. \A j \in 1 .. k : Bytes(entry)[o + j] = Contents[x + j]
  <2> SUFFICES ASSUME NEW j \in 1 .. k PROVE Bytes(entry)[o + j] = Contents[x + j]
    OBVIOUS
  <2>1. o + j \in 1 .. size /\ Passed(circ_buf, c) + (o + j) = x + j
    BY <1>6, <1>11
  <2> QED BY <1>13, <1>14, <2>1
<1>17. /\ SubSeq(Bytes(entry), o + 1, o + k) = SubSeq(Contents, x + 1, x + k)
       /\ Len(SubSeq(Bytes(entry), o + 1, o + k)) = k
  <2> DEFINE s == Bytes(entry)
             t == Contents
  <2>1. o + k <= Len(s) /\ x \in Nat /\ o \in Nat /\ k \in Nat /\ s \in Seq(Byte)
    BY <1>1, <1>6, <1>11, <1>13 DEF x
  <2>2. t \in Seq(Byte) /\ SameFrom(s, o, t, x, k)
    BY <1>2, <1>15, <1>16, <2>1 DEF SameFrom
  <2> HIDE DEF s, t
  <2>3. SamePieceFrom(s, o, t, x, k)
    BY ONLY <2>1, <2>2, SamePiece
  <2> QED BY <2>3 DEF SamePieceFrom, s, t
<1>18. pc[p] = "find" <=> x >= Len(Contents)
  BY <1>1, <1>3
<1> QED BY <1>11, <1>12, <1>17, <1>18 DEF ReadResult, x

(***************************************************************************)
(* read(2) delivers the bytes of the concatenated commands at the position *)
(* it was called with, whatever happened between its two halves, and tells *)
(* the end of file exactly behind the last byte (main.c:102-125).          *)
(***************************************************************************)
THEOREM Reads == Spec => ReadExact
<1> DEFINE Exact ==
      \A p \in Procs :
        req[p].op = "read" /\ lock = p /\ pc'[p] = "return" =>
          /\ ret'[p] = Len(ubuf'[p])
          /\ ret'[p] <= req[p].count
          /\ ubuf'[p] = SubSeq(Contents, pos[p] + 1, pos[p] + ret'[p])
          /\ pos'[p] = pos[p] + ret'[p]
          /\ pc[p] = "find" <=> pos[p] >= Len(Contents)
<1>1. IInv /\ ReadView /\ [Next]_vars => [Exact]_vars
  <2>1. ASSUME IInv, ReadView, Next, NEW p \in Procs,
               req[p].op = "read", lock = p, pc'[p] = "return"
        PROVE  ReadResult(p)
    <3>1. ReadFind(p) \/ ReadCopy(p)
      <4>1. Handler(p)
        BY <2>1, ReturnIsOwn
      <4>2. pc[p] \notin {"reserve", "copy_from_user", "seek", "ioctl", "adjust"}
        BY <2>1 DEF IInv, TypeOK, StepOfCall
      <4> QED BY <4>1, <4>2 DEF Handler, WriteReserve, WriteCopy, Oops, Seek, IoctlCheck, Adjust
    <3> QED BY <2>1, <3>1, ReadFindIsExact, ReadCopyIsExact
  <2>2. IInv /\ ReadView /\ Next => Exact
    BY <2>1 DEF ReadResult
  <2> QED BY <2>2
<1> QED BY <1>1, Invariance, ReadViewAlways, PTL DEF Spec, ReadExact
=============================================================================
