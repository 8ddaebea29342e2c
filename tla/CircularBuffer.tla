--------------------------- MODULE CircularBuffer ---------------------------
(***************************************************************************)
(* The ring of the most recent write commands kept by the driver           *)
(* (aesd-char-driver/aesd-circular-buffer.c and .h), as operators on a     *)
(* record with the fields of struct aesd_circular_buffer.  The functions   *)
(* of the C file take no lock: "any necessary locking must be performed by *)
(* the caller", which is module AesdChar.                                  *)
(***************************************************************************)
EXTENDS Integers, Sequences

CONSTANTS
  MaxOps,   (* AESDCHAR_MAX_WRITE_OPERATIONS_SUPPORTED, 10 in the code.    *)
  NULL      (* The null pointer.                                           *)

ASSUME MaxOpsAssumption == MaxOps \in Nat \ {0}

Index == 0 .. MaxOps - 1

(* struct aesd_buffer_entry, for pointers to members of a set Ptr.         *)
Entry(Ptr) == [buffptr: Ptr, size: Nat]

(* struct aesd_circular_buffer.                                            *)
Ring(Ptr) ==
  [entry: [Index -> Entry(Ptr)], in_offs: Index, out_offs: Index, full: BOOLEAN]

EmptyEntry == [buffptr |-> NULL, size |-> 0]

(* aesd_circular_buffer_init zeroes the whole structure.                   *)
EmptyRing ==
  [entry    |-> [i \in Index |-> EmptyEntry],
   in_offs  |-> 0,
   out_offs |-> 0,
   full     |-> FALSE]

(* Variant: the offset does not wrap.                                      *)
AdvanceNoWrap(x) == x + 1

(* AESDCHAR_ADVANCE_PTR.                                                   *)
Advance(x) == (x + 1) % MaxOps

(* Variant: the loop starts at slot 0.                                     *)
NthFromZero(cb, k) == cb.entry[k]

(* The entry AESD_CIRCULAR_BUFFER_FOREACH visits at its k-th iteration.    *)
Nth(cb, k) == cb.entry[(cb.out_offs + k) % MaxOps]

-----------------------------------------------------------------------------
(***************************************************************************)
(* aesd_circular_buffer_add_entry: what it returns (the buffer pushed out, *)
(* for the caller to free, or NULL) and what it leaves in the ring.        *)
(***************************************************************************)
(* Variants: the flag is not looked at; the oldest entry is never dropped. *)
PushesOutAnyway(cb) == cb.in_offs = cb.out_offs

PushesOutNever(cb) == FALSE

(* The next entry replaces the oldest.                                     *)
PushesOut(cb) == cb.full /\ cb.in_offs = cb.out_offs

(* Variant: the replaced buffer is not returned.                           *)
PushedOutForgotten(cb) == NULL

(* The buffer of the entry that is replaced.                               *)
PushedOut(cb) == IF PushesOut(cb) THEN cb.entry[cb.out_offs].buffptr ELSE NULL

AddEntry(cb, e) ==
  LET in  == Advance(cb.in_offs)
      out == IF PushesOut(cb) THEN Advance(cb.out_offs) ELSE cb.out_offs
  IN  [entry    |-> [cb.entry EXCEPT ![cb.in_offs] = e],
       in_offs  |-> in,
       out_offs |-> out,
       full     |-> cb.full \/ in = out]

(***************************************************************************)
(* The bytes held by the first n entries that FOREACH visits: the loop of  *)
(* aesd_circular_buffer_size (n = MaxOps) and of aesd_adjust_file_offset   *)
(* (n = write_cmd).  Entries without a buffer are not counted.             *)
(***************************************************************************)
SumFirst(size, n) ==
  LET sum[k \in 0 .. MaxOps] == IF k = 0 THEN 0 ELSE sum[k - 1] + size[k - 1]
  IN  sum[n]

BytesBefore(cb, n) ==
  SumFirst([k \in Index |-> IF Nth(cb, k).buffptr = NULL THEN 0 ELSE Nth(cb, k).size], n)

BufferSize(cb) == BytesBefore(cb, MaxOps)

(***************************************************************************)
(* aesd_circular_buffer_find_entry_offset_for_fpos: starting at out_offs,  *)
(* the walk passes an entry as long as what is left of char_offset is not  *)
(* below its size, and gives up when that brings it to in_offs.  Unlike    *)
(* the sum above, the walk does not look at buffptr.                       *)
(***************************************************************************)
Location == [index: Index, offset: Nat]

NotFound == [index |-> -1, offset |-> 0]

(* Variant: the walk starts at slot 0.                                     *)
PassedFromZero(cb, k) == SumFirst([j \in Index |-> cb.entry[j].size], k)

(* The bytes the walk has passed when it comes to its k-th entry.          *)
Passed(cb, k) == SumFirst([j \in Index |-> Nth(cb, j).size], k)

(* The entries the walk comes to if it passes all those before.            *)
Walk(cb) ==
  {k \in Index : \A j \in 1 .. k : (cb.out_offs + j) % MaxOps # cb.in_offs}

(* Variant: an entry is not passed when exactly its size is left.          *)
StopsLate(cb, char_offset) == {k \in Walk(cb) : char_offset <= Passed(cb, k + 1)}

(* Where the walk would stop if it came there.                             *)
Stops(cb, char_offset) == {k \in Walk(cb) : char_offset < Passed(cb, k + 1)}

FindEntry(cb, char_offset) ==
  LET stops == Stops(cb, char_offset)
      first == CHOOSE k \in stops : \A j \in stops : k <= j
  IN  IF stops = {} THEN NotFound
      ELSE [index  |-> (cb.out_offs + first) % MaxOps,
            offset |-> char_offset - Passed(cb, first)]

-----------------------------------------------------------------------------
(* How many entries of the ring hold a command, oldest at out_offs.        *)
Count(cb) == IF cb.full THEN MaxOps ELSE cb.in_offs

(***************************************************************************)
(* The flag, the two offsets and the occupied slots agree: until the ring  *)
(* first fills up it grows from slot 0, and from then on every slot is in  *)
(* use and the oldest entry is the next to be replaced.                    *)
(***************************************************************************)
RingShape(cb) ==
  /\ cb.full => cb.in_offs = cb.out_offs
  /\ ~cb.full => cb.out_offs = 0
  /\ \A i \in Index : cb.entry[i].buffptr # NULL <=> cb.full \/ i < cb.in_offs
  /\ \A i \in Index : cb.entry[i].buffptr = NULL => cb.entry[i].size = 0
=============================================================================
