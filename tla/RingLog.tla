------------------------------ MODULE RingLog ------------------------------
(***************************************************************************)
(* The ring alone: any sequence of aesd_circular_buffer_add_entry calls,   *)
(* against the plain list of the entries added.                            *)
(***************************************************************************)
EXTENDS CircularBuffer, SequencesExt

CONSTANT
  Entries   (* The entries a caller may add.                               *)

(* The driver adds entries that have a buffer (main.c:199).                *)
ASSUME EntriesAssumption ==
  \A e \in Entries :
    /\ e = [buffptr |-> e.buffptr, size |-> e.size]
    /\ e.buffptr # NULL
    /\ e.size \in Nat

VARIABLES
  cb,       (* The ring.                                                   *)
  added     (* The entries added, oldest first: at most the last MaxOps.   *)

Init == cb = EmptyRing /\ added = <<>>

Add(e) ==
  /\ cb' = AddEntry(cb, e)
  /\ added' = Append(IF Len(added) = MaxOps THEN Tail(added) ELSE added, e)

Next == \E e \in Entries : Add(e)

Spec == Init /\ [][Next]_<<cb, added>>

-----------------------------------------------------------------------------
(***************************************************************************)
(* FOREACH visits the entries kept in the order they were added, and then  *)
(* empty slots (aesd-circular-buffer.h:77).                                *)
(***************************************************************************)
ForeachVisitsLog ==
  \A k \in Index : Nth(cb, k) = IF k < Len(added) THEN added[k + 1] ELSE EmptyEntry

(***************************************************************************)
(* The byte the walk finds for char_offset is the one at that index in all *)
(* the buffers laid end to end, and there is one exactly below the size of *)
(* the buffer (aesd-circular-buffer.c:26-32, 124).  Each byte is written   *)
(* here as the number of its entry and its place in it.                    *)
(***************************************************************************)
Laid == [k \in 1 .. Len(added) |-> [j \in 1 .. added[k].size |-> <<k - 1, j - 1>>]]

Concatenated == FlattenSeq(Laid)

FindAgreesWithConcatenation ==
  /\ BufferSize(cb) = Len(Concatenated)
  /\ \A o \in 0 .. Len(Concatenated) + 1 :
       FindEntry(cb, o) =
         IF o >= Len(Concatenated) THEN NotFound
         ELSE LET byte == Concatenated[o + 1]
              IN  [index |-> (cb.out_offs + byte[1]) % MaxOps, offset |-> byte[2]]

(***************************************************************************)
(* add_entry hands back the buffer of the entry it replaces, the oldest,   *)
(* once there are MaxOps of them, and nothing before                       *)
(* (aesd-circular-buffer.c:67-68).                                         *)
(***************************************************************************)
ReplacedIsReturned ==
  PushedOut(cb) = IF Len(added) = MaxOps THEN added[1].buffptr ELSE NULL
=============================================================================
