------------------------ MODULE CircularBufferProofs ------------------------
(***************************************************************************)
(* Facts about the operators of CircularBuffer, for every capacity MaxOps  *)
(* and every set of pointers: what add_entry does to the shape of the      *)
(* ring, that the byte counts are numbers and add up entry by entry, and   *)
(* that what the walk finds is a byte of the entry it names.               *)
(***************************************************************************)
EXTENDS CircularBuffer, Concatenation

(* AESDCHAR_ADVANCE_PTR moves to the next slot, and from the last slot to  *)
(* the first.                                                              *)
LEMMA AdvanceStep ==
  ASSUME NEW x \in Index
  PROVE  /\ Advance(x) \in Index
         /\ Advance(x) = IF x + 1 = MaxOps THEN 0 ELSE x + 1
<1>1. CASE x + 1 = MaxOps
  BY <1>1, MaxOpsAssumption DEF Advance, Index
<1>2. CASE x + 1 < MaxOps
  BY <1>2, MaxOpsAssumption DEF Advance, Index
<1> QED BY <1>1, <1>2, MaxOpsAssumption DEF Index

(* Every iteration of FOREACH looks at a slot of the array.                *)
LEMMA NthIndex ==
  ASSUME NEW o \in Index, NEW k \in Index
  PROVE  (o + k) % MaxOps \in Index
BY MaxOpsAssumption DEF Index

(* aesd_circular_buffer_init leaves a well typed structure.                *)
LEMMA EmptyRingType ==
  ASSUME NEW Ptr, NULL \in Ptr
  PROVE  EmptyRing \in Ring(Ptr) /\ EmptyEntry \in Entry(Ptr)
BY MaxOpsAssumption DEF EmptyRing, Ring, EmptyEntry, Entry, Index

(* aesd_circular_buffer_add_entry keeps the structure well typed.          *)
LEMMA AddEntryType ==
  ASSUME NEW Ptr, NEW cb \in Ring(Ptr), NEW e \in Entry(Ptr)
  PROVE  AddEntry(cb, e) \in Ring(Ptr)
<1>1. cb.in_offs \in Index /\ cb.out_offs \in Index /\ cb.entry \in [Index -> Entry(Ptr)]
      /\ cb.full \in BOOLEAN
  BY DEF Ring
<1>2. Advance(cb.in_offs) \in Index /\ Advance(cb.out_offs) \in Index
  BY <1>1, AdvanceStep
<1>3. [cb.entry EXCEPT ![cb.in_offs] = e] \in [Index -> Entry(Ptr)]
  BY <1>1
<1> QED BY <1>1, <1>2, <1>3 DEF AddEntry, Ring

(* What add_entry leaves in the fields of the ring.                        *)
LEMMA AddEntryFields ==
  ASSUME NEW Ptr, NEW cb \in Ring(Ptr), NEW e \in Entry(Ptr), RingShape(cb)
  PROVE  LET new == AddEntry(cb, e)
         IN  /\ new.entry = [cb.entry EXCEPT ![cb.in_offs] = e]
             /\ new.in_offs = Advance(cb.in_offs)
             /\ cb.full => new.out_offs = Advance(cb.out_offs) /\ new.full
             /\ ~cb.full => /\ new.out_offs = 0
                            /\ new.full <=> cb.in_offs + 1 = MaxOps
<1>1. cb.in_offs \in Index /\ cb.out_offs \in Index /\ cb.full \in BOOLEAN
  BY DEF Ring
<1>2. Advance(cb.in_offs) = IF cb.in_offs + 1 = MaxOps THEN 0 ELSE cb.in_offs + 1
  BY <1>1, AdvanceStep
<1>3. CASE cb.full
  BY <1>1, <1>3 DEF AddEntry, PushesOut, RingShape
<1>4. CASE ~cb.full
  <2>1. cb.out_offs = 0 /\ ~PushesOut(cb)
    BY <1>4 DEF RingShape, PushesOut
  <2>2. 0 = Advance(cb.in_offs) <=> cb.in_offs + 1 = MaxOps
    BY <1>1, <1>2, MaxOpsAssumption DEF Index
  <2> QED BY <1>4, <2>1, <2>2 DEF AddEntry
<1> QED BY <1>1, <1>3, <1>4

(* The shape of the ring survives add_entry of an entry that has a buffer. *)
LEMMA AddEntryShape ==
  ASSUME NEW Ptr, NEW cb \in Ring(Ptr), NEW e \in Entry(Ptr),
         RingShape(cb), e.buffptr # NULL
  PROVE  RingShape(AddEntry(cb, e))
<1> DEFINE new == AddEntry(cb, e)
<1>1. /\ cb.in_offs \in Index /\ cb.out_offs \in Index
      /\ cb.full \in BOOLEAN /\ cb.entry \in [Index -> Entry(Ptr)]
  BY DEF Ring
<1>2. Advance(cb.in_offs) = IF cb.in_offs + 1 = MaxOps THEN 0 ELSE cb.in_offs + 1
  BY <1>1, AdvanceStep
<1>3. /\ new.entry = [cb.entry EXCEPT ![cb.in_offs] = e]
      /\ new.in_offs = Advance(cb.in_offs)
      /\ cb.full => new.out_offs = Advance(cb.out_offs) /\ new.full
      /\ ~cb.full => new.out_offs = 0 /\ (new.full <=> cb.in_offs + 1 = MaxOps)
  BY AddEntryFields
<1> SUFFICES RingShape(new)
  OBVIOUS
<1> HIDE DEF new
<1>4. \A i \in Index : new.entry[i] = IF i = cb.in_offs THEN e ELSE cb.entry[i]
  BY <1>1, <1>3
<1>5. CASE cb.full
  <2>1. \A i \in Index : new.entry[i].buffptr # NULL
    BY <1>4, <1>5 DEF RingShape
  <2>2. new.full /\ new.in_offs = new.out_offs
    BY <1>3, <1>5 DEF RingShape
  <2> QED BY <2>1, <2>2 DEF RingShape
<1>6. CASE ~cb.full
  <2>1. \A i \in Index : new.entry[i].buffptr # NULL <=> i < cb.in_offs + 1
    BY <1>1, <1>4, <1>6 DEF RingShape, Index
  <2>2. \A i \in Index : new.entry[i].buffptr = NULL => new.entry[i].size = 0
    BY <1>4 DEF RingShape
  <2>3. \A i \in Index : new.entry[i].buffptr # NULL <=> new.full \/ i < new.in_offs
    BY <1>1, <1>2, <1>3, <1>6, <2>1, MaxOpsAssumption DEF Index
  <2>4. new.full => new.in_offs = new.out_offs
    BY <1>2, <1>3, <1>6
  <2>5. new.out_offs = 0
    BY <1>3, <1>6
  <2> QED BY <2>2, <2>3, <2>4, <2>5 DEF RingShape
<1> QED BY <1>1, <1>5, <1>6

(* What add_entry returns: the buffer of the slot it writes, or NULL when  *)
(* that slot was free.                                                     *)
LEMMA PushedOutIsReplaced ==
  ASSUME NEW Ptr, NEW cb \in Ring(Ptr), RingShape(cb)
  PROVE  PushedOut(cb) = cb.entry[cb.in_offs].buffptr
<1>1. cb.in_offs \in Index /\ cb.full \in BOOLEAN
  BY DEF Ring
<1>2. CASE cb.full
  BY <1>2 DEF RingShape, PushedOut, PushesOut
<1>3. CASE ~cb.full
  BY <1>1, <1>3 DEF RingShape, PushedOut, PushesOut, Index
<1> QED BY <1>1, <1>2, <1>3

(* FOREACH comes to slot out_offs + k, or to the one as far from the start *)
(* of the array if that is past its end.                                   *)
LEMMA SlotOf ==
  ASSUME NEW o \in Index, NEW k \in Index
  PROVE  (o + k) % MaxOps = IF o + k < MaxOps THEN o + k ELSE o + k - MaxOps
<1>1. CASE o + k < MaxOps
  BY <1>1, MaxOpsAssumption DEF Index
<1>2. CASE o + k >= MaxOps
  <2>1. o + k - MaxOps \in 0 .. MaxOps - 1
    BY <1>2, MaxOpsAssumption DEF Index
  <2>2. ((o + k - MaxOps) + MaxOps) % MaxOps = (o + k - MaxOps) % MaxOps
    BY <2>1, MaxOpsAssumption DEF Index
  <2> QED BY <1>2, <2>1, <2>2, MaxOpsAssumption DEF Index
<1> QED BY <1>1, <1>2, MaxOpsAssumption DEF Index

(* The new entry comes last in FOREACH, behind those that were there; of   *)
(* a full ring the first is gone.  None of those that stay is in the slot  *)
(* that add_entry writes.                                                  *)
LEMMA VisitedAfterAdd ==
  ASSUME NEW Ptr, NEW cb \in Ring(Ptr), NEW e \in Entry(Ptr), RingShape(cb)
  PROVE  LET new  == AddEntry(cb, e)
             gone == IF cb.full THEN 1 ELSE 0
         IN  /\ Count(cb) \in 0 .. MaxOps
             /\ Count(cb) = MaxOps <=> cb.full
             /\ Count(new) = Count(cb) + 1 - gone
             /\ Nth(new, Count(new) - 1) = e
             /\ \A k \in 0 .. Count(new) - 2 :
                  \E i \in Index \ {cb.in_offs} :
                    Nth(new, k) = cb.entry[i] /\ Nth(cb, k + gone) = cb.entry[i]
<1> DEFINE new  == AddEntry(cb, e)
           gone == IF cb.full THEN 1 ELSE 0
<1>1. /\ cb.in_offs \in Index /\ cb.out_offs \in Index
      /\ cb.full \in BOOLEAN /\ cb.entry \in [Index -> Entry(Ptr)]
  BY DEF Ring
<1>2. /\ Advance(cb.in_offs) = IF cb.in_offs + 1 = MaxOps THEN 0 ELSE cb.in_offs + 1
      /\ Advance(cb.in_offs) \in Index
  BY <1>1, AdvanceStep
<1>3. /\ new.entry = [cb.entry EXCEPT ![cb.in_offs] = e]
      /\ new.in_offs = Advance(cb.in_offs)
      /\ cb.full => new.out_offs = Advance(cb.out_offs) /\ new.full
      /\ ~cb.full => new.out_offs = 0 /\ (new.full <=> cb.in_offs + 1 = MaxOps)
  BY AddEntryFields
<1> HIDE DEF new
<1>4. \A i \in Index : new.entry[i] = IF i = cb.in_offs THEN e ELSE cb.entry[i]
  BY <1>1, <1>3
<1>5. Count(cb) \in 0 .. MaxOps /\ (Count(cb) = MaxOps <=> cb.full)
  BY <1>1, MaxOpsAssumption DEF Count, Index
<1>6. Count(new) = Count(cb) + 1 - gone
  BY <1>1, <1>2, <1>3, MaxOpsAssumption DEF Count, Index
<1>7. \A o, k \in Index : /\ (o + k) % MaxOps = IF o + k < MaxOps THEN o + k ELSE o + k - MaxOps
                          /\ (o + k) % MaxOps \in Index
  BY SlotOf, NthIndex
<1>8. CASE cb.full
  <2>1. /\ cb.in_offs = cb.out_offs /\ new.out_offs = Advance(cb.in_offs)
        /\ Count(new) = MaxOps /\ gone = 1
    BY <1>3, <1>5, <1>6, <1>8 DEF RingShape
  <2>2. (new.out_offs + (MaxOps - 1)) % MaxOps = cb.in_offs
    <3>1. MaxOps - 1 \in Index
      BY MaxOpsAssumption DEF Index
    <3>2. (new.out_offs + (MaxOps - 1)) % MaxOps
            = IF new.out_offs + (MaxOps - 1) < MaxOps THEN new.out_offs + (MaxOps - 1)
              ELSE new.out_offs + (MaxOps - 1) - MaxOps
      BY <1>2, <1>7, <2>1, <3>1
    <3> DEFINE x == (new.out_offs + (MaxOps - 1)) % MaxOps
    <3> HIDE DEF x
    <3> SUFFICES x = cb.in_offs
      BY DEF x
    <3>3. x = IF new.out_offs + (MaxOps - 1) < MaxOps THEN new.out_offs + (MaxOps - 1)
              ELSE new.out_offs + (MaxOps - 1) - MaxOps
      BY <3>2 DEF x
    <3> QED BY <1>1, <1>2, <2>1, <3>3, MaxOpsAssumption DEF Index
  <2>3. ASSUME NEW k \in 0 .. MaxOps - 2
        PROVE  /\ (new.out_offs + k) % MaxOps \in Index \ {cb.in_offs}
               /\ (cb.out_offs + (k + 1)) % MaxOps = (new.out_offs + k) % MaxOps
    <3>1. k \in Index /\ k + 1 \in Index
      BY MaxOpsAssumption DEF Index
    <3>2. (new.out_offs + k) % MaxOps
            = IF new.out_offs + k < MaxOps THEN new.out_offs + k ELSE new.out_offs + k - MaxOps
      BY <1>2, <1>7, <2>1, <3>1
    <3>3. (cb.out_offs + (k + 1)) % MaxOps
            = IF cb.out_offs + (k + 1) < MaxOps THEN cb.out_offs + (k + 1)
              ELSE cb.out_offs + (k + 1) - MaxOps
      BY <1>1, <1>7, <3>1
    <3> DEFINE x == (new.out_offs + k) % MaxOps
               y == (cb.out_offs + (k + 1)) % MaxOps
    <3> HIDE DEF x, y
    <3>4. /\ x = IF new.out_offs + k < MaxOps THEN new.out_offs + k
                 ELSE new.out_offs + k - MaxOps
          /\ y = IF cb.out_offs + (k + 1) < MaxOps THEN cb.out_offs + (k + 1)
                 ELSE cb.out_offs + (k + 1) - MaxOps
      BY <3>2, <3>3 DEF x, y
    <3>5. x \in Index \ {cb.in_offs} /\ y = x
      <4>1. /\ cb.in_offs \in Index /\ cb.out_offs = cb.in_offs
            /\ new.out_offs = IF cb.in_offs + 1 = MaxOps THEN 0 ELSE cb.in_offs + 1
        BY <1>1, <1>2, <2>1
      <4>2. CASE cb.in_offs + 1 = MaxOps
        BY <3>4, <4>1, <4>2, MaxOpsAssumption DEF Index
      <4>3. CASE cb.in_offs + 1 # MaxOps
        BY <3>4, <4>1, <4>3, MaxOpsAssumption DEF Index
      <4> QED BY <4>2, <4>3
    <3> QED BY <3>5 DEF x, y
  <2>4. Nth(new, Count(new) - 1) = e
    BY <1>1, <1>4, <2>1, <2>2 DEF Nth
  <2>5. ASSUME NEW k \in 0 .. Count(new) - 2
        PROVE  \E i \in Index \ {cb.in_offs} :
                 Nth(new, k) = cb.entry[i] /\ Nth(cb, k + gone) = cb.entry[i]
    <3> (new.out_offs + k) % MaxOps \in Index \ {cb.in_offs}
      BY <2>1, <2>3
    <3> WITNESS (new.out_offs + k) % MaxOps \in Index \ {cb.in_offs}
    <3> QED BY <1>4, <2>1, <2>3 DEF Nth
  <2> QED BY <1>5, <1>6, <2>4, <2>5 DEF new
<1>9. CASE ~cb.full
  <2>1. /\ cb.out_offs = 0 /\ new.out_offs = 0 /\ gone = 0
        /\ Count(cb) = cb.in_offs /\ Count(new) = cb.in_offs + 1
    BY <1>3, <1>6, <1>9 DEF RingShape, Count
  <2>2. \A k \in Index : (0 + k) % MaxOps = k
    <3> TAKE k \in Index
    <3>1. 0 \in Index /\ 0 + k = k /\ k < MaxOps
      BY MaxOpsAssumption DEF Index
    <3> QED BY <1>7, <3>1
  <2>3. Nth(new, Count(new) - 1) = e
    BY <1>1, <1>4, <2>1, <2>2, MaxOpsAssumption DEF Nth, Index
  <2>4. ASSUME NEW k \in 0 .. Count(new) - 2
        PROVE  \E i \in Index \ {cb.in_offs} :
                 Nth(new, k) = cb.entry[i] /\ Nth(cb, k + gone) = cb.entry[i]
    <3>1. k \in Index \ {cb.in_offs} /\ k + gone = k
      BY <1>1, <2>1, MaxOpsAssumption DEF Index
    <3> QED BY <1>4, <2>1, <2>2, <3>1 DEF Nth
  <2> QED BY <1>5, <1>6, <2>3, <2>4 DEF new
<1> QED BY <1>1, <1>8, <1>9
-----------------------------------------------------------------------------
(* f is the table of partial sums of size up to n.                         *)
PartialSums(f, size, n) ==
  /\ f \in [0 .. n -> Nat]
  /\ f[0] = 0
  /\ \A k \in 1 .. n : f[k] = f[k - 1] + size[k - 1]

(* There is a table of partial sums up to every n.                         *)
LEMMA PartialSumsExist ==
  ASSUME NEW size \in [Index -> Nat], NEW m \in 0 .. MaxOps
  PROVE  \E f : PartialSums(f, size, m)
<1> DEFINE S == {n \in Nat : n <= MaxOps => \E f : PartialSums(f, size, n)}
<1>1. 0 \in S
  <2>1. PartialSums([k \in 0 .. 0 |-> 0], size, 0)
    BY DEF PartialSums
  <2> QED BY <2>1
<1>2. ASSUME NEW n \in S PROVE n + 1 \in S
  <2>0. n \in Nat
    OBVIOUS
  <2>1. SUFFICES ASSUME n + 1 <= MaxOps PROVE \E f : PartialSums(f, size, n + 1)
    BY <2>0
  <2>2. PICK f : PartialSums(f, size, n)
    <3>1. n <= MaxOps
      BY <2>0, <2>1, MaxOpsAssumption
    <3> QED BY <3>1
  <2> DEFINE g == [k \in 0 .. n + 1 |-> IF k = n + 1 THEN f[n] + size[n] ELSE f[k]]
  <2>3. size[n] \in Nat /\ f[n] \in Nat
    BY <2>0, <2>1, <2>2, MaxOpsAssumption DEF PartialSums, Index
  <2>4. g \in [0 .. n + 1 -> Nat] /\ g[0] = 0
    BY <2>0, <2>2, <2>3 DEF PartialSums
  <2>5. ASSUME NEW k \in 1 .. n + 1 PROVE g[k] = g[k - 1] + size[k - 1]
    <3>1. CASE k = n + 1
      BY <2>0, <3>1
    <3>2. CASE k # n + 1
      <4>1. k \in 1 .. n
        BY <2>0, <3>2
      <4>2. f[k] = f[k - 1] + size[k - 1]
        BY <2>2, <4>1 DEF PartialSums
      <4>3. g[k] = f[k] /\ g[k - 1] = f[k - 1]
        BY <2>0, <4>1
      <4> QED BY <4>2, <4>3
    <3> QED BY <3>1, <3>2
  <2>6. PartialSums(g, size, n + 1)
    <3> HIDE DEF g
    <3> QED BY <2>4, <2>5 DEF PartialSums
  <2> QED BY <2>6
<1>3. S = Nat
  <2>1. S \in SUBSET Nat
    OBVIOUS
  <2> HIDE DEF S
  <2> QED BY <1>1, <1>2, <2>1, SetInduction
<1> QED BY <1>3, MaxOpsAssumption

(* The loops that add up sizes (aesd-circular-buffer.c:133-137,            *)
(* main.c:245-252) start from zero, add one entry at a time, and so yield  *)
(* a number.                                                               *)
LEMMA SumFirstSteps ==
  ASSUME NEW size \in [Index -> Nat]
  PROVE  /\ SumFirst(size, 0) = 0
         /\ \A n \in 0 .. MaxOps : SumFirst(size, n) \in Nat
         /\ \A n \in Index : SumFirst(size, n + 1) = SumFirst(size, n) + size[n]
<1> DEFINE R(f) == [k \in 0 .. MaxOps |-> IF k = 0 THEN 0 ELSE f[k - 1] + size[k - 1]]
           sum  == CHOOSE f : f = R(f)
<1>1. PICK f : PartialSums(f, size, MaxOps)
  BY PartialSumsExist, MaxOpsAssumption
<1>2. f = R(f)
  <2>1. \A k \in 0 .. MaxOps : f[k] = IF k = 0 THEN 0 ELSE f[k - 1] + size[k - 1]
    BY <1>1 DEF PartialSums
  <2> QED BY <1>1, <2>1 DEF PartialSums
<1>3. sum = R(sum)
  <2> HIDE DEF R
  <2> QED BY <1>2
<1>4. \A n : SumFirst(size, n) = sum[n]
  BY DEF SumFirst
<1> HIDE DEF sum
<1>5. \A k \in 0 .. MaxOps : sum[k] = IF k = 0 THEN 0 ELSE sum[k - 1] + size[k - 1]
  BY <1>3
<1>6. sum[0] = 0
  BY <1>5, MaxOpsAssumption
<1>7. \A n \in Index : sum[n + 1] = sum[n] + size[n]
  BY <1>5, MaxOpsAssumption DEF Index
<1>8. \A n \in 0 .. MaxOps : sum[n] \in Nat
  <2> DEFINE S == {n \in Nat : n <= MaxOps => sum[n] \in Nat}
  <2>1. 0 \in S
    BY <1>6
  <2>2. ASSUME NEW n \in S PROVE n + 1 \in S
    BY <1>7, MaxOpsAssumption DEF Index
  <2>3. S = Nat
    <3>1. S \in SUBSET Nat
      OBVIOUS
    <3> HIDE DEF S
    <3> QED BY <2>1, <2>2, <3>1, SetInduction
  <2> QED BY <2>3, MaxOpsAssumption
<1> QED BY <1>4, <1>6, <1>7, <1>8

(* The file offset that AESDCHAR_IOCSEEKTO computes, and the size that     *)
(* llseek works with, are numbers.                                         *)
LEMMA BytesBeforeNat ==
  ASSUME NEW Ptr, NEW cb \in Ring(Ptr), NEW n \in 0 .. MaxOps
  PROVE  BytesBefore(cb, n) \in Nat
<1> DEFINE size == [k \in Index |-> IF Nth(cb, k).buffptr = NULL THEN 0 ELSE Nth(cb, k).size]
<1>1. size \in [Index -> Nat]
  <2>1. \A k \in Index : Nth(cb, k) \in Entry(Ptr)
    BY NthIndex DEF Nth, Ring
  <2> QED BY <2>1 DEF Entry
<1> HIDE DEF size
<1>2. SumFirst(size, n) \in Nat
  BY <1>1, SumFirstSteps
<1> QED BY <1>2 DEF BytesBefore, size

(* What aesd_circular_buffer_find_entry_offset_for_fpos returns, if it     *)
(* returns anything, is a byte of the entry it names.                      *)
LEMMA FindEntryFindsByte ==
  ASSUME NEW Ptr, NEW cb \in Ring(Ptr), NEW char_offset \in Nat,
         FindEntry(cb, char_offset) # NotFound
  PROVE  LET found == FindEntry(cb, char_offset)
         IN  found \in Location /\ found.offset < cb.entry[found.index].size
<1> DEFINE size  == [j \in Index |-> Nth(cb, j).size]
           stops == Stops(cb, char_offset)
           first == CHOOSE k \in stops : \A j \in stops : k <= j
<1>1. size \in [Index -> Nat] /\ \A k : Passed(cb, k) = SumFirst(size, k)
  <2>1. \A k \in Index : Nth(cb, k) \in Entry(Ptr)
    BY NthIndex DEF Nth, Ring
  <2> QED BY <2>1 DEF Entry, Passed
<1>2. /\ Passed(cb, 0) = 0
      /\ \A n \in 0 .. MaxOps : Passed(cb, n) \in Nat
      /\ \A n \in Index : Passed(cb, n + 1) = Passed(cb, n) + Nth(cb, n).size
  <2>1. \A n \in Index : size[n] = Nth(cb, n).size
    OBVIOUS
  <2> HIDE DEF size
  <2> QED BY <1>1, <2>1, SumFirstSteps
<1>3. stops # {} /\ FindEntry(cb, char_offset) =
        [index |-> (cb.out_offs + first) % MaxOps, offset |-> char_offset - Passed(cb, first)]
  BY DEF FindEntry
<1>4. stops \subseteq Index
  BY DEF Stops, Walk
<1>5. first \in stops /\ \A j \in stops : first <= j
  <2>1. stops \in SUBSET Nat /\ stops # {}
    BY <1>3, <1>4 DEF Index
  <2> HIDE DEF stops
  <2>2. \E k \in stops : \A j \in stops : k <= j
    BY <2>1, LeastElement
  <2> QED BY <2>2
<1> HIDE DEF first
<1>6. first \in Index /\ first \in Walk(cb) /\ char_offset < Passed(cb, first + 1)
  BY <1>5 DEF Stops, Walk
<1>7. Passed(cb, first) <= char_offset
  <2>1. CASE first = 0
    BY <1>2, <2>1
  <2>2. CASE first # 0
    <3>1. first - 1 \in Index /\ first - 1 \in Walk(cb)
      <4>1. first - 1 \in Index /\ 1 .. first - 1 \subseteq 1 .. first
        BY <1>6, <2>2, MaxOpsAssumption DEF Index
      <4> QED BY <1>6, <4>1 DEF Walk
    <3>2. first - 1 \notin stops
      BY <1>5, <1>6 DEF Index
    <3>3. ~(char_offset < Passed(cb, (first - 1) + 1))
      BY <3>1, <3>2 DEF Stops
    <3>4. (first - 1) + 1 = first /\ first \in 0 .. MaxOps
      BY <1>6, MaxOpsAssumption DEF Index
    <3> QED BY <1>2, <3>3, <3>4
  <2> QED BY <2>1, <2>2
<1>8. (cb.out_offs + first) % MaxOps \in Index
  BY <1>6, NthIndex DEF Ring
<1>9. char_offset - Passed(cb, first) < Nth(cb, first).size
      /\ char_offset - Passed(cb, first) \in Nat
  <2>1. Passed(cb, first) \in Nat /\ Nth(cb, first).size \in Nat
    <3>1. Nth(cb, first) \in Entry(Ptr)
      BY <1>6, NthIndex DEF Nth, Ring
    <3>2. first \in 0 .. MaxOps
      BY <1>6, MaxOpsAssumption DEF Index
    <3> QED BY <1>2, <3>1, <3>2 DEF Entry
  <2> QED BY <1>2, <1>6, <1>7, <2>1
<1> QED BY <1>3, <1>8, <1>9 DEF Location, Nth

-----------------------------------------------------------------------------
(* FOREACH comes to the occupied entries first, and every entry behind     *)
(* them is empty.                                                          *)
LEMMA Occupied ==
  ASSUME NEW Ptr, NEW cb \in Ring(Ptr), RingShape(cb)
  PROVE  /\ Count(cb) \in 0 .. MaxOps
         /\ \A k \in Index : /\ Nth(cb, k) \in Entry(Ptr)
                             /\ Nth(cb, k).buffptr # NULL <=> k < Count(cb)
                             /\ k >= Count(cb) => Nth(cb, k) = EmptyEntry
<1>1. /\ cb.in_offs \in Index /\ cb.out_offs \in Index
      /\ cb.full \in BOOLEAN /\ cb.entry \in [Index -> Entry(Ptr)]
  BY DEF Ring
<1>2. Count(cb) \in 0 .. MaxOps
  BY <1>1, MaxOpsAssumption DEF Count, Index
<1>3. ASSUME NEW k \in Index
      PROVE  Nth(cb, k) \in Entry(Ptr) /\ (Nth(cb, k).buffptr # NULL <=> k < Count(cb))
  <2>1. (cb.out_offs + k) % MaxOps \in Index
    BY <1>1, NthIndex
  <2>2. CASE cb.full
    <3>1. k < Count(cb)
      BY <2>2, MaxOpsAssumption DEF Count, Index
    <3> QED BY <1>1, <2>1, <2>2, <3>1 DEF RingShape, Nth
  <2>3. CASE ~cb.full
    <3>1. cb.out_offs = 0 /\ Count(cb) = cb.in_offs
      BY <2>3 DEF RingShape, Count
    <3>2. (cb.out_offs + k) % MaxOps = k
      <4>1. 0 \in Index /\ 0 + k = k /\ k < MaxOps
        BY MaxOpsAssumption DEF Index
      <4> QED BY <3>1, <4>1, SlotOf
    <3> QED BY <1>1, <2>3, <3>1, <3>2 DEF RingShape, Nth
  <2> QED BY <1>1, <2>2, <2>3
<1>4. ASSUME NEW k \in Index, k >= Count(cb) PROVE Nth(cb, k) = EmptyEntry
  <2>1. Nth(cb, k).buffptr = NULL /\ Nth(cb, k) \in Entry(Ptr)
    BY <1>2, <1>3, <1>4 DEF Index
  <2>2. Nth(cb, k).size = 0
    BY <1>1, <2>1, NthIndex DEF RingShape, Nth
  <2> QED BY <2>1, <2>2 DEF Entry, EmptyEntry
<1> QED BY <1>2, <1>3, <1>4

(* The walk passes one entry after the other.                              *)
LEMMA PassedSteps ==
  ASSUME NEW Ptr, NEW cb \in Ring(Ptr)
  PROVE  /\ Passed(cb, 0) = 0
         /\ \A n \in 0 .. MaxOps : Passed(cb, n) \in Nat
         /\ \A n \in Index : /\ Passed(cb, n + 1) = Passed(cb, n) + Nth(cb, n).size
                             /\ Nth(cb, n).size \in Nat
<1> DEFINE size == [j \in Index |-> Nth(cb, j).size]
<1>1. \A k \in Index : Nth(cb, k) \in Entry(Ptr)
  BY NthIndex DEF Nth, Ring
<1>2. /\ size \in [Index -> Nat] /\ \A k : Passed(cb, k) = SumFirst(size, k)
      /\ \A n \in Index : size[n] = Nth(cb, n).size
  BY <1>1 DEF Entry, Passed
<1> HIDE DEF size
<1> QED BY <1>1, <1>2, SumFirstSteps DEF Entry

(* The walk does not look at buffptr and the sum does: as entries without  *)
(* a buffer have no bytes, both count the same.                            *)
LEMMA PassedIsBytesBefore ==
  ASSUME NEW Ptr, NEW cb \in Ring(Ptr), RingShape(cb), NEW n
  PROVE  BytesBefore(cb, n) = Passed(cb, n)
<1>1. \A k \in Index : (IF Nth(cb, k).buffptr = NULL THEN 0 ELSE Nth(cb, k).size) = Nth(cb, k).size
  BY NthIndex DEF RingShape, Nth, Ring
<1>2. [k \in Index |-> IF Nth(cb, k).buffptr = NULL THEN 0 ELSE Nth(cb, k).size]
        = [k \in Index |-> Nth(cb, k).size]
  BY <1>1
<1> QED BY <1>2 DEF BytesBefore, Passed

(* Further on in the walk, no fewer bytes have been passed, and from the   *)
(* last occupied entry on no more.                                         *)
LEMMA PassedGrows ==
  ASSUME NEW Ptr, NEW cb \in Ring(Ptr), RingShape(cb)
  PROVE  /\ \A n \in 0 .. MaxOps : \A m \in 0 .. n : Passed(cb, m) <= Passed(cb, n)
         /\ \A n \in 0 .. MaxOps : n >= Count(cb) => Passed(cb, n) = Passed(cb, Count(cb))
<1> DEFINE P == {n \in 0 .. MaxOps : \A m \in 0 .. n : Passed(cb, m) <= Passed(cb, n)}
           Q == {n \in 0 .. MaxOps : n >= Count(cb) => Passed(cb, n) = Passed(cb, Count(cb))}
<1>1. /\ Passed(cb, 0) = 0
      /\ \A n \in 0 .. MaxOps : Passed(cb, n) \in Nat
      /\ \A n \in Index : /\ Passed(cb, n + 1) = Passed(cb, n) + Nth(cb, n).size
                          /\ Nth(cb, n).size \in Nat
  BY PassedSteps
<1>2. MaxOps \in Nat /\ 0 \in 0 .. MaxOps
  BY MaxOpsAssumption
<1>3. \A n \in 0 .. MaxOps : n \in P
  <2>1. 0 \in P
    BY <1>1, <1>2
  <2>2. ASSUME NEW n \in 0 .. MaxOps - 1, n \in P PROVE n + 1 \in P
    <3>1. n \in Index /\ n + 1 \in 0 .. MaxOps /\ n \in 0 .. MaxOps
      BY <1>2 DEF Index
    <3>2. Passed(cb, n) <= Passed(cb, n + 1)
      BY <1>1, <3>1
    <3>3. ASSUME NEW m \in 0 .. n + 1 PROVE Passed(cb, m) <= Passed(cb, n + 1)
      <4>1. CASE m = n + 1
        BY <1>1, <3>1, <4>1
      <4>2. CASE m # n + 1
        <5>1. m \in 0 .. n /\ m \in 0 .. MaxOps
          BY <1>2, <3>1, <4>2
        <5>2. Passed(cb, m) <= Passed(cb, n)
          BY <2>2, <5>1
        <5> QED BY <1>1, <3>1, <3>2, <5>1, <5>2
      <4> QED BY <4>1, <4>2
    <3> QED BY <3>1, <3>3
  <2> HIDE DEF P
  <2> QED BY <1>2, <2>1, <2>2, CountUp
<1>4. \A n \in 0 .. MaxOps : n \in Q
  <2>0. Count(cb) \in 0 .. MaxOps
    BY Occupied
  <2>1. 0 \in Q
    BY <1>2, <2>0
  <2>2. ASSUME NEW n \in 0 .. MaxOps - 1, n \in Q PROVE n + 1 \in Q
    <3>1. n \in Index /\ n + 1 \in 0 .. MaxOps /\ n \in 0 .. MaxOps
      BY <1>2 DEF Index
    <3>2. CASE n >= Count(cb)
      <4>1. Nth(cb, n).size = 0
        BY <3>1, <3>2, Occupied DEF EmptyEntry
      <4>2. Passed(cb, n) = Passed(cb, Count(cb))
        BY <2>2, <3>2
      <4> QED BY <1>1, <2>0, <3>1, <4>1, <4>2
    <3>3. CASE ~(n >= Count(cb))
      <4>1. n + 1 >= Count(cb) => n + 1 = Count(cb)
        BY <2>0, <3>3
      <4> QED BY <3>1, <4>1
    <3> QED BY <3>2, <3>3
  <2> HIDE DEF Q
  <2> QED BY <1>2, <2>1, <2>2, CountUp
<1> QED BY <1>3, <1>4

(* The walk comes to every occupied entry, because until in_offs comes     *)
(* round again there is nothing but those.                                 *)
LEMMA WalkOccupied ==
  ASSUME NEW Ptr, NEW cb \in Ring(Ptr), RingShape(cb), NEW c \in Index, c < Count(cb)
  PROVE  c \in Walk(cb)
<1>1. cb.in_offs \in Index /\ cb.out_offs \in Index /\ cb.full \in BOOLEAN
  BY DEF Ring
<1> SUFFICES ASSUME NEW j \in 1 .. c, (cb.out_offs + j) % MaxOps = cb.in_offs PROVE FALSE
  BY DEF Walk
<1>2. j \in Index /\ j > 0
  BY MaxOpsAssumption DEF Index
<1> DEFINE x == (cb.out_offs + j) % MaxOps
<1>3. x = IF cb.out_offs + j < MaxOps THEN cb.out_offs + j ELSE cb.out_offs + j - MaxOps
  BY <1>1, <1>2, SlotOf
<1>4. x = cb.in_offs
  OBVIOUS
<1> HIDE DEF x
<1>5. CASE cb.full
  <2>1. cb.out_offs = cb.in_offs
    BY <1>5 DEF RingShape
  <2> QED BY <1>1, <1>2, <1>3, <1>4, <2>1, MaxOpsAssumption DEF Index
<1>6. CASE ~cb.full
  <2>1. cb.out_offs = 0 /\ cb.in_offs = Count(cb)
    BY <1>6 DEF RingShape, Count
  <2> QED BY <1>1, <1>2, <1>3, <1>4, <2>1, MaxOpsAssumption DEF Index
<1> QED BY <1>1, <1>5, <1>6

(* Every byte kept is one of the bytes of some occupied entry.             *)
LEMMA EntryOfByte ==
  ASSUME NEW Ptr, NEW cb \in Ring(Ptr), RingShape(cb),
         NEW x \in Nat, x < Passed(cb, Count(cb))
  PROVE  \E c \in 0 .. Count(cb) - 1 : Passed(cb, c) <= x /\ x < Passed(cb, c + 1)
<1> DEFINE T == {c \in 0 .. Count(cb) - 1 : x < Passed(cb, c + 1)}
<1>1. /\ Passed(cb, 0) = 0
      /\ \A n \in 0 .. MaxOps : Passed(cb, n) \in Nat
  BY PassedSteps
<1>2. Count(cb) \in Nat /\ Count(cb) <= MaxOps /\ MaxOps \in Nat /\ Count(cb) > 0
  <2>1. Count(cb) \in 0 .. MaxOps
    BY Occupied
  <2>2. Count(cb) # 0
    BY <1>1
  <2> QED BY <2>1, <2>2, MaxOpsAssumption
<1>3. T # {} /\ T \in SUBSET Nat
  <2>1. Count(cb) - 1 \in 0 .. Count(cb) - 1 /\ (Count(cb) - 1) + 1 = Count(cb)
    BY <1>2
  <2>2. Count(cb) - 1 \in T
    BY <2>1
  <2> QED BY <1>2, <2>2
<1>4. PICK c \in T : \A d \in T : c <= d
  <2> HIDE DEF T
  <2> QED BY <1>3, LeastElement
<1>5. c \in 0 .. Count(cb) - 1 /\ x < Passed(cb, c + 1)
  OBVIOUS
<1>6. Passed(cb, c) <= x
  <2>1. CASE c = 0
    BY <1>1, <2>1
  <2>2. CASE c # 0
    <3>1. c - 1 \in 0 .. Count(cb) - 1 /\ (c - 1) + 1 = c /\ ~(c <= c - 1) /\ c \in 0 .. MaxOps
      BY <1>2, <1>5, <2>2
    <3>2. ~(x < Passed(cb, c))
      BY <1>4, <3>1
    <3> QED BY <1>1, <3>1, <3>2
  <2> QED BY <2>1, <2>2
<1> QED BY <1>5, <1>6

(* What the walk finds: for a position inside the bytes kept, the entry    *)
(* that has this byte and its place in it; behind them, nothing.           *)
LEMMA FindEntryExact ==
  ASSUME NEW Ptr, NEW cb \in Ring(Ptr), RingShape(cb)
  PROVE  /\ \A c \in 0 .. Count(cb) - 1 : \A o \in 0 .. Nth(cb, c).size - 1 :
              FindEntry(cb, Passed(cb, c) + o) =
                [index |-> (cb.out_offs + c) % MaxOps, offset |-> o]
         /\ \A x \in Nat : x >= Passed(cb, Count(cb)) => FindEntry(cb, x) = NotFound
<1>1. /\ \A n \in 0 .. MaxOps : Passed(cb, n) \in Nat
      /\ \A n \in Index : /\ Passed(cb, n + 1) = Passed(cb, n) + Nth(cb, n).size
                          /\ Nth(cb, n).size \in Nat
  BY PassedSteps
<1>2. Count(cb) \in Nat /\ Count(cb) <= MaxOps /\ MaxOps \in Nat
  <2>1. Count(cb) \in 0 .. MaxOps
    BY Occupied
  <2> QED BY <2>1, MaxOpsAssumption
<1>3. /\ \A n \in 0 .. MaxOps : \A m \in 0 .. n : Passed(cb, m) <= Passed(cb, n)
      /\ Passed(cb, MaxOps) = Passed(cb, Count(cb))
  <2>1. MaxOps \in 0 .. MaxOps /\ MaxOps >= Count(cb)
    BY <1>2
  <2> QED BY <2>1, PassedGrows
<1>4. ASSUME NEW c \in 0 .. Count(cb) - 1, NEW o \in 0 .. Nth(cb, c).size - 1
      PROVE  FindEntry(cb, Passed(cb, c) + o) =
               [index |-> (cb.out_offs + c) % MaxOps, offset |-> o]
  <2> DEFINE x     == Passed(cb, c) + o
             stops == Stops(cb, x)
             first == CHOOSE k \in stops : \A j \in stops : k <= j
  <2>1. c \in Index /\ c < Count(cb) /\ c \in 0 .. MaxOps /\ c + 1 \in 0 .. MaxOps
    BY <1>2 DEF Index
  <2>2. /\ Passed(cb, c) \in Nat /\ Nth(cb, c).size \in Nat
        /\ Passed(cb, c + 1) = Passed(cb, c) + Nth(cb, c).size
    BY <1>1, <2>1
  <2>3. x \in Nat /\ x < Passed(cb, c + 1) /\ x - Passed(cb, c) = o
    BY <2>2
  <2>4. FindEntry(cb, x) = IF stops = {} THEN NotFound
                           ELSE [index |-> (cb.out_offs + first) % MaxOps,
                                 offset |-> x - Passed(cb, first)]
    BY DEF FindEntry
  <2>5. x >= Passed(cb, c)
    BY <2>2
  <2> HIDE DEF x
  <2>6. c \in stops
    BY <2>1, <2>3, WalkOccupied DEF Stops
  <2>7. \A j \in stops : c <= j
    <3> SUFFICES ASSUME NEW j \in Index, x < Passed(cb, j + 1), ~(c <= j) PROVE FALSE
      BY DEF Stops, Walk
    <3>1. j + 1 \in 0 .. c /\ j + 1 \in 0 .. MaxOps
      BY <1>2, <2>1 DEF Index
    <3>2. Passed(cb, j + 1) <= Passed(cb, c)
      BY <1>3, <2>1, <3>1
    <3>3. Passed(cb, j + 1) \in Nat
      BY <1>1, <3>1
    <3> HIDE DEF stops, first
    <3> QED BY <2>2, <2>3, <2>5, <3>2, <3>3
  <2>8. stops \subseteq Nat
    BY DEF Stops, Walk, Index
  <2> HIDE DEF stops
  <2>9. first \in stops /\ \A j \in stops : first <= j
    BY <2>6, <2>7
  <2>10. first = c
    <3> HIDE DEF first
    <3> QED BY <2>6, <2>7, <2>8, <2>9
  <2>11. stops # {}
    BY <2>6
  <2> HIDE DEF first
  <2>12. FindEntry(cb, x) = [index |-> (cb.out_offs + c) % MaxOps, offset |-> o]
    BY <2>3, <2>4, <2>10, <2>11
  <2> QED BY <2>12 DEF x
<1>5. ASSUME NEW x \in Nat, x >= Passed(cb, Count(cb)) PROVE FindEntry(cb, x) = NotFound
  <2>1. ASSUME NEW k \in Index PROVE ~(x < Passed(cb, k + 1))
    <3>1. k + 1 \in 0 .. MaxOps /\ MaxOps \in 0 .. MaxOps /\ Count(cb) \in 0 .. MaxOps
      BY <1>2 DEF Index
    <3>2. Passed(cb, k + 1) <= Passed(cb, MaxOps)
      BY <1>3, <3>1
    <3>3. Passed(cb, k + 1) \in Nat /\ Passed(cb, MaxOps) \in Nat
      BY <1>1, <3>1
    <3> QED BY <1>3, <1>5, <3>2, <3>3
  <2>2. Stops(cb, x) = {}
    BY <2>1 DEF Stops, Walk
  <2> QED BY <2>2 DEF FindEntry
<1> QED BY <1>4, <1>5

-----------------------------------------------------------------------------
(* pieces are the bytes of the occupied entries, oldest first.             *)
Holds(cb, S, pieces) ==
  /\ pieces \in Seq(Seq(S))
  /\ Len(pieces) = Count(cb)
  /\ \A c \in 0 .. Count(cb) - 1 : Len(pieces[c + 1]) = Nth(cb, c).size

(* Laid end to end, the first n of them are as long as what the walk has   *)
(* passed when it comes to the n-th entry.                                 *)
LEMMA LaidEndToEnd ==
  ASSUME NEW Ptr, NEW cb \in Ring(Ptr), RingShape(cb), NEW S, NEW pieces, Holds(cb, S, pieces)
  PROVE  /\ \A n \in 0 .. Count(cb) : Len(FlattenSeq(SubSeq(pieces, 1, n))) = Passed(cb, n)
         /\ FlattenSeq(pieces) \in Seq(S)
         /\ Len(FlattenSeq(pieces)) = Passed(cb, Count(cb))
<1> DEFINE upto(n) == FlattenSeq(SubSeq(pieces, 1, n))
           P == {n \in 0 .. Count(cb) : Len(upto(n)) = Passed(cb, n)}
<1>1. /\ Passed(cb, 0) = 0
      /\ \A n \in Index : /\ Passed(cb, n + 1) = Passed(cb, n) + Nth(cb, n).size
                          /\ Nth(cb, n).size \in Nat
  BY PassedSteps
<1>2. Count(cb) \in Nat /\ Count(cb) <= MaxOps /\ MaxOps \in Nat
  <2>1. Count(cb) \in 0 .. MaxOps
    BY Occupied
  <2> QED BY <2>1, MaxOpsAssumption
<1>3. /\ pieces \in Seq(Seq(S)) /\ Len(pieces) = Count(cb)
      /\ \A c \in 0 .. Count(cb) - 1 : Len(pieces[c + 1]) = Nth(cb, c).size
  BY DEF Holds
<1>4. ASSUME NEW n \in 1 .. Count(cb)
      PROVE  /\ upto(n - 1) \in Seq(S) /\ pieces[n] \in Seq(S)
             /\ upto(n) = upto(n - 1) \o pieces[n]
  <2>1. pieces[n] \in Seq(S) /\ n \in 1 .. Len(pieces) /\ pieces \in Seq(Seq(S))
    BY <1>3
  <2> QED BY <2>1, FlattenFront
<1>5. upto(0) = <<>> /\ upto(Count(cb)) = FlattenSeq(pieces)
  <2>1. SubSeq(pieces, 1, 0) = <<>>
    BY SubSeqEmpty
  <2> QED BY <1>3, <2>1, FlattenEmpty, SubSeqFull
<1>6. FlattenSeq(pieces) \in Seq(S)
  BY <1>3, FlattenType
<1> HIDE DEF upto
<1>7. 0 \in P
  BY <1>1, <1>2, <1>5
<1>8. ASSUME NEW n \in 0 .. Count(cb) - 1, n \in P PROVE n + 1 \in P
  <2>1. n \in Index /\ n + 1 \in 1 .. Count(cb) /\ (n + 1) - 1 = n /\ n + 1 \in 0 .. Count(cb)
    BY <1>2 DEF Index
  <2>2. /\ upto(n) \in Seq(S) /\ pieces[n + 1] \in Seq(S)
        /\ upto(n + 1) = upto(n) \o pieces[n + 1]
    BY <1>4, <2>1
  <2>3. Len(upto(n + 1)) = Len(upto(n)) + Len(pieces[n + 1])
    BY <2>2
  <2>4. Len(upto(n)) = Passed(cb, n) /\ Len(pieces[n + 1]) = Nth(cb, n).size
    BY <1>3, <1>8
  <2>5. Len(upto(n + 1)) = Passed(cb, n + 1)
    BY <1>1, <2>1, <2>3, <2>4
  <2> QED BY <2>1, <2>5
<1>9. \A n \in 0 .. Count(cb) : n \in P
  <2> HIDE DEF P
  <2> QED BY <1>2, <1>7, <1>8, CountUp
<1>10. Count(cb) \in 0 .. Count(cb)
  BY <1>2
<1> QED BY <1>5, <1>6, <1>9, <1>10 DEF upto

(* The bytes of an entry lie in the whole at the place the walk has come   *)
(* to.                                                                     *)
LEMMA ByteInWhole ==
  ASSUME NEW Ptr, NEW cb \in Ring(Ptr), RingShape(cb), NEW S, NEW pieces, Holds(cb, S, pieces),
         NEW c \in 0 .. Count(cb) - 1, NEW o \in 1 .. Nth(cb, c).size
  PROVE  /\ FlattenSeq(pieces)[Passed(cb, c) + o] = pieces[c + 1][o]
         /\ Passed(cb, c) + o \in 1 .. Len(FlattenSeq(pieces))
<1> DEFINE front == FlattenSeq(SubSeq(pieces, 1, c))
           piece == pieces[c + 1]
<1>1. /\ pieces \in Seq(Seq(S)) /\ Len(pieces) = Count(cb) /\ Len(piece) = Nth(cb, c).size
      /\ Count(cb) \in Nat /\ c + 1 \in 1 .. Len(pieces) /\ (c + 1) - 1 = c
      /\ c \in 0 .. Count(cb)
  <2>1. Count(cb) \in 0 .. MaxOps
    BY Occupied
  <2> QED BY <2>1, MaxOpsAssumption DEF Holds
<1>2. /\ \E rest \in Seq(S) : FlattenSeq(pieces) = (front \o piece) \o rest
      /\ front \in Seq(S)
  <2> DEFINE n == c + 1
  <2>1. n \in 1 .. Len(pieces) /\ n - 1 = c
    BY <1>1
  <2> HIDE DEF n
  <2>2. /\ \E rest \in Seq(S) :
             FlattenSeq(pieces) = (FlattenSeq(SubSeq(pieces, 1, n - 1)) \o pieces[n]) \o rest
        /\ FlattenSeq(SubSeq(pieces, 1, n - 1)) \in Seq(S)
    BY <1>1, <2>1, FlattenPiece, FlattenFront, ZenonT(40)
  <2> QED BY <2>1, <2>2 DEF n
<1>3. front \in Seq(S) /\ piece \in Seq(S)
  BY <1>1, <1>2
<1>7. PICK rest \in Seq(S) : FlattenSeq(pieces) = (front \o piece) \o rest
  BY <1>2
<1>4. Len(front) = Passed(cb, c)
  BY <1>1, LaidEndToEnd
<1>5. o \in 1 .. Len(piece)
  BY <1>1
<1> HIDE DEF front, piece
<1>6. /\ ((front \o piece) \o rest)[Len(front) + o] = piece[o]
      /\ Len(front) + o \in 1 .. Len((front \o piece) \o rest)
  <2> DEFINE w == front \o piece
  <2>1. /\ w \in Seq(S) /\ Len(w) = Len(front) + Len(piece) /\ Len(front) \in Nat
        /\ Len(front) + o \in 1 .. Len(w) /\ w[Len(front) + o] = piece[o]
    BY <1>3, <1>5
  <2> HIDE DEF w
  <2>2. /\ (w \o rest)[Len(front) + o] = w[Len(front) + o]
        /\ Len(w \o rest) = Len(w) + Len(rest) /\ Len(rest) \in Nat
    BY <2>1
  <2>3. Len(front) + o \in 1 .. Len(w \o rest)
    BY <2>1, <2>2
  <2> QED BY <2>1, <2>2, <2>3 DEF w
<1> QED BY <1>4, <1>6, <1>7 DEF piece
=============================================================================
