--------------------------- MODULE RingLogProofs ---------------------------
(***************************************************************************)
(* The ring is the list of the last MaxOps entries added to it, for every  *)
(* capacity and all entries: the loop visits that list, the walk for a     *)
(* position finds the byte at that index in the entries laid end to end,   *)
(* and add_entry returns the buffer that leaves the list.                  *)
(***************************************************************************)
EXTENDS RingLog, CircularBufferProofs

Pointers == {e.buffptr : e \in Entries} \cup {NULL}

(***************************************************************************)
(* The inductive invariant.  The shape of the ring says which slots are    *)
(* occupied and which of them the next entry replaces; without it the list *)
(* says nothing about the slots behind its end.                            *)
(***************************************************************************)
RingIsLog ==
  /\ cb \in Ring(Pointers)
  /\ RingShape(cb)
  /\ added \in Seq(Entries)
  /\ Len(added) = Count(cb)
  /\ \A k \in 0 .. Count(cb) - 1 : Nth(cb, k) = added[k + 1]

LEMMA EntryTypes ==
  /\ NULL \in Pointers
  /\ \A e \in Entries : e \in Entry(Pointers) /\ e.buffptr # NULL
<1> SUFFICES ASSUME NEW e \in Entries PROVE e \in Entry(Pointers) /\ e.buffptr # NULL
  BY DEF Pointers
<1>1. /\ e = [buffptr |-> e.buffptr, size |-> e.size]
      /\ e.buffptr # NULL /\ e.size \in Nat /\ e.buffptr \in Pointers
  BY EntriesAssumption DEF Pointers
<1> QED BY <1>1 DEF Entry

LEMMA InitIsLog == Init => RingIsLog
<1> SUFFICES ASSUME Init PROVE RingIsLog
  OBVIOUS
<1>1. cb \in Ring(Pointers)
  BY EmptyRingType, EntryTypes DEF Init
<1>2. RingShape(cb)
  BY MaxOpsAssumption DEF Init, RingShape, EmptyRing, EmptyEntry, Index
<1>3. Count(cb) = 0
  BY DEF Init, Count, EmptyRing
<1> QED BY <1>1, <1>2, <1>3 DEF Init, RingIsLog

(* Adding an entry drops the first of the list when the ring drops its     *)
(* oldest.                                                                 *)
LEMMA AddKeepsLog ==
  ASSUME RingIsLog, NEW e \in Entries, Add(e)
  PROVE  RingIsLog'
<1> DEFINE new  == AddEntry(cb, e)
           gone == IF cb.full THEN 1 ELSE 0
           rest == IF Len(added) = MaxOps THEN Tail(added) ELSE added
<1>1. cb \in Ring(Pointers) /\ RingShape(cb) /\ e \in Entry(Pointers) /\ e.buffptr # NULL
  BY EntryTypes DEF RingIsLog
<1>2. new \in Ring(Pointers) /\ RingShape(new)
  BY <1>1, AddEntryType, AddEntryShape
<1>3. /\ Count(cb) \in 0 .. MaxOps
      /\ Count(cb) = MaxOps <=> cb.full
      /\ Count(new) = Count(cb) + 1 - gone
      /\ Nth(new, Count(new) - 1) = e
      /\ \A k \in 0 .. Count(new) - 2 :
           \E i \in Index \ {cb.in_offs} :
             Nth(new, k) = cb.entry[i] /\ Nth(cb, k + gone) = cb.entry[i]
  BY <1>1, VisitedAfterAdd
<1>4. cb' = new /\ added' = Append(rest, e)
  BY DEF Add
<1>5. /\ added \in Seq(Entries) /\ Len(added) = Count(cb)
      /\ \A k \in 0 .. Count(cb) - 1 : Nth(cb, k) = added[k + 1]
  BY DEF RingIsLog
<1> HIDE DEF new
<1>6. /\ rest \in Seq(Entries) /\ Len(rest) = Count(new) - 1
      /\ \A k \in 1 .. Len(rest) : rest[k] = added[k + gone]
  BY <1>3, <1>5, MaxOpsAssumption
<1> HIDE DEF rest
<1>7. Append(rest, e) \in Seq(Entries) /\ Len(Append(rest, e)) = Count(new)
      /\ Append(rest, e)[Count(new)] = e
      /\ \A k \in 1 .. Len(rest) : Append(rest, e)[k] = rest[k]
  BY <1>3, <1>6
<1>8. ASSUME NEW k \in 0 .. Count(new) - 1 PROVE Nth(new, k) = Append(rest, e)[k + 1]
  <2>1. CASE k = Count(new) - 1
    <3>1. k + 1 = Count(new)
      BY <1>3, <2>1
    <3> QED BY <1>3, <1>7, <2>1, <3>1
  <2>2. CASE k # Count(new) - 1
    <3>1. /\ k \in 0 .. Count(new) - 2 /\ k + 1 \in 1 .. Len(rest)
          /\ k + gone \in 0 .. Count(cb) - 1 /\ (k + gone) + 1 = (k + 1) + gone
      BY <1>3, <1>6, <2>2
    <3>2. Nth(new, k) = Nth(cb, k + gone)
      BY <1>3, <3>1
    <3>3. Nth(cb, k + gone) = added[(k + gone) + 1]
      BY <1>5, <3>1
    <3>4. Append(rest, e)[k + 1] = added[(k + 1) + gone]
      BY <1>6, <1>7, <3>1
    <3> QED BY <3>1, <3>2, <3>3, <3>4
  <2> QED BY <2>1, <2>2
<1> QED BY <1>2, <1>4, <1>7, <1>8 DEF RingIsLog

THEOREM RingInvariance == Spec => []RingIsLog
<1>1. RingIsLog /\ [Next]_<<cb, added>> => RingIsLog'
  BY AddKeepsLog DEF Next, RingIsLog
<1> QED BY <1>1, InitIsLog, PTL DEF Spec
-----------------------------------------------------------------------------
(***************************************************************************)
(* FOREACH visits the entries kept in the order they were added, and then  *)
(* empty slots (aesd-circular-buffer.h:77).                                *)
(***************************************************************************)
THEOREM VisitsLog == Spec => []ForeachVisitsLog
<1>1. RingIsLog => ForeachVisitsLog
  <2> SUFFICES ASSUME RingIsLog, NEW k \in Index
               PROVE  Nth(cb, k) = IF k < Len(added) THEN added[k + 1] ELSE EmptyEntry
    BY DEF ForeachVisitsLog
  <2>1. Count(cb) \in 0 .. MaxOps /\ (k >= Count(cb) => Nth(cb, k) = EmptyEntry)
    BY Occupied DEF RingIsLog
  <2>2. k < Count(cb) => Nth(cb, k) = added[k + 1]
    BY <2>1 DEF RingIsLog, Index
  <2> QED BY <2>1, <2>2 DEF RingIsLog, Index
<1> QED BY <1>1, RingInvariance, PTL

(***************************************************************************)
(* add_entry returns the buffer of the oldest entry once there are MaxOps, *)
(* and NULL before (aesd-circular-buffer.c:67-68).                         *)
(***************************************************************************)
THEOREM Replaced == Spec => []ReplacedIsReturned
<1>1. RingIsLog => ReplacedIsReturned
  <2> SUFFICES ASSUME RingIsLog PROVE ReplacedIsReturned
    OBVIOUS
  <2>1. /\ cb.in_offs \in Index /\ cb.out_offs \in Index /\ cb.full \in BOOLEAN
        /\ Len(added) = Count(cb)
        /\ Count(cb) = MaxOps <=> cb.full
    BY MaxOpsAssumption DEF RingIsLog, Ring, Count, Index
  <2>2. CASE cb.full
    <3>1. (cb.out_offs + 0) % MaxOps = cb.out_offs
      <4>1. 0 \in Index /\ cb.out_offs + 0 < MaxOps /\ cb.out_offs + 0 = cb.out_offs
        BY <2>1, MaxOpsAssumption DEF Index
      <4> QED BY <2>1, <4>1, SlotOf
    <3>2. Nth(cb, 0) = added[1]
      <4>1. 0 \in 0 .. Count(cb) - 1 /\ 0 + 1 = 1
        BY <2>1, <2>2, MaxOpsAssumption
      <4> QED BY <4>1 DEF RingIsLog
    <3>3. PushedOut(cb) = cb.entry[cb.out_offs].buffptr
      BY <2>2 DEF RingIsLog, RingShape, PushedOut, PushesOut
    <3> QED BY <2>1, <2>2, <3>1, <3>2, <3>3 DEF ReplacedIsReturned, Nth
  <2>3. CASE ~cb.full
    BY <2>1, <2>3 DEF PushedOut, PushesOut, ReplacedIsReturned
  <2> QED BY <2>1, <2>2, <2>3
<1> QED BY <1>1, RingInvariance, PTL
-----------------------------------------------------------------------------
(* The entries laid end to end, as the bytes of the occupied entries.      *)
LEMMA LaidHolds ==
  ASSUME RingIsLog
  PROVE  /\ Holds(cb, Int \X Int, Laid)
         /\ \A c \in 0 .. Count(cb) - 1 : \A o \in 1 .. Nth(cb, c).size :
              Laid[c + 1][o] = <<c, o - 1>>
<1>1. /\ added \in Seq(Entries) /\ Len(added) = Count(cb) /\ Count(cb) \in Nat
      /\ \A k \in 0 .. Count(cb) - 1 : Nth(cb, k) = added[k + 1]
  <2>1. Count(cb) \in 0 .. MaxOps
    BY Occupied DEF RingIsLog
  <2> QED BY <2>1 DEF RingIsLog
<1>2. \A k \in 1 .. Len(added) : added[k].size \in Nat
  BY <1>1, EntriesAssumption
<1>3. ASSUME NEW k \in 1 .. Len(added)
      PROVE  /\ Laid[k] = [j \in 1 .. added[k].size |-> <<k - 1, j - 1>>]
             /\ Laid[k] \in Seq(Int \X Int)
             /\ Len(Laid[k]) = added[k].size
  <2> DEFINE n == added[k].size
             f == [j \in 1 .. n |-> <<k - 1, j - 1>>]
  <2>1. Laid[k] = f /\ n \in Nat
    BY <1>2 DEF Laid
  <2>2. \A j \in 1 .. n : <<k - 1, j - 1>> \in Int \X Int
    BY <1>1
  <2> HIDE DEF n
  <2>3. f \in Seq(Int \X Int) /\ Len(f) = n
    BY <2>1, <2>2
  <2> HIDE DEF f
  <2>4. Laid[k] \in Seq(Int \X Int) /\ Len(Laid[k]) = n
    BY <2>1, <2>3
  <2> QED BY <2>1, <2>4 DEF n, f
<1>4. Laid \in Seq(Seq(Int \X Int)) /\ Len(Laid) = Len(added)
  <2> DEFINE T == Seq(Int \X Int)
             n == Len(added)
  <2>1. Laid \in [1 .. n -> T] /\ n \in Nat
    BY <1>1, <1>3 DEF Laid
  <2> HIDE DEF T, n
  <2>2. Laid \in Seq(T) /\ Len(Laid) = n
    BY <2>1
  <2> QED BY <2>2 DEF T, n
<1>5. ASSUME NEW c \in 0 .. Count(cb) - 1
      PROVE  /\ Len(Laid[c + 1]) = Nth(cb, c).size
             /\ \A o \in 1 .. Nth(cb, c).size : Laid[c + 1][o] = <<c, o - 1>>
  <2> DEFINE k == c + 1
             n == added[k].size
  <2>1. k \in 1 .. Len(added) /\ k - 1 = c /\ Nth(cb, c) = added[k]
    BY <1>1
  <2> HIDE DEF k
  <2>2. Len(Laid[k]) = n /\ Laid[k] = [j \in 1 .. n |-> <<k - 1, j - 1>>]
    BY <1>3, <2>1
  <2>3. \A o \in 1 .. n : Laid[k][o] = <<c, o - 1>>
    BY <2>1, <2>2
  <2> QED BY <2>1, <2>2, <2>3 DEF k
<1> QED BY <1>1, <1>4, <1>5 DEF Holds

(***************************************************************************)
(* The walk for a position agrees with the entries laid end to end, and    *)
(* the size of the buffer with their length                                *)
(* (aesd-circular-buffer.c:26-32, 124).                                    *)
(***************************************************************************)
THEOREM FindAgrees == Spec => []FindAgreesWithConcatenation
<1>1. ASSUME RingIsLog PROVE FindAgreesWithConcatenation
  <2> DEFINE size == Passed(cb, Count(cb))
  <2>1. cb \in Ring(Pointers) /\ RingShape(cb) /\ Holds(cb, Int \X Int, Laid)
    <3>1. Holds(cb, Int \X Int, Laid)
      BY <1>1, LaidHolds
    <3> QED BY <1>1, <3>1 DEF RingIsLog
  <2>2. Count(cb) \in 0 .. MaxOps /\ MaxOps \in 0 .. MaxOps /\ MaxOps >= Count(cb)
    BY <2>1, Occupied, MaxOpsAssumption
  <2>3. Len(Concatenated) = size
    BY <2>1, LaidEndToEnd DEF Concatenated
  <2>4. BufferSize(cb) = size
    <3>1. BytesBefore(cb, MaxOps) = Passed(cb, MaxOps)
      BY <2>1, PassedIsBytesBefore
    <3> QED BY <2>1, <2>2, <3>1, PassedGrows DEF BufferSize
  <2>5. size \in Nat
    BY <2>1, <2>2, PassedSteps
  <2> HIDE DEF size
  <2>6. ASSUME NEW x \in 0 .. size - 1
        PROVE  /\ Concatenated[x + 1] \in Int \X Int
               /\ FindEntry(cb, x) = [index  |-> (cb.out_offs + Concatenated[x + 1][1]) % MaxOps,
                                      offset |-> Concatenated[x + 1][2]]
    <3>1. x \in Nat /\ x < size
      BY <2>5
    <3>2. PICK c \in 0 .. Count(cb) - 1 : Passed(cb, c) <= x /\ x < Passed(cb, c + 1)
      BY <2>1, <3>1, EntryOfByte DEF size
    <3> DEFINE o == x - Passed(cb, c)
    <3>3. /\ Passed(cb, c) \in Nat /\ Nth(cb, c).size \in Nat
          /\ Passed(cb, c + 1) = Passed(cb, c) + Nth(cb, c).size
      <4>1. c \in Index /\ c \in 0 .. MaxOps
        BY <2>2 DEF Index
      <4> QED BY <2>1, <4>1, PassedSteps
    <3>4. /\ o \in 0 .. Nth(cb, c).size - 1 /\ x = Passed(cb, c) + o
          /\ o + 1 \in 1 .. Nth(cb, c).size /\ x + 1 = Passed(cb, c) + (o + 1)
          /\ (o + 1) - 1 = o
      BY <3>1, <3>2, <3>3
    <3> HIDE DEF o
    <3>5. Concatenated[x + 1] = <<c, o>>
      <4>1. FlattenSeq(Laid)[Passed(cb, c) + (o + 1)] = Laid[c + 1][o + 1]
        BY <2>1, <3>4, ByteInWhole
      <4>2. Laid[c + 1][o + 1] = <<c, (o + 1) - 1>>
        BY <3>4, LaidHolds, <1>1
      <4> QED BY <3>4, <4>1, <4>2 DEF Concatenated
    <3>6. FindEntry(cb, x) = [index |-> (cb.out_offs + c) % MaxOps, offset |-> o]
      BY <2>1, <3>4, FindEntryExact
    <3>7. <<c, o>> \in Int \X Int /\ <<c, o>>[1] = c /\ <<c, o>>[2] = o
      BY <3>4
    <3> QED BY <3>5, <3>6, <3>7
  <2>7. \A x \in Nat : x >= size => FindEntry(cb, x) = NotFound
    BY <2>1, FindEntryExact DEF size
  <2>8. ASSUME NEW x \in 0 .. size + 1
        PROVE  FindEntry(cb, x) =
                 IF x >= size THEN NotFound
                 ELSE [index  |-> (cb.out_offs + Concatenated[x + 1][1]) % MaxOps,
                       offset |-> Concatenated[x + 1][2]]
    <3>1. x \in Nat /\ (~(x >= size) => x \in 0 .. size - 1)
      BY <2>5
    <3> QED BY <2>6, <2>7, <3>1
  <2> QED BY <2>3, <2>4, <2>8 DEF FindAgreesWithConcatenation
<1> QED BY <1>1, RingInvariance, PTL
=============================================================================
