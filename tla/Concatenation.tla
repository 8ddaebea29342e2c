--------------------------- MODULE Concatenation ---------------------------
(***************************************************************************)
(* Facts about FlattenSeq, which joins sequences to one, that the proofs   *)
(* about the ring, the driver and the server share: its type, what it is   *)
(* of a sequence with one member more or less, and where a member lies in  *)
(* it.  They go by induction over numbers, in the form of a set that holds *)
(* 0 and every successor.                                                  *)
(***************************************************************************)
EXTENDS SequencesExt, SequenceTheorems, WellFoundedInduction, TLAPS

(* A set of numbers that is not empty has a least member.                  *)
LEMMA LeastElement ==
  ASSUME NEW T \in SUBSET Nat, T # {}
  PROVE  \E x \in T : \A y \in T : x <= y
<1>1. PICK x \in T : \A y \in T : ~(<<y, x>> \in OpToRel(<, Nat))
  BY NatLessThanWellFounded, WFMin
<1>2. ASSUME NEW y \in T PROVE x <= y
  <2>1. SUFFICES ASSUME y < x PROVE FALSE
    OBVIOUS
  <2>2. y \in Nat /\ x \in Nat
    OBVIOUS
  <2>3. <<y, x>> \in OpToRel(<, Nat)
    BY <2>1, <2>2 DEF OpToRel
  <2> QED BY <1>1, <2>3
<1> QED BY <1>2

(* A set of numbers that holds 0 and the successor of each of its members  *)
(* is Nat.                                                                 *)
LEMMA SetInduction ==
  ASSUME NEW S \in SUBSET Nat, 0 \in S, \A n \in S : n + 1 \in S
  PROVE  S = Nat
<1> DEFINE T == Nat \ S
<1>1. SUFFICES ASSUME T # {} PROVE FALSE
  OBVIOUS
<1>2. PICK x \in T : \A y \in T : x <= y
  <2>1. T \subseteq Nat
    OBVIOUS
  <2> HIDE DEF T
  <2> QED BY <1>1, <2>1, LeastElement
<1>3. x \in Nat /\ x \notin S /\ x # 0
  BY <1>2
<1>4. x - 1 \in S
  BY <1>2, <1>3
<1> QED BY <1>3, <1>4

(* f is the table of the first n sequences of seqs joined together.        *)
Joins(f, S, seqs, n) ==
  /\ f \in [1 .. n -> Seq(S)]
  /\ \A i \in 1 .. n : f[i] = IF i = 1 THEN seqs[i] ELSE f[i - 1] \o seqs[i]

LEMMA JoinsExist ==
  ASSUME NEW S, NEW seqs \in Seq(Seq(S))
  PROVE  \E f : Joins(f, S, seqs, Len(seqs))
<1> DEFINE N == {n \in Nat : n <= Len(seqs) => \E f : Joins(f, S, seqs, n)}
<1>1. 0 \in N
  <2>1. Joins([i \in 1 .. 0 |-> <<>>], S, seqs, 0)
    BY DEF Joins
  <2> QED BY <2>1
<1>2. ASSUME NEW n \in N PROVE n + 1 \in N
  <2>1. SUFFICES ASSUME n + 1 <= Len(seqs) PROVE \E f : Joins(f, S, seqs, n + 1)
    OBVIOUS
  <2>2. n \in Nat /\ n <= Len(seqs)
    BY <2>1
  <2>3. PICK f : Joins(f, S, seqs, n)
    BY <2>2
  <2> DEFINE last == IF n = 0 THEN seqs[1] ELSE f[n] \o seqs[n + 1]
             g    == [i \in 1 .. n + 1 |-> IF i = n + 1 THEN last ELSE f[i]]
  <2>4. seqs[n + 1] \in Seq(S)
    BY <2>1, <2>2
  <2>5. last \in Seq(S)
    <3>1. CASE n = 0
      BY <2>4, <3>1
    <3>2. CASE n # 0
      <4>1. f[n] \in Seq(S)
        BY <2>2, <2>3, <3>2 DEF Joins
      <4> QED BY <2>4, <3>2, <4>1
    <3> QED BY <3>1, <3>2
  <2>6. g \in [1 .. n + 1 -> Seq(S)]
    <3> HIDE DEF last
    <3> QED BY <2>2, <2>3, <2>5 DEF Joins
  <2>7. ASSUME NEW i \in 1 .. n + 1
        PROVE  g[i] = IF i = 1 THEN seqs[i] ELSE g[i - 1] \o seqs[i]
    <3>1. CASE i = n + 1
      BY <2>2, <3>1
    <3>2. CASE i # n + 1
      <4>1. i \in 1 .. n
        BY <2>2, <3>2
      <4>2. f[i] = IF i = 1 THEN seqs[i] ELSE f[i - 1] \o seqs[i]
        BY <2>3, <4>1 DEF Joins
      <4>3. g[i] = f[i] /\ (i # 1 => g[i - 1] = f[i - 1])
        BY <2>2, <4>1
      <4> QED BY <4>2, <4>3
    <3> QED BY <3>1, <3>2
  <2> HIDE DEF g
  <2>8. Joins(g, S, seqs, n + 1)
    BY <2>6, <2>7 DEF Joins
  <2> QED BY <2>8
<1>3. N = Nat
  <2>1. N \in SUBSET Nat
    OBVIOUS
  <2> HIDE DEF N
  <2> QED BY <1>1, <1>2, <2>1, SetInduction
<1>4. Len(seqs) \in N /\ Len(seqs) \in Nat
  <2>1. Len(seqs) \in Nat
    OBVIOUS
  <2> QED BY <1>3, <2>1
<1> QED BY <1>4

(* FlattenSeq of sequences over S is the last entry of their table.        *)
LEMMA FlattenTable ==
  ASSUME NEW S, NEW seqs \in Seq(Seq(S)), Len(seqs) # 0
  PROVE  \E f : Joins(f, S, seqs, Len(seqs)) /\ FlattenSeq(seqs) = f[Len(seqs)]
<1> DEFINE R(f)    == [i \in 1 .. Len(seqs) |-> IF i = 1 THEN seqs[i] ELSE f[i - 1] \o seqs[i]]
           flatten == CHOOSE f : f = R(f)
           n       == Len(seqs)
<1>1. PICK f : Joins(f, S, seqs, n)
  BY JoinsExist
<1>2. f = R(f)
  <2>1. \A i \in 1 .. n : f[i] = IF i = 1 THEN seqs[i] ELSE f[i - 1] \o seqs[i]
    BY <1>1 DEF Joins
  <2> QED BY <1>1, <2>1 DEF Joins
<1>3. flatten = R(flatten)
  <2> HIDE DEF R
  <2> QED BY <1>2
<1>4. FlattenSeq(seqs) = flatten[n]
  BY DEF FlattenSeq
<1> HIDE DEF flatten
<1>5. flatten = [i \in 1 .. n |-> IF i = 1 THEN seqs[i] ELSE flatten[i - 1] \o seqs[i]]
  BY <1>3
<1> DEFINE N == {k \in Nat : k + 1 <= n => flatten[k + 1] \in Seq(S)}
<1>6. 0 \in N
  <2>1. n \in Nat /\ 1 \in 1 .. n
    OBVIOUS
  <2>2. flatten[1] = seqs[1]
    BY <1>5, <2>1
  <2> QED BY <2>1, <2>2
<1>7. ASSUME NEW k \in N PROVE k + 1 \in N
  <2> SUFFICES ASSUME (k + 1) + 1 <= n PROVE flatten[(k + 1) + 1] \in Seq(S)
    OBVIOUS
  <2>1. k \in Nat /\ (k + 1) + 1 \in 1 .. n /\ (k + 1) + 1 # 1 /\ n \in Nat
    OBVIOUS
  <2>2. flatten[k + 1] \in Seq(S)
    BY <2>1
  <2>3. flatten[(k + 1) + 1] = flatten[((k + 1) + 1) - 1] \o seqs[(k + 1) + 1]
    BY <1>5, <2>1
  <2>4. ((k + 1) + 1) - 1 = k + 1 /\ seqs[(k + 1) + 1] \in Seq(S)
    BY <2>1
  <2> QED BY <2>2, <2>3, <2>4
<1>8. N = Nat
  <2>1. N \in SUBSET Nat
    OBVIOUS
  <2> HIDE DEF N
  <2> QED BY <1>6, <1>7, <2>1, SetInduction
<1>9. n - 1 \in N /\ n \in Nat
  <2>1. n \in Nat /\ n - 1 \in Nat
    OBVIOUS
  <2> QED BY <1>8, <2>1
<1>10. flatten \in [1 .. n -> Seq(S)]
  <2>1. \A i \in 1 .. n : flatten[i] \in Seq(S)
    <3> SUFFICES ASSUME NEW i \in 1 .. n PROVE flatten[i] \in Seq(S)
      OBVIOUS
    <3>1. i - 1 \in Nat /\ (i - 1) + 1 = i /\ i <= n
      OBVIOUS
    <3> QED BY <1>8, <3>1
  <2> QED BY <1>5, <2>1
<1>11. \A i \in 1 .. n : flatten[i] = IF i = 1 THEN seqs[i] ELSE flatten[i - 1] \o seqs[i]
  BY <1>5
<1> QED BY <1>4, <1>10, <1>11 DEF Joins

LEMMA FlattenType ==
  ASSUME NEW S, NEW seqs \in Seq(Seq(S))
  PROVE  FlattenSeq(seqs) \in Seq(S)
<1>1. CASE Len(seqs) = 0
  <2>1. FlattenSeq(seqs) = seqs
    BY <1>1 DEF FlattenSeq
  <2> QED BY <1>1, <2>1
<1>2. CASE Len(seqs) # 0
  <2>1. PICK f : Joins(f, S, seqs, Len(seqs)) /\ FlattenSeq(seqs) = f[Len(seqs)]
    BY <1>2, FlattenTable
  <2> QED BY <1>2, <2>1, SMTT(30) DEF Joins
<1> QED BY <1>1, <1>2

(* It ends in the last of them.                                            *)
LEMMA FlattenEnd ==
  ASSUME NEW S, NEW seqs \in Seq(Seq(S)), Len(seqs) # 0
  PROVE  \E u \in Seq(S) : FlattenSeq(seqs) = u \o Last(seqs)
<1> DEFINE n == Len(seqs)
<1>1. PICK f : Joins(f, S, seqs, n) /\ FlattenSeq(seqs) = f[n]
  BY FlattenTable
<1>2. n \in 1 .. n /\ seqs[n] \in Seq(S) /\ Last(seqs) = seqs[n]
  BY DEF Last
<1>3. CASE n = 1
  <2>1. f[n] = seqs[n] /\ <<>> \in Seq(S)
    BY <1>1, <1>2, <1>3 DEF Joins
  <2>2. <<>> \o seqs[n] = seqs[n]
    BY <1>2, ConcatEmptySeq
  <2>3. FlattenSeq(seqs) = seqs[n] /\ Last(seqs) = seqs[n]
    <3> HIDE DEF n
    <3> QED BY <1>1, <1>2, <2>1
  <2> HIDE DEF n
  <2>4. FlattenSeq(seqs) = <<>> \o Last(seqs)
    BY <2>2, <2>3
  <2> QED BY <2>1, <2>4
<1>4. CASE n # 1
  <2> HIDE DEF n
  <2>1. n - 1 \in 1 .. n
    BY <1>2, <1>4
  <2>2. f[n] = f[n - 1] \o seqs[n] /\ f[n - 1] \in Seq(S)
    BY <1>1, <1>2, <1>4, <2>1 DEF Joins
  <2> QED BY <1>1, <1>2, <2>2
<1> QED BY <1>3, <1>4

-----------------------------------------------------------------------------
(* A set that holds 0, and the successor of each of its members below n,   *)
(* holds every number up to n.                                             *)
LEMMA CountUp ==
  ASSUME NEW n \in Nat, NEW P, 0 \in P, \A k \in 0 .. n - 1 : k \in P => k + 1 \in P
  PROVE  \A k \in 0 .. n : k \in P
<1> DEFINE N == {k \in Nat : k <= n => k \in P}
<1>1. 0 \in N
  OBVIOUS
<1>2. ASSUME NEW k \in N PROVE k + 1 \in N
  <2>1. k \in Nat
    OBVIOUS
  <2>2. CASE k + 1 <= n
    <3>1. k \in 0 .. n - 1 /\ k \in P
      BY <2>1, <2>2
    <3> QED BY <2>1, <3>1
  <2>3. CASE ~(k + 1 <= n)
    BY <2>1, <2>3
  <2> QED BY <2>2, <2>3
<1>3. N = Nat
  <2>1. N \in SUBSET Nat
    OBVIOUS
  <2> HIDE DEF N
  <2> QED BY <1>1, <1>2, <2>1, SetInduction
<1> SUFFICES ASSUME NEW k \in 0 .. n PROVE k \in P
  OBVIOUS
<1>4. k \in Nat /\ k <= n
  OBVIOUS
<1>5. k \in N
  <2> HIDE DEF N
  <2> QED BY <1>3, <1>4
<1> QED BY <1>4, <1>5

(* Tables of two sequences that begin alike begin alike.                   *)
LEMMA JoinsAgree ==
  ASSUME NEW S, NEW s, NEW t, NEW f, NEW g, NEW n \in Nat, NEW m \in Nat, n <= m,
         Joins(f, S, s, n), Joins(g, S, t, m), \A i \in 1 .. n : s[i] = t[i]
  PROVE  \A i \in 1 .. n : f[i] = g[i]
<1> DEFINE P == {k \in 0 .. n : k # 0 => f[k] = g[k]}
<1>1. 0 \in P
  OBVIOUS
<1>2. ASSUME NEW k \in 0 .. n - 1, k \in P PROVE k + 1 \in P
  <2>1. k + 1 \in 1 .. n /\ k + 1 \in 1 .. m /\ (k + 1) - 1 = k /\ k \in Nat
    OBVIOUS
  <2>2. /\ f[k + 1] = IF k + 1 = 1 THEN s[k + 1] ELSE f[k] \o s[k + 1]
        /\ g[k + 1] = IF k + 1 = 1 THEN t[k + 1] ELSE g[k] \o t[k + 1]
        /\ s[k + 1] = t[k + 1]
    BY <2>1 DEF Joins
  <2>3. f[k + 1] = g[k + 1]
    <3>1. CASE k = 0
      BY <2>2, <3>1
    <3>2. CASE k # 0
      <4>1. f[k] = g[k] /\ k + 1 # 1
        BY <1>2, <2>1, <3>2
      <4> QED BY <2>2, <4>1
    <3> QED BY <3>1, <3>2
  <2> QED BY <2>1, <2>3
<1>3. \A k \in 0 .. n : k \in P
  <2> HIDE DEF P
  <2> QED BY <1>1, <1>2, CountUp
<1> SUFFICES ASSUME NEW i \in 1 .. n PROVE f[i] = g[i]
  OBVIOUS
<1>4. i \in 0 .. n /\ i # 0
  OBVIOUS
<1> QED BY <1>3, <1>4

(* Nothing to join.                                                        *)
LEMMA FlattenEmpty == FlattenSeq(<<>>) = <<>>
  BY DEF FlattenSeq

(* One sequence more at the end.                                           *)
LEMMA FlattenAppend ==
  ASSUME NEW S, NEW seqs \in Seq(Seq(S)), NEW s \in Seq(S)
  PROVE  FlattenSeq(Append(seqs, s)) = FlattenSeq(seqs) \o s
<1> DEFINE n == Len(seqs)
           t == Append(seqs, s)
<1>1. /\ t \in Seq(Seq(S)) /\ Len(t) = n + 1 /\ n \in Nat /\ t[n + 1] = s
      /\ \A i \in 1 .. n : seqs[i] = t[i]
  OBVIOUS
<1>a. n = Len(seqs)
  OBVIOUS
<1> HIDE DEF t, n
<1>2. PICK g : Joins(g, S, t, n + 1) /\ FlattenSeq(t) = g[n + 1]
  BY <1>1, FlattenTable
<1>3. CASE n = 0
  <2>1. FlattenSeq(seqs) = <<>> /\ g[n + 1] = s
    BY <1>1, <1>2, <1>3, FlattenEmpty DEF Joins, n
  <2> QED BY <1>2, <2>1, ConcatEmptySeq DEF t
<1>4. CASE n # 0
  <2>1. PICK f : Joins(f, S, seqs, n) /\ FlattenSeq(seqs) = f[n]
    BY <1>4, FlattenTable DEF n
  <2>2. f[n] = g[n]
    <3>1. n <= n + 1 /\ n + 1 \in Nat /\ n \in 1 .. n
      BY <1>1, <1>4
    <3>2. Joins(g, S, t, n + 1)
      BY <1>2
    <3>3. \A i \in 1 .. n : f[i] = g[i]
      BY <1>1, <2>1, <3>1, <3>2, JoinsAgree, SMT
    <3> QED BY <3>1, <3>3
  <2>3. n + 1 \in 1 .. n + 1 /\ n + 1 # 1 /\ (n + 1) - 1 = n
    BY <1>1, <1>4
  <2>4. g[n + 1] = g[n] \o s
    BY <1>1, <1>2, <2>3 DEF Joins
  <2> QED BY <1>2, <2>1, <2>2, <2>4 DEF t
<1> QED BY <1>3, <1>4

(* What the first n of the sequences come to, and the first n - 1.         *)
LEMMA FlattenFront ==
  ASSUME NEW S, NEW seqs \in Seq(Seq(S)), NEW n \in 1 .. Len(seqs)
  PROVE  /\ FlattenSeq(SubSeq(seqs, 1, n - 1)) \in Seq(S)
         /\ FlattenSeq(SubSeq(seqs, 1, n)) = FlattenSeq(SubSeq(seqs, 1, n - 1)) \o seqs[n]
<1> DEFINE front == SubSeq(seqs, 1, n - 1)
<1>1. SubSeq(seqs, 1, n) = front \o <<seqs[n]>>
  BY SubSeqRecursiveSecond
<1>2. front \in Seq(Seq(S)) /\ seqs[n] \in Seq(S)
  <2>1. \A i \in 1 .. n - 1 : seqs[i] \in Seq(S)
    OBVIOUS
  <2> QED BY <2>1, SubSeqProperties
<1> HIDE DEF front
<1>3. SubSeq(seqs, 1, n) = Append(front, seqs[n])
  BY <1>1, <1>2, AppendIsConcat
<1> QED BY <1>2, <1>3, FlattenType, FlattenAppend DEF front

(* Joining is associative, as a predicate of the set of the elements.      *)
Regroups(S) ==
  \A x, y, z \in Seq(S) : (x \o y) \o z = x \o (y \o z) /\ y \o z \in Seq(S)

LEMMA Regroup == ASSUME NEW S PROVE Regroups(S)
<1> SUFFICES ASSUME NEW x \in Seq(S), NEW y \in Seq(S), NEW z \in Seq(S)
             PROVE  (x \o y) \o z = x \o (y \o z) /\ y \o z \in Seq(S)
  BY DEF Regroups
<1>1. y \o z \in Seq(S)
  BY ConcatProperties
<1>2. (x \o y) \o z = x \o (y \o z)
  BY ConcatAssociative
<1> QED BY <1>1, <1>2

(* The n-th sequence lies in the whole right behind those before it.       *)
LEMMA FlattenPiece ==
  ASSUME NEW S, NEW seqs \in Seq(Seq(S)), NEW n \in 1 .. Len(seqs)
  PROVE  \E rest \in Seq(S) :
           FlattenSeq(seqs) = (FlattenSeq(SubSeq(seqs, 1, n - 1)) \o seqs[n]) \o rest
<1> DEFINE upto(k) == FlattenSeq(SubSeq(seqs, 1, k))
           m == Len(seqs) - n
           P == {k \in 0 .. m : \E rest \in Seq(S) : upto(n + k) = upto(n) \o rest}
<1>a. ASSUME NEW x \in Seq(S), NEW y \in Seq(S), NEW z \in Seq(S)
      PROVE  \E w \in Seq(S) : (x \o y) \o z = x \o w
  <2>1. Regroups(S)
    BY Regroup
  <2>2. (x \o y) \o z = x \o (y \o z) /\ y \o z \in Seq(S)
    BY <2>1 DEF Regroups
  <2> QED BY <2>2
<1>0. ASSUME NEW k \in 1 .. Len(seqs)
      PROVE  upto(k - 1) \in Seq(S) /\ upto(k) = upto(k - 1) \o seqs[k] /\ seqs[k] \in Seq(S)
  <2>1. seqs[k] \in Seq(S)
    OBVIOUS
  <2> QED BY <2>1, FlattenFront
<1>1. upto(n) \in Seq(S)
  <2>1. upto(n - 1) \in Seq(S) /\ upto(n) = upto(n - 1) \o seqs[n] /\ seqs[n] \in Seq(S)
    BY <1>0
  <2> HIDE DEF upto
  <2> QED BY <2>1, ConcatProperties
<1>2. upto(Len(seqs)) = FlattenSeq(seqs)
  BY SubSeqFull
<1>3. m \in Nat /\ n + m = Len(seqs) /\ n \in Nat /\ n >= 1
  OBVIOUS
<1> HIDE DEF upto, m
<1>4. 0 \in P
  <2>1. upto(n) \o <<>> = upto(n) /\ <<>> \in Seq(S) /\ n + 0 = n /\ 0 \in 0 .. m
    BY <1>1, <1>3, ConcatEmptySeq
  <2> QED BY <2>1
<1>5. ASSUME NEW k \in 0 .. m - 1, k \in P PROVE k + 1 \in P
  <2>1. /\ n + (k + 1) \in 1 .. Len(seqs) /\ (n + (k + 1)) - 1 = n + k
        /\ k + 1 \in 0 .. m
    BY <1>3
  <2>2. PICK rest \in Seq(S) : upto(n + k) = upto(n) \o rest
    BY <1>5
  <2> DEFINE piece == seqs[n + (k + 1)]
  <2>3. upto(n + (k + 1)) = (upto(n) \o rest) \o piece /\ piece \in Seq(S)
    BY <1>0, <2>1, <2>2
  <2> HIDE DEF piece
  <2>4. PICK w \in Seq(S) : (upto(n) \o rest) \o piece = upto(n) \o w
    BY <1>1, <1>a, <2>2, <2>3, Zenon
  <2> QED BY <2>1, <2>3, <2>4
<1>6. \A k \in 0 .. m : k \in P
  <2> HIDE DEF P
  <2> QED BY <1>3, <1>4, <1>5, CountUp
<1>7. m \in 0 .. m
  BY <1>3
<1>8. PICK rest \in Seq(S) : upto(n + m) = upto(n) \o rest
  BY <1>6, <1>7
<1>9. n \in 1 .. Len(seqs)
  OBVIOUS
<1> QED BY <1>0, <1>2, <1>3, <1>8, <1>9 DEF upto

(* One sequence less at the front.                                         *)
LEMMA FlattenHead ==
  ASSUME NEW S, NEW seqs \in Seq(Seq(S)), seqs # <<>>
  PROVE  FlattenSeq(seqs) = Head(seqs) \o FlattenSeq(Tail(seqs))
<1> DEFINE rest == Tail(seqs)
           m == Len(rest)
           head == Head(seqs)
           from(k) == FlattenSeq(SubSeq(rest, 1, k))
           upto(k) == FlattenSeq(SubSeq(seqs, 1, k))
           P == {k \in 0 .. m : upto(k + 1) = head \o from(k)}
<1>1. /\ rest \in Seq(Seq(S)) /\ m = Len(seqs) - 1 /\ m \in Nat
      /\ head = seqs[1] /\ head \in Seq(S)
      /\ \A k \in 1 .. m : rest[k] = seqs[k + 1] /\ rest[k] \in Seq(S)
  OBVIOUS
<1>2. /\ \A k \in 1 .. Len(seqs) : upto(k) = upto(k - 1) \o seqs[k]
      /\ upto(0) = <<>> /\ upto(Len(seqs)) = FlattenSeq(seqs)
  <2>1. SubSeq(seqs, 1, 0) = <<>>
    BY SubSeqEmpty
  <2> QED BY <2>1, FlattenFront, FlattenEmpty, SubSeqFull
<1>a. m = Len(rest) /\ rest = Tail(seqs)
  OBVIOUS
<1> HIDE DEF rest, m, head, upto
<1>3. ASSUME NEW k \in 1 .. m PROVE from(k) = from(k - 1) \o rest[k] /\ from(k - 1) \in Seq(S)
  BY <1>1, <1>a, FlattenFront
<1>b. from(0) = <<>> /\ from(m) = FlattenSeq(rest)
  <2>1. SubSeq(rest, 1, 0) = <<>>
    BY SubSeqEmpty
  <2> QED BY <1>1, <1>a, <2>1, FlattenEmpty, SubSeqFull
<1> HIDE DEF from
<1>4. 0 \in P
  <2>1. 1 \in 1 .. Len(seqs) /\ 1 - 1 = 0 /\ 0 + 1 = 1 /\ 0 \in 0 .. m
    BY <1>1
  <2>2. upto(1) = <<>> \o head
    BY <1>1, <1>2, <2>1
  <2>3. <<>> \o head = head /\ head \o <<>> = head
    BY <1>1, ConcatEmptySeq
  <2> QED BY <1>b, <2>1, <2>2, <2>3
<1>5. ASSUME NEW k \in 0 .. m - 1, k \in P PROVE k + 1 \in P
  <2>1. /\ (k + 1) + 1 \in 1 .. Len(seqs) /\ ((k + 1) + 1) - 1 = k + 1
        /\ k + 1 \in 1 .. m /\ (k + 1) - 1 = k /\ k + 1 \in 0 .. m
    BY <1>1
  <2>2. upto((k + 1) + 1) = upto(k + 1) \o seqs[(k + 1) + 1]
    BY <1>2, <2>1
  <2>3. upto((k + 1) + 1) = (head \o from(k)) \o rest[k + 1]
    <3>1. upto(k + 1) = head \o from(k)
      BY <1>5
    <3>2. rest[k + 1] = seqs[(k + 1) + 1]
      BY <1>1, <2>1
    <3> QED BY <2>2, <3>1, <3>2
  <2>4. from(k + 1) = from(k) \o rest[k + 1] /\ from(k) \in Seq(S) /\ rest[k + 1] \in Seq(S)
    BY <1>1, <1>3, <2>1
  <2> DEFINE piece == rest[k + 1]
  <2>5. (head \o from(k)) \o piece = head \o (from(k) \o piece)
    <3>1. head \in Seq(S) /\ from(k) \in Seq(S) /\ piece \in Seq(S)
      BY <1>1, <2>4
    <3>2. Regroups(S)
      BY Regroup
    <3> HIDE DEF piece
    <3> QED BY <3>1, <3>2 DEF Regroups
  <2>6. upto((k + 1) + 1) = head \o from(k + 1)
    BY <2>3, <2>4, <2>5
  <2> QED BY <2>1, <2>6
<1>6. \A k \in 0 .. m : k \in P
  <2> HIDE DEF P
  <2> QED BY <1>1, <1>4, <1>5, CountUp
<1>7. m \in 0 .. m /\ m + 1 = Len(seqs)
  BY <1>1
<1>8. upto(Len(seqs)) = head \o from(m)
  <2>1. m \in P
    BY <1>6, <1>7
  <2> QED BY <1>7, <2>1
<1> QED BY <1>2, <1>b, <1>8 DEF rest, head

(* What is joined last is a suffix.                                        *)
LEMMA ConcatSuffix ==
  ASSUME NEW S, NEW u \in Seq(S), NEW s \in Seq(S)
  PROVE  IsSuffix(s, u \o s)
<1> DEFINE t == u \o s
           m == Len(s)
           n == Len(t)
<1>1. /\ t \in Seq(S) /\ n = Len(u) + m /\ m \in Nat /\ Len(u) \in Nat
      /\ \A i \in 1 .. n : t[i] = IF i <= Len(u) THEN u[i] ELSE s[i - Len(u)]
  BY ConcatProperties
<1> HIDE DEF t
<1>2. Reverse(s) = [i \in 1 .. m |-> s[(m - i) + 1]] /\ Reverse(t) = [i \in 1 .. n |-> t[(n - i) + 1]]
  BY DEF Reverse
<1>3. Reverse(s) \in Seq(S) /\ Len(Reverse(s)) = m
  <2>1. \A i \in 1 .. m : s[(m - i) + 1] \in S
    BY <1>1
  <2> QED BY <1>1, <1>2, <2>1
<1>4. Reverse(t) \in Seq(S) /\ Len(Reverse(t)) = n
  <2>1. \A i \in 1 .. n : t[(n - i) + 1] \in S
    BY <1>1
  <2> QED BY <1>1, <1>2, <2>1
<1>5. ASSUME NEW i \in 1 .. m PROVE Reverse(s)[i] = Reverse(t)[i]
  <2>1. /\ i \in 1 .. n /\ (n - i) + 1 \in 1 .. n /\ ~((n - i) + 1 <= Len(u))
        /\ ((n - i) + 1) - Len(u) = (m - i) + 1
    BY <1>1
  <2>2. t[(n - i) + 1] = s[(m - i) + 1]
    BY <1>1, <2>1
  <2> QED BY <1>2, <2>1, <2>2
<1>6. SubSeq(Reverse(s), 1, m) = SubSeq(Reverse(t), 1, m)
  <2> DEFINE a == SubSeq(Reverse(s), 1, m)
             b == SubSeq(Reverse(t), 1, m)
  <2>1. m <= n /\ \A i \in 1 .. m : Reverse(s)[i] \in S /\ Reverse(t)[i] \in S
    BY <1>1, <1>3, <1>4
  <2>2. a \in Seq(S) /\ Len(a) = m /\ \A i \in 1 .. m : a[i] = Reverse(s)[i]
    BY <1>1, <2>1, SubSeqProperties
  <2>3. b \in Seq(S) /\ Len(b) = m /\ \A i \in 1 .. m : b[i] = Reverse(t)[i]
    BY <1>1, <2>1, SubSeqProperties
  <2>4. \A i \in 1 .. m : a[i] = b[i]
    BY <1>5, <2>2, <2>3
  <2>5. a = b
    <3> HIDE DEF a, b, m
    <3> QED BY <2>2, <2>3, <2>4, SeqEqual
  <2> QED BY <2>5
<1> QED BY <1>1, <1>3, <1>4, <1>6 DEF IsSuffix, IsPrefix, t
=============================================================================
