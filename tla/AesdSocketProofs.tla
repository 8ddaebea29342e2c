-------------------------- MODULE AesdSocketProofs --------------------------
(***************************************************************************)
(* What is proved of the server, for any number of clients, any lines and  *)
(* buffers, and whatever fails: the mutex, the data of the threads, the    *)
(* half lines on the device, the text that is dropped, that a reply is     *)
(* what the device holds and ends in the line it answers, that commands    *)
(* are lines, that threads do not pile up, and the types.                  *)
(***************************************************************************)
EXTENDS AesdSocketService, FiniteSetTheorems, Concatenation

Step == {"none", "start", "recv", "closing", "lock", "write", "newline",
         "seek", "read", "unlock", "oops", "exited"}

(* The part of TypeOK the invariant rests on.                              *)
Types ==
  /\ client \in [Conns -> {"new", "connected", "closed"}]
  /\ backlog \subseteq {c \in Conns : client[c] # "new"}
  /\ todo \in [Conns -> Seq(Seq(Token))]
  /\ inflight \in [Conns -> Seq(Token)]
  /\ mpc \in {"down", "setup", "daemonize", "accept", "spawn", "reap", "join"}
  /\ thread_list \in Seq(Conns)
  /\ tpc \in [Conns -> Step]
  /\ datafile_mutex \in Conns \cup {NULL}
  /\ buf \in [Conns -> Seq(Token)]

(* Connections that have no thread: those main has yet to accept, the one  *)
(* it has accepted last, and all while it does not accept.                 *)
Unserved ==
  /\ \A c \in Conns : client[c] = "new" \/ c \in backlog => tpc[c] = "none"
  /\ mpc = "spawn" =>
       /\ conn_fd \in open_conns \cap Conns
       /\ client[conn_fd] # "new" /\ conn_fd \notin backlog
       /\ tpc[conn_fd] = "none"
  /\ mpc = "join" => conn_fd \in Conns
  /\ mpc \in {"down", "setup", "daemonize"} => \A c \in Conns : tpc[c] = "none"

(* A thread in recv has whole buffers: it would have gone on otherwise.    *)
WholeBuffers ==
  \A c \in Conns :
    tpc[c] \in {"none", "start", "recv", "closing"} => Len(buf[c]) % BufSize = 0

(***************************************************************************)
(* The inductive invariant.                                                *)
(***************************************************************************)
IInv ==
  /\ Types
  /\ Unserved
  /\ MutexHeldOnDevice
  /\ RunningThreadHasData
  /\ HalfLineHasWriter
  /\ WholeBuffers

LEMMA EmptyBuffer == 0 % BufSize = 0
  BY BufSizeAssumption

(* A whole number of buffers and one more is a whole number of buffers.    *)
LEMMA OneMoreBuffer == ASSUME NEW n \in Nat, n % BufSize = 0 PROVE (n + BufSize) % BufSize = 0
<1> DEFINE k == n \div BufSize
           q == (n + BufSize) \div BufSize
           r == (n + BufSize) % BufSize
<1>1. k \in Int /\ q \in Int /\ r \in Int /\ 0 <= r /\ r < BufSize
  BY BufSizeAssumption
<1>2. n = BufSize * k
  BY BufSizeAssumption
<1>3. n + BufSize = BufSize * q + r
  BY BufSizeAssumption
<1> HIDE DEF k, q, r
<1>4. BufSize * ((k + 1) - q) = r
  BY <1>1, <1>2, <1>3, BufSizeAssumption
<1>5. ASSUME NEW d \in Int, BufSize * d = r PROVE r = 0
  <2>1. CASE d >= 1
    BY <1>1, <1>5, <2>1, BufSizeAssumption
  <2>2. CASE d <= -1
    BY <1>1, <1>5, <2>2, BufSizeAssumption
  <2>3. CASE d = 0
    BY <1>5, <2>3, BufSizeAssumption
  <2> QED BY <2>1, <2>2, <2>3
<1>6. r = 0
  BY <1>1, <1>4, <1>5
<1> QED BY <1>6 DEF r

LEMMA InitIInv == Init => IInv
<1> SUFFICES ASSUME Init PROVE IInv
  OBVIOUS
<1>1. Types /\ Unserved
  BY ScriptAssumption DEF Init, Types, Unserved, Step
<1>2. MutexHeldOnDevice /\ RunningThreadHasData /\ HalfLineHasWriter
  BY NullAssumption DEF Init, LogInit, MutexHeldOnDevice, RunningThreadHasData,
     HalfLineHasWriter, OnDevice
<1>3. WholeBuffers
  BY EmptyBuffer DEF Init, WholeBuffers
<1> QED BY <1>1, <1>2, <1>3 DEF IInv

-----------------------------------------------------------------------------
(* A sequence with one element more in front.                              *)
LEMMA ConsSet ==
  ASSUME NEW S, NEW x \in S, NEW s \in Seq(S)
  PROVE  /\ Cons(x, s) \in Seq(S)
         /\ x \in ToSet(Cons(x, s))
         /\ ToSet(s) \subseteq ToSet(Cons(x, s))
         /\ ToSet(Cons(x, s)) \subseteq {x} \cup ToSet(s)
<1> DEFINE c == <<x>> \o s
<1>1. c \in Seq(S) /\ DOMAIN c = 1 .. Len(s) + 1 /\ Len(s) \in Nat
  OBVIOUS
<1>2. c[1] = x
  OBVIOUS
<1>3. ASSUME NEW j \in 1 .. Len(s) PROVE c[j + 1] = s[j] /\ j + 1 \in DOMAIN c
  OBVIOUS
<1> HIDE DEF c
<1>4. x \in ToSet(c)
  BY <1>1, <1>2 DEF ToSet
<1>5. ToSet(s) \subseteq ToSet(c)
  <2> SUFFICES ASSUME NEW j \in 1 .. Len(s) PROVE s[j] \in ToSet(c)
    BY DEF ToSet
  <2> QED BY <1>3 DEF ToSet
<1>6. ToSet(c) \subseteq {x} \cup ToSet(s)
  <2> SUFFICES ASSUME NEW k \in 1 .. Len(s) + 1 PROVE c[k] \in {x} \cup ToSet(s)
    BY <1>1 DEF ToSet
  <2>1. CASE k = 1
    BY <1>2, <2>1
  <2>2. CASE k # 1
    <3>1. k - 1 \in 1 .. Len(s) /\ (k - 1) + 1 = k
      BY <1>1, <2>2
    <3>2. c[k] = s[k - 1]
      BY <1>3, <3>1
    <3> QED BY <3>1, <3>2 DEF ToSet
  <2> QED BY <2>1, <2>2
<1> QED BY <1>1, <1>4, <1>5, <1>6 DEF Cons, c

(* A sequence without its i-th element.                                    *)
LEMMA RemoveAtIndex ==
  ASSUME NEW S, NEW s \in Seq(S), NEW i \in DOMAIN s
  PROVE  /\ RemoveAt(s, i) \in Seq(S)
         /\ DOMAIN RemoveAt(s, i) = 1 .. Len(s) - 1
         /\ \A j \in 1 .. Len(s) - 1 : RemoveAt(s, i)[j] = IF j < i THEN s[j] ELSE s[j + 1]
<1> DEFINE n == Len(s)
           a == SubSeq(s, 1, i - 1)
           b == SubSeq(s, i + 1, n)
           c == a \o b
<1>1. i \in 1 .. n /\ n \in Nat /\ DOMAIN s = 1 .. n
  OBVIOUS
<1>2. a \in Seq(S) /\ Len(a) = i - 1 /\ \A j \in 1 .. i - 1 : a[j] = s[j]
  BY <1>1, SubSeqProperties
<1>3. b \in Seq(S) /\ Len(b) = n - i /\ \A j \in 1 .. n - i : b[j] = s[i + j]
  BY <1>1, SubSeqProperties
<1> HIDE DEF a, b
<1>4. c \in Seq(S) /\ DOMAIN c = 1 .. n - 1
  <2>1. c \in Seq(S) /\ Len(c) = (i - 1) + (n - i)
    BY <1>2, <1>3, ConcatProperties
  <2> HIDE DEF c
  <2> QED BY <1>1, <2>1
<1>5. ASSUME NEW j \in 1 .. n - 1 PROVE c[j] = IF j < i THEN s[j] ELSE s[j + 1]
  <2>1. c[j] = IF j < i THEN a[j] ELSE b[j - (i - 1)]
    BY <1>1, <1>2, <1>3, ConcatProperties
  <2> HIDE DEF c
  <2>2. CASE j < i
    BY <1>1, <1>2, <2>1, <2>2
  <2>3. CASE ~(j < i)
    <3>1. j - (i - 1) \in 1 .. n - i /\ i + (j - (i - 1)) = j + 1
      BY <1>1, <2>3
    <3> QED BY <1>3, <2>1, <2>3, <3>1
  <2> QED BY <2>2, <2>3
<1> HIDE DEF c
<1> QED BY <1>4, <1>5 DEF RemoveAt, c, a, b

LEMMA RemoveAtSet ==
  ASSUME NEW S, NEW s \in Seq(S), NEW i \in DOMAIN s
  PROVE  /\ RemoveAt(s, i) \in Seq(S)
         /\ ToSet(s) \subseteq ToSet(RemoveAt(s, i)) \cup {s[i]}
         /\ ToSet(RemoveAt(s, i)) \subseteq ToSet(s)
<1> DEFINE n == Len(s)
           c == RemoveAt(s, i)
<1>1. i \in 1 .. n /\ n \in Nat /\ DOMAIN s = 1 .. n
  OBVIOUS
<1>2. c \in Seq(S) /\ DOMAIN c = 1 .. n - 1
  BY RemoveAtIndex
<1>3. \A j \in 1 .. n - 1 : c[j] = IF j < i THEN s[j] ELSE s[j + 1]
  BY RemoveAtIndex
<1> HIDE DEF c
<1>4. ASSUME NEW j \in 1 .. n, j # i PROVE \E k \in DOMAIN c : c[k] = s[j]
  <2>1. CASE j < i
    <3>1. j \in 1 .. n - 1
      BY <1>1, <2>1
    <3> QED BY <1>2, <1>3, <2>1, <3>1
  <2>2. CASE j > i
    <3>1. j - 1 \in 1 .. n - 1 /\ ~(j - 1 < i) /\ (j - 1) + 1 = j
      BY <1>1, <2>2
    <3> QED BY <1>2, <1>3, <3>1
  <2> QED BY <1>1, <1>4, <2>1, <2>2
<1>5. ASSUME NEW k \in DOMAIN c PROVE \E j \in 1 .. n : c[k] = s[j]
  <2>1. k \in 1 .. n - 1 /\ k \in 1 .. n /\ k + 1 \in 1 .. n
    BY <1>1, <1>2
  <2> QED BY <1>3, <2>1
<1>6. ToSet(s) \subseteq ToSet(c) \cup {s[i]} /\ ToSet(c) \subseteq ToSet(s)
  BY <1>1, <1>4, <1>5 DEF ToSet
<1> QED BY <1>2, <1>6 DEF c

(* The list stays without repetition.                                      *)
LEMMA ListInjective ==
  ASSUME NEW S, NEW s \in Seq(S), IsInjective(s)
  PROVE  /\ \A x \in S \ ToSet(s) : IsInjective(Cons(x, s))
         /\ \A i \in DOMAIN s : IsInjective(RemoveAt(s, i))
<1>1. ASSUME NEW x \in S \ ToSet(s) PROVE IsInjective(Cons(x, s))
  <2> DEFINE c == <<x>> \o s
  <2>1. DOMAIN c = 1 .. Len(s) + 1 /\ Len(s) \in Nat /\ c[1] = x
    OBVIOUS
  <2>2. \A j \in 2 .. Len(s) + 1 : c[j] = s[j - 1] /\ j - 1 \in DOMAIN s
    OBVIOUS
  <2> HIDE DEF c
  <2>3. \A j \in 2 .. Len(s) + 1 : c[j] # x
    BY <2>2 DEF ToSet
  <2>4. ASSUME NEW j \in 1 .. Len(s) + 1, NEW k \in 1 .. Len(s) + 1, c[j] = c[k] PROVE j = k
    <3>1. CASE j = 1 \/ k = 1
      BY <2>1, <2>3, <2>4, <3>1
    <3>2. CASE j # 1 /\ k # 1
      <4>1. j \in 2 .. Len(s) + 1 /\ k \in 2 .. Len(s) + 1
        BY <2>1, <3>2
      <4>2. j - 1 = k - 1
        BY <2>2, <2>4, <4>1 DEF IsInjective
      <4> QED BY <4>1, <4>2
    <3> QED BY <3>1, <3>2
  <2> QED BY <2>1, <2>4 DEF IsInjective, Cons, c
<1>2. ASSUME NEW i \in DOMAIN s PROVE IsInjective(RemoveAt(s, i))
  <2> DEFINE c == RemoveAt(s, i)
             n == Len(s)
  <2>1. i \in 1 .. n /\ n \in Nat /\ DOMAIN s = 1 .. n
    OBVIOUS
  <2>2. DOMAIN c = 1 .. n - 1 /\ \A j \in 1 .. n - 1 : c[j] = IF j < i THEN s[j] ELSE s[j + 1]
    BY RemoveAtIndex
  <2> HIDE DEF c
  <2>3. ASSUME NEW j \in 1 .. n - 1, NEW k \in 1 .. n - 1, c[j] = c[k] PROVE j = k
    <3> DEFINE p == IF j < i THEN j ELSE j + 1
               q == IF k < i THEN k ELSE k + 1
    <3>1. p \in 1 .. n /\ q \in 1 .. n
      BY <2>1
    <3>2. s[p] = s[q]
      BY <2>2, <2>3
    <3>3. p = q
      <4> HIDE DEF p, q
      <4> QED BY <2>1, <3>1, <3>2 DEF IsInjective
    <3> QED BY <2>1, <3>3
  <2> QED BY <2>2, <2>3 DEF IsInjective, c
<1> QED BY <1>1, <1>2

-----------------------------------------------------------------------------
(***************************************************************************)
(* Steps of clients and of main: no thread is in the middle of its work,   *)
(* and nobody touches the device.                                          *)
(***************************************************************************)
LEMMA ConnectIInv == ASSUME IInv, NEW c \in Conns, Connect(c) PROVE IInv'
  BY DEF IInv, Connect, Types, Unserved, MutexHeldOnDevice, RunningThreadHasData,
     HalfLineHasWriter, WholeBuffers, device, main, thread

LEMMA SendIInv == ASSUME IInv, NEW c \in Conns, Send(c) PROVE IInv'
<1>1. Types'
  <2>1. Head(todo[c]) \in Seq(Token) /\ Tail(todo[c]) \in Seq(Seq(Token))
    BY HeadTailProperties DEF IInv, Types, Send
  <2>2. inflight[c] \o Head(todo[c]) \in Seq(Token)
    BY <2>1, ConcatProperties DEF IInv, Types
  <2> QED BY <2>1, <2>2 DEF IInv, Types, Send, device, main, thread
<1> QED BY <1>1 DEF IInv, Send, Unserved, MutexHeldOnDevice, RunningThreadHasData,
     HalfLineHasWriter, WholeBuffers, device, main, thread

LEMMA HangupIInv == ASSUME IInv, NEW c \in Conns, Hangup(c) PROVE IInv'
  BY DEF IInv, Hangup, Types, Unserved, MutexHeldOnDevice, RunningThreadHasData,
     HalfLineHasWriter, WholeBuffers, device, main, thread

(* Main comes up, or a signal is handled.                                  *)
LEMMA SetupIInv == ASSUME IInv, Start \/ SocketInit \/ SignalHandler PROVE IInv'
  BY DEF IInv, Start, SocketInit, SignalHandler, Types, Unserved, MutexHeldOnDevice,
     RunningThreadHasData, HalfLineHasWriter, WholeBuffers, device, clients, thread

LEMMA DaemonizeIInv == ASSUME IInv, Daemonize PROVE IInv'
<1>1. \A c \in Conns : tpc[c] = "none"
  BY DEF IInv, Unserved, Daemonize
<1> QED BY <1>1, NullAssumption
     DEF IInv, Daemonize, Types, Unserved, MutexHeldOnDevice, OnDevice,
         RunningThreadHasData, HalfLineHasWriter, WholeBuffers, device, clients, thread

LEMMA AcceptIInv == ASSUME IInv, NEW c \in Conns, Accept(c) PROVE IInv'
  BY DEF IInv, Accept, Types, Unserved, MutexHeldOnDevice, RunningThreadHasData,
     HalfLineHasWriter, WholeBuffers, device, thread

LEMMA SpawnIInv == ASSUME IInv, Spawn PROVE IInv'
<1>1. conn_fd \in Conns /\ tpc[conn_fd] = "none" /\ conn_fd \in open_conns
  BY DEF IInv, Unserved, Spawn
<1>2. /\ thread_list' \in Seq(Conns)
      /\ conn_fd \in ToSet(thread_list')
      /\ ToSet(thread_list) \subseteq ToSet(thread_list')
  BY <1>1, ConsSet DEF IInv, Types, Spawn
<1>3. Types'
  BY <1>1, <1>2 DEF IInv, Types, Spawn, Goto, Step, clients, thread
<1>4. Unserved'
  BY <1>1 DEF IInv, Types, Unserved, Spawn, Goto, clients
<1>5. MutexHeldOnDevice' /\ HalfLineHasWriter' /\ WholeBuffers'
  BY <1>1 DEF IInv, Types, Spawn, Goto, MutexHeldOnDevice, OnDevice, HalfLineHasWriter,
     WholeBuffers, device, thread
<1>6. RunningThreadHasData'
  BY <1>1, <1>2 DEF IInv, Types, Spawn, Goto, RunningThreadHasData
<1> QED BY <1>3, <1>4, <1>5, <1>6 DEF IInv

LEMMA ReapIInv == ASSUME IInv, Reap PROVE IInv'
<1>1. UNCHANGED <<client, backlog, todo, inflight, pending, torn, open_conns, tpc,
                  datafile_mutex, buf>>
  BY DEF Reap, device, clients, thread
<1>2. CASE /\ mpc' = "accept"
           /\ UNCHANGED thread_list
  BY <1>1, <1>2 DEF IInv, Types, Unserved, Reap, MutexHeldOnDevice, RunningThreadHasData,
     HalfLineHasWriter, WholeBuffers
<1>3. ASSUME NEW i \in DOMAIN thread_list,
             conn_fd' = thread_list[i],
             thread_list' = RemoveAt(thread_list, i),
             mpc' = "join"
      PROVE  IInv'
  <2>1. thread_list \in Seq(Conns) /\ thread_list[i] \in Conns
    BY DEF IInv, Types
  <2>2. /\ thread_list' \in Seq(Conns)
        /\ ToSet(thread_list) \subseteq ToSet(thread_list') \cup {thread_list[i]}
    BY <1>3, <2>1, RemoveAtSet
  <2>3. Types' /\ Unserved' /\ MutexHeldOnDevice' /\ HalfLineHasWriter' /\ WholeBuffers'
    BY <1>1, <1>3, <2>1, <2>2 DEF IInv, Types, Unserved, Reap, MutexHeldOnDevice,
       HalfLineHasWriter, WholeBuffers
  <2>4. RunningThreadHasData'
    BY <1>1, <1>3, <2>2 DEF IInv, RunningThreadHasData, Reap
  <2> QED BY <2>3, <2>4 DEF IInv
<1> QED BY <1>2, <1>3 DEF Reap

LEMMA JoinIInv == ASSUME IInv, Join PROVE IInv'
  BY DEF IInv, Join, Joined, Types, Unserved, MutexHeldOnDevice, RunningThreadHasData,
     HalfLineHasWriter, WholeBuffers, device, clients, thread

(* The process ends: nothing is left of its threads.                       *)
LEMMA EndIInv == ASSUME IInv, ProcessEnds PROVE IInv'
<1>1. Types' /\ Unserved'
  BY DEF IInv, Types, Unserved, ProcessEnds, Step
<1>2. MutexHeldOnDevice' /\ RunningThreadHasData' /\ HalfLineHasWriter'
  BY NullAssumption DEF IInv, ProcessEnds, MutexHeldOnDevice, OnDevice,
     RunningThreadHasData, HalfLineHasWriter
<1>3. WholeBuffers'
  BY EmptyBuffer DEF ProcessEnds, WholeBuffers
<1> QED BY <1>1, <1>2, <1>3 DEF IInv

-----------------------------------------------------------------------------
(***************************************************************************)
(* Steps of threads.  They leave clients and main alone, and what a thread *)
(* receives or throws away is its own.                                     *)
(***************************************************************************)
OthersKeepBuffers(c) ==
  /\ inflight' \in [Conns -> Seq(Token)]
  /\ buf' \in [Conns -> Seq(Token)]
  /\ \A d \in Conns \ {c} : buf'[d] = buf[d]

Elsewhere(c) ==
  /\ UNCHANGED <<client, backlog, todo, mpc, conn_fd, thread_list, open_conns>>
  /\ OthersKeepBuffers(c)

(* A thread goes on, with the mutex or without it as before.               *)
LEMMA MovesIInv ==
  ASSUME IInv, NEW c \in Conns, Elsewhere(c),
         tpc[c] \notin {"none", "exited"},
         NEW l \in Step \ {"none"}, Goto(c, l),
         tpc[c] \in OnDevice <=> l \in OnDevice,
         datafile_mutex' = datafile_mutex,
         l \in {"start", "recv", "closing"} => Len(buf'[c]) % BufSize = 0,
         \/ l = "newline"
         \/ pending' = <<>>
         \/ tpc[c] # "newline" /\ pending' = pending /\ torn' = torn
  PROVE  IInv'
<1> USE DEF Goto, Elsewhere, OthersKeepBuffers
<1>1. Types' /\ Unserved'
  BY DEF IInv, Types, Unserved
<1>2. MutexHeldOnDevice' /\ RunningThreadHasData'
  BY DEF IInv, Types, MutexHeldOnDevice, RunningThreadHasData
<1>3. HalfLineHasWriter'
  BY <1>2 DEF IInv, Types, HalfLineHasWriter, MutexHeldOnDevice, OnDevice
<1>4. WholeBuffers'
  BY DEF IInv, Types, WholeBuffers
<1> QED BY <1>1, <1>2, <1>3, <1>4 DEF IInv

(* A step that leaves half a line says so.                                 *)
TearsOnlyOwn(c) == torn' = TRUE \/ (tpc[c] # "newline" /\ torn' = torn)

(* A thread gives up: the mutex is free if the thread had it.              *)
LEMMA FailsIInv ==
  ASSUME IInv, NEW c \in Conns, Elsewhere(c),
         tpc[c] # "none", ThreadFails(c),
         pending' = <<>> \/ (pending' = pending /\ TearsOnlyOwn(c))
  PROVE  IInv'
<1> USE DEF ThreadFails, Goto, Elsewhere, OthersKeepBuffers
<1>1. Types' /\ Unserved'
  BY DEF IInv, Types, Unserved, Step
<1>2. MutexHeldOnDevice' /\ RunningThreadHasData'
  BY NullAssumption DEF IInv, Types, MutexHeldOnDevice, OnDevice, RunningThreadHasData
<1>3. HalfLineHasWriter'
  BY <1>2 DEF IInv, Types, HalfLineHasWriter, MutexHeldOnDevice, OnDevice, TearsOnlyOwn
<1>4. WholeBuffers'
  BY DEF IInv, Types, WholeBuffers
<1> QED BY <1>1, <1>2, <1>3, <1>4 DEF IInv

(* What a step that does not receive leaves alone.                         *)
LEMMA KeepsBuffers ==
  ASSUME IInv, NEW c \in Conns, UNCHANGED <<inflight, buf>>
  PROVE  OthersKeepBuffers(c)
  BY DEF IInv, Types, OthersKeepBuffers

USE DEF Elsewhere, device, clients, main, thread

LEMMA ThreadStartIInv == ASSUME IInv, NEW c \in Conns, ThreadStart(c) PROVE IInv'
<1>1. Elsewhere(c)
  BY KeepsBuffers DEF ThreadStart
<1>2. CASE ThreadFails(c)
  BY <1>1, <1>2, FailsIInv DEF ThreadStart, TearsOnlyOwn
<1>3. CASE Goto(c, "recv") /\ UNCHANGED datafile_mutex
  <2>1. Len(buf'[c]) % BufSize = 0
    BY DEF IInv, WholeBuffers, ThreadStart
  <2>2. "recv" \in Step \ {"none"} /\ "recv" \notin OnDevice /\ "start" \notin OnDevice
    BY DEF Step, OnDevice
  <2> QED BY <1>1, <1>3, <2>1, <2>2, MovesIInv DEF ThreadStart
<1> QED BY <1>2, <1>3 DEF ThreadStart

LEMMA RecvIInv == ASSUME IInv, NEW c \in Conns, Recv(c) PROVE IInv'
<1>1. PICK k \in 1 .. BufSize :
        /\ k <= Len(inflight[c])
        /\ inflight' = [inflight EXCEPT ![c] = SubSeq(@, k + 1, Len(@))]
        /\ buf' = [buf EXCEPT ![c] = @ \o SubSeq(inflight[c], 1, k)]
        /\ \/ /\ Goto(c, IF Fills(k) THEN "recv" ELSE "lock")
              /\ UNCHANGED <<client_done, datafile_mutex>>
           \/ ThreadFails(c)
  BY DEF Recv
<1>2. /\ tpc[c] = "recv" /\ buf[c] \in Seq(Token) /\ inflight[c] \in Seq(Token)
      /\ k \in Nat /\ Len(inflight[c]) \in Nat
  BY BufSizeAssumption DEF IInv, Types, Recv
<1>3. SubSeq(inflight[c], 1, k) \in Seq(Token) /\ Len(SubSeq(inflight[c], 1, k)) = k
  BY <1>1, <1>2, SubSeqProperties
<1>4. SubSeq(inflight[c], k + 1, Len(inflight[c])) \in Seq(Token)
  BY <1>1, <1>2, SubSeqProperties
<1>5. /\ buf[c] \o SubSeq(inflight[c], 1, k) \in Seq(Token)
      /\ Len(buf[c] \o SubSeq(inflight[c], 1, k)) = Len(buf[c]) + k
  BY <1>2, <1>3, ConcatProperties
<1>6. Elsewhere(c)
  BY <1>1, <1>4, <1>5 DEF IInv, Types, Recv, OthersKeepBuffers
<1>7. CASE ThreadFails(c)
  BY <1>2, <1>6, <1>7, FailsIInv DEF Recv, TearsOnlyOwn
<1>8. CASE Goto(c, IF Fills(k) THEN "recv" ELSE "lock") /\ UNCHANGED datafile_mutex
  <2>1. Fills(k) => Len(buf'[c]) % BufSize = 0
    BY <1>1, <1>2, <1>5, OneMoreBuffer DEF IInv, Types, WholeBuffers, Fills
  <2>2. /\ {"recv", "lock"} \subseteq Step \ {"none"}
        /\ "recv" \notin OnDevice /\ "lock" \notin OnDevice
    BY DEF Step, OnDevice
  <2>3. CASE Fills(k)
    BY <1>2, <1>6, <1>8, <2>1, <2>2, <2>3, MovesIInv DEF Recv
  <2>4. CASE ~Fills(k)
    BY <1>2, <1>6, <1>8, <2>2, <2>4, MovesIInv DEF Recv
  <2> QED BY <2>3, <2>4
<1> QED BY <1>1, <1>7, <1>8

LEMMA RecvErrorIInv == ASSUME IInv, NEW c \in Conns, RecvError(c) PROVE IInv'
  BY KeepsBuffers, FailsIInv DEF RecvError, TearsOnlyOwn

LEMMA RecvClosedIInv == ASSUME IInv, NEW c \in Conns, RecvClosed(c) PROVE IInv'
<1>1. Elsewhere(c) /\ tpc[c] = "recv" /\ Len(buf'[c]) % BufSize = 0
  BY KeepsBuffers DEF RecvClosed, IInv, WholeBuffers
<1>2. "closing" \in Step \ {"none"} /\ {"recv", "closing"} \cap OnDevice = {}
  BY DEF Step, OnDevice
<1> QED BY <1>1, <1>2, MovesIInv DEF RecvClosed

LEMMA ThreadExitIInv == ASSUME IInv, NEW c \in Conns, ThreadExit(c) PROVE IInv'
<1>1. Elsewhere(c) /\ tpc[c] = "closing"
  BY KeepsBuffers DEF ThreadExit
<1>2. "exited" \in Step \ {"none"} /\ {"exited", "closing"} \cap OnDevice = {}
  BY DEF Step, OnDevice
<1> QED BY <1>1, <1>2, MovesIInv DEF ThreadExit

(* The one step that takes the mutex.                                      *)
LEMMA LockIInv == ASSUME IInv, NEW c \in Conns, Lock(c) PROVE IInv'
<1>1. PICK l \in {"seek", "write"} : Goto(c, l)
  BY DEF Lock
<1>2. tpc[c] = "lock" /\ datafile_mutex = NULL /\ datafile_mutex' = c
  BY DEF Lock, MayLock
<1>3. Types' /\ Unserved'
  BY <1>1, <1>2 DEF IInv, Types, Unserved, Lock, Goto, Step
<1>4. MutexHeldOnDevice' /\ RunningThreadHasData'
  BY <1>1, <1>2, NullAssumption DEF IInv, Types, Lock, Goto, MutexHeldOnDevice, OnDevice,
     RunningThreadHasData
<1>5. HalfLineHasWriter'
  BY <1>2, NullAssumption DEF IInv, Lock, HalfLineHasWriter
<1>6. WholeBuffers'
  BY <1>1, <1>2 DEF IInv, Types, Lock, Goto, WholeBuffers
<1> QED BY <1>3, <1>4, <1>5, <1>6 DEF IInv

(* The steps on the device.                                                *)
LEMMA WriteDataIInv == ASSUME IInv, NEW c \in Conns, WriteData(c) PROVE IInv'
<1>1. Elsewhere(c) /\ tpc[c] = "write" /\ torn' = torn
  BY KeepsBuffers DEF WriteData
<1>2. /\ {"newline", "oops"} \subseteq Step \ {"none"}
      /\ {"write", "newline", "oops"} \subseteq OnDevice
      /\ {"start", "recv", "closing"} \cap OnDevice = {}
  BY DEF Step, OnDevice
<1>3. CASE ThreadFails(c) /\ UNCHANGED pending
  BY <1>1, <1>3, FailsIInv DEF TearsOnlyOwn
<1>4. CASE Goto(c, "newline") /\ UNCHANGED datafile_mutex
  BY <1>1, <1>2, <1>4, MovesIInv
<1>5. CASE Goto(c, "oops") /\ UNCHANGED <<pending, datafile_mutex>>
  BY <1>1, <1>2, <1>5, MovesIInv
<1> QED BY <1>3, <1>4, <1>5 DEF WriteData

LEMMA WriteNewlineIInv == ASSUME IInv, NEW c \in Conns, WriteNewline(c) PROVE IInv'
<1>1. Elsewhere(c) /\ tpc[c] = "newline"
  BY KeepsBuffers DEF WriteNewline
<1>2. "seek" \in Step \ {"none"} /\ {"newline", "seek"} \subseteq OnDevice
  BY DEF Step, OnDevice
<1>3. CASE /\ Complete(<<NewLine>>)
           /\ (Goto(c, "seek") /\ UNCHANGED datafile_mutex) \/ ThreadFails(c)
  <2>1. pending' = <<>>
    BY <1>3 DEF Complete
  <2>2. CASE Goto(c, "seek") /\ UNCHANGED datafile_mutex
    BY <1>1, <1>2, <2>1, <2>2, MovesIInv
  <2>3. CASE ThreadFails(c)
    BY <1>1, <2>1, <2>3, FailsIInv
  <2> QED BY <1>3, <2>2, <2>3
<1>4. CASE torn' = TRUE /\ ThreadFails(c) /\ UNCHANGED pending
  <2>1. TearsOnlyOwn(c)
    BY <1>4 DEF TearsOnlyOwn
  <2> QED BY <1>1, <1>4, <2>1, FailsIInv
<1> QED BY <1>3, <1>4 DEF WriteNewline

LEMMA SeekToIInv == ASSUME IInv, NEW c \in Conns, SeekTo(c) PROVE IInv'
<1>1. Elsewhere(c) /\ tpc[c] = "seek" /\ pending' = pending /\ torn' = torn
  BY KeepsBuffers DEF SeekTo
<1>2. "read" \in Step \ {"none"} /\ {"read", "seek"} \subseteq OnDevice
  BY DEF Step, OnDevice
<1>3. CASE ThreadFails(c)
  BY <1>1, <1>3, FailsIInv DEF TearsOnlyOwn
<1>4. CASE Goto(c, "read") /\ UNCHANGED datafile_mutex
  BY <1>1, <1>2, <1>4, MovesIInv
<1> QED BY <1>3, <1>4 DEF SeekTo

LEMMA SendPieceIInv == ASSUME IInv, NEW c \in Conns, SendPiece(c) PROVE IInv'
<1>1. Elsewhere(c) /\ tpc[c] = "read" /\ pending' = pending /\ torn' = torn
  BY KeepsBuffers DEF SendPiece
<1>2. "unlock" \in Step \ {"none"} /\ {"read", "unlock"} \subseteq OnDevice
  BY DEF Step, OnDevice
<1>3. CASE Goto(c, "unlock") /\ UNCHANGED datafile_mutex
  BY <1>1, <1>2, <1>3, MovesIInv
<1>4. CASE UNCHANGED <<tpc, datafile_mutex>>
  <2>1. Goto(c, "read") /\ "read" \in Step \ {"none"}
    BY <1>1, <1>4 DEF IInv, Types, Goto, Step
  <2> QED BY <1>1, <1>2, <1>4, <2>1, MovesIInv
<1>5. CASE ThreadFails(c)
  BY <1>1, <1>5, FailsIInv DEF TearsOnlyOwn
<1> QED BY <1>3, <1>4, <1>5 DEF SendPiece

LEMMA SendFailsIInv == ASSUME IInv, NEW c \in Conns, SendFails(c) PROVE IInv'
  BY KeepsBuffers, FailsIInv DEF SendFails, TearsOnlyOwn

(* The one step of a thread that lives that gives the mutex back.          *)
LEMMA UnlockIInv == ASSUME IInv, NEW c \in Conns, Unlock(c) PROVE IInv'
<1>1. PICK l \in {"recv", "exited"} : Goto(c, l)
  BY DEF Unlock
<1>2. tpc[c] = "unlock" /\ datafile_mutex = c /\ datafile_mutex' = NULL
  BY DEF Unlock, IInv, MutexHeldOnDevice, OnDevice
<1>3. Types' /\ Unserved'
  BY <1>1, <1>2 DEF IInv, Types, Unserved, Unlock, Goto, Step
<1>4. MutexHeldOnDevice' /\ RunningThreadHasData'
  BY <1>1, <1>2, NullAssumption DEF IInv, Types, Unlock, Goto, MutexHeldOnDevice, OnDevice,
     RunningThreadHasData
<1>5. HalfLineHasWriter'
  BY <1>2 DEF IInv, Unlock, HalfLineHasWriter
<1>6. WholeBuffers'
  BY <1>1, <1>2, EmptyBuffer DEF IInv, Types, Unlock, Goto, WholeBuffers
<1> QED BY <1>3, <1>4, <1>5, <1>6 DEF IInv

-----------------------------------------------------------------------------
(***************************************************************************)
(* The invariant holds in every reachable state.                           *)
(***************************************************************************)
THEOREM Invariance == Spec => []IInv
<1>1. IInv /\ [Next]_vars => IInv'
  <2> SUFFICES ASSUME IInv, [Next]_vars PROVE IInv'
    OBVIOUS
  <2>1. CASE UNCHANGED vars
    BY <2>1 DEF IInv, Types, Unserved, MutexHeldOnDevice, RunningThreadHasData,
       HalfLineHasWriter, WholeBuffers, vars
  <2>2. ASSUME NEW c \in Conns, Connect(c) \/ Send(c) \/ Hangup(c)
        PROVE  IInv'
    BY <2>2, ConnectIInv, SendIInv, HangupIInv
  <2>3. ASSUME NEW c \in Conns, Lock(c) \/ ThreadStep(c)
        PROVE  IInv'
    BY <2>3, LockIInv, ThreadStartIInv, RecvIInv, RecvClosedIInv, ThreadExitIInv,
       WriteDataIInv, WriteNewlineIInv, SeekToIInv, SendPieceIInv, UnlockIInv DEF ThreadStep
  <2>4. ASSUME NEW c \in Conns, ThreadBreaks(c)
        PROVE  IInv'
    BY <2>4, RecvErrorIInv, SendFailsIInv, EndIInv DEF ThreadBreaks, BrokenPipe
  <2>5. CASE Start \/ MainStep
    BY <2>5, SetupIInv, DaemonizeIInv, AcceptIInv, SpawnIInv, ReapIInv, JoinIInv DEF MainStep
  <2>6. CASE MainFails \/ SignalEnds \/ SignalHandler
    BY <2>6, EndIInv, SetupIInv DEF MainFails, SignalEnds
  <2> QED BY <2>1, <2>2, <2>3, <2>4, <2>5, <2>6 DEF Next
<1> QED BY InitIInv, <1>1, PTL DEF Spec

(***************************************************************************)
(* A thread has the mutex exactly while it works on the device, on every   *)
(* path through server_thread (aesdsocket.c:367-406).                      *)
(***************************************************************************)
THEOREM MutexProtects == Spec => []MutexHeldOnDevice
  BY Invariance, PTL DEF IInv

(***************************************************************************)
(* A thread that runs is in the list, or joined, and its connection is     *)
(* open (aesdsocket.c:616-628).                                            *)
(***************************************************************************)
THEOREM DataOfRunningThread == Spec => []RunningThreadHasData
  BY Invariance, PTL DEF IInv

(***************************************************************************)
(* Half a line is on the device only while its writer is at work or after  *)
(* it failed, over restarts of the server too (aesdsocket.c:386-399).      *)
(***************************************************************************)
THEOREM HalfLines == Spec => []HalfLineHasWriter
  BY Invariance, PTL DEF IInv

(***************************************************************************)
(* The text a thread drops is a whole number of buffers                    *)
(* (aesdsocket.c:334-354).                                                 *)
(***************************************************************************)
THEOREM Drops == Spec => []OnlyWholeBuffersDropped
<1>1. IInv => OnlyWholeBuffersDropped
  BY DEF IInv, WholeBuffers, OnlyWholeBuffersDropped
<1> QED BY Invariance, <1>1, PTL

-----------------------------------------------------------------------------
(***************************************************************************)
(* What is on the device is text, and a reply is a piece of it.            *)
(***************************************************************************)

Texts ==
  /\ commands \in Seq(Seq(Token)) /\ Len(commands) <= MaxOps
  /\ pending \in Seq(Token)
  /\ seekto \in [Conns -> Nat \X Nat]
  /\ file_pos \in [Conns -> Nat]
  /\ reply \in [Conns -> Seq(Token)]

LEMMA ContentsType ==
  ASSUME Texts
  PROVE  /\ Contents \in Seq(Token)
         /\ \A to \in Nat \X Nat : SeekOffset(to) \in Nat
<1>1. Contents \in Seq(Token)
  BY FlattenType DEF Texts, Contents
<1>2. ASSUME NEW to \in Nat \X Nat PROVE SeekOffset(to) \in Nat
  <2> DEFINE before == SubSeq(commands, 1, to[1])
  <2>1. CASE to[1] < Len(commands)
    <3>1. before \in Seq(Seq(Token))
      BY <2>1, SubSeqProperties DEF Texts
    <3> HIDE DEF before
    <3>2. Len(FlattenSeq(before)) \in Nat
      BY <3>1, FlattenType
    <3> QED BY <3>2 DEF SeekOffset, before
  <2>2. CASE ~(to[1] < Len(commands))
    BY <2>2 DEF SeekOffset
  <2> QED BY <2>1, <2>2
<1> QED BY <1>1, <1>2

(* Where a thread that has sent nothing since it had the mutex can be.     *)
NoReply == {"none", "start", "recv", "closing", "lock", "write", "newline", "seek"}

(* A thread that is sending has sent what lies between the position it     *)
(* asked for and the one it has come to.                                   *)
Replies ==
  \A c \in Conns :
    /\ tpc[c] \in NoReply => reply[c] = <<>>
    /\ tpc[c] = "read" =>
         LET start == SeekOffset(seekto[c])
         IN  /\ start <= file_pos[c]
             /\ file_pos[c] = start \/ file_pos[c] <= Len(Contents)
             /\ reply[c] = SubSeq(Contents, start + 1, file_pos[c])
    /\ tpc[c] = "unlock" =>
         reply[c] = SubSeq(Contents, SeekOffset(seekto[c]) + 1, Len(Contents))

(* A step of a thread that neither begins nor ends a reply.                *)
StaysQuiet(c) ==
  \/ /\ tpc'[c] = tpc[c]
     /\ tpc[c] \in OnDevice => buf'[c] = buf[c]
  \/ /\ tpc'[c] \notin OnDevice
     /\ tpc'[c] \in NoReply => tpc[c] \in NoReply

Quiet ==
  /\ UNCHANGED <<commands, pending, seekto, file_pos, reply>>
  /\ \A c \in Conns : StaysQuiet(c)

(* Only the steps under the mutex are not quiet.                           *)
LEMMA QuietSteps ==
  ASSUME Types, Unserved, Next
  PROVE  \/ Quiet \/ ProcessEnds
         \/ \E c \in Conns : \/ Lock(c) \/ WriteData(c) \/ WriteNewline(c)
                             \/ SeekTo(c) \/ SendPiece(c) \/ Unlock(c)
<1> USE DEF Quiet, StaysQuiet, Goto, Types, NoReply, OnDevice
<1>1. ASSUME NEW c \in Conns, Connect(c) \/ Send(c) \/ Hangup(c) PROVE Quiet
  BY <1>1 DEF Connect, Send, Hangup
<1>2. CASE Start \/ SocketInit \/ Daemonize \/ SignalHandler \/ Reap \/ Join
  BY <1>2 DEF Start, SocketInit, Daemonize, SignalHandler, Reap, Join
<1>3. ASSUME NEW c \in Conns, Accept(c) PROVE Quiet
  BY <1>3 DEF Accept
<1>4. CASE Spawn
  BY <1>4 DEF Spawn, Unserved
<1>5. ASSUME NEW c \in Conns, ThreadStart(c) \/ RecvError(c) \/ SendFails(c) PROVE Quiet
  BY <1>5 DEF ThreadStart, RecvError, SendFails, ThreadFails
<1>6. ASSUME NEW c \in Conns, RecvClosed(c) \/ ThreadExit(c) PROVE Quiet
  BY <1>6 DEF RecvClosed, ThreadExit
<1>7. ASSUME NEW c \in Conns, Recv(c) PROVE Quiet
  <2>1. \A l : tpc' = [tpc EXCEPT ![c] = l] => \A d \in Conns : d # c => tpc'[d] = tpc[d]
    OBVIOUS
  <2>2. PICK k : \/ Goto(c, IF Fills(k) THEN "recv" ELSE "lock") \/ ThreadFails(c)
    BY <1>7 DEF Recv
  <2>3. tpc[c] = "recv" /\ UNCHANGED <<commands, pending, seekto, file_pos, reply>>
    BY <1>7 DEF Recv
  <2>4. tpc' \in {[tpc EXCEPT ![c] = l] : l \in {"recv", "lock", "exited"}}
    BY <2>2 DEF ThreadFails
  <2>5. \A d \in Conns : d # c => buf'[d] = buf[d]
    <3>1. PICK t : buf' = [buf EXCEPT ![c] = t]
      BY <1>7 DEF Recv
    <3> QED BY <3>1
  <2>6. ASSUME NEW d \in Conns PROVE StaysQuiet(d)
    <3>1. CASE d = c
      BY <2>3, <2>4, <3>1
    <3>2. CASE d # c
      BY <2>4, <2>5, <3>2
    <3> QED BY <3>1, <3>2
  <2> QED BY <2>3, <2>6
<1>8. CASE MainFails \/ SignalEnds \/ \E c \in Conns : BrokenPipe(c)
  BY <1>8 DEF MainFails, SignalEnds, BrokenPipe
<1> QED BY <1>1, <1>2, <1>3, <1>4, <1>5, <1>6, <1>7, <1>8
        DEF Next, MainStep, ThreadStep, ThreadBreaks

(* A step that leaves the device and what is sent alone.                   *)
LEMMA QuietKeeps == ASSUME Texts, Replies, Quiet PROVE Texts' /\ Replies'
<1>1. Texts'
  BY DEF Texts, Quiet
<1>2. Contents' = Contents /\ \A c \in Conns : SeekOffset(seekto[c])' = SeekOffset(seekto[c])
  BY DEF Quiet, Contents, SeekOffset
<1>3. ASSUME NEW c \in Conns
      PROVE  /\ tpc'[c] \in NoReply => tpc[c] \in NoReply
             /\ tpc'[c] \in {"read", "unlock"} => tpc'[c] = tpc[c]
  BY DEF Quiet, StaysQuiet, OnDevice
<1>4. UNCHANGED <<file_pos, reply>>
  BY DEF Quiet
<1> HIDE DEF Quiet, NoReply, Contents, SeekOffset
<1> QED BY <1>1, <1>2, <1>3, <1>4 DEF Replies

LEMMA EndKeeps == ASSUME Texts, ProcessEnds PROVE Texts' /\ Replies'
  BY DEF Texts, Replies, ProcessEnds

(* The device and the replies of the other threads stay as they are.       *)
OthersKeepReply(c) ==
  /\ \A d \in Conns \ {c} :
       /\ tpc'[d] = tpc[d] /\ seekto'[d] = seekto[d]
       /\ file_pos'[d] = file_pos[d] /\ reply'[d] = reply[d]
  /\ UNCHANGED commands

(* What the reply of c has to be.                                          *)
ReplyOf(c) ==
  /\ tpc[c] \in NoReply => reply[c] = <<>>
  /\ tpc[c] = "read" =>
       LET start == SeekOffset(seekto[c])
       IN  /\ start <= file_pos[c]
           /\ file_pos[c] = start \/ file_pos[c] <= Len(Contents)
           /\ reply[c] = SubSeq(Contents, start + 1, file_pos[c])
  /\ tpc[c] = "unlock" =>
       reply[c] = SubSeq(Contents, SeekOffset(seekto[c]) + 1, Len(Contents))

LEMMA OthersKeep ==
  ASSUME Replies, NEW c \in Conns, OthersKeepReply(c), ReplyOf(c)'
  PROVE  Replies'
<1>1. Contents' = Contents
  BY DEF OthersKeepReply, Contents
<1>2. ASSUME NEW d \in Conns, d # c PROVE ReplyOf(d)'
  <2>1. ReplyOf(d)
    BY DEF Replies, ReplyOf
  <2>2. /\ tpc'[d] = tpc[d] /\ seekto'[d] = seekto[d]
        /\ file_pos'[d] = file_pos[d] /\ reply'[d] = reply[d]
    BY <1>2 DEF OthersKeepReply
  <2>3. SeekOffset(seekto[d])' = SeekOffset(seekto[d])
    BY <2>2 DEF OthersKeepReply, SeekOffset
  <2> QED BY <1>1, <2>1, <2>2, <2>3 DEF ReplyOf
<1>3. \A d \in Conns : ReplyOf(d)'
  BY <1>2
<1> QED BY <1>3 DEF Replies, ReplyOf

LEMMA LockKeeps ==
  ASSUME IInv, Texts, Replies, NEW c \in Conns, Lock(c)
  PROVE  Texts' /\ Replies'
<1>1. PICK to \in Nat \X Nat : seekto' = [seekto EXCEPT ![c] = to]
  BY SeekArgsAssumption DEF Lock
<1>2. PICK l \in {"seek", "write"} : tpc' = [tpc EXCEPT ![c] = l]
  BY DEF Lock, Goto
<1>3. UNCHANGED <<commands, pending, file_pos, reply>> /\ tpc[c] = "lock"
  BY DEF Lock, device
<1>4. Texts'
  BY <1>1, <1>3 DEF Texts
<1>5. OthersKeepReply(c)
  BY <1>1, <1>2, <1>3 DEF OthersKeepReply, IInv, Types, Texts
<1>6. ReplyOf(c)'
  <2>1. tpc'[c] \in {"seek", "write"} /\ reply'[c] = <<>>
    BY <1>2, <1>3 DEF IInv, Types, Replies, NoReply
  <2> QED BY <2>1 DEF ReplyOf
<1> QED BY <1>4, <1>5, <1>6, OthersKeep

(* The line is a piece of the text.                                        *)
LEMMA LineText == ASSUME NEW text \in Seq(Token) PROVE Line(text) \in Seq(Token)
<1> DEFINE ends == {i \in DOMAIN text : text[i] = NewLine}
           first == CHOOSE i \in ends : \A j \in ends : i <= j
<1>1. CASE ends = {}
  BY <1>1 DEF Line
<1>2. CASE ends # {}
  <2>1. ends \subseteq Nat /\ ends \subseteq 1 .. Len(text)
    OBVIOUS
  <2>2. \E i \in ends : \A j \in ends : i <= j
    <3> HIDE DEF ends
    <3> QED BY <1>2, <2>1, LeastElement
  <2>3. first \in ends
    BY <2>2
  <2> HIDE DEF first
  <2>4. first \in 1 .. Len(text) /\ Len(text) \in Nat
    BY <2>1, <2>3
  <2>5. \A i \in 1 .. first - 1 : text[i] \in Token
    BY <2>4
  <2>6. SubSeq(text, 1, first - 1) \in Seq(Token)
    BY <2>4, <2>5, SubSeqProperties
  <2>7. Line(text) = SubSeq(text, 1, first - 1)
    BY <1>2 DEF Line, first
  <2> QED BY <2>6, <2>7
<1> QED BY <1>1, <1>2

LEMMA WriteDataKeeps ==
  ASSUME IInv, Texts, Replies, NEW c \in Conns, WriteData(c)
  PROVE  Texts' /\ Replies'
<1>1. Line(buf[c]) \in Seq(Token)
  BY LineText DEF IInv, Types
<1>2. UNCHANGED <<commands, seekto, file_pos, reply>> /\ tpc[c] = "write"
  BY DEF WriteData, Extend
<1>3. pending' = pending \/ pending' = pending \o Line(buf[c])
  BY DEF WriteData, Extend
<1>4. PICK l \in {"newline", "oops", "exited"} : tpc' = [tpc EXCEPT ![c] = l]
  BY DEF WriteData, ThreadFails, Goto
<1>5. Texts'
  <2>1. pending \o Line(buf[c]) \in Seq(Token)
    BY <1>1, ConcatProperties DEF Texts
  <2>2. pending' \in Seq(Token)
    BY <1>3, <2>1 DEF Texts
  <2> QED BY <1>2, <2>2 DEF Texts
<1>6. OthersKeepReply(c)
  BY <1>2, <1>4 DEF OthersKeepReply, IInv, Types
<1>7. ReplyOf(c)'
  <2>1. tpc'[c] \in {"newline", "oops", "exited"} /\ reply'[c] = <<>>
    BY <1>2, <1>4 DEF IInv, Types, Replies, NoReply
  <2> QED BY <2>1 DEF ReplyOf
<1> QED BY <1>5, <1>6, <1>7, OthersKeep

LEMMA KeepType ==
  ASSUME NEW S, NEW log \in Seq(S), Len(log) <= MaxOps, NEW x \in S
  PROVE  Keep(log, x) \in Seq(S) /\ Len(Keep(log, x)) <= MaxOps
<1>1. CASE Len(log) = MaxOps
  <2>1. Tail(log) \in Seq(S) /\ Len(Tail(log)) = MaxOps - 1
    BY <1>1, MaxOpsAssumption, HeadTailProperties
  <2>2. Append(Tail(log), x) \in Seq(S) /\ Len(Append(Tail(log), x)) = MaxOps
    BY <2>1, AppendProperties, MaxOpsAssumption
  <2> QED BY <1>1, <2>2, MaxOpsAssumption DEF Keep
<1>2. CASE Len(log) # MaxOps
  <2>1. Append(log, x) \in Seq(S) /\ Len(Append(log, x)) = Len(log) + 1
    BY AppendProperties
  <2> QED BY <1>2, <2>1, MaxOpsAssumption DEF Keep
<1> QED BY <1>1, <1>2

(* The newest command is the last.                                         *)
LEMMA KeepLast ==
  ASSUME NEW S, NEW log \in Seq(S), NEW x \in S
  PROVE  Len(Keep(log, x)) # 0 /\ Last(Keep(log, x)) = x
<1>1. PICK rest \in Seq(S) : Keep(log, x) = Append(rest, x)
  <2>1. CASE Len(log) = MaxOps
    <3>1. Tail(log) \in Seq(S)
      BY <2>1, HeadTailProperties, MaxOpsAssumption
    <3> QED BY <2>1, <3>1 DEF Keep
  <2>2. CASE Len(log) # MaxOps
    BY <2>2 DEF Keep
  <2> QED BY <2>1, <2>2
<1> QED BY <1>1, AppendProperties DEF Last

(* The one step that changes the commands: only its thread is on the       *)
(* device, so no reply is under way.                                       *)
LEMMA WriteNewlineKeeps ==
  ASSUME IInv, Texts, Replies, NEW c \in Conns, WriteNewline(c)
  PROVE  Texts' /\ Replies'
<1>1. UNCHANGED <<seekto, file_pos, reply>> /\ tpc[c] = "newline"
  BY DEF WriteNewline
<1>2. PICK l \in {"seek", "exited"} : tpc' = [tpc EXCEPT ![c] = l]
  BY DEF WriteNewline, ThreadFails, Goto
<1>3. Texts'
  <2>1. CASE UNCHANGED <<commands, pending>>
    BY <1>1, <2>1 DEF Texts
  <2>2. CASE Complete(<<NewLine>>)
    <3>1. pending \o <<NewLine>> \in Seq(Token)
      BY TokenAssumption, ConcatProperties DEF Texts
    <3>2. commands' \in Seq(Seq(Token)) /\ Len(commands') <= MaxOps
      BY <2>2, <3>1, KeepType DEF Texts, Complete
    <3> QED BY <1>1, <2>2, <3>2 DEF Texts, Complete
  <2> QED BY <2>1, <2>2 DEF WriteNewline
<1>4. ASSUME NEW d \in Conns PROVE /\ tpc'[d] \notin {"read", "unlock"}
                                   /\ tpc'[d] \in NoReply => reply'[d] = <<>>
  <2>1. CASE d = c
    BY <1>1, <1>2, <2>1 DEF IInv, Types, Replies, NoReply
  <2>2. CASE d # c
    BY <1>1, <1>2, <2>2 DEF IInv, Types, MutexHeldOnDevice, OnDevice, Replies
  <2> QED BY <2>1, <2>2
<1> QED BY <1>3, <1>4 DEF Replies

LEMMA SeekToKeeps ==
  ASSUME IInv, Texts, Replies, NEW c \in Conns, SeekTo(c)
  PROVE  Texts' /\ Replies'
<1> DEFINE start == SeekOffset(seekto[c])
<1>1. UNCHANGED <<commands, pending, seekto, reply>> /\ tpc[c] = "seek"
  BY DEF SeekTo, device
<1>2. start \in Nat
  BY ContentsType DEF Texts
<1>3. \/ tpc' = [tpc EXCEPT ![c] = "read"] /\ file_pos' = [file_pos EXCEPT ![c] = start]
      \/ tpc' = [tpc EXCEPT ![c] = "exited"] /\ UNCHANGED file_pos
  BY DEF SeekTo, ThreadFails, Goto
<1>4. start' = start /\ Contents' = Contents
  BY <1>1 DEF SeekOffset, Contents
<1> HIDE DEF start
<1>5. Texts'
  BY <1>1, <1>2, <1>3 DEF Texts
<1>6. OthersKeepReply(c)
  BY <1>1, <1>3 DEF OthersKeepReply, IInv, Types, Texts
<1>7. ReplyOf(c)'
  <2>1. reply'[c] = <<>>
    BY <1>1 DEF Replies, NoReply
  <2>2. CASE tpc'[c] = "exited"
    BY <2>2 DEF ReplyOf, NoReply
  <2>3. CASE tpc'[c] = "read" /\ file_pos'[c] = start
    <3>1. SubSeq(Contents', start + 1, start) = <<>>
      BY <1>2, SubSeqEmpty
    <3>2. SeekOffset(seekto[c])' = start
      BY <1>4 DEF start
    <3> QED BY <1>2, <2>1, <2>3, <3>1, <3>2 DEF ReplyOf
  <2> QED BY <1>3, <2>2, <2>3 DEF IInv, Types, Texts
<1> QED BY <1>5, <1>6, <1>7, OthersKeep

LEMMA SendPieceKeeps ==
  ASSUME IInv, Texts, Replies, NEW c \in Conns, SendPiece(c)
  PROVE  Texts' /\ Replies'
<1> DEFINE start == SeekOffset(seekto[c])
           all   == Len(Contents)
           pos   == file_pos[c]
           rest  == SubSeq(Contents, pos + 1, all)
<1>1. UNCHANGED <<commands, pending, seekto>> /\ tpc[c] = "read"
  BY DEF SendPiece, device
<1>2. start' = start /\ Contents' = Contents
  BY <1>1 DEF SeekOffset, Contents
<1>3. /\ start \in Nat /\ pos \in Nat /\ all \in Nat /\ Contents \in Seq(Token)
  BY ContentsType DEF Texts
<1>4. /\ start <= pos
      /\ pos = start \/ pos <= all
      /\ reply[c] = SubSeq(Contents, start + 1, pos)
  BY <1>1 DEF Replies
<1>5. \A i \in pos + 1 .. all : Contents[i] \in Token
  BY <1>3
<1>6. rest \in Seq(Token) /\ Len(rest) = IF pos + 1 <= all THEN all - (pos + 1) + 1 ELSE 0
  BY <1>3, <1>5, SubSeqProperties
<1>7. CASE rest = <<>> /\ Goto(c, "unlock") /\ UNCHANGED <<file_pos, reply>>
  <2>1. Texts'
    BY <1>1, <1>7 DEF Texts
  <2>2. OthersKeepReply(c) /\ tpc'[c] = "unlock" /\ reply'[c] = reply[c]
    BY <1>1, <1>7 DEF OthersKeepReply, Goto, IInv, Types
  <2>3. ~(pos + 1 <= all)
    <3> HIDE DEF rest, pos, all
    <3>1. Len(rest) = 0
      BY <1>7
    <3> QED BY <1>3, <1>6, <3>1
  <2> HIDE DEF start, all, pos, rest
  <2>4. SubSeq(Contents, start + 1, all) = SubSeq(Contents, start + 1, pos)
    <3>1. CASE pos = all
      BY <3>1
    <3>2. CASE pos # all
      <4>1. pos = start /\ all < start
        BY <1>3, <1>4, <2>3, <3>2
      <4> QED BY <1>3, <4>1, SubSeqEmpty
    <3> QED BY <3>1, <3>2
  <2>5. reply'[c] = SubSeq(Contents', SeekOffset(seekto[c])' + 1, Len(Contents'))
    BY <1>2, <1>4, <2>2, <2>4 DEF start, all
  <2>6. ReplyOf(c)'
    BY <2>2, <2>5 DEF ReplyOf, NoReply
  <2> QED BY <2>1, <2>2, <2>6, OthersKeep
<1>8. ASSUME NEW k \in 1 .. BufSize, k <= Len(rest),
             reply' = [reply EXCEPT ![c] = @ \o SubSeq(rest, 1, k)],
             file_pos' = [file_pos EXCEPT ![c] = @ + k],
             UNCHANGED tpc
      PROVE  Texts' /\ Replies'
  <2>1. k \in Nat /\ k >= 1
    BY BufSizeAssumption
  <2>2. pos + k <= all /\ pos + 1 <= all
    BY <1>3, <1>6, <1>8, <2>1
  <2>3. SubSeq(rest, 1, k) = SubSeq(Contents, pos + 1, pos + k)
    <3>1. /\ pos + 1 \in 1 .. all /\ all \in 1 .. all
          /\ 1 \in 1 .. all - (pos + 1) + 1 /\ k \in 1 .. all - (pos + 1) + 1
          /\ (pos + 1) + 1 - 1 = pos + 1 /\ (pos + 1) + k - 1 = pos + k
      BY <1>3, <2>1, <2>2
    <3> HIDE DEF pos
    <3> QED BY <1>3, <3>1, SubSeqOfSubSeq
  <2>4. reply[c] \o SubSeq(rest, 1, k) = SubSeq(Contents, start + 1, pos + k)
    <3>1. /\ start + 1 \in 1 .. all + 1 /\ pos \in (start + 1) - 1 .. all
          /\ pos + k \in pos .. all
      BY <1>3, <1>4, <2>1, <2>2
    <3> HIDE DEF pos, start, rest
    <3> QED BY <1>3, <1>4, <2>3, <3>1, ConcatAdjacentSubSeq
  <2>5. SubSeq(rest, 1, k) \in Seq(Token)
    <3> HIDE DEF rest
    <3>1. \A i \in 1 .. k : rest[i] \in Token
      BY <1>6, <1>8, <2>1
    <3> QED BY <2>1, <3>1, SubSeqProperties
  <2>6. reply[c] \o SubSeq(rest, 1, k) \in Seq(Token)
    <3> HIDE DEF rest
    <3> QED BY <2>5, ConcatProperties DEF Texts
  <2>7. Texts'
    <3> HIDE DEF rest
    <3> QED BY <1>1, <1>8, <2>1, <2>6 DEF Texts
  <2>8. OthersKeepReply(c)
    <3> HIDE DEF rest
    <3> QED BY <1>1, <1>8 DEF OthersKeepReply, Texts
  <2>9. /\ tpc'[c] = "read" /\ file_pos'[c] = pos + k
        /\ reply'[c] = SubSeq(Contents, start + 1, pos + k)
    <3> HIDE DEF rest, start
    <3> QED BY <1>1, <1>8, <2>4 DEF Texts
  <2>10. ReplyOf(c)'
    <3>1. SeekOffset(seekto[c])' = start
      BY <1>2
    <3> HIDE DEF start, pos, rest
    <3> QED BY <1>2, <1>3, <1>4, <2>1, <2>2, <2>9, <3>1 DEF ReplyOf, NoReply
  <2> QED BY <2>7, <2>8, <2>10, OthersKeep
<1>9. CASE ThreadFails(c) /\ UNCHANGED <<file_pos, reply>>
  <2>1. Texts'
    BY <1>1, <1>9 DEF Texts
  <2>2. tpc' = [tpc EXCEPT ![c] = "exited"]
    BY <1>9 DEF ThreadFails, Goto
  <2>3. OthersKeepReply(c) /\ tpc'[c] = "exited"
    BY <1>1, <1>9, <2>2 DEF OthersKeepReply, IInv, Types
  <2>4. ReplyOf(c)'
    BY <2>3 DEF ReplyOf, NoReply
  <2> QED BY <2>1, <2>3, <2>4, OthersKeep
<1> QED BY <1>7, <1>8, <1>9 DEF SendPiece

LEMMA UnlockKeeps ==
  ASSUME IInv, Texts, Replies, NEW c \in Conns, Unlock(c)
  PROVE  Texts' /\ Replies'
<1>1. UNCHANGED <<commands, pending, seekto, file_pos>>
  BY DEF Unlock, device
<1>2. PICK l \in {"recv", "exited"} : tpc' = [tpc EXCEPT ![c] = l]
  BY DEF Unlock, Goto
<1>3. reply' = [reply EXCEPT ![c] = <<>>]
  BY DEF Unlock
<1>4. Texts'
  BY <1>1, <1>3 DEF Texts
<1>5. OthersKeepReply(c)
  BY <1>1, <1>2, <1>3 DEF OthersKeepReply, IInv, Types, Texts
<1>6. ReplyOf(c)'
  <2>1. tpc'[c] \in {"recv", "exited"} /\ reply'[c] = <<>>
    BY <1>2, <1>3 DEF IInv, Types, Texts
  <2> QED BY <2>1 DEF ReplyOf
<1> QED BY <1>4, <1>5, <1>6, OthersKeep

LEMMA TextsInvariance == Spec => [](Texts /\ Replies)
<1>1. Init => Texts /\ Replies
  <2> SUFFICES ASSUME Init PROVE Texts /\ Replies
    OBVIOUS
  <2>1. Texts
    BY MaxOpsAssumption DEF Init, LogInit, Texts
  <2> QED BY <2>1 DEF Init, Replies
<1>2. IInv /\ Texts /\ Replies /\ [Next]_vars => (Texts /\ Replies)'
  <2> SUFFICES ASSUME IInv, Texts, Replies, [Next]_vars PROVE Texts' /\ Replies'
    OBVIOUS
  <2>1. CASE UNCHANGED vars
    <3>1. Quiet
      BY <2>1 DEF vars, device, thread, Quiet, StaysQuiet
    <3> QED BY <3>1, QuietKeeps
  <2>2. CASE Next
    <3>1. \/ Quiet \/ ProcessEnds
          \/ \E c \in Conns : \/ Lock(c) \/ WriteData(c) \/ WriteNewline(c)
                              \/ SeekTo(c) \/ SendPiece(c) \/ Unlock(c)
      BY <2>2, QuietSteps DEF IInv
    <3> QED BY <3>1, QuietKeeps, EndKeeps, LockKeeps, WriteDataKeeps, WriteNewlineKeeps,
               SeekToKeeps, SendPieceKeeps, UnlockKeeps
  <2> QED BY <2>1, <2>2
<1> QED BY <1>1, <1>2, Invariance, PTL DEF Spec

(***************************************************************************)
(* A client gets back what the device holds, from the position it asked    *)
(* for to the end, all of it and in order, whoever else is served in the   *)
(* meantime (aesdsocket.c:394-395).                                        *)
(***************************************************************************)
THEOREM WholeReply == Spec => []ReplyIsContents
<1>1. Replies => ReplyIsContents
  BY DEF Replies, ReplyIsContents
<1> QED BY TextsInvariance, <1>1, PTL

-----------------------------------------------------------------------------
(***************************************************************************)
(* The rest of TypeOK.                                                     *)
(***************************************************************************)
Rest ==
  /\ caught_signal \in BOOLEAN
  /\ conn_fd \in Conns \cup {NULL}
  /\ open_conns \subseteq Conns
  /\ client_done \in [Conns -> BOOLEAN]
  /\ open_files \subseteq Conns
  /\ torn \in BOOLEAN /\ wedged \in BOOLEAN

(* A thread is in the list once, and has been created.                     *)
ListOnce ==
  /\ IsInjective(thread_list)
  /\ \A c \in ToSet(thread_list) : tpc[c] # "none"

LEMMA RestNext == ASSUME IInv, Rest, Next PROVE Rest'
<1> USE DEF Rest, Goto
<1>1. ASSUME NEW c \in Conns, Connect(c) \/ Send(c) \/ Hangup(c) PROVE Rest'
  BY <1>1 DEF Connect, Send, Hangup, device, main, thread
<1>2. CASE Start \/ SocketInit \/ Daemonize \/ SignalHandler \/ Join
  BY <1>2 DEF Start, SocketInit, Daemonize, SignalHandler, Join, device, thread
<1>3. ASSUME NEW c \in Conns, Accept(c) PROVE Rest'
  BY <1>3 DEF Accept, device, thread
<1>4. CASE Spawn
  BY <1>4 DEF Spawn, device, thread
<1>5. CASE Reap
  BY <1>5 DEF Reap, IInv, Types, device, thread
<1>6. CASE ProcessEnds
  BY <1>6 DEF ProcessEnds
<1>7. ASSUME NEW c \in Conns, ThreadStart(c) \/ RecvError(c) \/ SendFails(c) \/ Recv(c)
      PROVE Rest'
  BY <1>7 DEF ThreadStart, RecvError, SendFails, Recv, ThreadFails, device, main, thread
<1>8. ASSUME NEW c \in Conns, RecvClosed(c) \/ ThreadExit(c) \/ Lock(c) \/ Unlock(c)
      PROVE Rest'
  BY <1>8 DEF RecvClosed, ThreadExit, Lock, Unlock, device, main, thread
<1>9. ASSUME NEW c \in Conns, WriteData(c) \/ WriteNewline(c) PROVE Rest'
  BY <1>9 DEF WriteData, WriteNewline, ThreadFails, main
<1>10. ASSUME NEW c \in Conns, SeekTo(c) \/ SendPiece(c) PROVE Rest'
  BY <1>10 DEF SeekTo, SendPiece, ThreadFails, device, main
<1> HIDE DEF Rest, Goto
<1>11. CASE MainStep \/ MainFails \/ SignalEnds
  BY <1>2, <1>3, <1>4, <1>5, <1>6, <1>11 DEF MainStep, MainFails, SignalEnds
<1>12. ASSUME NEW c \in Conns, ThreadStep(c) PROVE Rest'
  BY <1>7, <1>8, <1>9, <1>10, <1>12 DEF ThreadStep
<1>13. ASSUME NEW c \in Conns, ThreadBreaks(c) PROVE Rest'
  BY <1>6, <1>7, <1>13 DEF ThreadBreaks, BrokenPipe
<1> QED BY <1>1, <1>2, <1>8, <1>11, <1>12, <1>13 DEF Next

(* Only main changes the list, and a thread that has been created stays    *)
(* that until the process ends.                                            *)
LEMMA ListNext == ASSUME IInv, ListOnce, Next PROVE ListOnce'
<1>1. CASE Spawn
  <2>1. conn_fd \in Conns /\ tpc[conn_fd] = "none" /\ conn_fd \notin ToSet(thread_list)
    BY <1>1 DEF IInv, Unserved, Spawn, ListOnce
  <2>2. thread_list \in Seq(Conns) /\ thread_list' = Cons(conn_fd, thread_list)
    BY <1>1 DEF IInv, Types, Spawn
  <2>3. IsInjective(thread_list')
    BY <2>1, <2>2, ListInjective DEF ListOnce
  <2>4. ToSet(thread_list') \subseteq {conn_fd} \cup ToSet(thread_list)
    BY <2>1, <2>2, ConsSet
  <2>5. tpc' = [tpc EXCEPT ![conn_fd] = "start"]
    BY <1>1 DEF Spawn, Goto
  <2>6. ToSet(thread_list) \subseteq Conns /\ tpc \in [Conns -> Step]
    BY DEF IInv, Types, ToSet
  <2>7. ASSUME NEW c \in ToSet(thread_list') PROVE tpc'[c] # "none"
    BY <2>1, <2>4, <2>5, <2>6 DEF ListOnce
  <2> QED BY <2>3, <2>7 DEF ListOnce
<1>2. CASE Reap
  <2>1. thread_list \in Seq(Conns) /\ tpc' = tpc
    BY <1>2 DEF IInv, Types, Reap
  <2>2. CASE UNCHANGED thread_list
    BY <2>1, <2>2 DEF ListOnce
  <2>3. ASSUME NEW i \in DOMAIN thread_list, thread_list' = RemoveAt(thread_list, i)
        PROVE  ListOnce'
    <3>1. IsInjective(thread_list') /\ ToSet(thread_list') \subseteq ToSet(thread_list)
      BY <2>1, <2>3, RemoveAtSet, ListInjective DEF ListOnce
    <3> QED BY <2>1, <3>1 DEF ListOnce
  <2> QED BY <1>2, <2>2, <2>3 DEF Reap
<1>3. CASE Daemonize \/ ProcessEnds
  BY <1>3 DEF Daemonize, ProcessEnds, ListOnce, IsInjective, ToSet
<1>4. CASE /\ UNCHANGED thread_list
           /\ \A c \in Conns : tpc[c] # "none" => tpc'[c] # "none"
  <2>1. ToSet(thread_list) \subseteq Conns
    BY DEF IInv, Types, ToSet
  <2> QED BY <1>4, <2>1 DEF ListOnce
<1> USE DEF Goto, IInv, Types
<1>5. ASSUME NEW c \in Conns, Connect(c) \/ Send(c) \/ Hangup(c) PROVE ListOnce'
  BY <1>4, <1>5 DEF Connect, Send, Hangup, main
<1>6. CASE Start \/ SocketInit \/ SignalHandler \/ Join
  BY <1>4, <1>6 DEF Start, SocketInit, SignalHandler, Join
<1>7. ASSUME NEW c \in Conns, Accept(c) PROVE ListOnce'
  BY <1>4, <1>7 DEF Accept
<1>8. ASSUME NEW c \in Conns, NEW l \in Step \ {"none"}, Goto(c, l), UNCHANGED thread_list
      PROVE  ListOnce'
  BY <1>4, <1>8
<1>9. ASSUME NEW c \in Conns, Lock(c) \/ ThreadStep(c) \/ RecvError(c) \/ SendFails(c)
      PROVE  ListOnce'
  <2>1. UNCHANGED thread_list
    BY <1>9 DEF Lock, ThreadStep, RecvError, SendFails, ThreadStart, Recv, RecvClosed,
       ThreadExit, WriteData, WriteNewline, SeekTo, SendPiece, Unlock, main
  <2>2. (\E l \in Step \ {"none"} : Goto(c, l)) \/ UNCHANGED tpc
    <3> HIDE DEF Goto
    <3> QED BY <1>9 DEF Lock, ThreadStep, RecvError, SendFails, ThreadStart, Recv, RecvClosed,
       ThreadExit, WriteData, WriteNewline, SeekTo, SendPiece, Unlock, ThreadFails, Step
  <2> QED BY <1>4, <1>8, <2>1, <2>2
<1> HIDE DEF Goto, IInv, Types
<1>10. CASE MainStep \/ MainFails \/ SignalEnds
  BY <1>1, <1>2, <1>3, <1>6, <1>7, <1>10 DEF MainStep, MainFails, SignalEnds
<1>11. ASSUME NEW c \in Conns, ThreadBreaks(c) PROVE ListOnce'
  BY <1>3, <1>9, <1>11 DEF ThreadBreaks, BrokenPipe
<1> QED BY <1>5, <1>6, <1>9, <1>10, <1>11 DEF Next

LEMMA RestInvariance == Spec => [](Rest /\ ListOnce)
<1>1. Init => Rest /\ ListOnce
  <2> SUFFICES ASSUME Init PROVE Rest /\ ListOnce
    OBVIOUS
  <2>1. Rest
    BY DEF Init, Rest
  <2>2. thread_list = <<>> /\ DOMAIN thread_list = {}
    BY DEF Init
  <2>3. ListOnce
    BY <2>2 DEF ListOnce, IsInjective, ToSet
  <2> QED BY <2>1, <2>3
<1>2. IInv /\ Rest /\ ListOnce /\ [Next]_vars => (Rest /\ ListOnce)'
  <2>1. CASE UNCHANGED vars
    BY <2>1 DEF vars, device, main, thread, Rest, ListOnce
  <2>2. CASE Next
    BY <2>2, RestNext, ListNext
  <2> QED BY <2>1, <2>2
<1> QED BY <1>1, <1>2, Invariance, PTL DEF Spec

(***************************************************************************)
(* Every variable has values its C counterpart can have, and no thread is  *)
(* in the list twice.                                                      *)
(***************************************************************************)
THEOREM TypeInvariance == Spec => []TypeOK
<1>1. IInv /\ Texts /\ Rest /\ ListOnce => TypeOK
  BY DEF IInv, Types, Step, Texts, Rest, ListOnce, TypeOK, Text
<1> QED BY <1>1, Invariance, RestInvariance, TextsInvariance, PTL

-----------------------------------------------------------------------------
(***************************************************************************)
(* A client's own line is the last of its reply.                           *)
(***************************************************************************)

(* Between its two writes the device ends in the line of the thread; after *)
(* the second its last command does.                                       *)
LineOf(c) ==
  /\ tpc[c] \in {"write", "newline"} => seekto[c] = <<0, 0>>
  /\ tpc[c] = "newline" => \E u \in Seq(Token) : pending = u \o Line(buf[c])
  /\ tpc[c] \in {"seek", "read", "unlock"} /\ Head(buf[c]) \notin DOMAIN SeekArgs =>
       /\ seekto[c] = <<0, 0>>
       /\ Len(commands) # 0
       /\ \E u \in Seq(Token) : Last(commands) = u \o Append(Line(buf[c]), NewLine)

Lines == \A c \in Conns : LineOf(c)

LEMMA OffDevice == ASSUME NEW c \in Conns, tpc'[c] \notin OnDevice PROVE LineOf(c)'
  BY DEF LineOf, OnDevice

(* While c is on the device it is the only one.                            *)
LEMMA OnlyOwnLine ==
  ASSUME IInv, NEW c \in Conns, tpc[c] \in OnDevice, NEW l \in Step, Goto(c, l), LineOf(c)'
  PROVE  Lines'
<1>1. ASSUME NEW d \in Conns, d # c PROVE LineOf(d)'
  <2>1. tpc'[d] \notin OnDevice
    BY <1>1 DEF IInv, Types, MutexHeldOnDevice, Goto
  <2> QED BY <2>1, OffDevice
<1> QED BY <1>1 DEF Lines

LEMMA QuietLines == ASSUME Lines, Quiet PROVE Lines'
<1> SUFFICES ASSUME NEW c \in Conns PROVE LineOf(c)'
  BY DEF Lines
<1>1. CASE tpc'[c] \notin OnDevice
  BY <1>1, OffDevice
<1>2. CASE tpc'[c] = tpc[c] /\ buf'[c] = buf[c]
  <2>1. UNCHANGED <<commands, pending, seekto>> /\ LineOf(c)
    BY DEF Quiet, Lines
  <2> QED BY <1>2, <2>1 DEF LineOf, Last
<1> QED BY <1>1, <1>2 DEF Quiet, StaysQuiet

LEMMA LockLines == ASSUME IInv, Texts, Lines, NEW c \in Conns, Lock(c) PROVE Lines'
<1>1. UNCHANGED <<commands, pending, buf>>
  BY DEF Lock, device
<1>2. PICK l \in {"seek", "write"} : tpc' = [tpc EXCEPT ![c] = l]
  BY DEF Lock, Goto
<1>3. PICK to : seekto' = [seekto EXCEPT ![c] = to]
  BY DEF Lock
<1>4. ASSUME NEW d \in Conns, d # c PROVE LineOf(d)'
  <2>1. tpc'[d] = tpc[d] /\ seekto'[d] = seekto[d] /\ LineOf(d)
    BY <1>2, <1>3, <1>4 DEF IInv, Types, Texts, Lines
  <2> QED BY <1>1, <2>1 DEF LineOf, Last
<1>5. LineOf(c)'
  <2>1. CASE tpc'[c] = "seek" /\ Head(buf[c]) \in DOMAIN SeekArgs
    BY <1>1, <2>1 DEF LineOf
  <2>2. CASE tpc'[c] = "write" /\ seekto'[c] = <<0, 0>>
    BY <2>2 DEF LineOf
  <2> QED BY <2>1, <2>2 DEF Lock, Goto, IInv, Types, Texts
<1> QED BY <1>4, <1>5 DEF Lines

LEMMA WriteDataLines ==
  ASSUME IInv, Texts, Lines, NEW c \in Conns, WriteData(c)
  PROVE  Lines'
<1>1. tpc[c] = "write" /\ UNCHANGED <<buf, seekto, commands>> /\ seekto[c] = <<0, 0>>
  BY DEF WriteData, Extend, Lines, LineOf
<1>2. Line(buf[c]) \in Seq(Token) /\ Line(buf[c])' = Line(buf[c])
  <2>1. Line(buf[c]) \in Seq(Token)
    BY LineText DEF IInv, Types
  <2>2. Line(buf[c])' = Line(buf[c])
    BY <1>1 DEF Line
  <2> QED BY <2>1, <2>2
<1>3. PICK l \in {"newline", "oops", "exited"} : Goto(c, l)
  BY DEF WriteData, ThreadFails
<1>4. tpc'[c] = l /\ l \in Step
  BY <1>3 DEF Goto, IInv, Types, Step
<1>5. l = "newline" => \E u \in Seq(Token) : pending' = u \o Line(buf[c])
  <2>1. SUFFICES ASSUME l = "newline" PROVE \E u \in Seq(Token) : pending' = u \o Line(buf[c])
    OBVIOUS
  <2>2. CASE pending' = pending \o Line(buf[c])
    BY <2>2 DEF Texts
  <2>3. CASE Line(buf[c]) = <<>> /\ pending' = pending
    <3>1. pending \o <<>> = pending
      BY ConcatEmptySeq DEF Texts
    <3> QED BY <2>3, <3>1 DEF Texts
  <2>4. tpc'[c] # "exited"
    BY <1>4, <2>1
  <2> QED BY <2>2, <2>3, <2>4 DEF WriteData, Extend, ThreadFails, Goto, IInv, Types
<1>6. LineOf(c)'
  BY <1>1, <1>2, <1>4, <1>5 DEF LineOf
<1> QED BY <1>1, <1>3, <1>4, <1>6, OnlyOwnLine DEF OnDevice

LEMMA WriteNewlineLines ==
  ASSUME IInv, Texts, Lines, NEW c \in Conns, WriteNewline(c)
  PROVE  Lines'
<1>1. tpc[c] = "newline" /\ UNCHANGED <<buf, seekto>> /\ seekto[c] = <<0, 0>>
  BY DEF WriteNewline, Lines, LineOf
<1>2. Line(buf[c]) \in Seq(Token) /\ Line(buf[c])' = Line(buf[c])
  <2>1. Line(buf[c]) \in Seq(Token)
    BY LineText DEF IInv, Types
  <2>2. Line(buf[c])' = Line(buf[c])
    BY <1>1 DEF Line
  <2> QED BY <2>1, <2>2
<1>3. CASE Goto(c, "exited")
  <2>1. tpc'[c] \notin OnDevice /\ "exited" \in Step
    BY <1>3 DEF Goto, IInv, Types, OnDevice, Step
  <2> QED BY <1>1, <1>3, <2>1, OffDevice, OnlyOwnLine DEF OnDevice
<1>4. CASE Goto(c, "seek") /\ Complete(<<NewLine>>)
  <2> DEFINE line == Line(buf[c])
             new  == pending \o <<NewLine>>
  <2>1. PICK u \in Seq(Token) : pending = u \o line
    BY <1>1 DEF Lines, LineOf
  <2>2. new = u \o Append(line, NewLine) /\ new \in Seq(Token)
    <3>1. Append(line, NewLine) = line \o <<NewLine>> /\ <<NewLine>> \in Seq(Token)
      BY <1>2, TokenAssumption, AppendIsConcat
    <3> HIDE DEF line
    <3>2. (u \o line) \o <<NewLine>> = u \o (line \o <<NewLine>>)
      BY <1>2, <3>1, ConcatAssociative DEF line
    <3>3. new \in Seq(Token)
      BY <3>1, ConcatProperties DEF Texts
    <3> QED BY <2>1, <3>1, <3>2, <3>3
  <2>3. commands' = Keep(commands, new)
    BY <1>4 DEF Complete
  <2> HIDE DEF new, line
  <2>4. Len(commands') # 0 /\ Last(commands') = new
    BY <2>2, <2>3, KeepLast, ZenonT(40) DEF Texts
  <2>5. tpc'[c] = "seek" /\ "seek" \in Step
    BY <1>4 DEF Goto, IInv, Types, Step
  <2>6. LineOf(c)'
    BY <1>1, <1>2, <2>2, <2>4, <2>5 DEF LineOf, line
  <2> QED BY <1>1, <1>4, <2>5, <2>6, OnlyOwnLine DEF OnDevice
<1> QED BY <1>3, <1>4 DEF WriteNewline, ThreadFails

LEMMA SendLines ==
  ASSUME IInv, Texts, Lines, NEW c \in Conns, SeekTo(c) \/ SendPiece(c)
  PROVE  Lines'
<1>1. tpc[c] \in {"seek", "read"} /\ UNCHANGED <<commands, pending, buf, seekto>>
  BY DEF SeekTo, SendPiece, device
<1>2. PICK l \in {"read", "unlock", "exited"} : Goto(c, l)
  BY DEF SeekTo, SendPiece, ThreadFails, Goto, IInv, Types
<1>3. tpc'[c] = l /\ l \in Step
  BY <1>2 DEF Goto, IInv, Types, Step
<1>4. LineOf(c)'
  BY <1>1, <1>3 DEF Lines, LineOf, Last
<1> QED BY <1>1, <1>2, <1>3, <1>4, OnlyOwnLine DEF OnDevice

LEMMA UnlockLines == ASSUME IInv, Lines, NEW c \in Conns, Unlock(c) PROVE Lines'
<1>1. PICK l \in {"recv", "exited"} : Goto(c, l)
  BY DEF Unlock
<1>2. tpc[c] \in OnDevice /\ tpc'[c] \notin OnDevice /\ l \in Step
  BY <1>1 DEF Unlock, Goto, IInv, Types, OnDevice, Step
<1> QED BY <1>1, <1>2, OffDevice, OnlyOwnLine

LEMMA EndLines == ASSUME ProcessEnds PROVE Lines'
<1>1. \A c \in Conns : tpc'[c] \notin OnDevice
  BY DEF ProcessEnds, OnDevice
<1> QED BY <1>1, OffDevice DEF Lines

LEMMA LinesInvariance == Spec => []Lines
<1>1. Init => Lines
  BY DEF Init, Lines, LineOf
<1>2. IInv /\ Texts /\ Lines /\ [Next]_vars => Lines'
  <2> SUFFICES ASSUME IInv, Texts, Lines, [Next]_vars PROVE Lines'
    OBVIOUS
  <2>1. CASE UNCHANGED vars
    <3>1. Quiet
      BY <2>1 DEF vars, device, thread, Quiet, StaysQuiet
    <3> QED BY <3>1, QuietLines
  <2>2. CASE Next
    <3>1. \/ Quiet \/ ProcessEnds
          \/ \E c \in Conns : \/ Lock(c) \/ WriteData(c) \/ WriteNewline(c)
                              \/ SeekTo(c) \/ SendPiece(c) \/ Unlock(c)
      BY <2>2, QuietSteps DEF IInv
    <3> QED BY <3>1, QuietLines, EndLines, LockLines, WriteDataLines, WriteNewlineLines,
               SendLines, UnlockLines
  <2> QED BY <2>1, <2>2
<1> QED BY <1>1, <1>2, Invariance, TextsInvariance, PTL DEF Spec

(***************************************************************************)
(* A client sees its own line as the last one of the contents it gets back *)
(* (aesdsocket.c:356-359).                                                 *)
(***************************************************************************)
THEOREM OwnLine == Spec => []OwnLineIsLast
<1>1. Types /\ Texts /\ Replies /\ Lines => OwnLineIsLast
  <2> SUFFICES ASSUME Types, Texts, Replies, Lines, NEW c \in Conns, tpc[c] = "unlock",
                      Head(buf[c]) \notin DOMAIN SeekArgs
               PROVE  IsSuffix(Append(Line(buf[c]), NewLine), reply[c])
    BY DEF OwnLineIsLast
  <2> DEFINE own == Append(Line(buf[c]), NewLine)
  <2>1. seekto[c] = <<0, 0>> /\ Len(commands) # 0
    BY DEF Lines, LineOf
  <2>2. PICK u \in Seq(Token) : Last(commands) = u \o own
    BY DEF Lines, LineOf
  <2>3. own \in Seq(Token)
    BY LineText, TokenAssumption, AppendProperties DEF Types
  <2> HIDE DEF own
  <2>4. PICK v \in Seq(Token) : Contents = v \o Last(commands)
    BY <2>1, FlattenEnd DEF Texts, Contents
  <2>5. Contents = (v \o u) \o own /\ v \o u \in Seq(Token)
    BY <2>2, <2>3, <2>4, ConcatAssociative, ConcatProperties, SMTT(30)
  <2>6. IsSuffix(own, Contents)
    BY <2>3, <2>5, ConcatSuffix
  <2>7. SeekOffset(seekto[c]) = 0
    <3>1. FlattenSeq(SubSeq(commands, 1, 0)) = <<>>
      <4>1. SubSeq(commands, 1, 0) = <<>>
        BY SubSeqEmpty
      <4> QED BY <4>1 DEF FlattenSeq
    <3> QED BY <2>1, <3>1 DEF SeekOffset
  <2>8. reply[c] = Contents
    <3>1. reply[c] = SubSeq(Contents, 1, Len(Contents))
      <4>1. reply[c] = SubSeq(Contents, SeekOffset(seekto[c]) + 1, Len(Contents))
        BY DEF Replies
      <4>2. SeekOffset(seekto[c]) + 1 = 1
        BY <2>7
      <4> QED BY <4>1, <4>2
    <3>2. Contents \in Seq(Token)
      BY FlattenType DEF Texts, Contents
    <3>3. SubSeq(Contents, 1, Len(Contents)) = Contents
      <4> HIDE DEF Contents
      <4> QED BY <3>2, SubSeqFull
    <3> QED BY <3>1, <3>3
  <2> QED BY <2>6, <2>8 DEF own
<1> QED BY <1>1, Invariance, TextsInvariance, LinesInvariance, PTL DEF IInv

-----------------------------------------------------------------------------
(***************************************************************************)
(* A completed command is one line of one client.                          *)
(***************************************************************************)

(* What a thread has received of its line, what is in flight and what its  *)
(* client has yet to send are, in this order, the end of what the client   *)
(* sends: nothing is lost between them, doubled or reordered.              *)
Source(c) ==
  \E a \in Seq(Token) :
    FlattenSeq(Script[c]) = a \o (buf[c] \o (inflight[c] \o FlattenSeq(todo[c])))

Sources == \A c \in Conns : Source(c)

(* Without a failure, what is on the device between the two writes of a    *)
(* thread is the line of this thread alone.                                *)
WholeLine == ~torn => \A c \in Conns : tpc[c] = "newline" => pending = Line(buf[c])

LEMMA JoinTypes == \A x, y \in Seq(Token) : x \o y \in Seq(Token)
  BY ConcatProperties

LEMMA JoinElements ==
  \A x, y \in Seq(Token) :
    /\ x \o y \in Seq(Token) /\ Len(x \o y) = Len(x) + Len(y)
    /\ \A i \in 1 .. Len(x) + Len(y) : (x \o y)[i] = IF i <= Len(x) THEN x[i] ELSE y[i - Len(x)]
  BY ConcatProperties

LEMMA JoinGroups == \A x, y, z \in Seq(Token) : (x \o y) \o z = x \o (y \o z)
  BY ConcatAssociative

LEMMA JoinNothing ==
  <<>> \in Seq(Token) /\ \A x \in Seq(Token) : x \o <<>> = x /\ <<>> \o x = x
  BY ConcatEmptySeq

(* A front of a piece of the text is a piece of the text.                  *)
LEMMA PieceOfWhole ==
  ASSUME NEW a \in Seq(Token), NEW b \in Seq(Token), NEW r \in Seq(Token), NEW m \in 0 .. Len(b)
  PROVE  SubSeq(b, 1, m) \in SubSeqs(a \o (b \o r))
<1> DEFINE t == b \o r
           w == a \o t
           n == Len(a)
           p == SubSeq(w, n + 1, n + m)
           q == SubSeq(b, 1, m)
<1>1. /\ t \in Seq(Token) /\ Len(t) = Len(b) + Len(r)
      /\ \A i \in 1 .. m : t[i] = b[i]
  BY ConcatProperties
<1> HIDE DEF t
<1>2. /\ w \in Seq(Token) /\ Len(w) = n + Len(t) /\ n \in Nat
      /\ \A i \in 1 .. m : w[n + i] = b[i]
  <2>1. /\ w \in Seq(Token) /\ Len(w) = n + Len(t)
        /\ \A i \in 1 .. n + Len(t) : w[i] = IF i <= n THEN a[i] ELSE t[i - n]
    BY <1>1, JoinElements
  <2>2. n \in Nat /\ Len(t) \in Nat /\ m <= Len(t)
    BY <1>1
  <2>3. ASSUME NEW i \in 1 .. m PROVE w[n + i] = b[i]
    <3>1. n + i \in 1 .. n + Len(t) /\ ~(n + i <= n) /\ (n + i) - n = i
      BY <2>2
    <3> QED BY <1>1, <2>1, <3>1
  <2> QED BY <2>1, <2>2, <2>3
<1> HIDE DEF w
<1>3. n \in 0 .. Len(w) /\ n + m \in 0 .. Len(w) /\ m \in Nat
  BY <1>1, <1>2
<1>4. p \in Seq(Token) /\ Len(p) = m /\ \A i \in 1 .. m : p[i] = w[n + i]
  <2>1. \A i \in n + 1 .. n + m : w[i] \in Token
    BY <1>2, <1>3
  <2> QED BY <1>2, <1>3, <2>1, SubSeqProperties, SMTT(30)
<1>5. q \in Seq(Token) /\ Len(q) = m /\ \A i \in 1 .. m : q[i] = b[i]
  <2>1. \A i \in 1 .. m : b[i] \in Token
    OBVIOUS
  <2> QED BY <1>3, <2>1, SubSeqProperties
<1>6. p = q
  <2> HIDE DEF p, q, n
  <2> QED BY <1>2, <1>4, <1>5, SeqEqual
<1>7. p \in SubSeqs(w)
  <2> HIDE DEF n
  <2> QED BY <1>3 DEF SubSeqs
<1> QED BY <1>6, <1>7 DEF w, t

(* The line is the text up to its first newline.                           *)
LEMMA LineIsFront ==
  ASSUME NEW text \in Seq(Token)
  PROVE  /\ \E m \in 0 .. Len(text) : Line(text) = SubSeq(text, 1, m)
         /\ NewLine \notin ToSet(Line(text))
<1> DEFINE ends == {i \in DOMAIN text : text[i] = NewLine}
           first == CHOOSE i \in ends : \A j \in ends : i <= j
<1>1. CASE ends = {}
  <2>1. Line(text) = text
    BY <1>1 DEF Line
  <2>2. text = SubSeq(text, 1, Len(text)) /\ Len(text) \in 0 .. Len(text)
    BY SubSeqFull
  <2> QED BY <1>1, <2>1, <2>2 DEF ToSet
<1>2. CASE ends # {}
  <2>1. ends \subseteq Nat /\ ends \subseteq 1 .. Len(text)
    OBVIOUS
  <2>2. \E i \in ends : \A j \in ends : i <= j
    <3> HIDE DEF ends
    <3> QED BY <1>2, <2>1, LeastElement
  <2>3. first \in ends /\ \A j \in ends : first <= j
    BY <2>2
  <2> HIDE DEF first
  <2>4. first \in 1 .. Len(text) /\ Len(text) \in Nat /\ first - 1 \in 0 .. Len(text)
    BY <2>1, <2>3
  <2>5. Line(text) = SubSeq(text, 1, first - 1)
    BY <1>2 DEF Line, first
  <2> DEFINE line == SubSeq(text, 1, first - 1)
  <2>6. DOMAIN line = 1 .. first - 1 /\ \A i \in 1 .. first - 1 : line[i] = text[i]
    <3>1. \A i \in 1 .. first - 1 : text[i] \in Token
      BY <2>4
    <3>2. /\ line \in Seq(Token) /\ Len(line) = first - 1
          /\ \A i \in 1 .. first - 1 : line[i] = text[i]
      BY <2>4, <3>1, SubSeqProperties
    <3> HIDE DEF line
    <3> QED BY <3>2
  <2> HIDE DEF line
  <2>7. ASSUME NEW i \in 1 .. first - 1 PROVE line[i] # NewLine
    <3>1. i \in DOMAIN text /\ ~(first <= i)
      BY <2>4
    <3> QED BY <2>3, <2>6, <3>1
  <2>8. NewLine \notin ToSet(line)
    BY <2>6, <2>7 DEF ToSet
  <2> QED BY <2>4, <2>5, <2>8 DEF line
<1> QED BY <1>1, <1>2

LEMMA SourceSteps ==
  ASSUME Next
  PROVE  \/ UNCHANGED <<buf, inflight, todo>>
         \/ ProcessEnds
         \/ \E c \in Conns : Send(c) \/ Recv(c) \/ Unlock(c)
<1>1. ASSUME NEW c \in Conns, Connect(c) \/ Hangup(c) \/ Lock(c) PROVE UNCHANGED <<buf, inflight, todo>>
  BY <1>1 DEF Connect, Hangup, Lock, thread, clients
<1>2. CASE Start \/ SocketInit \/ Daemonize \/ SignalHandler \/ Spawn \/ Reap \/ Join
  BY <1>2 DEF Start, SocketInit, Daemonize, SignalHandler, Spawn, Reap, Join, thread, clients
<1>3. ASSUME NEW c \in Conns, Accept(c) PROVE UNCHANGED <<buf, inflight, todo>>
  BY <1>3 DEF Accept, thread
<1>4. ASSUME NEW c \in Conns, ThreadStart(c) \/ RecvClosed(c) \/ ThreadExit(c) \/ RecvError(c)
      PROVE  UNCHANGED <<buf, inflight, todo>>
  BY <1>4 DEF ThreadStart, RecvClosed, ThreadExit, RecvError, thread, clients
<1>5. ASSUME NEW c \in Conns, WriteData(c) \/ WriteNewline(c) \/ SeekTo(c) \/ SendPiece(c) \/ SendFails(c)
      PROVE  UNCHANGED <<buf, inflight, todo>>
  BY <1>5 DEF WriteData, WriteNewline, SeekTo, SendPiece, SendFails, thread, clients
<1>6. CASE MainFails \/ SignalEnds \/ \E c \in Conns : BrokenPipe(c)
  BY <1>6 DEF MainFails, SignalEnds, BrokenPipe
<1> QED BY <1>1, <1>2, <1>3, <1>4, <1>5, <1>6 DEF Next, MainStep, ThreadStep, ThreadBreaks

(* Text that has been dealt with joins what is left of it.                 *)
LEMMA SendSources == ASSUME Types, Sources, NEW c \in Conns, Send(c) PROVE Sources'
<1> DEFINE head == Head(todo[c])
           rest == FlattenSeq(Tail(todo[c]))
<1>1. /\ head \in Seq(Token) /\ Tail(todo[c]) \in Seq(Seq(Token))
      /\ inflight[c] \in Seq(Token) /\ todo[c] \in Seq(Seq(Token)) /\ todo[c] # <<>>
  BY HeadTailProperties DEF Types, Send
<1>2. FlattenSeq(todo[c]) = head \o rest
  BY <1>1, FlattenHead
<1>3. rest \in Seq(Token)
  BY <1>1, FlattenType
<1>4. /\ inflight' = [inflight EXCEPT ![c] = @ \o head]
      /\ todo' = [todo EXCEPT ![c] = Tail(@)]
      /\ buf' = buf
  BY DEF Send, thread
<1>5. inflight[c] \o (head \o rest) = (inflight[c] \o head) \o rest
  <2> HIDE DEF head, rest
  <2> QED BY <1>1, <1>3, JoinGroups
<1>6. inflight'[c] = inflight[c] \o head /\ FlattenSeq(todo'[c]) = rest
  BY <1>4 DEF Types
<1> HIDE DEF head, rest
<1>7. Source(c)'
  <2>1. inflight[c] \o FlattenSeq(todo[c]) = inflight'[c] \o FlattenSeq(todo'[c])
    BY <1>2, <1>5, <1>6
  <2>2. PICK a \in Seq(Token) :
          FlattenSeq(Script[c]) = a \o (buf[c] \o (inflight[c] \o FlattenSeq(todo[c])))
    BY DEF Sources, Source
  <2>3. FlattenSeq(Script[c]) = a \o (buf'[c] \o (inflight'[c] \o FlattenSeq(todo'[c])))
    BY <1>4, <2>1, <2>2
  <2> QED BY <2>3 DEF Source
<1>8. ASSUME NEW d \in Conns, d # c PROVE Source(d)'
  <2>1. inflight'[d] = inflight[d] /\ todo'[d] = todo[d] /\ buf'[d] = buf[d]
    BY <1>4, <1>8 DEF Types
  <2> QED BY <2>1 DEF Sources, Source
<1> QED BY <1>7, <1>8 DEF Sources

LEMMA RecvSources == ASSUME Types, Sources, NEW c \in Conns, Recv(c) PROVE Sources'
<1>1. PICK k \in 1 .. BufSize :
        /\ k <= Len(inflight[c])
        /\ inflight' = [inflight EXCEPT ![c] = SubSeq(@, k + 1, Len(@))]
        /\ buf' = [buf EXCEPT ![c] = @ \o SubSeq(inflight[c], 1, k)]
  BY DEF Recv
<1>2. todo' = todo
  BY DEF Recv
<1> DEFINE got  == SubSeq(inflight[c], 1, k)
           left == SubSeq(inflight[c], k + 1, Len(inflight[c]))
           rest == FlattenSeq(todo[c])
<1>3. inflight[c] \in Seq(Token) /\ buf[c] \in Seq(Token) /\ rest \in Seq(Token)
  BY FlattenType DEF Types
<1>4. got \in Seq(Token) /\ left \in Seq(Token) /\ inflight[c] = got \o left
  <2> DEFINE s == inflight[c]
  <2>1. k \in Nat /\ k >= 1 /\ k <= Len(s) /\ Len(s) \in Nat /\ \A i \in 1 .. Len(s) : s[i] \in Token
    BY <1>1, <1>3
  <2> HIDE DEF s
  <2>2. /\ SubSeq(s, 1, k) \in Seq(Token) /\ Len(SubSeq(s, 1, k)) = k
        /\ \A i \in 1 .. k : SubSeq(s, 1, k)[i] = s[i]
    <3>1. \A i \in 1 .. k : s[i] \in Token
      BY <2>1
    <3> QED BY <2>1, <3>1, SubSeqProperties
  <2>3. /\ SubSeq(s, k + 1, Len(s)) \in Seq(Token)
        /\ Len(SubSeq(s, k + 1, Len(s))) = Len(s) - k
        /\ \A i \in 1 .. Len(s) - k : SubSeq(s, k + 1, Len(s))[i] = s[k + i]
    <3>1. \A i \in k + 1 .. Len(s) : s[i] \in Token
      BY <2>1
    <3> QED BY <2>1, <3>1, SubSeqProperties
  <2> DEFINE x == SubSeq(s, 1, k)
             y == SubSeq(s, k + 1, Len(s))
  <2> HIDE DEF x, y
  <2>4. /\ x \o y \in Seq(Token) /\ Len(x \o y) = Len(s)
        /\ \A i \in 1 .. Len(s) : (x \o y)[i] = s[i]
    <3>1. x \in Seq(Token) /\ y \in Seq(Token) /\ Len(x) = k /\ Len(y) = Len(s) - k
      BY <2>2, <2>3 DEF x, y
    <3>2. /\ x \o y \in Seq(Token) /\ Len(x \o y) = k + (Len(s) - k)
          /\ \A i \in 1 .. k + (Len(s) - k) : (x \o y)[i] = IF i <= k THEN x[i] ELSE y[i - k]
      <4>1. /\ x \o y \in Seq(Token) /\ Len(x \o y) = Len(x) + Len(y)
            /\ \A i \in 1 .. Len(x) + Len(y) :
                 (x \o y)[i] = IF i <= Len(x) THEN x[i] ELSE y[i - Len(x)]
        BY <3>1, JoinElements
      <4> QED BY <3>1, <4>1
    <3>3. k + (Len(s) - k) = Len(s)
      BY <2>1
    <3>4. ASSUME NEW i \in 1 .. Len(s) PROVE (x \o y)[i] = s[i]
      <4>1. CASE i <= k
        <5>1. i \in 1 .. k
          BY <2>1, <4>1
        <5> QED BY <2>2, <3>2, <3>3, <4>1, <5>1 DEF x
      <4>2. CASE ~(i <= k)
        <5>1. i - k \in 1 .. Len(s) - k /\ k + (i - k) = i
          BY <2>1, <4>2
        <5> QED BY <2>3, <3>2, <3>3, <4>2, <5>1 DEF y
      <4> QED BY <4>1, <4>2
    <3> QED BY <3>2, <3>3, <3>4
  <2>5. s \in Seq(Token)
    BY <1>3 DEF s
  <2>6. x \o y = s
    BY <2>4, <2>5, SeqEqual
  <2> QED BY <2>2, <2>3, <2>6 DEF x, y, s
<1>5. inflight'[c] = left /\ buf'[c] = buf[c] \o got
  BY <1>1 DEF Types
<1> HIDE DEF got, left
<1>6. buf[c] \o (inflight[c] \o rest) = buf'[c] \o (inflight'[c] \o rest)
  <2> HIDE DEF rest
  <2>1. (got \o left) \o rest = got \o (left \o rest) /\ left \o rest \in Seq(Token)
    BY <1>3, <1>4, JoinGroups, JoinTypes, SMTT(30)
  <2>2. buf[c] \o (got \o (left \o rest)) = (buf[c] \o got) \o (left \o rest)
    BY <1>3, <1>4, <2>1, JoinGroups
  <2> QED BY <1>4, <1>5, <2>1, <2>2
<1>7. Source(c)'
  <2>1. PICK a \in Seq(Token) :
          FlattenSeq(Script[c]) = a \o (buf[c] \o (inflight[c] \o FlattenSeq(todo[c])))
    BY DEF Sources, Source
  <2>2. FlattenSeq(Script[c]) = a \o (buf'[c] \o (inflight'[c] \o FlattenSeq(todo'[c])))
    BY <1>2, <1>6, <2>1
  <2> QED BY <2>2 DEF Source
<1>8. ASSUME NEW d \in Conns, d # c PROVE Source(d)'
  <2>1. inflight'[d] = inflight[d] /\ todo'[d] = todo[d] /\ buf'[d] = buf[d]
    BY <1>1, <1>2, <1>8 DEF Types
  <2> QED BY <2>1 DEF Sources, Source
<1> QED BY <1>7, <1>8 DEF Sources

LEMMA UnlockSources == ASSUME Types, Sources, NEW c \in Conns, Unlock(c) PROVE Sources'
<1>1. buf' = [buf EXCEPT ![c] = <<>>] /\ inflight' = inflight /\ todo' = todo
  BY DEF Unlock, clients
<1> DEFINE left == inflight[c] \o FlattenSeq(todo[c])
<1>2. left \in Seq(Token) /\ buf[c] \in Seq(Token)
  <2>1. FlattenSeq(todo[c]) \in Seq(Token) /\ inflight[c] \in Seq(Token) /\ buf[c] \in Seq(Token)
    BY FlattenType DEF Types
  <2> QED BY <2>1, JoinTypes
<1>3. PICK a \in Seq(Token) : FlattenSeq(Script[c]) = a \o (buf[c] \o left)
  BY DEF Sources, Source
<1>4. left' = left /\ buf'[c] = <<>>
  BY <1>1 DEF Types
<1> HIDE DEF left
<1>5. a \o buf[c] \in Seq(Token) /\ FlattenSeq(Script[c]) = (a \o buf[c]) \o (<<>> \o left)
  <2>1. a \o (buf[c] \o left) = (a \o buf[c]) \o left
    BY <1>2, JoinGroups
  <2>2. <<>> \o left = left
    BY <1>2, JoinNothing
  <2>3. a \o buf[c] \in Seq(Token)
    BY <1>2, JoinTypes
  <2> QED BY <1>3, <2>1, <2>2, <2>3
<1>6. Source(c)'
  <2>1. FlattenSeq(Script[c]) = (a \o buf[c]) \o (buf'[c] \o left')
    BY <1>4, <1>5
  <2> QED BY <1>5, <2>1 DEF Source, left
<1>7. ASSUME NEW d \in Conns, d # c PROVE Source(d)'
  <2>1. inflight'[d] = inflight[d] /\ todo'[d] = todo[d] /\ buf'[d] = buf[d]
    BY <1>1, <1>7 DEF Types
  <2> QED BY <2>1 DEF Sources, Source
<1> QED BY <1>6, <1>7 DEF Sources

(* What the process had received and what was in flight is gone.           *)
LEMMA EndSources == ASSUME Types, Sources, ProcessEnds PROVE Sources'
<1> SUFFICES ASSUME NEW c \in Conns PROVE Source(c)'
  BY DEF Sources
<1> DEFINE rest == FlattenSeq(todo[c])
<1>1. buf'[c] = <<>> /\ inflight'[c] = <<>> /\ rest' = rest
  BY DEF ProcessEnds
<1>2. rest \in Seq(Token) /\ inflight[c] \in Seq(Token) /\ buf[c] \in Seq(Token)
  BY FlattenType DEF Types
<1>3. PICK a \in Seq(Token) : FlattenSeq(Script[c]) = a \o (buf[c] \o (inflight[c] \o rest))
  BY DEF Sources, Source
<1> HIDE DEF rest
<1> DEFINE gone == (a \o buf[c]) \o inflight[c]
<1>4. gone \in Seq(Token) /\ FlattenSeq(Script[c]) = gone \o rest
  <2>1. inflight[c] \o rest \in Seq(Token) /\ a \o buf[c] \in Seq(Token)
    BY <1>2, JoinTypes
  <2>2. a \o (buf[c] \o (inflight[c] \o rest)) = (a \o buf[c]) \o (inflight[c] \o rest)
    BY <1>2, <2>1, JoinGroups
  <2>3. (a \o buf[c]) \o (inflight[c] \o rest) = gone \o rest
    BY <1>2, <2>1, JoinGroups, ZenonT(40)
  <2>4. gone \in Seq(Token)
    BY <1>2, <2>1, JoinTypes
  <2> QED BY <1>3, <2>2, <2>3, <2>4
<1> HIDE DEF gone
<1>5. <<>> \o (<<>> \o rest) = rest
  BY <1>2, JoinNothing
<1>6. FlattenSeq(Script[c]) = gone \o (buf'[c] \o (inflight'[c] \o rest'))
  BY <1>1, <1>4, <1>5
<1> QED BY <1>4, <1>6 DEF Source, rest

LEMMA InitSources == Init => Sources
<1> SUFFICES ASSUME Init, NEW c \in Conns PROVE Source(c)
  BY DEF Sources
<1> DEFINE whole == FlattenSeq(Script[c])
<1>1. buf[c] = <<>> /\ inflight[c] = <<>> /\ FlattenSeq(todo[c]) = whole
  BY DEF Init
<1>2. whole \in Seq(Token)
  <2>1. Script[c] \in Seq(Seq(Token))
    BY ScriptAssumption
  <2> QED BY <2>1, FlattenType
<1> HIDE DEF whole
<1>3. <<>> \in Seq(Token) /\ whole = <<>> \o (<<>> \o (<<>> \o whole))
  BY <1>2, JoinNothing
<1>4. whole = <<>> \o (buf[c] \o (inflight[c] \o FlattenSeq(todo[c])))
  BY <1>1, <1>3
<1> QED BY <1>3, <1>4 DEF Source, whole

LEMMA SourcesInvariance == Spec => []Sources
<1>1. IInv /\ Sources /\ [Next]_vars => Sources'
  <2> SUFFICES ASSUME Types, Sources, [Next]_vars PROVE Sources'
    BY DEF IInv
  <2>1. CASE UNCHANGED <<buf, inflight, todo>>
    BY <2>1 DEF Sources, Source
  <2>2. CASE UNCHANGED vars
    BY <2>1, <2>2 DEF vars, clients, thread
  <2>3. CASE Next
    BY <2>1, <2>3, SourceSteps, EndSources, SendSources, RecvSources, UnlockSources
  <2> QED BY <2>2, <2>3
<1> QED BY <1>1, InitSources, Invariance, PTL DEF Spec

-----------------------------------------------------------------------------
(* Only the newline, or the end of the process, settles whether a line was *)
(* torn.                                                                   *)
LEMMA TornSteps ==
  ASSUME Next
  PROVE  torn' = torn \/ ProcessEnds \/ \E c \in Conns : WriteNewline(c)
<1>1. ASSUME NEW c \in Conns, Connect(c) \/ Send(c) \/ Hangup(c) \/ Lock(c) PROVE torn' = torn
  BY <1>1 DEF Connect, Send, Hangup, Lock, device
<1>2. CASE Start \/ SocketInit \/ Daemonize \/ SignalHandler \/ Spawn \/ Reap \/ Join
  BY <1>2 DEF Start, SocketInit, Daemonize, SignalHandler, Spawn, Reap, Join, device
<1>3. ASSUME NEW c \in Conns, Accept(c) \/ Recv(c) PROVE torn' = torn
  BY <1>3 DEF Accept, Recv, device
<1>4. ASSUME NEW c \in Conns, ThreadStart(c) \/ RecvClosed(c) \/ ThreadExit(c) \/ RecvError(c)
      PROVE  torn' = torn
  BY <1>4 DEF ThreadStart, RecvClosed, ThreadExit, RecvError, device
<1>5. ASSUME NEW c \in Conns, WriteData(c) \/ SeekTo(c) \/ SendPiece(c) \/ SendFails(c) \/ Unlock(c)
      PROVE  torn' = torn
  BY <1>5 DEF WriteData, SeekTo, SendPiece, SendFails, Unlock, device
<1>6. CASE MainFails \/ SignalEnds \/ \E c \in Conns : BrokenPipe(c)
  BY <1>6 DEF MainFails, SignalEnds, BrokenPipe
<1> QED BY <1>1, <1>2, <1>3, <1>4, <1>5, <1>6 DEF Next, MainStep, ThreadStep, ThreadBreaks

LEMMA WholeLineNext == ASSUME IInv, Texts, WholeLine, Next PROVE WholeLine'
<1> SUFFICES ASSUME ~torn', NEW d \in Conns, tpc'[d] = "newline" PROVE pending' = Line(buf'[d])
  BY DEF WholeLine, Line
<1>1. CASE tpc[d] = "newline" /\ torn' = torn /\ pending' = pending /\ buf'[d] = buf[d]
  BY <1>1 DEF WholeLine
<1>2. CASE ProcessEnds
  BY <1>2 DEF ProcessEnds
<1>3. ASSUME NEW c \in Conns, WriteNewline(c) PROVE FALSE
  <2>1. tpc[c] = "newline"
    BY <1>3 DEF WriteNewline
  <2>2. PICK l \in {"seek", "exited"} : tpc' = [tpc EXCEPT ![c] = l]
    BY <1>3 DEF WriteNewline, ThreadFails, Goto
  <2>3. d = c
    BY <2>1, <2>2 DEF IInv, Types, MutexHeldOnDevice, OnDevice
  <2> QED BY <2>2, <2>3 DEF IInv, Types
<1>4. CASE torn' = torn /\ Quiet
  BY <1>1, <1>4 DEF Quiet, StaysQuiet, OnDevice
<1>5. ASSUME NEW c \in Conns, WriteData(c) PROVE pending' = Line(buf'[d])
  <2>1. tpc[c] = "write" /\ buf' = buf /\ torn' = torn
    BY <1>5 DEF WriteData
  <2>2. PICK l \in {"newline", "oops", "exited"} : tpc' = [tpc EXCEPT ![c] = l]
    BY <1>5 DEF WriteData, ThreadFails, Goto
  <2>3. \A e \in Conns : tpc[e] # "newline"
    BY <2>1 DEF IInv, Types, MutexHeldOnDevice, OnDevice
  <2>4. d = c /\ l = "newline"
    BY <2>2, <2>3 DEF IInv, Types
  <2>5. pending = <<>>
    BY <2>1, <2>3 DEF IInv, HalfLineHasWriter
  <2>6. Line(buf[c]) \in Seq(Token)
    BY LineText DEF IInv, Types
  <2>7. pending' = <<>> \o Line(buf[c])
    <3>1. tpc'[c] = "newline"
      BY <2>4
    <3> QED BY <1>5, <2>2, <2>5, <3>1 DEF WriteData, Extend, ThreadFails, Goto, IInv, Types
  <2> QED BY <2>1, <2>4, <2>6, <2>7, JoinNothing
<1>6. ASSUME NEW c \in Conns, Lock(c) \/ SeekTo(c) \/ SendPiece(c) \/ Unlock(c)
      PROVE  pending' = Line(buf'[d])
  <2>1. torn' = torn /\ pending' = pending
    BY <1>6 DEF Lock, SeekTo, SendPiece, Unlock, device
  <2>2. PICK l \in {"seek", "write", "read", "unlock", "recv", "exited"} :
          tpc' = [tpc EXCEPT ![c] = l] \/ tpc' = tpc
    BY <1>6 DEF Lock, SeekTo, SendPiece, Unlock, ThreadFails, Goto
  <2>3. d # c /\ tpc[d] = "newline"
    <3>1. tpc[c] # "newline"
      BY <1>6 DEF Lock, SeekTo, SendPiece, Unlock
    <3> QED BY <2>2, <3>1 DEF IInv, Types
  <2>4. buf'[d] = buf[d]
    <3>1. buf' = buf \/ buf' = [buf EXCEPT ![c] = <<>>]
      BY <1>6 DEF Lock, SeekTo, SendPiece, Unlock
    <3> QED BY <2>3, <3>1 DEF IInv, Types
  <2> QED BY <1>1, <2>1, <2>3, <2>4
<1> QED BY <1>2, <1>3, <1>4, <1>5, <1>6, QuietSteps, TornSteps DEF IInv

(***************************************************************************)
(* A command that is completed is a line of one client and a newline, if   *)
(* no failure has left half a line before it (aesdsocket.c:222-255 under   *)
(* the mutex of 368).                                                      *)
(***************************************************************************)
THEOREM WholeLines == Spec => CommandsAreLines
<1>1. Init => WholeLine
  BY DEF Init, WholeLine
<1>2. IInv /\ Texts /\ WholeLine /\ [Next]_vars => WholeLine'
  <2> SUFFICES ASSUME IInv, Texts, WholeLine, [Next]_vars PROVE WholeLine'
    OBVIOUS
  <2>1. CASE UNCHANGED vars
    BY <2>1 DEF vars, device, thread, WholeLine, Line
  <2> QED BY <2>1, WholeLineNext
<1>3. IInv /\ Texts /\ Sources /\ WholeLine /\ [Next]_vars =>
        [commands' # commands /\ ~torn => IsLine(Last(commands'))]_vars
  <2> SUFFICES ASSUME IInv, Texts, Sources, WholeLine, Next, commands' # commands, ~torn
               PROVE  IsLine(Last(commands'))
    BY DEF vars
  <2>1. PICK c \in Conns : WriteNewline(c)
    <3>1. ~Quiet /\ ~ProcessEnds
      BY DEF Quiet, ProcessEnds
    <3>2. \A c \in Conns : ~(Lock(c) \/ WriteData(c) \/ SeekTo(c) \/ SendPiece(c) \/ Unlock(c))
      BY DEF Lock, WriteData, Extend, SeekTo, SendPiece, Unlock, device
    <3> QED BY <3>1, <3>2, QuietSteps DEF IInv
  <2> DEFINE line == Line(buf[c])
  <2>2. pending = line
    BY <2>1 DEF WholeLine, WriteNewline
  <2>3. line \in Seq(Token) /\ buf[c] \in Seq(Token)
    BY LineText DEF IInv, Types
  <2>4. commands' = Keep(commands, line \o <<NewLine>>)
    BY <2>1, <2>2 DEF WriteNewline, Complete
  <2>5. line \in SubSeqs(FlattenSeq(Script[c])) /\ NewLine \notin ToSet(line)
    <3> DEFINE left == inflight[c] \o FlattenSeq(todo[c])
    <3>1. left \in Seq(Token)
      <4>1. FlattenSeq(todo[c]) \in Seq(Token) /\ inflight[c] \in Seq(Token)
        BY FlattenType DEF IInv, Types
      <4> QED BY <4>1, JoinTypes
    <3>2. PICK a \in Seq(Token) : FlattenSeq(Script[c]) = a \o (buf[c] \o left)
      BY DEF Sources, Source
    <3>3. PICK m \in 0 .. Len(buf[c]) : line = SubSeq(buf[c], 1, m)
      BY <2>3, LineIsFront
    <3>4. NewLine \notin ToSet(line)
      BY <2>3, LineIsFront
    <3> HIDE DEF left, line
    <3>5. line \in SubSeqs(a \o (buf[c] \o left))
      BY <2>3, <3>1, <3>3, PieceOfWhole
    <3> QED BY <3>2, <3>4, <3>5
  <2> HIDE DEF line
  <2> DEFINE new == Append(line, NewLine)
  <2>6. new = line \o <<NewLine>> /\ new \in Seq(Token)
    BY <2>3, TokenAssumption, AppendIsConcat, AppendProperties
  <2> HIDE DEF new
  <2>7. Last(commands') = new
    BY <2>4, <2>6, KeepLast DEF Texts
  <2> QED BY <2>5, <2>7 DEF IsLine, new
<1> QED BY <1>1, <1>2, <1>3, Invariance, TextsInvariance, SourcesInvariance, PTL
        DEF Spec, CommandsAreLines

-----------------------------------------------------------------------------
(***************************************************************************)
(* Besides the threads that left on an error, the list does not outgrow    *)
(* the most threads that were at work.                                     *)
(***************************************************************************)

(* A list without repetition is as long as its set of members is large.    *)
LEMMA ListLength ==
  ASSUME NEW S, NEW s \in Seq(S), IsInjective(s)
  PROVE  IsFiniteSet(ToSet(s)) /\ Cardinality(ToSet(s)) = Len(s)
<1>1. s \in Bijection(1 .. Len(s), ToSet(s))
  <2>1. DOMAIN s = 1 .. Len(s) /\ s \in [1 .. Len(s) -> ToSet(s)]
    BY DEF ToSet
  <2>2. s \in Surjection(1 .. Len(s), ToSet(s))
    BY <2>1 DEF Surjection, ToSet
  <2>3. s \in Injection(1 .. Len(s), ToSet(s))
    BY <2>1 DEF Injection, IsInjective
  <2> QED BY <2>2, <2>3 DEF Bijection, Surjection, Injection
<1>2. Len(s) \in Nat /\ ExistsBijection(1 .. Len(s), ToSet(s))
  BY <1>1 DEF ExistsBijection
<1>3. Cardinality(ToSet(s)) = Len(s)
  BY <1>2, FS_CountingElements
<1>4. IsFiniteSet(1 .. Len(s))
  BY <1>2, FS_Interval
<1> QED BY <1>2, <1>3, <1>4, FS_Bijection

(* Every thread that is not marked is in the list; while main is not       *)
(* between adding a thread and looking for one to join, the list is no     *)
(* longer than peak and the abandoned threads.                             *)
Unmarked == {c \in Conns : tpc[c] # "none" /\ ~client_done[c]}

UnmarkedListed == Unmarked \subseteq ToSet(thread_list)

ListBound ==
  /\ peak \in Nat /\ Cardinality(Serving) <= peak
  /\ mpc \in {"accept", "spawn", "join"} => Len(thread_list) <= peak + Cardinality(Abandoned)
  /\ mpc = "reap" => Len(thread_list) <= peak + Cardinality(Abandoned) + 1

LEMMA UnmarkedParts ==
  Unmarked = Serving \cup Abandoned /\ Unmarked' = Serving' \cup Abandoned'
  BY DEF Unmarked, Serving, Abandoned

LEMMA SizeOfUnion ==
  ASSUME NEW S, IsFiniteSet(S), NEW T, IsFiniteSet(T)
  PROVE  Cardinality(S \cup T) <= Cardinality(S) + Cardinality(T)
<1>1. IsFiniteSet(S \cap T)
  BY FS_Intersection
<1>2. Cardinality(S) \in Nat /\ Cardinality(T) \in Nat /\ Cardinality(S \cap T) \in Nat
  BY <1>1, FS_CardinalityType
<1>3. Cardinality(S \cup T) = Cardinality(S) + Cardinality(T) - Cardinality(S \cap T)
  BY FS_Union
<1> QED BY <1>2, <1>3

(* The steps that move a thread keep it listed.                            *)
LEMMA UnmarkedNext == ASSUME IInv, Rest, UnmarkedListed, Next PROVE UnmarkedListed'
<1> SUFFICES ASSUME NEW d \in Unmarked' PROVE d \in ToSet(thread_list')
  BY DEF UnmarkedListed
<1>0. d \in Conns /\ tpc'[d] # "none" /\ ~client_done'[d]
  BY DEF Unmarked
<1>1. CASE tpc[d] # "none" /\ ~client_done[d] /\ UNCHANGED thread_list
  BY <1>0, <1>1 DEF UnmarkedListed, Unmarked
<1> USE DEF IInv, Types, Rest, Goto
<1>2. CASE Spawn
  <2>1. conn_fd \in Conns
    BY <1>2 DEF Unserved, Spawn
  <2>2. thread_list' = Cons(conn_fd, thread_list) /\ thread_list \in Seq(Conns)
    BY <1>2 DEF Spawn
  <2>3. conn_fd \in ToSet(thread_list') /\ ToSet(thread_list) \subseteq ToSet(thread_list')
    BY <2>1, <2>2, ConsSet
  <2>4. d = conn_fd \/ (tpc[d] # "none" /\ ~client_done[d])
    BY <1>0, <1>2, <2>1 DEF Spawn
  <2> QED BY <1>0, <2>3, <2>4 DEF UnmarkedListed, Unmarked
<1>3. CASE Reap
  <2>1. tpc[d] # "none" /\ ~client_done[d]
    BY <1>0, <1>3 DEF Reap
  <2>2. ASSUME NEW i \in DOMAIN thread_list, client_done[thread_list[i]],
               thread_list' = RemoveAt(thread_list, i)
        PROVE  d \in ToSet(thread_list')
    <3>1. ToSet(thread_list) \subseteq ToSet(thread_list') \cup {thread_list[i]}
      BY <2>2, RemoveAtSet
    <3> QED BY <1>0, <2>1, <2>2, <3>1 DEF UnmarkedListed, Unmarked
  <2> QED BY <1>1, <1>3, <2>1, <2>2 DEF Reap, Reapable
<1>4. CASE Daemonize
  BY <1>0, <1>4 DEF Daemonize, Unserved
<1>5. CASE ProcessEnds
  BY <1>0, <1>5 DEF ProcessEnds
<1>6. CASE Start \/ SocketInit \/ SignalHandler \/ Join
  BY <1>0, <1>1, <1>6 DEF Start, SocketInit, SignalHandler, Join
<1>7. ASSUME NEW c \in Conns, Connect(c) \/ Send(c) \/ Hangup(c) \/ Accept(c)
      PROVE  d \in ToSet(thread_list')
  BY <1>0, <1>1, <1>7 DEF Connect, Send, Hangup, Accept, main
<1>8. ASSUME NEW c \in Conns, Lock(c) \/ ThreadStep(c) \/ RecvError(c) \/ SendFails(c)
      PROVE  d \in ToSet(thread_list')
  <2>1. UNCHANGED thread_list
    BY <1>8 DEF Lock, ThreadStep, RecvError, SendFails, ThreadStart, Recv, RecvClosed,
       ThreadExit, WriteData, WriteNewline, SeekTo, SendPiece, Unlock, main
  <2>2. client_done' = client_done \/ client_done' = [client_done EXCEPT ![c] = TRUE]
    BY <1>8 DEF Lock, ThreadStep, RecvError, SendFails, ThreadStart, Recv, RecvClosed,
       ThreadExit, WriteData, WriteNewline, SeekTo, SendPiece, Unlock, ThreadFails
  <2>3. tpc[c] # "none"
    BY <1>8 DEF Lock, ThreadStep, RecvError, SendFails, ThreadStart, Recv, RecvClosed,
       ThreadExit, WriteData, WriteNewline, SeekTo, SendPiece, Unlock
  <2>4. (\E l : Goto(c, l)) \/ UNCHANGED tpc
    <3> HIDE DEF Goto
    <3> QED BY <1>8 DEF Lock, ThreadStep, RecvError, SendFails, ThreadStart, Recv, RecvClosed,
       ThreadExit, WriteData, WriteNewline, SeekTo, SendPiece, Unlock, ThreadFails
  <2>5. tpc[d] # "none"
    BY <1>0, <2>3, <2>4
  <2>6. ~client_done[d]
    BY <1>0, <2>2
  <2> QED BY <1>1, <2>1, <2>5, <2>6
<1> HIDE DEF IInv, Types, Rest, Goto
<1>9. CASE MainStep \/ MainFails \/ SignalEnds
  BY <1>2, <1>3, <1>4, <1>5, <1>6, <1>7, <1>9 DEF MainStep, MainFails, SignalEnds
<1>10. ASSUME NEW c \in Conns, ThreadBreaks(c) PROVE d \in ToSet(thread_list')
  BY <1>5, <1>8, <1>10 DEF ThreadBreaks, BrokenPipe
<1> QED BY <1>6, <1>7, <1>8, <1>9, <1>10 DEF Next

(* An abandoned thread stays that until the process ends.                  *)
LEMMA AbandonedStay ==
  ASSUME IInv, Rest, Next
  PROVE  thread_list' = <<>> \/ Abandoned \subseteq Abandoned'
<1> SUFFICES ASSUME NEW d \in Abandoned, thread_list' # <<>>
             PROVE  tpc'[d] = tpc[d] /\ client_done'[d] = client_done[d]
  BY DEF Abandoned
<1>0. d \in Conns /\ tpc[d] \in {"exited", "oops"}
  BY DEF Abandoned
<1> USE DEF IInv, Types, Rest, Goto
<1>1. CASE Spawn
  <2>1. tpc[conn_fd] = "none" /\ conn_fd \in Conns
    BY <1>1 DEF Unserved, Spawn
  <2> QED BY <1>0, <1>1, <2>1 DEF Spawn
<1>2. CASE ProcessEnds \/ Daemonize
  BY <1>2 DEF ProcessEnds, Daemonize
<1>3. CASE Start \/ SocketInit \/ SignalHandler \/ Join \/ Reap
  BY <1>3 DEF Start, SocketInit, SignalHandler, Join, Reap
<1>4. ASSUME NEW c \in Conns, Connect(c) \/ Send(c) \/ Hangup(c) \/ Accept(c)
      PROVE  tpc'[d] = tpc[d] /\ client_done'[d] = client_done[d]
  BY <1>4 DEF Connect, Send, Hangup, Accept
<1>5. ASSUME NEW c \in Conns, Lock(c) \/ ThreadStep(c) \/ RecvError(c) \/ SendFails(c)
      PROVE  tpc'[d] = tpc[d] /\ client_done'[d] = client_done[d]
  <2>1. client_done' = client_done \/ client_done' = [client_done EXCEPT ![c] = TRUE]
    BY <1>5 DEF Lock, ThreadStep, RecvError, SendFails, ThreadStart, Recv, RecvClosed,
       ThreadExit, WriteData, WriteNewline, SeekTo, SendPiece, Unlock, ThreadFails
  <2>2. tpc[c] \notin {"exited", "oops"}
    BY <1>5 DEF Lock, ThreadStep, RecvError, SendFails, ThreadStart, Recv, RecvClosed,
       ThreadExit, WriteData, WriteNewline, SeekTo, SendPiece, Unlock
  <2>3. (\E l : Goto(c, l)) \/ UNCHANGED tpc
    <3> HIDE DEF Goto
    <3> QED BY <1>5 DEF Lock, ThreadStep, RecvError, SendFails, ThreadStart, Recv, RecvClosed,
       ThreadExit, WriteData, WriteNewline, SeekTo, SendPiece, Unlock, ThreadFails
  <2>4. d # c
    BY <1>0, <2>2
  <2> QED BY <1>0, <2>1, <2>3, <2>4
<1> HIDE DEF IInv, Types, Rest, Goto
<1> QED BY <1>1, <1>2, <1>3, <1>4, <1>5
        DEF Next, MainStep, MainFails, SignalEnds, ThreadBreaks, BrokenPipe

(* What a step can do to the place of main and the length of the list.     *)
LEMMA ListSteps ==
  ASSUME Next
  PROVE  \/ Spawn \/ Reap
         \/ thread_list' = <<>>
         \/ /\ UNCHANGED thread_list
            /\ \/ mpc' = mpc
               \/ mpc \in {"accept", "join"} /\ mpc' \in {"accept", "spawn"}
               \/ mpc' \in {"setup", "daemonize"}
<1>1. CASE ProcessEnds \/ Daemonize
  BY <1>1 DEF ProcessEnds, Daemonize
<1>2. ASSUME NEW c \in Conns, Lock(c) \/ ThreadStep(c) \/ RecvError(c) \/ SendFails(c)
      PROVE  UNCHANGED <<thread_list, mpc>>
  BY <1>2 DEF Lock, ThreadStep, RecvError, SendFails, ThreadStart, Recv, RecvClosed,
     ThreadExit, WriteData, WriteNewline, SeekTo, SendPiece, Unlock, main
<1>3. ASSUME NEW c \in Conns, Connect(c) \/ Send(c) \/ Hangup(c)
      PROVE  UNCHANGED <<thread_list, mpc>>
  BY <1>3 DEF Connect, Send, Hangup, main
<1>4. CASE Start \/ SocketInit \/ SignalHandler \/ Join \/ \E c \in Conns : Accept(c)
  BY <1>4 DEF Start, SocketInit, SignalHandler, Join, Accept
<1> QED BY <1>1, <1>2, <1>3, <1>4
        DEF Next, MainStep, MainFails, SignalEnds, ThreadBreaks, BrokenPipe

LEMMA BoundNext ==
  ASSUME IInv, Rest, ListOnce, ListOnce', IInv', UnmarkedListed, UnmarkedListed', ListBound,
         ServiceNext
  PROVE  ListBound'
<1>1. /\ thread_list \in Seq(Conns) /\ Len(thread_list) \in Nat
      /\ thread_list' \in Seq(Conns) /\ Len(thread_list') \in Nat
  <2>1. thread_list \in Seq(Conns) /\ thread_list' \in Seq(Conns)
    BY DEF IInv, Types
  <2> QED BY <2>1
<1>2. /\ IsFiniteSet(Serving') /\ IsFiniteSet(Abandoned') /\ IsFiniteSet(Abandoned)
      /\ Cardinality(Serving') \in Nat /\ Cardinality(Abandoned') \in Nat
      /\ Cardinality(Abandoned) \in Nat
  <2>1. IsFiniteSet(ToSet(thread_list')) /\ IsFiniteSet(ToSet(thread_list))
    BY <1>1, ListLength DEF ListOnce
  <2>2. /\ Serving' \in SUBSET ToSet(thread_list') /\ Abandoned' \in SUBSET ToSet(thread_list')
        /\ Abandoned \in SUBSET ToSet(thread_list)
    <3> HIDE DEF Unmarked, Serving, Abandoned
    <3> QED BY UnmarkedParts DEF UnmarkedListed
  <2> HIDE DEF Serving, Abandoned
  <2> QED BY <2>1, <2>2, FS_Subset, FS_CardinalityType
<1>3. peak' = IF Cardinality(Serving') > peak THEN Cardinality(Serving') ELSE peak
  BY DEF ServiceNext
<1>4. thread_list' = <<>> \/ Cardinality(Abandoned) <= Cardinality(Abandoned')
  <2>1. thread_list' = <<>> \/ Abandoned \subseteq Abandoned'
    BY AbandonedStay DEF ServiceNext
  <2> HIDE DEF Abandoned
  <2> QED BY <1>2, <2>1, FS_Subset
<1> HIDE DEF Serving, Abandoned
<1>5. peak' \in Nat /\ Cardinality(Serving') <= peak' /\ peak <= peak' /\ peak \in Nat
  BY <1>2, <1>3 DEF ListBound
<1> DEFINE before == peak + Cardinality(Abandoned)
           after  == peak' + Cardinality(Abandoned')
<1>6. /\ before \in Nat /\ after \in Nat
      /\ thread_list' = <<>> \/ before <= after
      /\ ListBound <=> /\ peak \in Nat /\ Cardinality(Serving) <= peak
                       /\ mpc \in {"accept", "spawn", "join"} => Len(thread_list) <= before
                       /\ mpc = "reap" => Len(thread_list) <= before + 1
      /\ ListBound' <=> /\ peak' \in Nat /\ Cardinality(Serving') <= peak'
                        /\ mpc' \in {"accept", "spawn", "join"} => Len(thread_list') <= after
                        /\ mpc' = "reap" => Len(thread_list') <= after + 1
  BY <1>2, <1>4, <1>5 DEF ListBound
<1> HIDE DEF before, after
<1>7. CASE Spawn
  <2>1. mpc = "spawn" /\ mpc' = "reap" /\ thread_list' = Cons(conn_fd, thread_list)
    BY <1>7 DEF Spawn
  <2>2. Len(thread_list') = Len(thread_list) + 1
    <3>1. conn_fd \in Conns
      BY <2>1 DEF IInv, Unserved
    <3> QED BY <1>1, <2>1, <3>1 DEF Cons
  <2>3. Len(thread_list) <= before /\ before <= after
    BY <1>1, <1>6, <2>1, <2>2
  <2>4. Len(thread_list') <= after + 1
    BY <1>1, <1>6, <2>2, <2>3
  <2> QED BY <1>5, <1>6, <2>1, <2>4
<1>8. CASE Reap
  <2>1. Len(thread_list) <= before + 1 /\ mpc = "reap"
    BY <1>6, <1>8 DEF Reap
  <2>2. ASSUME NEW i \in DOMAIN thread_list, thread_list' = RemoveAt(thread_list, i), mpc' = "join"
        PROVE  ListBound'
    <3>1. DOMAIN thread_list' = 1 .. Len(thread_list) - 1
      BY <1>1, <2>2, RemoveAtIndex
    <3>2. i \in 1 .. Len(thread_list)
      BY <1>1
    <3>3. Len(thread_list') = Len(thread_list) - 1
      BY <1>1, <3>1, <3>2
    <3>4. thread_list' = <<>> => Len(thread_list') = 0
      OBVIOUS
    <3>5. Len(thread_list') <= after
      BY <1>1, <1>6, <2>1, <3>3, <3>4
    <3> QED BY <1>5, <1>6, <2>2, <3>5
  <2>3. ASSUME \A i \in DOMAIN thread_list : ~Reapable(thread_list[i]), mpc' = "accept",
               UNCHANGED thread_list
        PROVE  ListBound'
    <3>1. UNCHANGED <<tpc, client_done>>
      BY <1>8 DEF Reap
    <3>2. ToSet(thread_list') \subseteq Unmarked'
      <4>1. ToSet(thread_list) \subseteq Conns
        BY <1>1 DEF ToSet
      <4>2. \A c \in ToSet(thread_list) : ~client_done[c]
        BY <2>3 DEF ToSet, Reapable
      <4> QED BY <2>3, <3>1, <4>1, <4>2 DEF Unmarked, ListOnce
    <3>3. ToSet(thread_list') = Serving' \cup Abandoned'
      BY <3>2, UnmarkedParts DEF UnmarkedListed
    <3>4. Cardinality(ToSet(thread_list')) = Len(thread_list')
      BY <1>1, ListLength DEF ListOnce
    <3>5. Cardinality(Serving' \cup Abandoned') <= Cardinality(Serving') + Cardinality(Abandoned')
      BY <1>2, SizeOfUnion
    <3>6. Len(thread_list') <= after
      BY <1>1, <1>2, <1>5, <3>3, <3>4, <3>5 DEF after
    <3> QED BY <1>5, <1>6, <2>3, <3>6
  <2> QED BY <1>8, <2>2, <2>3 DEF Reap
<1>9. CASE thread_list' = <<>>
  <2> DEFINE n == Len(thread_list')
  <2>1. n = 0
    BY <1>9
  <2> HIDE DEF n
  <2>2. n <= after /\ n <= after + 1
    BY <1>6, <2>1
  <2> QED BY <1>5, <1>6, <2>2 DEF n
<1>10. CASE /\ UNCHANGED thread_list
            /\ \/ mpc' = mpc
               \/ mpc \in {"accept", "join"} /\ mpc' \in {"accept", "spawn"}
               \/ mpc' \in {"setup", "daemonize"}
  <2>1. CASE before <= after
    BY <1>1, <1>5, <1>6, <1>10, <2>1
  <2>2. CASE thread_list' = <<>>
    BY <1>9, <2>2
  <2> QED BY <1>6, <2>1, <2>2
<1> QED BY <1>7, <1>8, <1>9, <1>10, ListSteps DEF ServiceNext

(***************************************************************************)
(* When main waits for a client, it keeps, besides the threads that left   *)
(* on an error, no more than were at work at the same time once            *)
(* (aesdsocket.c:611), whatever fails.                                     *)
(***************************************************************************)
THEOREM BoundedList == ServiceSafety => []ListBoundedByPeak
<1>1. ServiceSafety => Spec
  <2>1. ServiceInit => Init
    BY DEF ServiceInit
  <2>2. [ServiceNext]_<<vars, peak>> => [Next]_vars
    BY DEF ServiceNext
  <2> QED BY <2>1, <2>2, PTL DEF ServiceSafety, Spec
<1>2. ServiceInit => UnmarkedListed /\ ListBound
  <2> SUFFICES ASSUME ServiceInit PROVE UnmarkedListed /\ ListBound
    OBVIOUS
  <2>1. Serving = {} /\ Unmarked = {} /\ peak = 0 /\ mpc = "down"
    BY DEF ServiceInit, Init, Serving, Unmarked
  <2> HIDE DEF Serving, Unmarked
  <2> QED BY <2>1, FS_EmptySet DEF UnmarkedListed, ListBound
<1>3. /\ IInv /\ IInv' /\ Rest /\ ListOnce /\ ListOnce' /\ UnmarkedListed /\ ListBound
      /\ [ServiceNext]_<<vars, peak>>
      => (UnmarkedListed /\ ListBound)'
  <2>1. CASE UNCHANGED <<vars, peak>>
    BY <2>1 DEF vars, main, UnmarkedListed, ListBound, Serving, Abandoned, Unmarked
  <2>2. CASE ServiceNext
    BY <2>2, UnmarkedNext, BoundNext DEF ServiceNext
  <2> QED BY <2>1, <2>2
<1>4. ListBound => ListBoundedByPeak
  BY DEF ListBound, ListBoundedByPeak
<1>5. ServiceSafety => []IInv /\ [](Rest /\ ListOnce)
  BY <1>1, Invariance, RestInvariance, PTL
<1> QED BY <1>2, <1>3, <1>4, <1>5, PTL DEF ServiceSafety

=============================================================================
