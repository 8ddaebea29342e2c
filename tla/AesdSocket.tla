----------------------------- MODULE AesdSocket -----------------------------
(***************************************************************************)
(* The server (server/aesdsocket.c): the main thread accepts connections   *)
(* and starts a thread for each; a thread receives a line, writes it to    *)
(* the device and sends the contents of the device back, under a mutex     *)
(* that all threads share.  The device is the one CommandLog describes,    *)
(* and module AesdChar implements; its contents outlive the server.        *)
(*                                                                         *)
(* The text of a stream is a sequence of tokens.  A token is a piece of    *)
(* payload, a newline, or a whole "AESDCHAR_IOCSEEKTO:x,y" command.        *)
(***************************************************************************)
EXTENDS CommandLog, SequencesExt

CONSTANTS
  Conns,     (* Connections: each stands for a client and for its thread.  *)
  Token,     (* What text is made of.                                      *)
  Script,    (* Script[c] is the sequence of messages client c sends.      *)
  SeekArgs,  (* What sscanf can leave in <<write_cmd, write_cmd_offset>>   *)
             (* for each seek token: anything at all if it does not parse. *)
  BufSize,   (* SOCK_READ_BUF_SIZE, in tokens.                             *)
  Splits,    (* Whether recv may return less than has been sent and fits.  *)
  Faults,    (* Which calls may fail: of a thread, on the device, of main. *)
  NULL

ASSUME MaxOpsAssumption == MaxOps \in Nat \ {0}

ASSUME BufSizeAssumption == BufSize \in Nat \ {0} /\ Splits \in BOOLEAN

ASSUME TokenAssumption == NewLine \in Token

ASSUME ScriptAssumption == Script \in [Conns -> Seq(Seq(Token) \ {<<>>})]

ASSUME SeekArgsAssumption ==
  DOMAIN SeekArgs \subseteq Token /\ \A t \in DOMAIN SeekArgs : SeekArgs[t] \subseteq Nat \X Nat

ASSUME FaultsAssumption == Faults \subseteq {"thread", "device", "main", "signal"}

ASSUME NullAssumption == NULL \notin Conns

VARIABLES
  client,           (* How far each client is: new, connected or closed    *)
  backlog,          (* Connections the kernel has ready for accept         *)
  todo,             (* What each client has yet to send                    *)
  inflight,         (* Sent to the server and not received yet             *)
  mpc,              (* Where the main thread is                            *)
  caught_signal,    (* Set by signal_handler                               *)
  conn_fd,          (* The connection main is working on                   *)
  thread_list,      (* thread_list_head, first element first               *)
  open_conns,       (* Connections whose conn_fd is open in the server     *)
  tpc,              (* Where each server thread is                         *)
  client_done,      (* p_thread_data->client_done                          *)
  datafile_mutex,   (* The thread that holds it, or NULL                   *)
  buf,              (* What a thread has received of its line              *)
  seekto,           (* <<write_cmd, write_cmd_offset>> of each thread      *)
  file_pos,         (* Position of the file a thread reads                 *)
  reply,            (* What a thread has sent back since it had the mutex  *)
  open_files,       (* Threads that have a device file open                *)
  torn,             (* A line was left without its newline by a failure    *)
  wedged            (* A thread died in the driver: the device is blocked  *)

device  == <<commands, pending, torn, wedged>>
clients == <<client, backlog, todo, inflight>>
main    == <<mpc, caught_signal, conn_fd, thread_list, open_conns>>
thread  == <<buf, seekto, file_pos, reply, open_files>>
vars    == <<device, clients, main, thread, tpc, client_done, datafile_mutex>>

Init ==
  /\ LogInit
  /\ torn = FALSE
  /\ wedged = FALSE
  /\ client = [c \in Conns |-> "new"]
  /\ backlog = {}
  /\ todo = Script
  /\ inflight = [c \in Conns |-> <<>>]
  /\ mpc = "down"
  /\ caught_signal = FALSE
  /\ conn_fd = NULL
  /\ thread_list = <<>>
  /\ open_conns = {}
  /\ tpc = [c \in Conns |-> "none"]
  /\ client_done = [c \in Conns |-> FALSE]
  /\ datafile_mutex = NULL
  /\ buf = [c \in Conns |-> <<>>]
  /\ seekto = [c \in Conns |-> <<0, 0>>]
  /\ file_pos = [c \in Conns |-> 0]
  /\ reply = [c \in Conns |-> <<>>]
  /\ open_files = {}

-----------------------------------------------------------------------------
(* Helpers.                                                                *)

Goto(c, label) == tpc' = [tpc EXCEPT ![c] = label]

Contents == FlattenSeq(commands)

(* Where AESDCHAR_IOCSEEKTO puts a file, and 0 when it fails: the file was *)
(* just opened and the result of the ioctl is not looked at.               *)
SeekOffset(to) ==
  IF to[1] < Len(commands) /\ to[2] < Len(commands[to[1] + 1])
  THEN Len(FlattenSeq(SubSeq(commands, 1, to[1]))) + to[2]
  ELSE 0

(* Variant: the text is not cut at its first newline.                      *)
AllText(text) == text

(* The received text up to its first newline, or all of it.                *)
Line(text) ==
  LET ends == {i \in DOMAIN text : text[i] = NewLine}
  IN  IF ends = {} THEN text
      ELSE SubSeq(text, 1, (CHOOSE i \in ends : \A j \in ends : i <= j) - 1)

(* Variant: the mutex is not unlocked first.                               *)
ThreadFailsLocked(c) ==
  /\ Goto(c, "exited")
  /\ UNCHANGED <<datafile_mutex, client_done>>

(* The thread gives up: pthread_exit without setting client_done, after    *)
(* the mutex, if it has it, is unlocked.  Nothing is closed.               *)
ThreadFails(c) ==
  /\ Goto(c, "exited")
  /\ datafile_mutex' = IF datafile_mutex = c THEN NULL ELSE datafile_mutex
  /\ UNCHANGED client_done

(* The process ends, and with it every thread and every descriptor.  The   *)
(* device keeps what it has.                                               *)
ProcessEnds ==
  /\ mpc' = "down"
  /\ caught_signal' = FALSE
  /\ conn_fd' = NULL
  /\ thread_list' = <<>>
  /\ open_conns' = {}
  /\ open_files' = {}
  /\ datafile_mutex' = NULL
  /\ tpc' = [c \in Conns |-> "none"]
  /\ client_done' = [c \in Conns |-> FALSE]
  /\ client' = [c \in Conns |-> IF client[c] = "new" THEN "new" ELSE "closed"]
  /\ backlog' = {}
  /\ inflight' = [c \in Conns |-> <<>>]
  /\ buf' = [c \in Conns |-> <<>>]
  /\ seekto' = [c \in Conns |-> <<0, 0>>]
  /\ file_pos' = [c \in Conns |-> 0]
  /\ reply' = [c \in Conns |-> <<>>]
  /\ torn' = (torn \/ \E c \in Conns : tpc[c] = "newline")
  /\ UNCHANGED <<commands, pending, wedged, todo>>

-----------------------------------------------------------------------------
(* Clients.                                                                *)

(* The kernel takes connections from listen on.                            *)
Connect(c) ==
  /\ client[c] = "new"
  /\ mpc \notin {"down", "setup"}
  /\ client' = [client EXCEPT ![c] = "connected"]
  /\ backlog' = backlog \cup {c}
  /\ UNCHANGED <<device, todo, inflight, main, thread, tpc, client_done, datafile_mutex>>

Send(c) ==
  /\ client[c] = "connected"
  /\ todo[c] # <<>>
  /\ inflight' = [inflight EXCEPT ![c] = @ \o Head(todo[c])]
  /\ todo' = [todo EXCEPT ![c] = Tail(@)]
  /\ UNCHANGED <<device, client, backlog, main, thread, tpc, client_done, datafile_mutex>>

Hangup(c) ==
  /\ client[c] = "connected"
  /\ client' = [client EXCEPT ![c] = "closed"]
  /\ UNCHANGED <<device, backlog, todo, inflight, main, thread, tpc, client_done, datafile_mutex>>

-----------------------------------------------------------------------------
(* The main thread.                                                        *)

(* start-stop-daemon runs the server.                                      *)
Start ==
  /\ mpc = "down"
  /\ mpc' = "setup"
  /\ UNCHANGED <<device, clients, caught_signal, conn_fd, thread_list, open_conns, thread,
                 tpc, client_done, datafile_mutex>>

(* setup_signals and socket_init: the server listens.                      *)
SocketInit ==
  /\ mpc = "setup"
  /\ mpc' = "daemonize"
  /\ UNCHANGED <<device, clients, caught_signal, conn_fd, thread_list, open_conns, thread,
                 tpc, client_done, datafile_mutex>>

(* daemon, pthread_mutex_init and SLIST_INIT.                              *)
Daemonize ==
  /\ mpc = "daemonize"
  /\ mpc' = "accept"
  /\ datafile_mutex' = NULL
  /\ thread_list' = <<>>
  /\ UNCHANGED <<device, clients, caught_signal, conn_fd, open_conns, thread, tpc, client_done>>

(* wait_for_client_connection returns a connection.                        *)
Accept(c) ==
  /\ mpc = "accept"
  /\ c \in backlog
  /\ backlog' = backlog \ {c}
  /\ conn_fd' = c
  /\ open_conns' = open_conns \cup {c}
  /\ mpc' = "spawn"
  /\ UNCHANGED <<device, client, todo, inflight, caught_signal, thread_list, thread, tpc,
                 client_done, datafile_mutex>>

(* malloc, pthread_create and SLIST_INSERT_HEAD.                           *)
Spawn ==
  /\ mpc = "spawn"
  /\ Goto(conn_fd, "start")
  /\ client_done' = [client_done EXCEPT ![conn_fd] = FALSE]
  /\ thread_list' = Cons(conn_fd, thread_list)
  /\ mpc' = "reap"
  /\ UNCHANGED <<device, clients, caught_signal, conn_fd, open_conns, thread, datafile_mutex>>

(* A call of setup_signals, socket_init, daemon, pthread_mutex_init,       *)
(* accept, getnameinfo, malloc, pthread_create or pthread_join fails: the  *)
(* server exits.                                                           *)
MainFails ==
  /\ "main" \in Faults
  /\ mpc \in {"setup", "daemonize", "accept", "spawn", "join"}
  /\ ProcessEnds

(* Variant: the scan takes an element without looking whether it is done.  *)
ReapableAny(c) == TRUE

(* Variant: the scan looks at the first element only.                      *)
ReapableHead(c) == client_done[c] /\ c = Head(thread_list)

(* An element the scan stops at.                                           *)
Reapable(c) == client_done[c]

(* The scan takes the first element it sees done.  A thread may be done    *)
(* right after the scan went past it, so that is any element that is done. *)
Reap ==
  /\ mpc = "reap"
  /\ \/ \E i \in DOMAIN thread_list :
          /\ Reapable(thread_list[i])
          /\ conn_fd' = thread_list[i]
          /\ thread_list' = RemoveAt(thread_list, i)
          /\ mpc' = "join"
     \/ /\ \A i \in DOMAIN thread_list : ~Reapable(thread_list[i])
        /\ mpc' = "accept"
        /\ conn_fd' = NULL
        /\ UNCHANGED thread_list
  /\ UNCHANGED <<device, clients, caught_signal, open_conns, thread, tpc, client_done, datafile_mutex>>

(* Variant: pthread_join does not wait.                                    *)
JoinedAnyway(c) == TRUE

(* pthread_join returns.                                                   *)
Joined(c) == tpc[c] = "exited"

(* pthread_join, then shutdown and close the connection and free the data. *)
Join ==
  /\ mpc = "join"
  /\ Joined(conn_fd)
  /\ open_conns' = open_conns \ {conn_fd}
  /\ conn_fd' = NULL
  /\ mpc' = "accept"
  /\ UNCHANGED <<device, clients, caught_signal, thread_list, thread, tpc, client_done,
                 datafile_mutex>>

(* SIGINT or SIGTERM, which threads block.  In accept main gets EINTR and  *)
(* exits; before setup_signals the default action ends the process.        *)
SignalEnds ==
  /\ "signal" \in Faults
  /\ mpc \in {"setup", "accept"}
  /\ ProcessEnds

(* Anywhere else there is only signal_handler: no call of main but accept  *)
(* returns with EINTR, and nothing reads caught_signal.  The same if the   *)
(* signal finds a thread that has not come to its pthread_sigmask yet.     *)
SignalHandler ==
  /\ "signal" \in Faults
  /\ mpc # "down"
  /\ mpc # "accept" \/ \E c \in Conns : tpc[c] = "start"
  /\ caught_signal' = TRUE
  /\ UNCHANGED <<device, clients, mpc, conn_fd, thread_list, open_conns, thread, tpc,
                 client_done, datafile_mutex>>

-----------------------------------------------------------------------------
(* server_thread.                                                          *)

(* pthread_sigmask and the first malloc.                                   *)
ThreadStart(c) ==
  /\ tpc[c] = "start"
  /\ \/ Goto(c, "recv") /\ UNCHANGED <<client_done, datafile_mutex>>
     \/ "thread" \in Faults /\ ThreadFails(c)
  /\ UNCHANGED <<device, clients, main, thread>>

(* Variant: a recv that is one short of the buffer counts as full.         *)
FillsAlmost(k) == k >= BufSize - 1

(* The recv filled the buffer.                                             *)
Fills(k) == k = BufSize

(* recv: what is in flight and fits, or any part of it.  A full buffer is  *)
(* enlarged, which can fail, to receive more; anything shorter is taken    *)
(* for all the client has to say.                                          *)
Recv(c) ==
  /\ tpc[c] = "recv"
  /\ \E k \in 1 .. BufSize :
       /\ k <= Len(inflight[c])
       /\ Splits \/ k = BufSize \/ k = Len(inflight[c])
       /\ inflight' = [inflight EXCEPT ![c] = SubSeq(@, k + 1, Len(@))]
       /\ buf' = [buf EXCEPT ![c] = @ \o SubSeq(inflight[c], 1, k)]
       /\ \/ /\ Goto(c, IF Fills(k) THEN "recv" ELSE "lock")
             /\ UNCHANGED <<client_done, datafile_mutex>>
          \/ Fills(k) /\ "thread" \in Faults /\ ThreadFails(c)
  /\ UNCHANGED <<device, client, backlog, todo, main, seekto, file_pos, reply, open_files>>

RecvError(c) ==
  /\ tpc[c] = "recv"
  /\ "thread" \in Faults
  /\ ThreadFails(c)
  /\ UNCHANGED <<device, clients, main, thread>>

RecvClosed(c) ==
  /\ tpc[c] = "recv"
  /\ client[c] = "closed"
  /\ inflight[c] = <<>>
  /\ client_done' = [client_done EXCEPT ![c] = TRUE]
  /\ Goto(c, "closing")
  /\ UNCHANGED <<device, clients, main, thread, datafile_mutex>>

(* free, syslog with the address in the thread data, pthread_exit.         *)
ThreadExit(c) ==
  /\ tpc[c] = "closing"
  /\ Goto(c, "exited")
  /\ UNCHANGED <<device, clients, main, thread, client_done, datafile_mutex>>

(* Variant: no mutex.                                                      *)
MayLockAnyway(c) == TRUE

(* A mutex that nobody holds.                                              *)
MayLock(c) == datafile_mutex = NULL

(* pthread_mutex_lock, which does not fail on a mutex of the default type, *)
(* and the choice between a seek command and a line.                       *)
Lock(c) ==
  /\ tpc[c] = "lock"
  /\ MayLock(c)
  /\ datafile_mutex' = c
  /\ \/ /\ Head(buf[c]) \in DOMAIN SeekArgs
        /\ \E args \in SeekArgs[Head(buf[c])] : seekto' = [seekto EXCEPT ![c] = args]
        /\ Goto(c, "seek")
     \/ /\ Head(buf[c]) \notin DOMAIN SeekArgs
        /\ seekto' = [seekto EXCEPT ![c] = <<0, 0>>]
        /\ Goto(c, "write")
  /\ UNCHANGED <<device, clients, main, client_done, buf, file_pos, reply, open_files>>

(* write_data_to_file: open, and the write of the line without its         *)
(* newline.  An empty write on an empty pending command kills the thread   *)
(* in the driver.  A failed write leaves the file open.                    *)
WriteData(c) ==
  LET line == Line(buf[c])
  IN  /\ tpc[c] = "write"
      /\ ~wedged
      /\ \/ /\ line # <<>>
            /\ Extend(line)
            /\ Goto(c, "newline")
            /\ open_files' = open_files \cup {c}
            /\ UNCHANGED <<wedged, client_done, datafile_mutex>>
         \/ /\ line = <<>>
            /\ open_files' = open_files \cup {c}
            /\ wedged' = (pending = <<>>)
            /\ Goto(c, IF pending = <<>> THEN "oops" ELSE "newline")
            /\ UNCHANGED <<commands, pending, client_done, datafile_mutex>>
         \/ /\ "device" \in Faults
            /\ open_files' \in {open_files, open_files \cup {c}}
            /\ ThreadFails(c)
            /\ UNCHANGED <<commands, pending, wedged>>
      /\ UNCHANGED <<torn, clients, main, buf, seekto, file_pos, reply>>

(* write_data_to_file: the write of the newline, and close, either of      *)
(* which can fail.                                                         *)
WriteNewline(c) ==
  /\ tpc[c] = "newline"
  /\ ~wedged
  /\ \/ /\ Complete(<<NewLine>>)
        /\ torn' = FALSE
        /\ open_files' = open_files \ {c}
        /\ \/ Goto(c, "seek") /\ UNCHANGED <<client_done, datafile_mutex>>
           \/ "device" \in Faults /\ ThreadFails(c)
     \/ /\ "device" \in Faults
        /\ torn' = TRUE
        /\ ThreadFails(c)
        /\ UNCHANGED <<commands, pending, open_files>>
  /\ UNCHANGED <<wedged, clients, main, buf, seekto, file_pos, reply>>

(* send_data_file_to_client: open and ioctl.                               *)
SeekTo(c) ==
  /\ tpc[c] = "seek"
  /\ ~wedged
  /\ \/ /\ file_pos' = [file_pos EXCEPT ![c] = SeekOffset(seekto[c])]
        /\ open_files' = open_files \cup {c}
        /\ Goto(c, "read")
        /\ UNCHANGED <<client_done, datafile_mutex>>
     \/ /\ "device" \in Faults
        /\ ThreadFails(c)
        /\ UNCHANGED <<file_pos, open_files>>
  /\ UNCHANGED <<device, clients, main, buf, seekto, reply>>

(* send_data_file_to_client: one turn of the loop that reads a piece and   *)
(* sends it, up to the end of the device, and then closes the file, which  *)
(* can fail.                                                               *)
SendPiece(c) ==
  LET rest == SubSeq(Contents, file_pos[c] + 1, Len(Contents))
  IN  /\ tpc[c] = "read"
      /\ ~wedged
      /\ \/ /\ rest = <<>>
            /\ open_files' = open_files \ {c}
            /\ \/ Goto(c, "unlock") /\ UNCHANGED <<client_done, datafile_mutex>>
               \/ "device" \in Faults /\ ThreadFails(c)
            /\ UNCHANGED <<file_pos, reply>>
         \/ \E k \in 1 .. BufSize :
              /\ k <= Len(rest)
              /\ reply' = [reply EXCEPT ![c] = @ \o SubSeq(rest, 1, k)]
              /\ file_pos' = [file_pos EXCEPT ![c] = @ + k]
              /\ UNCHANGED <<tpc, open_files, client_done, datafile_mutex>>
      /\ UNCHANGED <<device, clients, main, buf, seekto>>

(* The read fails, or the send to a client that has gone does.             *)
SendFails(c) ==
  /\ tpc[c] = "read"
  /\ ~wedged
  /\ "device" \in Faults \/ (client[c] = "closed" /\ file_pos[c] < Len(Contents))
  /\ ThreadFails(c)
  /\ UNCHANGED <<device, clients, main, thread>>

(* A send to a client that is known to have gone raises SIGPIPE, and       *)
(* nothing catches it.                                                     *)
BrokenPipe(c) ==
  /\ tpc[c] = "read"
  /\ ~wedged
  /\ client[c] = "closed"
  /\ file_pos[c] < Len(Contents)
  /\ ProcessEnds

(* pthread_mutex_unlock, and a buffer of the first size for the next line. *)
Unlock(c) ==
  /\ tpc[c] = "unlock"
  /\ datafile_mutex' = NULL
  /\ buf' = [buf EXCEPT ![c] = <<>>]
  /\ reply' = [reply EXCEPT ![c] = <<>>]
  /\ Goto(c, "recv") \/ ("thread" \in Faults /\ Goto(c, "exited"))
  /\ UNCHANGED <<device, clients, main, seekto, file_pos, open_files, client_done>>

-----------------------------------------------------------------------------
ThreadStep(c) ==
  \/ ThreadStart(c)
  \/ Recv(c) \/ RecvClosed(c) \/ ThreadExit(c)
  \/ WriteData(c) \/ WriteNewline(c)
  \/ SeekTo(c) \/ SendPiece(c)
  \/ Unlock(c)

ThreadBreaks(c) == RecvError(c) \/ SendFails(c) \/ BrokenPipe(c)

MainStep ==
  \/ SocketInit \/ Daemonize
  \/ \E c \in Conns : Accept(c)
  \/ Spawn \/ Reap \/ Join

Next ==
  \/ \E c \in Conns :
       \/ Connect(c) \/ Send(c) \/ Hangup(c)
       \/ Lock(c) \/ ThreadStep(c) \/ ThreadBreaks(c)
  \/ Start \/ MainStep \/ MainFails
  \/ SignalEnds \/ SignalHandler

Spec == Init /\ [][Next]_vars

(***************************************************************************)
(* Threads that can run do, and a thread waiting for a mutex that stays    *)
(* free gets it.  No client has to connect, send or leave.                 *)
(***************************************************************************)
Fairness ==
  /\ WF_vars(MainStep)
  /\ \A c \in Conns : WF_vars(ThreadStep(c)) /\ WF_vars(Lock(c))

FairSpec == Spec /\ Fairness
-----------------------------------------------------------------------------
(***************************************************************************)
(* Types.  Every variable has values its C counterpart can have, and the   *)
(* list of threads holds no thread twice.                                  *)
(***************************************************************************)
Text == Seq(Token)

TypeOK ==
  /\ commands \in Seq(Text) /\ Len(commands) <= MaxOps
  /\ pending \in Text
  /\ client \in [Conns -> {"new", "connected", "closed"}]
  /\ backlog \subseteq {c \in Conns : client[c] # "new"}
  /\ todo \in [Conns -> Seq(Text)]
  /\ inflight \in [Conns -> Text]
  /\ mpc \in {"down", "setup", "daemonize", "accept", "spawn", "reap", "join"}
  /\ caught_signal \in BOOLEAN
  /\ conn_fd \in Conns \cup {NULL}
  /\ thread_list \in Seq(Conns) /\ IsInjective(thread_list)
  /\ open_conns \subseteq Conns
  /\ tpc \in [Conns -> {"none", "start", "recv", "closing", "lock", "write", "newline",
                        "seek", "read", "unlock", "oops", "exited"}]
  /\ client_done \in [Conns -> BOOLEAN]
  /\ datafile_mutex \in Conns \cup {NULL}
  /\ buf \in [Conns -> Text]
  /\ seekto \in [Conns -> Nat \X Nat]
  /\ file_pos \in [Conns -> Nat]
  /\ reply \in [Conns -> Text]
  /\ open_files \subseteq Conns
  /\ torn \in BOOLEAN /\ wedged \in BOOLEAN

-----------------------------------------------------------------------------
(* Safety, whatever fails.                                                 *)

(***************************************************************************)
(* A thread has the mutex exactly while it works on the device: no error   *)
(* path leaves with it, and no thread works without it                     *)
(* (aesdsocket.c:367-406).                                                 *)
(***************************************************************************)
OnDevice == {"write", "newline", "seek", "read", "unlock", "oops"}

MutexHeldOnDevice == \A c \in Conns : tpc[c] \in OnDevice <=> datafile_mutex = c

(***************************************************************************)
(* Main frees the data of a thread and closes its connection only when the *)
(* thread is over (aesdsocket.c:616-628): a thread that still runs is in   *)
(* the list, or is the one main waits for, and its connection is open.     *)
(***************************************************************************)
RunningThreadHasData ==
  \A c \in Conns :
    tpc[c] \notin {"none", "exited"} =>
      /\ c \in ToSet(thread_list) \/ (mpc = "join" /\ conn_fd = c)
      /\ c \in open_conns

(***************************************************************************)
(* What a client gets back is everything the device holds when its line is *)
(* in, from the position it asked for on, and nothing another client       *)
(* writes in the meantime (aesdsocket.c:358-359, 394-395).                 *)
(***************************************************************************)
ReplyIsContents ==
  \A c \in Conns :
    tpc[c] = "unlock" =>
      reply[c] = SubSeq(Contents, SeekOffset(seekto[c]) + 1, Len(Contents))

(***************************************************************************)
(* The device has half a line only while the thread that writes the other  *)
(* half is at it, or after that thread failed or was killed there.         *)
(***************************************************************************)
HalfLineHasWriter ==
  pending # <<>> => torn \/ \E c \in Conns : tpc[c] = "newline" /\ datafile_mutex = c

(***************************************************************************)
(* A command that is completed is a piece of what one client sent and a    *)
(* newline, never a mix of two clients or two lines of one, unless it      *)
(* starts with the half line a failure left (aesdsocket.c:222-255 under    *)
(* the mutex of 368).                                                      *)
(***************************************************************************)
IsLine(text) ==
  \E c \in Conns : \E piece \in SubSeqs(FlattenSeq(Script[c])) :
    text = Append(piece, NewLine) /\ NewLine \notin ToSet(piece)

CommandsAreLines ==
  [][commands' # commands /\ ~torn => IsLine(Last(commands'))]_vars

(***************************************************************************)
(* A client sees its own line as the last one of the contents it gets back *)
(* (aesdsocket.c:356-359).                                                 *)
(***************************************************************************)
OwnLineIsLast ==
  \A c \in Conns :
    tpc[c] = "unlock" /\ Head(buf[c]) \notin DOMAIN SeekArgs =>
      IsSuffix(Append(Line(buf[c]), NewLine), reply[c])

(***************************************************************************)
(* The only text a thread drops when its client closes is what came in     *)
(* whole buffers and so was waiting for more (aesdsocket.c:334-354).       *)
(***************************************************************************)
OnlyWholeBuffersDropped ==
  \A c \in Conns : tpc[c] = "closing" => Len(buf[c]) % BufSize = 0

-----------------------------------------------------------------------------
(* Liveness.                                                               *)

(***************************************************************************)
(* A connection the kernel has ready is accepted by main, unless the       *)
(* server dies first (of SIGPIPE, when a client leaves in the middle of    *)
(* its reply): main never waits for good for a thread whose client is      *)
(* still there (aesdsocket.c:611-625).                                     *)
(***************************************************************************)
EveryClientAccepted ==
  \A c \in Conns : c \in backlog ~> (mpc = "spawn" /\ conn_fd = c) \/ mpc = "down"

(***************************************************************************)
(* A thread that has received a line gets to the device and answers it, or *)
(* is over (aesdsocket.c:367-417).                                         *)
(***************************************************************************)
EveryLineAnswered ==
  \A c \in Conns : tpc[c] = "lock" ~> tpc[c] \in {"recv", "exited", "none"}

-----------------------------------------------------------------------------
(* What comments in the code say of it, and it does not keep.              *)

(***************************************************************************)
(* aesdsocket.c:297: main cleans up after a thread that exits, so a thread *)
(* that is over and still in the list is marked for it.                    *)
(***************************************************************************)
ExitedIsMarked ==
  \A c \in ToSet(thread_list) : tpc[c] = "exited" => client_done[c]

(***************************************************************************)
(* aesdsocket.c:309: threads block SIGINT and SIGTERM to "let main thread  *)
(* handle them", and aesdsocket-start-stop:12 stops the server with the    *)
(* SIGTERM "we want"; so a signal that is caught ends the server.          *)
(***************************************************************************)
StopEndsServer == caught_signal ~> mpc = "down"
=============================================================================
