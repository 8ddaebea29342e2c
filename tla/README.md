# A verification development for aesdsocket and aesdchar

The repository holds a socket server (`server/aesdsocket.c`) that appends lines
from network clients to a character device and sends the contents of the device
back, and the driver of that device (`aesd-char-driver/`), which keeps the ten
most recent lines in kernel memory. Around them are two small exercises
(`examples/`), the file-writing and file-searching tools of `finder-app/`, and
build, load and start scripts. This directory models the driver, its loading
and unloading, the server and the two exercises in TLA+, checks them with TLC
on small instances, and proves their safety properties with TLAPS.

## Inventory

| Component | State it keeps | Operations | Hard behaviour |
|---|---|---|---|
| Circular buffer (`aesd-circular-buffer.c`, `.h`) | array of `(buffptr, size)`, `in_offs`, `out_offs`, `full` | add_entry, find_entry_offset_for_fpos, size, FOREACH, init | wrap-around, full versus empty, positions at the end; no locking of its own |
| Driver file operations (`main.c`) | `circ_buf`, `partial_write`, `lock`; kernel memory; `f_pos` of each open file | open, release, llseek, read, write, ioctl | copies that sleep or fault, failing kmalloc, signals while waiting for the mutex, evictions under a reader, a write of no bytes |
| Driver load and unload (`main.c:316-404`, `aesdchar_load`, `aesdchar_unload`) | module, device number, device node | init, cleanup, insmod, mknod, rmmod | loading and unloading around a device in use; an interrupted cleanup leaves memory and the device number behind |
| Server (`aesdsocket.c`) | thread list, `client_done` and connection of each thread, `datafile_mutex` | accept loop, one thread for each connection, join, signal handling | threads that race for the device, TCP without message boundaries, clients that leave, errors on every path, being killed half-way through a line |
| Start/stop script (`aesdsocket-start-stop`) | none | start, stop (SIGTERM) | stop while threads are at work, or while main is not in accept |
| `examples/threading` | mutex, `thread_complete_success` | start a thread that sleeps, locks, sleeps, unlocks | an error path that keeps the mutex |
| `examples/systemcalls` | the children of the process | system; fork, exec, wait | whose exit status `wait` returns, interrupted waits, failures between fork and exec |
| `finder-app` | files | write, count, compare | exit statuses |
| Build and QEMU scripts, tests, docs | none | calls of external tools | nothing to model |

How they interact: server threads call the driver through open, write, ioctl,
read and close, one thread at a time because of `datafile_mutex`; other
processes may use the device directly. The driver calls the circular buffer
under its own mutex. The contents of the device outlive the server process;
they end with the module. The two exercises stand alone.

What makes each part right:

* Buffer: it is the list of the last ten entries; the walk for a position
  agrees with laying all entries end to end; each replaced buffer is handed
  back exactly once.
* Driver: it is a log of commands, each ended by a newline (or empty, after a
  copy that moved nothing); reads and seeks address the concatenation of the
  log; memory is neither lost nor used after it was
  freed; a failed call leaves no trace; every call returns.
* Load and unload: no handler runs without its module; an unload leaves
  neither memory nor a number, unless its cleanup is interrupted, and what that
  leaves is neither lost nor taken up by later loads; after a load the node
  leads to the device, or there is none.
* Server: a command is a piece of one line of one client; a reply is what the
  device holds, with the client's own line last; the mutex is given back on
  every path; the data of a thread outlives the thread; every client is
  accepted and every line answered; threads that are done do not pile up.
* Threading: whoever keeps the mutex says so; data outlives its thread.
* Systemcalls: children and waits balance; a success is that of the command
  that was run; redirected output never reaches the caller.

## Modules

| Module | Models | Used by |
|---|---|---|
| `CommandLog` | what the device promises its users: a pending command and the `MaxOps` last complete ones | refined by `AesdChar`, extended by `AesdSocket` |
| `CircularBuffer` | the buffer as operators on a record with the fields of the C structure | `AesdChar`, `RingLog` |
| `RingLog` | the buffer alone, with any sequence of additions, next to the plain list of what was added | `MCCircularBuffer` |
| `AesdChar` | the driver, with processes, open files, memory blocks and the mutex | `AesdModule`, `MCAesdChar` |
| `AesdModule` | the driver with insmod, rmmod and the two scripts | `MCAesdModule` |
| `AesdSocket` | the server: main, one thread for each connection, clients, kernel queue, signals and device | `MCAesdSocket` |
| `AesdSocketService` | `AesdSocket` with a history variable: the most threads at work at once so far | `MCAesdSocketService` |
| `Threading` | `start_thread_obtaining_mutex` and `threadfunc` | `MCThreading` |
| `SystemCalls` | `do_system`, `do_exec`, `do_exec_redirect`, called by threads of one process, and their children | `MCSystemCalls` |
| `MCCircularBuffer`, `MCAesdChar`, `MCAesdModule`, `MCAesdSocket`, `MCAesdSocketService`, `MCThreading`, `MCSystemCalls` | small instances for TLC | the runs |
| `Concatenation` | lemmas about sequences laid end to end, and induction on sets of numbers | the proofs |
| `CircularBufferProofs`, `RingLogProofs`, `AesdCharProofs`, `AesdModuleProofs`, `AesdSocketProofs`, `ThreadingProofs`, `SystemCallsProofs` | lemmas and theorems | |

An operator introduced with "Variant:" is not part of a model. It is a small
error one could make in the definition that follows it; with it in place of
that definition some property fails, which shows that the property depends on
the code being as it is.

### CircularBuffer

`AddEntry`, `FindEntry`, `BufferSize` and `Nth` are the functions of the C file
and the FOREACH macro. `FindEntry` says what the loop of
`find_entry_offset_for_fpos` does without the loop: the walk comes to the
entries in `Walk` unless it stops before, it stops at the first entry whose
end is behind the position (`Stops`), and gives up at `in_offs`. Sums are a
recursive function (`SumFirst`), so that they can be reasoned about in proofs.

### AesdChar

Each process is at a label `pc`, and one step is one stretch of a handler
between two points where another process can interfere: getting the mutex,
the code up to a user copy, the copy with everything up to the unlock, and the
return to the system call layer. State that the C code keeps in a local
variable over such a point (`p_cir_buf_entry`, `kmem_buf`, the position handed
to read and write) is a variable of the model. `heap` and `live` are kernel
memory; a pointer is a block, `NULL` or `ZERO_SIZE_PTR`.

From the kernel the model takes: kmalloc may return NULL for a request that is
not empty and `ZERO_SIZE_PTR` for one that is; a copy may fault and move only a
part, or nothing (`Copied`); a sleeper on a held mutex may be interrupted;
read(2) and write(2) store their copy of the position back only when the
handler succeeds, and a character device has no lock on that position;
fixed_size_llseek accepts positions from 0 to the size.

A write of no bytes with nothing pending makes the driver read the byte below
`ZERO_SIZE_PTR` (`main.c:168, 197`). The kernel kills the process there with
the mutex held: label `oops`.

A write that is not empty, but whose copy faults at its first byte, looks at
the byte before what it copied: the last byte of the pending command, which is
no newline (`PendingOpen`), or, with nothing pending, the byte before the block
(`LastByte`), which may be anything. In the second case an empty command may
enter the ring. `ImplementsLog` therefore allows that write, and no other, the
step `AddEmpty` that `CommandLog` does not promise.

### AesdModule

`AesdModule` extends `AesdChar`: `ModuleNext` has every step of the driver,
guarded by what a process needs to reach it. A file can be opened if the node
leads to a registered device (`OpenNode`); `rmmod` is refused while a file is
open (`InUse`, from `.owner`). `script` is the line the load or unload script
is at; one runs at a time. `Insmod` is `aesd_init_module` up to `mutex_init`,
and `SetupCdev` the call that makes the device reachable or undoes the load.
`Cleanup` waits for the mutex; `CleanupInterrupted` is its early return, after
which the module is gone, its memory stays and `regions` keeps the number. The
history variables `left_blocks` and `left_numbers` say what such returns have
left, so that the properties need no exception for them. Both
scripts take the number from `/proc/devices` by name, so `MakeNode` fails when
two are listed.

### AesdSocket

Text is a sequence of tokens: a piece of payload, a newline, or a whole seek
command; `SOCK_READ_BUF_SIZE` is `BufSize` tokens. The main thread is at `mpc`,
the thread of connection `c` at `tpc[c]`, with the labels in the order of
`main` and `server_thread`. `Recv` takes any part of what was sent and fits
into the buffer (or all of it, if `Splits` is false); a full buffer makes the
thread receive more, anything shorter is taken for a line. `Line` is what
`strchrnul` leaves of it: what follows the first newline is dropped, as it is
in the code. `SeekArgs` gives for a seek command the numbers `sscanf` can
leave, any of several if the command does not parse and the two variables stay
as the stack had them.

`ThreadFails` is each `pthread_exit` of an error path: the mutex is unlocked
but `client_done` not set and no file closed. On the device that is a failing
open, read, write or close; a close that fails comes after the newline
(`WriteNewline`) or after the reply (`SendPiece`). `MainFails` is each exit of main,
from `setup_signals` to `pthread_join`. A signal ends the process in accept and
before the handler is installed (`SignalEnds`), and only sets `caught_signal`
anywhere else (`SignalHandler`), or if it is delivered to a thread that has not
come to its `pthread_sigmask`: from there on the threads block it, and accept
is the one call of main that returns with EINTR. `ProcessEnds` is what exit, a signal and
SIGPIPE come to; then the server may start again, on the device as it is.
`Faults` says which calls may fail. `wedged` is set when a thread dies in the
driver. Locking and unlocking a default pthread mutex cannot fail for these
callers, so the error paths at lines 368 and 402 have no step.

`AesdSocketService` counts. `Serving` are the threads at work, `Abandoned`
those that left on an error or died: they are never marked as done, and stay
in the list. `peak` is how many were at work at once so far.

### Threading and SystemCalls

A thread of `Threading` goes through `threadfunc` call by call; each may fail,
and the failure returns leave the mutex as it is. `Join` is the caller, who
joins what it started and frees the data.

In `SystemCalls` a child is `none`, at a step between fork and exec, running
its `command`, a `zombie`, or `reaped`. `WaitsFor` says whose status a call
takes: `wait` that of any child of the process, the waitpid in system(3) its
own. A wait fails if there is no such child, or, but for system(3), because of
a signal. Process numbers are not given out again.

## What is checked

| Run | Instance | Shows |
|---|---|---|
| `ring` | buffer of 10 entries, entries of 0 and 2 bytes | FOREACH, the walk and the returned buffer agree with the plain list of the last ten entries |
| `driver` | 2 processes, 1 shared file, ring of 2, 4 blocks; 3 writes, a read, 2 llseeks, 2 seek commands; copies that move all, a part or nothing | types, mutual exclusion, ownership of every block, shape of the ring, copy targets stay valid, the pending command never ends in a newline; the driver implements `CommandLog` but for empty commands after a fault; commands end in a newline or are empty; reads are exact; seeks find the byte they name; failures leave no trace |
| `module_lifecycle` | 2 processes, 1 file, ring of 1, 3 blocks, 2 device numbers, fair | no handler without its module; without a module there is exactly what interrupted cleanups left; the node leads to the device, or there is none if a number was left; every call returns and every unload ends unless a process died in the driver |
| `server_safety` | 2 clients, two lines in one message, a seek and a line as long as the buffer, text cut anywhere, buffer of 3, ring of 2, all faults | types; the mutex is held exactly on the device; main never frees a running thread; replies are the contents and end in the client's own line; half a line has its writer or is the result of a failure; commands are lines; only whole buffers are dropped |
| `server_service` | 2 clients with a line each and one that only connects, whole lines, fair | every client is accepted unless the server dies first, every line answered; main keeps no more threads than were at work at once, besides those that left on an error |
| `systemcalls` | 2 threads with 2 calls each, 3 children, fair | unreaped children are as many as waits under way and failed; do_system is right about its command; redirected commands write elsewhere; every call returns |
| `threading` | 3 threads, fair | whoever keeps the mutex has reported failure; data outlives its thread; threads return unless one failed with the mutex |
| `driver_write_fault` | as `driver` | violated: after a copy that moved nothing, a command of 0 bytes is complete |
| `server_error_exit` | a client that leaves | violated: main does not clean up after a thread that exits on an error |
| `server_empty_line` | a line that is only a newline, fair | violated: its thread dies in the driver, and no line is answered again |
| `server_stop` | a signal outside accept, fair | violated: the signal is caught and forgotten |
| `systemcalls_status` | 1 thread with 2 calls | violated: the second call returns true for a command that failed |

### Findings

* **Empty lines stop the service** (`server_empty_line`). `write_data_to_file`
  writes the part of the line before its newline, which may be empty. The
  driver's `kmalloc(0)` succeeds with `ZERO_SIZE_PTR` and the test at
  `main.c:197` reads below it. The thread dies holding `datafile_mutex` and
  `aesd_device.lock`. A line whose newline arrives in a segment of its own has
  the same effect, which is why `server_service` needs lines that arrive whole.
* **Threads that exit on an error are not cleaned up** (`server_error_exit`).
  They never set `client_done`; their connection, data and, after a failed
  reply, their open device file stay. The open file also keeps the module from
  being unloaded (`aesdsocket.c:507`).
* **A signal outside accept is lost** (`server_stop`). The handler sets
  `caught_signal`, which nothing reads, so a stop that comes while main joins a
  thread, or is on its way back to accept, does not stop the server, although
  `aesdsocket.c:309` leaves signals to main and the stop script relies on
  SIGTERM (`aesdsocket-start-stop:12`). The same if a thread takes the signal
  before it has blocked it.
* **A faulting write can add an empty command** (`driver_write_fault`). If
  copy_from_user moves nothing, `main.c:197` looks at the byte before the block;
  if it is a newline, a command of 0 bytes enters the ring, and a full ring
  loses its oldest command for it. `main.c:189` says "If newline terminated".
* **An interrupted wait turns into a wrong success** (`systemcalls_status`).
  `do_exec` and `do_exec_redirect` return when a signal interrupts `wait`, and
  leave the child behind; the next call takes that child's status for its own.

Other observations, not run as checks of their own:

* A line that arrives in pieces becomes a command for each piece: a recv that
  does not fill the buffer is taken for all of the client's data
  (`aesdsocket.c:356`), and each piece is written with a newline of its own.
  So `CommandsAreLines` speaks of pieces of lines.
* A signal in accept ends the process while threads serve their clients, whose
  replies are cut; `aesdsocket.c:187` says there is no connection to clean up.
* A read whose copy moves nothing returns 0 in the middle of the contents, which
  `main.c:103` keeps for the end of the file. So `ReadExact` says where the
  handler finds the end, and not what a caller may make of a 0.
* `threadfunc` returns from a failing second usleep without the unlock that
  `threading.h:31-32` promises, and every later thread waits: `HoldersAreHonest`
  and `EveryThreadReturns` name the case.
* A recv that fills the buffer exactly waits for more, and drops what it has
  when the client closes (`OnlyWholeBuffersDropped` says that nothing else is
  dropped then). What follows the first newline in one recv is dropped too.
* A client that leaves in the middle of its reply can end the server for all
  clients, by SIGPIPE (`BrokenPipe`).
* The comments at `main.c:219` and `277` promise -ERESTARTSYS, the code at 242
  returns -EINTR.
* After an interrupted cleanup every later load is without a node, since both
  numbers are listed under the same name.
* A command killed by a signal counts as a success for `do_exec`.
* `do_exec` calls of two threads swap statuses (`wait` takes any child);
  `SystemTrusted` says that `do_system` is safe from that.

### Bounds

A ring of two wraps, fills and evicts after three writes; offsets, the flag and
the full turn behave at two as at ten, and `ring` covers ten. Four blocks hold
a full ring, a pending command and one being grown; with fewer, kmalloc could
never succeed there. Two processes suffice for every pair of handlers;
a third would only wait. `MaxPartial` and `MaxPos` stop writes on a long pending
command and calls on a file far behind the end, since both would make the state
space infinite; positions up to `MaxPos` reach past the end of short contents.
A command of one byte lets a read at position 1 begin with the second command.
`module_lifecycle` needs only one slot in the ring and three blocks, as
what is at stake there is everything or nothing; two device numbers are what an
interrupted cleanup and one more load take. Processes and blocks are symmetric
in the run of the driver; the runs with liveness use no symmetry.

In the server, two clients with one or two messages each give every order of
two threads on the device, and restarts in between; the ring of two evicts. In
`server_safety` (some two million states) the network cuts the text anywhere,
so that lines of one message come apart or together, and empty lines arise
when a cut falls before a newline; a message as long as the buffer makes the
thread wait for more. `server_service` leaves out cuts and faults, which the
findings show to be fatal to service, and has a third client that sends
nothing, so that a thread is still there while others are reaped.

Three children in `systemcalls` are what the three calls that fork need; three
threads in `threading` let one fail with the mutex, one wait and one come late.
The process numbers and the `failed` counter are bounded by the scripts.

Deadlock is checked for the driver and the module. The server, threading and
systemcalls runs do not check it, because clients stop sending, threads end and
scripts run out: the system may then rest.

### Fairness

Driver: a process in a handler goes on (weak fairness), and one that waits for
the mutex gets it if it is free again and again (strong fairness of `Acquire`:
the kernel's mutex hands itself over to a waiter that has waited too long). No
process has to make a call. Module: besides, a script that has started goes on,
and a cleanup that finds the mutex free takes it; no script has to be started
and no signal has to arrive. Server: weak fairness of main, of each thread and
of getting `datafile_mutex`. A pthread mutex does not promise more, and more is
not needed, as clients send finitely often. Nothing is assumed of clients, of
signals or of failures. Threading: weak fairness of each thread, with a mutex
that stays free being taken. Systemcalls: threads and children go on and
commands come to an end; a failing wait is fair only when there is no child.

## What is proved

Everything here is proved for every value of the constants, from the
assumptions in the modules that declare them, and without a bound on the
number of processes, threads, clients, files, blocks or calls.

### Buffer (`RingLogProofs`, `CircularBufferProofs`, `Concatenation`)

* `VisitsLog`: `Spec => []ForeachVisitsLog`
* `Replaced`: `Spec => []ReplacedIsReturned`
* `FindAgrees`: `Spec => []FindAgreesWithConcatenation`

for every capacity, every set of entries and every sequence of additions. The
invariant (`RingIsLog`) says that the slots from `out_offs` on hold the list,
that there are as many as the flag and the offsets say, and that the rest is
empty. `FindAgrees` rests on `FindEntryExact`: for an offset inside entry `c`,
the walk for the sum of the sizes before `c` plus this offset stops at `c` and
not before, and behind the last byte it does not stop at all. Which byte of the
concatenation that is comes from `FlattenPiece`: in sequences laid end to end,
the `j`-th element of the `k`-th is the one behind all elements of those before
it. `FlattenSeq` and the sums of sizes are recursive functions; statements about
them go by induction on sets of numbers (`SetInduction`, from the least element
of the set of counterexamples), since induction theorems that take a predicate
as a parameter cannot be used.

The other lemmas are what the driver needs of the operators: `add_entry` keeps
type and shape and returns the buffer it overwrites; sums are numbers and grow
step by step; `FindEntryFindsByte`, for every ring and position, that the walk
returns a byte that its entry has; `LaidEndToEnd` and `ByteInWhole`, where the
bytes of an entry are in the whole.

### Driver (`AesdCharProofs`)

* `TypeCorrect`: `Spec => []TypeOK`
* `Mutex`: `Spec => []MutualExclusion`
* `MemorySafety`: `Spec => []HeapOwned`
* `CopyTargets`: `Spec => []CopyTargetsValid`
* `RingKeepsShape`: `Spec => []RingInShape`

All follow from `Invariance`, which says that `IInv`, the conjunction of these
five predicates, is an invariant. They need each other. That a block is owned
once survives a completed write only if the write fills the block
`partial_write` names (`CopyTargetsValid`), which holds because no other
process changed `partial_write` since it was reserved (`MutualExclusion`), and
if the block freed is that of the slot overwritten, which the shape of the ring
tells (`RingInShape`). In turn the shape survives only if the added entry has a
buffer, which is again `CopyTargetsValid`. The proof that a step preserves the
invariant has a lemma for each part, and in it a case for each action that can
disturb that part.

The induction is done for a weaker predicate, `Kept`, in which processes may
have died in the driver without holding the mutex and blocks may be lost. No
step changes which blocks are lost, or takes the mutex from a process that died
with it (`KeptInductive`); so `IInv`, without lost blocks, is inductive too.
The weaker one is what holds in a module that was loaded again after an
interrupted cleanup.

* `NoTrace`: `Spec => FailureLeavesNoTrace`. The types are enough: a step that
  ends a call with a negative result is one of the error returns, because the
  positions a seek accepts and the byte counts of the copies are numbers.
* `PendingStaysOpen`: `Spec => []PendingOpen`. By induction over the two steps
  that touch the pending command; that the bytes copied in are behind those
  that were pending is `CopyTargetsValid`.
* `Implements`: `Spec => ImplementsLog`, the refinement of `CommandLog`. A copy
  that moved something is `Extend` or `Complete` of what it copied; one that
  moved nothing stutters or is `AddEmpty`, which by `PendingOpen` it can be only
  with nothing pending; every other step stutters. That the entries FOREACH visits after
  `add_entry` are `Keep` of those before (`CommandsAfterAdd`) comes from the
  shape of the ring; that the old entries keep their text, from `HeapOwned`.
* `NoneOpen`: `Spec => []NoOpenCommand`, that a complete command ends in a
  newline or is empty. A write that moved nothing completes a command only with
  nothing pending, so that no command that has bytes is complete without its
  newline.
* `SeekTos`: `Spec => SeekToExact`. The sum in `aesd_adjust_file_offset` is the
  position `FindEntryExact` speaks of.
* `Reads`: `Spec => ReadExact`. The invariant `ReadView`
  carries what `aesd_read` found over the copy that may sleep: it is still what
  the walk finds for the position of the caller. Then the bytes copied are, one
  by one, those of the concatenation behind that position.

### Module (`AesdModuleProofs`)

* `ModuleTypes`: `ModuleSpec => []ModuleTypeOK`
* `InModule`: `ModuleSpec => []HandlersHaveModule`
* `NothingLeft`: `ModuleSpec => []UnloadLeavesNothing`
* `NodeLeads`: `ModuleSpec => []NodeLeadsToDevice`

They rest on `ModuleInvariance`, that `Usable /\ Sound` is an invariant.
`Usable` is what makes handlers safe whatever is left of an earlier life of the
module: files are open only while there is a device, and `Kept` holds while
there is a module. insmod may reset the mutex and the ring because nobody is in
a handler then: that would take an open file. `Sound` says that the memory and
the numbers the module does not know are those in `left_blocks` and
`left_numbers`, and that number, device and node are as the place where the
script is says. Driver steps keep both by `KeptInductive`.

### Server (`AesdSocketProofs`)

* `MutexProtects`: `Spec => []MutexHeldOnDevice`
* `DataOfRunningThread`: `Spec => []RunningThreadHasData`
* `HalfLines`: `Spec => []HalfLineHasWriter`
* `Drops`: `Spec => []OnlyWholeBuffersDropped`
* `WholeReply`: `Spec => []ReplyIsContents`
* `OwnLine`: `Spec => []OwnLineIsLast`
* `TypeInvariance`: `Spec => []TypeOK`
* `WholeLines`: `Spec => CommandsAreLines`
* `BoundedList`: `ServiceSafety => []ListBoundedByPeak`

The first four follow from `Invariance`. `IInv` adds to them the types they
need; `Unserved`, that a connection main has yet to accept, or has just
accepted, has no thread (without it a new thread could take the place of a
running one); and `WholeBuffers`, that a thread in recv has only full buffers.

For `WholeReply` the invariant is `Texts /\ Replies`: what a thread has sent is
what lies between where it seeked to and where it is. Most steps are `Quiet`,
they neither begin nor end a reply nor touch the device; those that do are made
by the one thread that is on the device, by `MutexHeldOnDevice`. `OwnLine` adds
`Lines`: between its two writes the device ends in the line of the thread, and
after the second its last command does. `TypeInvariance` adds that the thread
list holds nobody twice (`ListOnce`).

`WholeLines` needs to know where text came from: what a client has yet to send,
what is in flight and what its thread has received are, laid end to end, the
last part of its script (`Source`). So the buffer of a thread is a piece of the
script, and a line is a piece of that; between the two writes of a line it is
the pending command, unless a failure left half a line before it (`WholeLine`).
`BoundedList` compares counts: every thread that is not marked as done is in
the list, and is at work or abandoned. So a list that is longer than these two
together holds one that is done, which main joins before it accepts again
(`ListBound`); and an abandoned thread stays that (`AbandonedStay`).

### Exercises (`ThreadingProofs`, `SystemCallsProofs`)

`Holders`, `DataOutlives` and `TypeCorrect` of `Threading`, each invariant
inductive with the types. For `SystemCalls`, `Accounted` counts: a fork adds a
child and a waiter, a wait takes one of each, a failed wait turns a waiter into
a failure; `SystemSound` and `Redirection` need besides that the child a thread
has forked is one that was made and, for do_system, that its status is read
when it is over; `HasChild` follows from the count: a thread that waits always
finds some child, so that `wait` fails only for a signal.

### Only model-checked

Liveness (`EveryCallReturns`, `UnloadEnds`, `EveryClientAccepted`,
`EveryLineAnswered`, `EveryThreadReturns`) is beyond the prover, which has no
ENABLED. Every invariant and every action property that a run expects to hold
is proved. That the properties of the violation runs fail is shown by their
counterexamples.

## Not modelled

* Option parsing. `timestamp_thread` and the file `/var/tmp/aesdsocketdata`:
  compiled out, as `USE_AESD_CHAR_DEVICE` is defined (`aesdsocket.c:33`).
* The finder tools: each is one process that runs straight through and keeps
  nothing, so that a model would be the program again. In `finder-test.sh` the
  status tested at line 74 is that of the echo before it, which a test of the
  script shows as well.
* Build and QEMU scripts, tests: calls of external tools.
* Log messages; the format of addresses; the group and mode of the node; the
  NULL checks of the buffer functions, which no caller triggers; the arguments
  of commands and lengths of sleeps; integer widths: `uint8_t` offsets stay
  below ten and sizes are bounded by kernel memory.

## Plan

What is left, should the project go on:

1. The log over the lives of the module: that between a load and the next
   unload the steps of `AesdModule` are those of `CommandLog`, and an unload
   starts it anew.
2. The server on top of the detailed driver instead of `CommandLog`, with other
   processes using the device at the same time; it does not fit TLC's bounds
   with two threads and two processes.
