----------------------------- MODULE CommandLog -----------------------------
(***************************************************************************)
(* What /dev/aesdchar promises its users: bytes written to the device      *)
(* build up one pending command, whoever writes them; a write whose last   *)
(* byte is a newline completes the command; and the device keeps the       *)
(* MaxOps most recent complete commands, oldest first.                     *)
(***************************************************************************)
EXTENDS Integers, Sequences

CONSTANTS
  MaxOps,    (* How many complete commands are kept.                       *)
  NewLine,   (* The byte that completes a command.                         *)
  Chunks     (* The non-empty byte strings one write can deliver.          *)

VARIABLES
  commands,  (* The complete commands kept, oldest first.                  *)
  pending    (* The bytes of the command still being written.              *)

logvars == <<commands, pending>>

(* Variant: no command is ever dropped.                                    *)
KeepAll(log, c) == Append(log, c)

(* Add a command, dropping the oldest one if there would be too many.      *)
Keep(log, c) == Append(IF Len(log) = MaxOps THEN Tail(log) ELSE log, c)

LogInit == commands = <<>> /\ pending = <<>>

Extend(d) ==
  /\ d[Len(d)] # NewLine
  /\ pending' = pending \o d
  /\ UNCHANGED commands

Complete(d) ==
  /\ d[Len(d)] = NewLine
  /\ commands' = Keep(commands, pending \o d)
  /\ pending' = <<>>

(* Not part of the promise: a write that delivers no byte is taken for one *)
(* that completes a command, and may drop the oldest one.                  *)
AddEmpty ==
  /\ pending = <<>>
  /\ commands' = Keep(commands, <<>>)
  /\ UNCHANGED pending

LogNext == \E d \in Chunks : Extend(d) \/ Complete(d)

LogSpec == LogInit /\ [][LogNext]_logvars
=============================================================================
