---------------------------- MODULE MCAesdModule ----------------------------
(***************************************************************************)
(* A small instance of AesdModule for TLC, with the calls of MCAesdChar.   *)
(***************************************************************************)
EXTENDS AesdModule

CONSTANTS p1, p2, b1, b2, b3, f1, m1, m2

MCNewLine == "\n"

MCBytes == {"a", MCNewLine}

(* A write that completes a command, or leaves it pending if it faults, a  *)
(* write of no bytes that kills its process, a read and a seek.            *)
MCRequests ==
  {[op |-> "write", file |-> f1, data |-> <<"a", MCNewLine>>],
   [op |-> "write", file |-> f1, data |-> <<>>],
   [op |-> "read", file |-> f1, count |-> 1],
   [op |-> "ioctl", file |-> f1, cmd |-> "AESDCHAR_IOCSEEKTO",
    write_cmd |-> 0, write_cmd_offset |-> 0]}
=============================================================================
