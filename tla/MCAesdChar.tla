----------------------------- MODULE MCAesdChar -----------------------------
(***************************************************************************)
(* A small instance of AesdChar for TLC: the calls the processes make.     *)
(***************************************************************************)
EXTENDS AesdChar, TLC

CONSTANTS p1, p2, b1, b2, b3, b4, f1

Read(f, n)    == [op |-> "read", file |-> f, count |-> n]
Write(f, d)   == [op |-> "write", file |-> f, data |-> d]
Lseek(f, o, w) == [op |-> "llseek", file |-> f, offset |-> o, whence |-> w]
SeekTo(f, c, o) ==
  [op |-> "ioctl", file |-> f, cmd |-> "AESDCHAR_IOCSEEKTO",
   write_cmd |-> c, write_cmd_offset |-> o]

MCNewLine == "\n"

MCBytes == {"a", MCNewLine}

(***************************************************************************)
(* A write that completes a command, or leaves it pending or longer if it  *)
(* faults, one of a newline, and one of nothing (which may kill its        *)
(* writer); a read shorter or longer than a command; seeks to places       *)
(* inside and outside the contents.  All by two processes that share one   *)
(* open file.                                                              *)
(***************************************************************************)
MCRequests ==
  {Write(f1, <<"a", MCNewLine>>), Write(f1, <<MCNewLine>>), Write(f1, <<>>),
   Read(f1, 2),
   Lseek(f1, -1, "SEEK_END"), Lseek(f1, 0, "SEEK_CUR"),
   SeekTo(f1, 1, 1), SeekTo(f1, 2, 0)}

Symmetry == Permutations(Blocks) \cup Permutations(Procs)
=============================================================================
