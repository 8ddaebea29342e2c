---------------------------- MODULE MCAesdSocket ----------------------------
(***************************************************************************)
(* Small instances of AesdSocket for TLC: what the clients send.           *)
(***************************************************************************)
EXTENDS AesdSocket, TLC

CONSTANTS c1, c2, c3

MCNewLine == "\n"
MCTokens  == {"x", "y", "z", "seek", MCNewLine}

(* A seek command that parses as one for the second command, or does not   *)
(* and leaves the two numbers as the stack has them.                       *)
MCSeekArgs == "seek" :> {<<1, 0>>, <<7, 0>>}

MCChunks == {<<"x">>, <<MCNewLine>>}

(* Two lines at once and a seek of one client, a line as long as the       *)
(* buffer of another.  Cut before its newline, a line leaves an empty one. *)
SafetyScript ==
  (c1 :> << <<"x", MCNewLine, "z", MCNewLine>>, <<"seek">> >>) @@
  (c2 :> << <<"y", "y", MCNewLine>> >>)

EmptyLineScript == (c1 :> << <<MCNewLine>> >>) @@ (c2 :> << <<"y", MCNewLine>> >>)
=============================================================================
