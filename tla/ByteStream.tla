----------------------------- MODULE ByteStream -----------------------------
(***************************************************************************)
(* What a reader of a response body may rely on, whoever else cancels or   *)
(* closes it: the chunks come in order and, unless it ends early with      *)
(* another error, all of them come before io.EOF; the first error is the   *)
(* last word.  CancelableReader.tla is the detailed specification.         *)
(***************************************************************************)
EXTENDS Naturals

CONSTANTS Chunks,  \* chunks the server sends
          Errors,  \* what may end the stream
          None     \* no error

VARIABLES received,  \* chunks the reader has
          ended      \* the error it was told, or None

vars == <<received, ended>>

Init == received = 0 /\ ended = None

Receive(n) ==
    /\ ended = None
    /\ received + n <= Chunks
    /\ received' = received + n

\* A Read returns n chunks and no error, or n chunks and the final error.
Read(n)     == Receive(n) /\ UNCHANGED ended
ReadLast(n) == /\ Receive(n)
               /\ ended' \in Errors
               /\ ended' = "eof" => received' = Chunks

Next == \E n \in {0, 1} : Read(n) \/ ReadLast(n)

Spec == Init /\ [][Next]_vars
=============================================================================
