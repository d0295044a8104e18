--------------------------- MODULE ReliableStream ---------------------------
(***************************************************************************)
(* What a stream promises to the program that uses it (README.md: "custom  *)
(* reliable UDP"): the chunks that one end writes come out at the other    *)
(* end once each and in the order they were written.  Chunk k is the k-th  *)
(* chunk written.                                                          *)
(***************************************************************************)
EXTENDS Naturals, Sequences

VARIABLES
    written,    \* number of chunks the writer has handed to the stream
    delivered   \* the chunks handed to the reader's channel, oldest first

vars == <<written, delivered>>

Init ==
    /\ written = 0
    /\ delivered = <<>>

Write ==
    /\ written' = written + 1
    /\ UNCHANGED delivered

Deliver ==
    /\ Len(delivered) < written
    /\ delivered' = Append(delivered, Len(delivered) + 1)
    /\ UNCHANGED written

Next == Write \/ Deliver

Spec == Init /\ [][Next]_vars
=============================================================================
