------------------------------- MODULE MCMux -------------------------------
(***************************************************************************)
(* Mux over a connection that buffers a single frame each way, with readCh *)
(* and acceptCh of one element: two streams that share the connection with *)
(* PINGs and padding, one stream written from both ends, and one stream on *)
(* muxes that are closed at any time; and one stream on a connection whose *)
(* keys may reach a limit at either end and at any packet.                 *)
(***************************************************************************)
EXTENDS Mux

TwoStreams == 1..2

Shared == [streams |-> 1..2, chunks |-> 1, idle |-> 1, duplex |-> FALSE, closes |-> FALSE,
           keyEnds |-> FALSE]
Duplex == [streams |-> 1..1, chunks |-> 2, idle |-> 0, duplex |-> TRUE, closes |-> FALSE,
           keyEnds |-> FALSE]
Closing == [streams |-> 1..1, chunks |-> 2, idle |-> 0, duplex |-> FALSE, closes |-> TRUE,
            keyEnds |-> FALSE]

Exhausted == [streams |-> 1..1, chunks |-> 1, idle |-> 1, duplex |-> FALSE, closes |-> FALSE,
              keyEnds |-> TRUE]
BothWays == [streams |-> 1..1, chunks |-> 1, idle |-> 0, duplex |-> TRUE, closes |-> FALSE,
             keyEnds |-> TRUE]

AllSettings == {Shared, Duplex, Closing, Exhausted, BothWays}
=============================================================================
