-------------------------- MODULE MCGroukSession --------------------------
(* Two streams on a network that keeps order; one stream on a network that *)
(* loses, overtakes and repeats packets.                                   *)
EXTENDS GroukSession

Networks == {[streams |-> 2, ordered |-> TRUE, dups |-> 0, retries |-> 0],
             [streams |-> 1, ordered |-> FALSE, dups |-> 1, retries |-> 1]}
=============================================================================
