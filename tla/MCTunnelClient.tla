--------------------------- MODULE MCTunnelClient ---------------------------
(***************************************************************************)
(* Two SOCKS requests, and a pause that is cut the first time it doubles.  *)
(* A guarch server keeps two of three connections, so that a forgotten     *)
(* tunnel and its successor are both alive; the servers of zhip and grouk  *)
(* have a single slot, so that a second tunnel meets the limit.            *)
(***************************************************************************)
EXTENDS TunnelClient

CONSTANTS r1, r2

MCRequests == {r1, r2}

AllProtocols == {"guarch", "zhip", "grouk"}
GroukOnly == {"grouk"}
GuarchOnly == {"guarch"}

Slots == [p \in Protocols |-> IF p = "guarch" THEN 2 ELSE 1]
Dials == [p \in Protocols |-> 3]
=============================================================================
