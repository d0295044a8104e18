--------------------------- MODULE MCGroukListener ---------------------------
(***************************************************************************)
(* A listener with room for one pending session, and a server with room    *)
(* for one session: two clients at once, one client on a network that      *)
(* loses a packet, one with a different PSK, and one on a network that may *)
(* deliver any packet late.                                                *)
(***************************************************************************)
EXTENDS GroukListener

CONSTANTS c1, c2

Setting(who, bad, link, lost, times) ==
    [clients |-> who, wrong |-> bad, network |-> link, loss |-> lost, tries |-> times]

PassSettings ==
    {Setting({c1, c2}, {}, "timely", 0, 2),
     Setting({c1}, {}, "timely", 1, 3),
     Setting({c2}, {c2}, "timely", 0, 2),
     Setting({c1}, {}, "late", 0, 2)}
=============================================================================
