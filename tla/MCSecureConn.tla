---------------------------- MODULE MCSecureConn ----------------------------
(***************************************************************************)
(* Instances of SecureConn with a key good for a few messages and sequence *)
(* numbers that would wrap soon after.                                     *)
(***************************************************************************)
EXTENDS SecureConn

PassSettings ==
    {[tasks |-> {"frame", "padding"}, queueCap |-> 0],
     [tasks |-> {"relay", "loop", "idle"}, queueCap |-> MaxData],
     [tasks |-> {"relay", "loop", "direct"}, queueCap |-> 1]}

P == INSTANCE Packet

SomePackets ==
    {P!NewPaddedDataPacket(payload, 7, padding) :
        payload \in {<<>>, <<1>>, <<1, 2, 3>>}, padding \in {<<>>, <<255>>, <<0, 0>>}}

\* Packets survive their conversion, also in a stream with more behind them.
ASSUME SomePacketsSurvive ==
    \A p \in SomePackets :
        /\ P!Valid(p) /\ P!Accepts(P!Marshal(p))
        /\ P!Unmarshal(P!Marshal(p)) = p
        /\ P!Unmarshal(P!ReadPacket(P!Marshal(p), P!Marshal(p).body \o <<9, 9>>)) = p

\* A buffer that is cut short is refused.
ASSUME CutIsRefused ==
    \A p \in SomePackets :
        p.padding # <<>> => ~P!Accepts([P!Marshal(p) EXCEPT !.body = p.payload])

\* Hosts without a colon are dialled as asked for, IPv6 addresses never.
ASSUME HostsAreDialled ==
    \A host \in {h \in P!Hosts : h.len \in {2, 7, 15, 255} /\ h.colons \in {0, 2, 8}} :
        LET target == P!Socks5Target(host, 443)
        IN  P!Dialled(host, 443, target) <=> host.colons = 0
=============================================================================
