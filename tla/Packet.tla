------------------------------- MODULE Packet -------------------------------
(***************************************************************************)
(* The codecs of pkg/protocol: the packet that SecureConn encrypts         *)
(* (packet.go) and the CONNECT request inside a stream (handshake.go),     *)
(* with the way of a target from the SOCKS5 request to the server's dial.  *)
(* A marshalled packet is its header, field by field, and the bytes that   *)
(* follow.  A host is a text that is known by its length and the colons in *)
(* it, since colons are what target texts are split at.                    *)
(***************************************************************************)
EXTENDS Integers, Sequences

MaxPayloadSize == 65535
MaxPaddingSize == 1024
HeaderSize == 18
MaxSendSize == 1048576

MaxUint16 == 65535
Byte == 0..255
UInt16 == 0..MaxUint16
Types == 1..7    \* PacketTypeData to PacketTypePong
Data == 1
Padding == 2

Packets ==
    [version : Byte, type : Byte, seqNum : Nat, payloadLen : UInt16, paddingLen : UInt16,
     payload : Seq(Byte), padding : Seq(Byte)]

\* What Marshal returns: the header's fields and the bytes after them.
Buffers ==
    [version : Byte, type : Byte, seqNum : Nat, payloadLen : UInt16, paddingLen : UInt16,
     body : Seq(Byte)]

---------------------------------------------------------------------------

\* NewDataPacket; its caller has been refused a longer payload.
NewDataPacket(payload, n) ==
    [version |-> 1, type |-> Data, seqNum |-> n, payloadLen |-> Len(payload),
     paddingLen |-> 0, payload |-> payload, padding |-> <<>>]

\* The padding that NewPaddedDataPacket adds to reach a total size.
PaddingFor(payload, total) ==
    LET room == total - (HeaderSize + Len(payload))
    IN  IF room <= 0 THEN 0 ELSE IF room > MaxPaddingSize THEN MaxPaddingSize ELSE room

\* NewPaddedDataPacket, with the random bytes it draws.
NewPaddedDataPacket(payload, n, padding) ==
    [NewDataPacket(payload, n) EXCEPT !.padding = padding, !.paddingLen = Len(padding)]

\* The size NewPaddingPacket makes of the one asked for.
PaddingSize(size) ==
    IF size > MaxPaddingSize THEN MaxPaddingSize ELSE IF size <= 0 THEN 1 ELSE size

NewPaddingPacket(n, padding) ==
    [version |-> 1, type |-> Padding, seqNum |-> n, payloadLen |-> 0,
     paddingLen |-> Len(padding), payload |-> <<>>, padding |-> padding]

\* Packet.Validate.
Valid(p) ==
    /\ p.version = 1 /\ p.type \in Types
    /\ p.payloadLen = Len(p.payload) /\ p.paddingLen = Len(p.padding)
    /\ p.payloadLen <= MaxPayloadSize /\ p.paddingLen <= MaxPaddingSize

\* Packet.Marshal of a valid packet.
Marshal(p) ==
    [version |-> p.version, type |-> p.type, seqNum |-> p.seqNum,
     payloadLen |-> p.payloadLen, paddingLen |-> p.paddingLen,
     body |-> p.payload \o p.padding]

\* Unmarshal takes the buffer. (Bytes that follow the padding are ignored.)
Accepts(b) ==
    /\ b.payloadLen <= MaxPayloadSize /\ b.paddingLen <= MaxPaddingSize
    /\ Len(b.body) >= b.payloadLen + b.paddingLen
    /\ b.version = 1 /\ b.type \in Types

Unmarshal(b) ==
    [version |-> b.version, type |-> b.type, seqNum |-> b.seqNum,
     payloadLen |-> b.payloadLen, paddingLen |-> b.paddingLen,
     payload |-> SubSeq(b.body, 1, b.payloadLen),
     padding |-> SubSeq(b.body, b.payloadLen + 1, b.payloadLen + b.paddingLen)]

\* ReadPacket reads the header, then as many bytes as the header says.
ReadPacket(header, stream) ==
    [header EXCEPT !.body = SubSeq(stream, 1, header.payloadLen + header.paddingLen)]

TotalSize(p) == HeaderSize + p.payloadLen + p.paddingLen

---------------------------------------------------------------------------
(* Targets. *)

\* A host as SOCKS5 delivers it, by what its text spells: an address (an IPv6 one
\* has colons; an IPv4-mapped one is printed as IPv4) or another domain of 1 to 255
\* bytes. Domains with brackets are left out.
Hosts ==
    [kind : {"ipv4"}, len : 7..15, colons : {0}]
        \cup [kind : {"ipv6"}, len : 2..39, colons : 2..8]
        \cup [kind : {"domain"}, len : 1..255, colons : 0..255]

\* socks5.Handshake joins host and port with a colon, without brackets; port 0
\* is refused.
Socks5Target(host, port) == [host |-> host, port |-> port, colons |-> host.colons + 1]

\* ParsePort of a number's digits.
ParsePort(n) == IF n > MaxUint16 THEN 0 ELSE n

\* SplitTarget: net.SplitHostPort wants a single colon outside brackets.
Splits(target) == target.colons = 1 /\ ParsePort(target.port) # 0

AddrType(host) ==
    IF host.kind = "ipv4" THEN 1 ELSE IF host.kind = "ipv6" THEN 4 ELSE 3

\* ConnectRequest.Marshal: the address as 4 or 16 bytes, or a domain with its
\* length in a byte, and the port.
MarshalRequest(target) ==
    [addrType |-> AddrType(target.host), host |-> target.host,
     size |-> IF target.host.kind = "ipv4" THEN 1 + 4 + 2
              ELSE IF target.host.kind = "ipv6" THEN 1 + 16 + 2
              ELSE 1 + 1 + target.host.len + 2,
     domainLen |-> IF target.host.kind = "domain" THEN target.host.len % 256 ELSE 0,
     port |-> target.port]

\* The handlers refuse a request of more than 1024 bytes; UnmarshalConnectRequest
\* one that is shorter than its address type wants.
TakesRequest(r) ==
    /\ r.size <= 1024 /\ r.size >= 3
    /\ \/ r.addrType = 1 /\ r.size >= 1 + 4 + 2
       \/ r.addrType = 3 /\ r.size >= 2 + r.domainLen + 2
       \/ r.addrType = 4 /\ r.size >= 1 + 16 + 2

\* ConnectRequest.Address, from which net.Dial takes the host: again "%s:%d".
Address(r) == [host |-> r.host, port |-> r.port, colons |-> r.host.colons + 1]

\* The server dials target for a SOCKS5 request of host and port.
Dialled(host, port, target) ==
    /\ port # 0
    /\ Splits(Socks5Target(host, port))
    /\ TakesRequest(MarshalRequest(Socks5Target(host, port)))
    /\ target = Address(MarshalRequest(Socks5Target(host, port)))
    /\ target.colons = 1
=============================================================================
