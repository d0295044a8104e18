-------------------------- MODULE GroukSessionProofs --------------------------
(***************************************************************************)
(* Proofs about GroukSession, for any number of streams, any retransmission*)
(* limit, any capacity of acceptCh, and a network that keeps the order of  *)
(* packets or loses, overtakes and repeats them.                           *)
(***************************************************************************)
EXTENDS GroukSession, SequenceTheorems, TLAPS

(* The network's queues. *)

Opening(s) == Packet("OPEN", s)

Has(q, p) == \E i \in 1..Len(q) : q[i] = p
AtMostOnce(q, p) == \A i, j \in 1..Len(q) : q[i] = p /\ q[j] = p => i = j

\* A packet is put at the end, or is in flight already.
LEMMA PutPacket ==
    ASSUME NEW P, NEW q \in Seq(P), NEW p \in P
    PROVE  /\ Put(q, p) \in Seq(P)
           /\ \A o : o # p => (Has(Put(q, p), o) <=> Has(q, o))
           /\ \A o : o # p /\ AtMostOnce(q, o) => AtMostOnce(Put(q, p), o)
           /\ ~Has(q, p) => AtMostOnce(Put(q, p), p)
<1>1. CASE Put(q, p) = q
  BY <1>1 DEF Has, AtMostOnce
<1>2. CASE Put(q, p) = Append(q, p)
  <2> DEFINE v == Append(q, p)
  <2>1. /\ v \in Seq(P) /\ Len(q) \in Nat /\ Len(v) = Len(q) + 1 /\ v[Len(q) + 1] = p
        /\ \A i \in 1..Len(q) : v[i] = q[i]
    OBVIOUS
  <2> HIDE DEF v
  <2>2. /\ \A i \in 1..Len(v) : i \in 1..Len(q) \/ i = Len(q) + 1
        /\ 1..Len(q) \subseteq 1..Len(v)
    BY <2>1
  <2>3. \A o : o # p => (Has(v, o) <=> Has(q, o))
    BY <2>1, <2>2 DEF Has
  <2>4. \A o : o # p /\ AtMostOnce(q, o) => AtMostOnce(v, o)
    BY <2>1, <2>2 DEF AtMostOnce
  <2>5. ~Has(q, p) => AtMostOnce(v, p)
    BY <2>1, <2>2 DEF Has, AtMostOnce
  <2> QED BY <1>2, <2>1, <2>3, <2>4, <2>5 DEF v
<1> QED BY <1>1, <1>2 DEF Put

\* What RemoveAt leaves: the elements but the one removed, in order.
LEMMA Removed ==
    ASSUME NEW P, NEW q \in Seq(P), NEW i \in 1..Len(q)
    PROVE  /\ RemoveAt(q, i) \in Seq(P) /\ Len(RemoveAt(q, i)) = Len(q) - 1
           /\ \A j \in 1..(Len(q) - 1) : RemoveAt(q, i)[j] = IF j < i THEN q[j] ELSE q[j + 1]
<1> DEFINE a == SubSeq(q, 1, i - 1)
           b == SubSeq(q, i + 1, Len(q))
<1>1. Len(q) \in Nat /\ i \in Nat /\ i >= 1 /\ i <= Len(q)
  OBVIOUS
<1>2. /\ a \in Seq(P) /\ Len(a) = i - 1
      /\ \A j \in 1..(i - 1) : a[j] = q[j]
  <2>1. \A j \in 1..(i - 1) : q[j] \in P
    BY <1>1
  <2>2. /\ SubSeq(q, 1, i - 1) \in Seq(P)
        /\ Len(SubSeq(q, 1, i - 1)) = IF 1 <= i - 1 THEN (i - 1) - 1 + 1 ELSE 0
        /\ \A j \in 1..((i - 1) - 1 + 1) : SubSeq(q, 1, i - 1)[j] = q[1 + j - 1]
    BY <1>1, <2>1, SubSeqProperties
  <2> QED BY <1>1, <2>2
<1>3. /\ b \in Seq(P) /\ Len(b) = Len(q) - i
      /\ \A j \in 1..(Len(q) - i) : b[j] = q[i + j]
  <2>1. \A j \in (i + 1)..Len(q) : q[j] \in P
    BY <1>1
  <2>2. /\ SubSeq(q, i + 1, Len(q)) \in Seq(P)
        /\ Len(SubSeq(q, i + 1, Len(q))) = IF i + 1 <= Len(q) THEN Len(q) - (i + 1) + 1 ELSE 0
        /\ \A j \in 1..(Len(q) - (i + 1) + 1) : SubSeq(q, i + 1, Len(q))[j] = q[(i + 1) + j - 1]
    BY <1>1, <2>1, SubSeqProperties
  <2> QED BY <1>1, <2>2
<1> HIDE DEF a, b
<1>4. /\ a \o b \in Seq(P) /\ Len(a \o b) = Len(a) + Len(b)
      /\ \A j \in 1..(Len(a) + Len(b)) : (a \o b)[j] = IF j <= Len(a) THEN a[j] ELSE b[j - Len(a)]
  BY <1>2, <1>3, ConcatProperties
<1>5. ASSUME NEW j \in 1..(Len(q) - 1)
      PROVE  (a \o b)[j] = IF j < i THEN q[j] ELSE q[j + 1]
  <2>1. CASE j < i
    BY <1>1, <1>2, <1>3, <1>4, <2>1
  <2>2. CASE ~(j < i)
    <3>1. j - Len(a) \in 1..(Len(q) - i) /\ i + (j - Len(a)) = j + 1
      BY <1>1, <1>2, <2>2
    <3>2. b[j - Len(a)] = q[j + 1]
      BY <1>3, <3>1
    <3> QED BY <1>1, <1>2, <1>3, <1>4, <2>2, <3>2
  <2> QED BY <2>1, <2>2
<1>6. RemoveAt(q, i) = a \o b
  BY DEF RemoveAt, a, b
<1>7. Len(a \o b) = Len(q) - 1
  BY <1>1, <1>2, <1>3, <1>4
<1> QED BY <1>4, <1>5, <1>6, <1>7

\* A packet that was in flight once is not in flight when it is taken; others stay.
LEMMA RemovePacket ==
    ASSUME NEW P, NEW q \in Seq(P), NEW i \in 1..Len(q)
    PROVE  /\ RemoveAt(q, i) \in Seq(P)
           /\ \A o : Has(RemoveAt(q, i), o) => Has(q, o)
           /\ \A o : AtMostOnce(q, o) => AtMostOnce(RemoveAt(q, i), o)
           /\ AtMostOnce(q, q[i]) => ~Has(RemoveAt(q, i), q[i])
<1> DEFINE v == RemoveAt(q, i)
           old(j) == IF j < i THEN j ELSE j + 1
<1>1. /\ v \in Seq(P) /\ Len(q) \in Nat /\ Len(v) = Len(q) - 1 /\ i \in Nat
      /\ \A j \in 1..(Len(q) - 1) : v[j] = IF j < i THEN q[j] ELSE q[j + 1]
  BY Removed
<1> HIDE DEF v
<1>2. \A j \in 1..Len(v) : v[j] = q[old(j)] /\ old(j) \in 1..Len(q) /\ old(j) # i
  BY <1>1
<1>3. \A j, k \in 1..Len(v) : old(j) = old(k) => j = k
  BY <1>1
<1> HIDE DEF old
<1>4. \A o : Has(v, o) => Has(q, o)
  BY <1>2 DEF Has
<1>5. \A o : AtMostOnce(q, o) => AtMostOnce(v, o)
  BY <1>2, <1>3 DEF AtMostOnce
<1>6. AtMostOnce(q, q[i]) => ~Has(v, q[i])
  BY <1>2 DEF Has, AtMostOnce
<1> QED BY <1>1, <1>4, <1>5, <1>6 DEF v

---------------------------------------------------------------------------
(* The inductive invariant. *)

SessionType == session \in [Ends -> {"open", "sweep", "closed"}]

NetType ==
    /\ net \in [Ends -> Seq(Packets(Streams))]
    /\ dups \in Nat /\ dups <= setting.dups

ClientType ==
    /\ app \in [Streams -> {"none", "checked", "up", "ended"}]
    /\ ended \subseteq cdone /\ cdone \subseteq Streams /\ cmap \subseteq Streams
    /\ unacked \subseteq wrote /\ wrote \subseteq Streams
    /\ tries \in [Streams -> 0..setting.retries]

\* The program sends one OPEN for a stream, so that the server makes one object of
\* it and one more for each that the network repeats.
InFlight(s) == IF Has(net["server"], Opening(s)) THEN 1 ELSE 0

OpenInv ==
    \A s \in Streams :
        /\ AtMostOnce(net["server"], Opening(s))
        /\ made[s] + InFlight(s) <= 1 + dups
        /\ app[s] \in {"none", "checked"} => made[s] = 0 /\ ~Has(net["server"], Opening(s))

\* What the map and the sets of objects name was made before.
ObjectsInv ==
    /\ made \in [Streams -> Nat] /\ smap \in [Streams -> Nat]
    /\ \A s \in Streams : smap[s] <= made[s]
    /\ live \subseteq Objects /\ late \subseteq Objects
    /\ \A o \in live : o[2] <= made[o[1]]

LoopInv ==
    /\ routed \in BOOLEAN
    /\ loop \in [pc : {"recv", "accept", "close"}, s : Streams \cup {0}]
    /\ loop.pc = "accept" => loop.s \in Streams /\ made[loop.s] >= 1

ProgramType ==
    /\ acceptCh \in Seq(Objects) /\ Len(acceptCh) <= AcceptCap
    /\ accepting \in {"queued", "running", "ended"}
    /\ handlers \subseteq Objects

TypeInv ==
    /\ setting \in Settings
    /\ SessionType /\ NetType /\ ClientType /\ OpenInv /\ ObjectsInv /\ LoopInv /\ ProgramType

\* The setting never changes, nor does what depends on it alone.
LEMMA Fixed ==
    ASSUME [Next]_vars
    PROVE  /\ setting' = setting /\ Streams' = Streams /\ Objects' = Objects
           /\ Packets(Streams)' = Packets(Streams)
<1>1. setting' = setting
  <2>1. CASE UNCHANGED vars
    BY <2>1 DEF vars
  <2>2. CASE \/ \E e \in Ends : Sweep(e)
             \/ Interrupt \/ Expire \/ ClientLoop \/ AcceptSession \/ AcceptStream
             \/ \E o \in handlers : HandlerEnds(o)
    BY <2>2 DEF Sweep, Interrupt, Expire, ClientLoop, ClientReceive, AcceptSession,
       AcceptStream, HandlerEnds
  <2>3. CASE ServerLoop
    BY <2>3 DEF ServerLoop, HandleOpen, HandleData, HandleClose, PushStream, HandleSessionClose,
                LoopClosed
  <2>4. CASE \E s \in Streams : \/ OpenCheck(s) \/ OpenStore(s) \/ Write(s)
                                \/ Retransmit(s) \/ GiveUp(s) \/ CloseStream(s)
    BY <2>4 DEF OpenCheck, OpenStore, Write, Retransmit, GiveUp, CloseStream
  <2> QED BY <2>1, <2>2, <2>3, <2>4 DEF Next
<1> QED BY <1>1 DEF Streams, Objects, Packets

LEMMA SettingType ==
    ASSUME setting \in Settings
    PROVE  setting.streams \in Nat /\ setting.dups \in Nat /\ setting.retries \in Nat
  BY SessionConstantsOK

LEMMA PacketType ==
    ASSUME NEW s \in Streams, NEW type \in {"OPEN", "DATA", "CLOSE", "ACK"}
    PROVE  Packet(type, s) \in Packets(Streams) /\ Packet("SCLOSE", 0) \in Packets(Streams)
  BY DEF Packet, Packets

\* No OPEN gets in flight that was not, and none twice.
NoNewOpen ==
    \A s \in Streams :
        /\ Has(net'["server"], Opening(s)) => Has(net["server"], Opening(s))
        /\ AtMostOnce(net["server"], Opening(s)) => AtMostOnce(net'["server"], Opening(s))

\* A packet of another type is sent.
LEMMA SendingType ==
    ASSUME NetType, NEW e \in Ends, NEW type, NEW s, Packet(type, s) \in Packets(Streams),
           Send(e, type, s)
    PROVE  net' \in [Ends -> Seq(Packets(Streams))]
<1>1. Peer(e) \in Ends /\ net[Peer(e)] \in Seq(Packets(Streams))
  BY DEF Peer, Ends, NetType
<1>2. Put(net[Peer(e)], Packet(type, s)) \in Seq(Packets(Streams))
  BY <1>1, PutPacket
<1> QED BY <1>1, <1>2 DEF Send, NetType

LEMMA SendingOther ==
    ASSUME NetType, NEW e \in Ends, NEW type, NEW s, Packet(type, s) \in Packets(Streams),
           Send(e, type, s), type # "OPEN"
    PROVE  NoNewOpen
<1>1. net \in [Ends -> Seq(Packets(Streams))] /\ "server" \in Ends /\ Peer(e) \in Ends
  BY DEF Peer, Ends, NetType
<1>2. \A t \in Streams : Opening(t) # Packet(type, s)
  BY DEF Opening, Packet
<1>3. net'["server"] = net["server"] \/ net'["server"] = Put(net["server"], Packet(type, s))
  BY <1>1 DEF Send
<1>4. CASE net'["server"] = net["server"]
  BY <1>4 DEF NoNewOpen
<1>5. CASE net'["server"] = Put(net["server"], Packet(type, s))
  <2>1. /\ \A o : o # Packet(type, s) =>
                    (Has(Put(net["server"], Packet(type, s)), o) <=> Has(net["server"], o))
        /\ \A o : o # Packet(type, s) /\ AtMostOnce(net["server"], o)
                    => AtMostOnce(Put(net["server"], Packet(type, s)), o)
    BY <1>1, PutPacket
  <2> QED BY <1>2, <1>5, <2>1 DEF NoNewOpen
<1> QED BY <1>3, <1>4, <1>5

\* What an arrival makes of the network.
LEMMA Arrival ==
    ASSUME NetType, setting \in Settings, NEW e \in Ends, NEW p,
           NEW back \in Seq(Packets(Streams)), Arrives(e, p, back)
    PROVE  /\ p \in Packets(Streams) /\ Has(net[e], p)
           /\ net' \in [Ends -> Seq(Packets(Streams))] /\ net'[Peer(e)] = back
           /\ dups' \in Nat /\ dups' <= setting.dups /\ dups' >= dups
           /\ \A o : Has(net'[e], o) => Has(net[e], o)
           /\ \A o : AtMostOnce(net[e], o) => AtMostOnce(net'[e], o)
           /\ dups' = dups /\ AtMostOnce(net[e], p) => ~Has(net'[e], p)
<1>1. PICK i \in 1..Len(net[e]), again \in {0, 1} :
          /\ net[e][i] = p /\ dups' = dups + again /\ dups' <= setting.dups
          /\ net' = [net EXCEPT ![e] = IF again = 1 THEN @ ELSE RemoveAt(@, i), ![Peer(e)] = back]
  BY DEF Arrives
<1>2. /\ net \in [Ends -> Seq(Packets(Streams))] /\ Peer(e) \in Ends /\ Peer(e) # e
      /\ net[e] \in Seq(Packets(Streams)) /\ dups \in Nat
  BY DEF NetType, Peer, Ends
<1> DEFINE q == net[e]
           rest == IF again = 1 THEN q ELSE RemoveAt(q, i)
<1>3. /\ RemoveAt(q, i) \in Seq(Packets(Streams))
      /\ \A o : Has(RemoveAt(q, i), o) => Has(q, o)
      /\ \A o : AtMostOnce(q, o) => AtMostOnce(RemoveAt(q, i), o)
      /\ AtMostOnce(q, q[i]) => ~Has(RemoveAt(q, i), q[i])
  BY <1>2, RemovePacket
<1>4. net'[e] = rest /\ net'[Peer(e)] = back
  BY <1>1, <1>2
<1>5. rest \in Seq(Packets(Streams))
  BY <1>2, <1>3
<1>6. net' \in [Ends -> Seq(Packets(Streams))]
  <2> HIDE DEF rest
  <2>1. net' = [net EXCEPT ![e] = rest, ![Peer(e)] = back]
    BY <1>1 DEF rest
  <2> QED BY <1>2, <1>5, <2>1
<1>7. p \in Packets(Streams) /\ Has(q, p)
  BY <1>1, <1>2 DEF Has
<1>8. dups' \in Nat /\ dups' >= dups /\ (dups' = dups => again = 0)
  BY <1>1, <1>2
<1> QED BY <1>1, <1>3, <1>4, <1>6, <1>7, <1>8

\* The same, of what the listener's readLoop gets.
LEMMA ServerArrival ==
    ASSUME NetType, setting \in Settings, NEW s, NEW type, NEW back \in Seq(Packets(Streams)),
           ServerGets(type, s, back)
    PROVE  /\ Packet(type, s) \in Packets(Streams) /\ Has(net["server"], Packet(type, s))
           /\ net' \in [Ends -> Seq(Packets(Streams))]
           /\ dups' \in Nat /\ dups' <= setting.dups /\ dups' >= dups
           /\ NoNewOpen
           /\ dups' = dups /\ AtMostOnce(net["server"], Packet(type, s))
                => ~Has(net'["server"], Packet(type, s))
<1>1. "server" \in Ends /\ Arrives("server", Packet(type, s), back)
  BY DEF ServerGets, Ends
<1> DEFINE p == Packet(type, s)
<1> HIDE DEF p
<1>2. Arrives("server", p, back)
  BY <1>1 DEF p
<1>3. /\ p \in Packets(Streams) /\ Has(net["server"], p)
      /\ net' \in [Ends -> Seq(Packets(Streams))]
      /\ dups' \in Nat /\ dups' <= setting.dups /\ dups' >= dups
      /\ \A o : Has(net'["server"], o) => Has(net["server"], o)
      /\ \A o : AtMostOnce(net["server"], o) => AtMostOnce(net'["server"], o)
      /\ dups' = dups /\ AtMostOnce(net["server"], p) => ~Has(net'["server"], p)
  BY <1>1, <1>2, Arrival
<1> QED BY <1>3 DEF p, NoNewOpen

---------------------------------------------------------------------------
(* What each step does to the network. *)

\* What handlers, readers and closers of the server send: one packet, no OPEN.
LEMMA SendStep ==
    ASSUME TypeInv, [Next]_vars, NEW e \in Ends, NEW type \in {"DATA", "CLOSE", "ACK", "SCLOSE"}, NEW s,
           Packet(type, s) \in Packets(Streams), Send(e, type, s), UNCHANGED dups
    PROVE  NetType' /\ dups' = dups /\ NoNewOpen
<1>1. NetType /\ type # "OPEN"
  BY DEF TypeInv
<1>2. net' \in [Ends -> Seq(Packets(Streams))] /\ NoNewOpen
  BY <1>1, SendingType, SendingOther
<1>3. net' \in [Ends -> Seq(Packets(Streams))]'
  BY <1>2, Fixed
<1> QED BY <1>1, <1>2, <1>3, Fixed DEF NetType

\* What the loops take.
LEMMA ServerTakes ==
    ASSUME TypeInv, [Next]_vars, NEW type, NEW s, NEW back \in Seq(Packets(Streams)),
           ServerGets(type, s, back)
    PROVE  NetType' /\ dups' >= dups /\ NoNewOpen
<1>1. NetType /\ setting \in Settings
  BY DEF TypeInv
<1>2. /\ net' \in [Ends -> Seq(Packets(Streams))] /\ NoNewOpen
      /\ dups' \in Nat /\ dups' <= setting.dups /\ dups' >= dups
  BY <1>1, ServerArrival
<1> QED BY <1>2, Fixed DEF NetType

LEMMA NetStep ==
    ASSUME TypeInv, [Next]_vars
    PROVE  /\ NetType' /\ dups' >= dups
           /\ (\A s \in Streams : ~OpenStore(s)) => NoNewOpen
<1>0. /\ net["client"] \in Seq(Packets(Streams)) /\ net["server"] \in Seq(Packets(Streams))
      /\ dups \in Nat /\ "client" \in Ends /\ "server" \in Ends /\ setting \in Settings
      /\ \A s \in Streams : \A type \in {"DATA", "CLOSE", "ACK"} : Packet(type, s) \in Packets(Streams)
  BY PacketType DEF TypeInv, NetType, Ends
<1>1. ASSUME NEW e \in Ends, Sweep(e)
      PROVE  NetType' /\ dups' >= dups /\ NoNewOpen
  <2>1. Packet("SCLOSE", 0) \in Packets(Streams)
    BY DEF Packet, Packets
  <2> QED BY <1>0, <1>1, <2>1, SendStep DEF Sweep
<1>2. ASSUME NEW s \in Streams, Write(s) \/ Retransmit(s)
      PROVE  NetType' /\ dups' >= dups /\ NoNewOpen
  <2>1. Send("client", "DATA", s) /\ UNCHANGED dups
    BY <1>2 DEF Write, Retransmit
  <2>2. Packet("DATA", s) \in Packets(Streams)
    BY <1>0
  <2> QED BY <1>0, <2>1, <2>2, SendStep
<1>3. ASSUME NEW s \in Streams, CloseStream(s)
      PROVE  NetType' /\ dups' >= dups /\ NoNewOpen
  <2>1. CASE Send("client", "CLOSE", s) /\ UNCHANGED dups
    <3>1. Packet("CLOSE", s) \in Packets(Streams)
      BY <1>0
    <3> QED BY <1>0, <2>1, <3>1, SendStep
  <2>2. CASE UNCHANGED <<net, dups>>
    BY <1>0, <2>2, Fixed DEF TypeInv, NetType, NoNewOpen
  <2> QED BY <1>3, <2>1, <2>2 DEF CloseStream
<1>4. ASSUME NEW o \in handlers, HandlerEnds(o)
      PROVE  NetType' /\ dups' >= dups /\ NoNewOpen
  <2>1. CASE Send("server", "CLOSE", o[1]) /\ UNCHANGED dups
    <3>1. o[1] \in Streams
      BY DEF TypeInv, ProgramType, Objects
    <3>2. Packet("CLOSE", o[1]) \in Packets(Streams)
      BY <1>0, <3>1
    <3> QED BY <1>0, <2>1, <3>2, SendStep
  <2>2. CASE UNCHANGED <<net, dups>>
    BY <1>0, <2>2, Fixed DEF TypeInv, NetType, NoNewOpen
  <2> QED BY <1>4, <2>1, <2>2 DEF HandlerEnds
<1>5. ASSUME NEW s \in Streams, OpenStore(s)
      PROVE  NetType' /\ dups' >= dups
  <2>1. Send("client", "OPEN", s) /\ UNCHANGED dups /\ NetType
    BY <1>5 DEF OpenStore, TypeInv
  <2>2. net' \in [Ends -> Seq(Packets(Streams))]
    BY <1>0, <2>1, SendingType, PacketType
  <2> QED BY <1>0, <2>1, <2>2, Fixed DEF NetType
<1>6. CASE ClientLoop
  <2>1. PICK p \in Range(net["client"]) : ClientReceive(p)
    BY <1>6 DEF ClientLoop
  <2>2. Arrives("client", p, net["server"]) /\ NetType
    BY <2>1 DEF ClientReceive, TypeInv
  <2>3. /\ net' \in [Ends -> Seq(Packets(Streams))] /\ net'[Peer("client")] = net["server"]
        /\ dups' \in Nat /\ dups' <= setting.dups /\ dups' >= dups
    BY <1>0, <2>2, Arrival
  <2>4. net'["server"] = net["server"]
    BY <2>3 DEF Peer
  <2> QED BY <2>3, <2>4, Fixed DEF NetType, NoNewOpen
<1>7. ASSUME NEW s \in Streams, HandleOpen(s) \/ HandleClose(s)
      PROVE  NetType' /\ dups' >= dups /\ NoNewOpen
  BY <1>0, <1>7, ServerTakes DEF HandleOpen, HandleClose
<1>8. ASSUME NEW s \in Streams, HandleData(s)
      PROVE  NetType' /\ dups' >= dups /\ NoNewOpen
  <2>1. Put(net["client"], Packet("ACK", s)) \in Seq(Packets(Streams))
    BY <1>0, PutPacket, PacketType
  <2>2. PICK back \in Seq(Packets(Streams)) : ServerGets("DATA", s, back)
    BY <1>0, <1>8, <2>1 DEF HandleData
  <2> QED BY <2>2, ServerTakes
<1>9. CASE HandleSessionClose
  BY <1>0, <1>9, ServerTakes DEF HandleSessionClose
<1>10. CASE \/ Interrupt \/ Expire \/ PushStream \/ LoopClosed \/ AcceptSession \/ AcceptStream
            \/ \E s \in Streams : OpenCheck(s) \/ GiveUp(s)
            \/ UNCHANGED vars
  <2>1. UNCHANGED <<net, dups>>
    BY <1>10 DEF Interrupt, Expire, PushStream, LoopClosed, AcceptSession, AcceptStream,
       OpenCheck, GiveUp, vars
  <2> QED BY <1>0, <2>1, Fixed DEF TypeInv, NetType, NoNewOpen
<1> QED BY <1>1, <1>2, <1>3, <1>4, <1>5, <1>6, <1>7, <1>8, <1>9, <1>10 DEF Next, ServerLoop

\* OPEN is sent once by the program, before which the server has no object.
LEMMA OpenStep ==
    ASSUME TypeInv, [Next]_vars
    PROVE  OpenInv'
<1>0. /\ Streams' = Streams /\ dups \in Nat /\ dups' \in Nat /\ dups' >= dups
      /\ made \in [Streams -> Nat] /\ app \in [Streams -> {"none", "checked", "up", "ended"}]
  BY Fixed, NetStep DEF TypeInv, NetType, ObjectsInv, ClientType
<1>1. \A s \in Streams :
          /\ AtMostOnce(net["server"], Opening(s))
          /\ made[s] + InFlight(s) <= 1 + dups
          /\ app[s] \in {"none", "checked"} => made[s] = 0 /\ ~Has(net["server"], Opening(s))
  BY DEF TypeInv, OpenInv
<1>2. ASSUME NEW s \in Streams, OpenStore(s)
      PROVE  OpenInv'
  <2>1. /\ app[s] = "checked" /\ app' = [app EXCEPT ![s] = "up"]
        /\ Send("client", "OPEN", s) /\ UNCHANGED made
    BY <1>2 DEF OpenStore, server, objects
  <2>2. net'["server"] = Put(net["server"], Opening(s))
    BY <2>1 DEF Send, Peer, Opening, TypeInv, NetType, Ends
  <2>3. net["server"] \in Seq(Packets(Streams)) /\ Opening(s) \in Packets(Streams)
    BY PacketType DEF TypeInv, NetType, Ends, Opening
  <2>4. /\ \A o : o # Opening(s) => (Has(net'["server"], o) <=> Has(net["server"], o))
        /\ \A o : o # Opening(s) /\ AtMostOnce(net["server"], o) => AtMostOnce(net'["server"], o)
        /\ AtMostOnce(net'["server"], Opening(s))
    BY <1>1, <2>1, <2>2, <2>3, PutPacket
  <2>5. \A t \in Streams : t # s => Opening(t) # Opening(s)
    BY DEF Opening, Packet
  <2>6. ASSUME NEW t \in Streams
        PROVE  /\ AtMostOnce(net'["server"], Opening(t))
               /\ made'[t] + InFlight(t)' <= 1 + dups'
               /\ app'[t] \in {"none", "checked"} => made'[t] = 0 /\ ~Has(net'["server"], Opening(t))
    <3>1. CASE t = s
      <4>1. made'[t] = 0 /\ InFlight(t)' <= 1 /\ InFlight(t)' \in {0, 1} /\ app'[t] = "up"
        BY <1>0, <1>1, <2>1, <3>1 DEF InFlight
      <4> QED BY <1>0, <2>4, <3>1, <4>1
    <3>2. CASE t # s
      <4>1. /\ Has(net'["server"], Opening(t)) <=> Has(net["server"], Opening(t))
            /\ AtMostOnce(net'["server"], Opening(t))
        BY <1>1, <2>4, <2>5, <3>2
      <4>2. InFlight(t)' = InFlight(t) /\ app'[t] = app[t] /\ InFlight(t) \in {0, 1}
        BY <1>0, <2>1, <3>2, <4>1 DEF InFlight, Opening
      <4> QED BY <1>0, <1>1, <2>1, <4>1, <4>2
    <3> QED BY <3>1, <3>2
  <2> QED BY <1>0, <2>6 DEF OpenInv, Opening
<1>3. ASSUME NEW s \in Streams, HandleOpen(s)
      PROVE  OpenInv'
  <2>1. /\ ServerGets("OPEN", s, net["client"]) /\ made' = [made EXCEPT ![s] = @ + 1] /\ UNCHANGED app
        /\ net["client"] \in Seq(Packets(Streams)) /\ NetType /\ setting \in Settings
    BY <1>3 DEF HandleOpen, client, TypeInv, NetType, Ends
  <2>2. /\ Has(net["server"], Opening(s)) /\ NoNewOpen
        /\ dups' = dups => ~Has(net'["server"], Opening(s))
    BY <1>1, <2>1, ServerArrival DEF Opening
  <2>3. ASSUME NEW t \in Streams
        PROVE  /\ AtMostOnce(net'["server"], Opening(t))
               /\ made'[t] + InFlight(t)' <= 1 + dups'
               /\ app'[t] \in {"none", "checked"} => made'[t] = 0 /\ ~Has(net'["server"], Opening(t))
    <3>1. AtMostOnce(net'["server"], Opening(t)) /\ (Has(net'["server"], Opening(t)) => Has(net["server"], Opening(t)))
      BY <1>1, <2>2 DEF NoNewOpen
    <3>2. InFlight(t)' <= InFlight(t) /\ InFlight(t) \in {0, 1} /\ InFlight(t)' \in {0, 1}
      BY <3>1 DEF InFlight, Opening
    <3>3. CASE t = s
      <4>1. InFlight(t) = 1 /\ made'[t] = made[t] + 1 /\ app[t] \notin {"none", "checked"}
        BY <1>0, <1>1, <2>1, <2>2, <3>3 DEF InFlight
      <4>2. dups' = dups => InFlight(t)' = 0
        BY <2>2, <3>3 DEF InFlight, Opening
      <4> QED BY <1>0, <1>1, <2>1, <3>1, <3>2, <4>1, <4>2
    <3>4. CASE t # s
      <4>1. made'[t] = made[t]
        BY <1>0, <2>1, <3>4
      <4> QED BY <1>0, <1>1, <2>1, <3>1, <3>2, <4>1
    <3> QED BY <3>3, <3>4
  <2> QED BY <1>0, <2>3 DEF OpenInv, Opening
<1>4. ASSUME NoNewOpen, UNCHANGED made,
             \A s \in Streams : app'[s] \in {"none", "checked"} => app[s] \in {"none", "checked"}
      PROVE  OpenInv'
  <2>1. ASSUME NEW t \in Streams
        PROVE  /\ AtMostOnce(net'["server"], Opening(t))
               /\ made'[t] + InFlight(t)' <= 1 + dups'
               /\ app'[t] \in {"none", "checked"} => made'[t] = 0 /\ ~Has(net'["server"], Opening(t))
    <3>1. AtMostOnce(net'["server"], Opening(t)) /\ (Has(net'["server"], Opening(t)) => Has(net["server"], Opening(t)))
      BY <1>1, <1>4 DEF NoNewOpen
    <3>2. InFlight(t)' <= InFlight(t) /\ InFlight(t) \in {0, 1} /\ InFlight(t)' \in {0, 1}
      BY <3>1 DEF InFlight, Opening
    <3> QED BY <1>0, <1>1, <1>4, <3>1, <3>2
  <2> QED BY <1>0, <2>1 DEF OpenInv, Opening
<1>5. ASSUME \A s \in Streams : ~OpenStore(s) /\ ~HandleOpen(s)
      PROVE  OpenInv'
  <2>1. NoNewOpen
    BY <1>5, NetStep
  <2>2. UNCHANGED made
    BY <1>5 DEF Next, Sweep, Interrupt, Expire, ClientLoop, ClientReceive, ServerLoop,
       PushStream, HandleData, HandleClose, HandleSessionClose, LoopClosed, AcceptSession,
       AcceptStream, OpenCheck, Write, Retransmit, GiveUp, CloseStream, HandlerEnds, vars,
       client, objects, server
  <2>3. \/ UNCHANGED app
        \/ \E s \in Streams : \/ app[s] = "none" /\ app' = [app EXCEPT ![s] = "checked"]
                              \/ app' = [app EXCEPT ![s] = "ended"]
    BY <1>5 DEF Next, Sweep, Interrupt, Expire, ClientLoop, ClientReceive, ServerLoop,
       PushStream, HandleData, HandleClose, HandleSessionClose, LoopClosed, AcceptSession,
       AcceptStream, OpenCheck, Write, Retransmit, GiveUp, CloseStream, HandlerEnds, vars,
       client, objects, server
  <2>4. \A s \in Streams : app'[s] \in {"none", "checked"} => app[s] \in {"none", "checked"}
    BY <1>0, <2>3
  <2> QED BY <1>4, <2>1, <2>2, <2>4
<1> QED BY <1>2, <1>3, <1>5

---------------------------------------------------------------------------
(* What each step does to the sessions, the client and the server. *)

\* A session only goes from open to sweep, and from there to closed.
LEMMA Closing ==
    ASSUME SessionType, NEW e \in Ends, StartClose(e)
    PROVE  /\ SessionType'
           /\ session["server"] \in {"open", "sweep"} => session'["server"] \in {"open", "sweep"}
  BY DEF SessionType, StartClose, Ends

LEMMA SessionStep ==
    ASSUME TypeInv, [Next]_vars
    PROVE  /\ SessionType'
           /\ ~Sweep("server") /\ session["server"] \in {"open", "sweep"}
                => session'["server"] \in {"open", "sweep"}
<1>0. SessionType /\ "client" \in Ends /\ "server" \in Ends
  BY DEF TypeInv, Ends
<1>1. ASSUME NEW e \in Ends, Sweep(e)
      PROVE  SessionType' /\ (e # "server" => session'["server"] = session["server"])
  BY <1>0, <1>1 DEF Sweep, SessionType
<1>2. CASE StartClose("client") \/ StartClose("server")
  BY <1>0, <1>2, Closing
<1>3. CASE UNCHANGED session
  BY <1>0, <1>3 DEF SessionType
<1>4. CASE Interrupt \/ Expire \/ ClientLoop \/ ServerLoop \/ AcceptSession \/ AcceptStream
  BY <1>2, <1>3, <1>4 DEF Interrupt, Expire, ClientLoop, ClientReceive, ServerLoop, HandleOpen,
     HandleData, HandleClose, PushStream, HandleSessionClose, LoopClosed, AcceptSession, AcceptStream
<1>5. CASE \/ \E s \in Streams : \/ OpenCheck(s) \/ OpenStore(s) \/ Write(s)
                                 \/ Retransmit(s) \/ GiveUp(s) \/ CloseStream(s)
           \/ \E o \in handlers : HandlerEnds(o)
           \/ UNCHANGED vars
  BY <1>3, <1>5 DEF OpenCheck, OpenStore, Write, Retransmit, GiveUp, CloseStream,
     HandlerEnds, vars
<1>6. CASE \E e \in Ends : Sweep(e)
  BY <1>1, <1>6
<1> QED BY <1>4, <1>5, <1>6 DEF Next

LEMMA ClientStep ==
    ASSUME TypeInv, [Next]_vars
    PROVE  ClientType'
<1>0. /\ ClientType /\ setting \in Settings
      /\ setting.retries \in Nat /\ setting' = setting /\ Streams' = Streams
  BY Fixed, SettingType DEF TypeInv
<1> DEFINE Typed == /\ app' \in [Streams -> {"none", "checked", "up", "ended"}]
                    /\ ended' \subseteq cdone' /\ cdone' \subseteq Streams /\ cmap' \subseteq Streams
                    /\ unacked' \subseteq wrote' /\ wrote' \subseteq Streams
                    /\ tries' \in [Streams -> 0..setting.retries]
<1> SUFFICES Typed
  BY <1>0 DEF ClientType
<1>1. ASSUME NEW s \in Streams,
             OpenCheck(s) \/ OpenStore(s) \/ Write(s) \/ GiveUp(s) \/ CloseStream(s)
      PROVE  Typed
  BY <1>0, <1>1 DEF ClientType, OpenCheck, OpenStore, Write, GiveUp, CloseStream
<1>2. ASSUME NEW s \in Streams, Retransmit(s)
      PROVE  Typed
  <2>1. tries[s] \in 0..setting.retries /\ tries[s] < setting.retries
        /\ tries' = [tries EXCEPT ![s] = tries[s] + 1]
    BY <1>0, <1>2 DEF Retransmit, ClientType
  <2>2. tries[s] + 1 \in 0..setting.retries
    BY <1>0, <2>1
  <2> QED BY <1>0, <1>2, <2>1, <2>2 DEF ClientType, Retransmit
<1>3. CASE ClientLoop
  <2>1. PICK p \in Range(net["client"]) : ClientReceive(p)
    BY <1>3 DEF ClientLoop
  <2>2. /\ UNCHANGED <<app, ended, wrote, tries>>
        /\ cmap' \subseteq cmap /\ unacked' \subseteq unacked /\ cdone \subseteq cdone'
        /\ cdone' \subseteq cdone \cup cmap
    BY <2>1 DEF ClientReceive
  <2> QED BY <1>0, <2>2 DEF ClientType
<1>4. ASSUME NEW e \in Ends, Sweep(e)
      PROVE  Typed
  BY <1>0, <1>4 DEF Sweep, ClientType
<1>5. CASE \/ Interrupt \/ Expire \/ ServerLoop \/ AcceptSession \/ AcceptStream
           \/ \E o \in handlers : HandlerEnds(o)
           \/ UNCHANGED vars
  <2>1. UNCHANGED client
    BY <1>5 DEF Interrupt, Expire, ServerLoop, HandleOpen, HandleData, HandleClose, PushStream,
                HandleSessionClose, LoopClosed, AcceptSession, AcceptStream, HandlerEnds, vars
  <2> QED BY <1>0, <2>1 DEF client, ClientType
<1> HIDE DEF Typed
<1> QED BY <1>1, <1>2, <1>3, <1>4, <1>5 DEF Next

\* Steps that leave the server's streams alone.
LEMMA ObjectsKept ==
    ASSUME [Next]_vars, \A s \in Streams : ~HandleOpen(s) /\ ~HandleClose(s),
           \A o \in handlers : ~HandlerEnds(o), ~Sweep("server")
    PROVE  UNCHANGED objects
<1>1. \A e \in Ends : Sweep(e) => UNCHANGED objects
  BY DEF Sweep, Ends, objects
<1>2. CASE Interrupt \/ Expire \/ ClientLoop \/ AcceptSession \/ AcceptStream \/ UNCHANGED vars
  BY <1>2 DEF Interrupt, Expire, ClientLoop, ClientReceive, AcceptSession, AcceptStream,
     vars, server
<1>3. CASE \/ PushStream \/ HandleSessionClose \/ LoopClosed
           \/ \E s \in Streams : HandleData(s)
  BY <1>3 DEF PushStream, HandleSessionClose, LoopClosed, HandleData, server
<1>4. CASE \E s \in Streams : \/ OpenCheck(s) \/ OpenStore(s) \/ Write(s)
                              \/ Retransmit(s) \/ GiveUp(s) \/ CloseStream(s)
  BY <1>4 DEF OpenCheck, OpenStore, Write, Retransmit, GiveUp, CloseStream, server
<1> QED BY <1>1, <1>2, <1>3, <1>4 DEF Next, ServerLoop

\* An OPEN makes the stream's next object; CLOSE and the end of a handler take one away,
\* Close of the session those of the map.
LEMMA ObjectsStep ==
    ASSUME TypeInv, [Next]_vars
    PROVE  ObjectsInv'
<1>0. /\ ObjectsInv /\ Streams' = Streams /\ Objects' = Objects
      /\ setting.dups \in Nat /\ setting' = setting
      /\ \A o \in Objects : o = <<o[1], o[2]>> /\ o[1] \in Streams /\ o[2] \in Nat
  BY Fixed, SettingType DEF TypeInv, Objects
<1>1. ASSUME NEW s \in Streams, HandleOpen(s)
      PROVE  ObjectsInv'
  <2>1. /\ made' = [made EXCEPT ![s] = made[s] + 1] /\ smap' = [smap EXCEPT ![s] = made[s] + 1]
        /\ live' = live \cup {<<s, made[s] + 1>>}
        /\ late' \subseteq late \cup {<<s, made[s] + 1>>}
    BY <1>0, <1>1 DEF HandleOpen, ObjectsInv
  <2>2. made[s] \in Nat /\ made'[s] = made[s] + 1
    BY <1>0, <2>1 DEF ObjectsInv
  <2>3. made'[s] <= 1 + setting.dups
    <3>1. OpenInv' /\ NetType'
      BY OpenStep, NetStep
    <3>2. made'[s] + InFlight(s)' <= 1 + dups' /\ InFlight(s)' \in {0, 1}
      BY <1>0, <3>1 DEF OpenInv, InFlight
    <3> QED BY <1>0, <2>2, <3>1, <3>2 DEF NetType
  <2>4. <<s, made[s] + 1>> \in Objects
    BY <2>2, <2>3, <1>0 DEF Objects
  <2>5. made' \in [Streams -> Nat] /\ smap' \in [Streams -> Nat] /\ \A t \in Streams : smap'[t] <= made'[t]
    BY <1>0, <2>1, <2>2 DEF ObjectsInv
  <2>6. \A t \in Streams : made[t] \in Nat /\ made[t] <= made'[t]
    BY <1>0, <2>1, <2>2 DEF ObjectsInv
  <2>7. \A o \in live' : o[2] <= made'[o[1]]
    <3>1. ASSUME NEW o \in live PROVE o[2] <= made'[o[1]]
      <4>1. o[1] \in Streams /\ o[2] \in Nat /\ o[2] <= made[o[1]]
        BY <1>0 DEF ObjectsInv
      <4>2. made[o[1]] \in Nat /\ made'[o[1]] \in Nat /\ made[o[1]] <= made'[o[1]]
        BY <2>5, <2>6, <4>1
      <4> QED BY <4>1, <4>2
    <3> QED BY <2>1, <2>2, <3>1
  <2> QED BY <1>0, <2>1, <2>4, <2>5, <2>7 DEF ObjectsInv
<1>2. ASSUME UNCHANGED <<made, late>>, live' \subseteq live,
             UNCHANGED smap \/ \E s \in Streams : smap' = [smap EXCEPT ![s] = 0]
      PROVE  ObjectsInv'
  BY <1>0, <1>2 DEF ObjectsInv
<1>3. ASSUME NEW s \in Streams, HandleClose(s)
      PROVE  ObjectsInv'
  BY <1>2, <1>3 DEF HandleClose
<1>4. ASSUME NEW o \in handlers, HandlerEnds(o)
      PROVE  ObjectsInv'
  <2>1. o[1] \in Streams
    BY DEF TypeInv, ProgramType, Objects
  <2> QED BY <1>2, <1>4, <2>1 DEF HandlerEnds
<1>5. CASE Sweep("server")
  BY <1>2, <1>5 DEF Sweep
<1>6. CASE UNCHANGED objects
  BY <1>2, <1>6 DEF objects
<1> QED BY <1>1, <1>3, <1>4, <1>5, <1>6, ObjectsKept

LEMMA LoopStep ==
    ASSUME TypeInv, [Next]_vars
    PROVE  LoopInv'
<1>0. LoopInv /\ ObjectsInv /\ Streams' = Streams
  BY Fixed DEF TypeInv
<1> DEFINE Typed == /\ routed' \in BOOLEAN
                    /\ loop' \in [pc : {"recv", "accept", "close"}, s : Streams \cup {0}]
                    /\ loop'.pc = "accept" => loop'.s \in Streams /\ made'[loop'.s] >= 1
<1> SUFFICES Typed
  BY <1>0 DEF LoopInv
<1>1. ASSUME NEW s \in Streams, HandleOpen(s)
      PROVE  Typed
  <2>1. /\ made' = [made EXCEPT ![s] = made[s] + 1] /\ loop' = [pc |-> "accept", s |-> s] /\ routed' = routed
        /\ made[s] \in Nat
    BY <1>0, <1>1 DEF HandleOpen, ObjectsInv
  <2>2. made'[s] = made[s] + 1
    BY <1>0, <2>1 DEF ObjectsInv
  <2> QED BY <1>0, <2>1, <2>2 DEF LoopInv
<1>2. CASE PushStream \/ LoopClosed \/ HandleSessionClose
  <2>1. loop' \in [pc : {"recv", "close"}, s : {0}] /\ routed' = routed
    BY <1>2 DEF PushStream, LoopClosed, HandleSessionClose
  <2> QED BY <1>0, <2>1 DEF LoopInv
<1>3. CASE Expire
  BY <1>0, <1>3 DEF Expire, LoopInv, objects
<1>4. ASSUME UNCHANGED <<loop, routed, made>>
      PROVE  Typed
  BY <1>0, <1>4 DEF LoopInv
<1>5. CASE \/ Interrupt \/ ClientLoop \/ AcceptSession \/ AcceptStream \/ UNCHANGED vars
           \/ \E e \in Ends : Sweep(e)
           \/ \E o \in handlers : HandlerEnds(o)
  <2>1. UNCHANGED <<loop, routed, made>>
    BY <1>5 DEF Interrupt, ClientLoop, ClientReceive, AcceptSession, AcceptStream, Sweep,
       HandlerEnds, vars, server, objects
  <2> QED BY <1>4, <2>1
<1>6. CASE \E s \in Streams : \/ OpenCheck(s) \/ OpenStore(s) \/ Write(s) \/ HandleData(s)
                              \/ Retransmit(s) \/ GiveUp(s) \/ CloseStream(s) \/ HandleClose(s)
  <2>1. UNCHANGED <<loop, routed, made>>
    BY <1>6 DEF OpenCheck, OpenStore, Write, Retransmit, GiveUp, CloseStream, HandleData,
       HandleClose, server, objects
  <2> QED BY <1>4, <2>1
<1> HIDE DEF Typed
<1> QED BY <1>1, <1>2, <1>3, <1>5, <1>6 DEF Next, ServerLoop

LEMMA ProgramStep ==
    ASSUME TypeInv, [Next]_vars
    PROVE  ProgramType'
<1>0. ProgramType /\ Objects' = Objects /\ AcceptCap \in Nat
  BY Fixed, SessionConstantsOK DEF TypeInv
<1> DEFINE Typed == /\ acceptCh' \in Seq(Objects) /\ Len(acceptCh') <= AcceptCap
                    /\ accepting' \in {"queued", "running", "ended"}
                    /\ handlers' \subseteq Objects
<1> SUFFICES Typed
  BY <1>0 DEF ProgramType
<1>1. CASE PushStream
  <2>1. <<loop.s, made[loop.s]>> \in Objects
    <3>1. loop.s \in Streams /\ made[loop.s] >= 1
      BY <1>1 DEF PushStream, TypeInv, LoopInv
    <3>2. made[loop.s] \in Nat /\ made[loop.s] + InFlight(loop.s) <= 1 + dups /\ InFlight(loop.s) \in {0, 1}
      BY <3>1 DEF TypeInv, ObjectsInv, OpenInv, InFlight
    <3>3. dups \in Nat /\ dups <= setting.dups /\ setting.dups \in Nat
      BY SettingType DEF TypeInv, NetType
    <3>4. made[loop.s] \in 1..(1 + setting.dups)
      BY <3>1, <3>2, <3>3
    <3> QED BY <3>1, <3>4 DEF Objects
  <2>2. UNCHANGED <<accepting, handlers>>
    BY <1>1 DEF PushStream
  <2>3. CASE Len(acceptCh) < AcceptCap /\ acceptCh' = Append(acceptCh, <<loop.s, made[loop.s]>>)
    <3>1. acceptCh \in Seq(Objects)
      BY <1>0 DEF ProgramType
    <3>2. /\ Append(acceptCh, <<loop.s, made[loop.s]>>) \in Seq(Objects)
          /\ Len(Append(acceptCh, <<loop.s, made[loop.s]>>)) = Len(acceptCh) + 1
      BY <2>1, <3>1
    <3> QED BY <1>0, <2>2, <2>3, <3>1, <3>2 DEF ProgramType
  <2>4. CASE UNCHANGED acceptCh
    BY <1>0, <2>2, <2>4 DEF ProgramType
  <2> QED BY <1>1, <2>3, <2>4 DEF PushStream
<1>2. CASE AcceptStream
  <2>1. CASE /\ acceptCh # <<>> /\ acceptCh' = Tail(acceptCh) /\ handlers' = handlers \cup {Head(acceptCh)}
             /\ UNCHANGED accepting
    <3>1. acceptCh \in Seq(Objects) /\ Len(acceptCh) <= AcceptCap
      BY <1>0 DEF ProgramType
    <3>2. /\ Head(acceptCh) \in Objects /\ Tail(acceptCh) \in Seq(Objects)
          /\ Len(Tail(acceptCh)) = Len(acceptCh) - 1 /\ Len(acceptCh) \in Nat
      BY <2>1, <3>1, HeadTailProperties
    <3> QED BY <1>0, <2>1, <3>1, <3>2 DEF ProgramType
  <2>2. CASE accepting' = "ended" /\ UNCHANGED <<acceptCh, handlers>>
    BY <1>0, <2>2 DEF ProgramType
  <2> QED BY <1>2, <2>1, <2>2 DEF AcceptStream
<1>3. CASE AcceptSession
  BY <1>0, <1>3 DEF AcceptSession, ProgramType
<1>4. ASSUME NEW o \in handlers, HandlerEnds(o)
      PROVE  Typed
  BY <1>0, <1>4 DEF HandlerEnds, ProgramType
<1>5. ASSUME UNCHANGED <<acceptCh, accepting, handlers>>
      PROVE  Typed
  BY <1>0, <1>5 DEF ProgramType
<1>6. CASE \/ Interrupt \/ Expire \/ ClientLoop \/ LoopClosed \/ HandleSessionClose \/ UNCHANGED vars
           \/ \E e \in Ends : Sweep(e)
  <2>1. UNCHANGED <<acceptCh, accepting, handlers>>
    BY <1>6 DEF Interrupt, Expire, ClientLoop, ClientReceive, LoopClosed,
       HandleSessionClose, Sweep, vars, server
  <2> QED BY <1>5, <2>1
<1>7. CASE \E s \in Streams : \/ OpenCheck(s) \/ OpenStore(s) \/ Write(s) \/ HandleData(s) \/ HandleOpen(s)
                              \/ Retransmit(s) \/ GiveUp(s) \/ CloseStream(s) \/ HandleClose(s)
  <2>1. UNCHANGED <<acceptCh, accepting, handlers>>
    BY <1>7 DEF OpenCheck, OpenStore, Write, Retransmit, GiveUp, CloseStream, HandleData,
       HandleOpen, HandleClose, server
  <2> QED BY <1>5, <2>1
<1> HIDE DEF Typed
<1> QED BY <1>1, <1>2, <1>3, <1>4, <1>6, <1>7 DEF Next, ServerLoop

---------------------------------------------------------------------------
(* The theorems. *)

\* The initial states satisfy the invariant, and what arrives in the sessions is
\* counted by it.
LEMMA TypeInductive ==
    /\ Init => TypeInv
    /\ TypeInv /\ [Next]_vars => TypeInv'
<1>1. ASSUME Init PROVE TypeInv
  <2>1. setting \in Settings /\ setting.dups \in Nat /\ setting.retries \in Nat /\ AcceptCap \in Nat
    BY <1>1, SettingType, SessionConstantsOK DEF Init
  <2>2. SessionType /\ ClientType
    BY <1>1, <2>1 DEF Init, SessionType, ClientType
  <2>3. NetType /\ Len(net["server"]) = 0
    BY <1>1, <2>1 DEF Init, NetType, Ends
  <2>4. \A s \in Streams : ~Has(net["server"], Opening(s)) /\ AtMostOnce(net["server"], Opening(s))
    BY <2>3 DEF Has, AtMostOnce
  <2>5. OpenInv
    BY <1>1, <2>4 DEF Init, OpenInv, InFlight
  <2>6. ObjectsInv /\ LoopInv
    BY <1>1 DEF Init, ObjectsInv, LoopInv
  <2>7. ProgramType
    BY <1>1, <2>1 DEF Init, ProgramType
  <2> QED BY <2>1, <2>2, <2>3, <2>5, <2>6, <2>7 DEF TypeInv
<1>2. ASSUME TypeInv, [Next]_vars PROVE TypeInv'
  <2>1. (setting \in Settings)'
    BY <1>2, Fixed DEF TypeInv
  <2> QED BY <1>2, <2>1, SessionStep, NetStep, ClientStep, OpenStep, ObjectsStep, LoopStep,
             ProgramStep
          DEF TypeInv
<1> QED BY <1>1, <1>2

\* Sessions, streams, queues and handlers keep their types and capacities; in
\* particular the server makes one object of a stream and one for each repetition of its
\* OPEN, and what the program is given was made.
THEOREM TypeCorrect == Spec => []TypeOK
<1>1. TypeInv => TypeOK
  <2> SUFFICES ASSUME TypeInv PROVE TypeOK
    OBVIOUS
  <2>1. dups \in 0..setting.dups
    BY SettingType DEF TypeInv, NetType
  <2>2. made \in [Streams -> 0..(1 + setting.dups)]
    <3>1. \A s \in Streams : made[s] \in Nat /\ made[s] + InFlight(s) <= 1 + dups /\ InFlight(s) \in {0, 1}
      BY DEF TypeInv, ObjectsInv, OpenInv, InFlight
    <3>2. setting.dups \in Nat /\ dups \in Nat /\ dups <= setting.dups
      BY SettingType DEF TypeInv, NetType
    <3>3. \A s \in Streams : made[s] \in 0..(1 + setting.dups)
      BY <3>1, <3>2
    <3> QED BY <3>3 DEF TypeInv, ObjectsInv
  <2>3. \A s \in Streams : smap[s] \in 0..made[s]
    BY DEF TypeInv, ObjectsInv
  <2> QED BY <2>1, <2>2, <2>3 DEF TypeInv, SessionType, NetType, ClientType, ObjectsInv,
             LoopInv, ProgramType, TypeOK
<1> QED BY TypeInductive, <1>1, PTL DEF Spec

\* Each step keeps the server's unclosed streams reachable, but for the two cases.
LEMMA ReachStep ==
    ASSUME TypeInv, ObjectsReachable, [Next]_vars
    PROVE  ObjectsReachable'
<1>0. /\ ObjectsInv
      /\ \A o \in live : /\ o \in Objects /\ o = <<o[1], o[2]>> /\ o[1] \in Streams /\ o[2] \in Nat
                         /\ o[2] >= 1 /\ o[2] <= made[o[1]] /\ made[o[1]] \in Nat
  BY DEF TypeInv, ObjectsInv, Objects
<1>1. \A o \in live : \/ smap[o[1]] = o[2] /\ session["server"] \in {"open", "sweep"}
                      \/ made[o[1]] > 1
                      \/ o \in late
  BY DEF ObjectsReachable
<1>2. ASSUME NEW s \in Streams, HandleOpen(s)
      PROVE  ObjectsReachable'
  <2>1. /\ made' = [made EXCEPT ![s] = made[s] + 1] /\ smap' = [smap EXCEPT ![s] = made[s] + 1]
        /\ live' = live \cup {<<s, made[s] + 1>>} /\ UNCHANGED session
        /\ late' = IF session["server"] \in {"open", "sweep"} THEN late
                   ELSE late \cup {<<s, made[s] + 1>>}
    BY <1>0, <1>2 DEF HandleOpen, ObjectsInv
  <2>2. made[s] \in Nat /\ made'[s] = made[s] + 1 /\ smap'[s] = made[s] + 1
        /\ \A t \in Streams \ {s} : made'[t] = made[t] /\ smap'[t] = smap[t]
    BY <1>0, <2>1 DEF ObjectsInv
  <2>3. ASSUME NEW o \in live
        PROVE  \/ smap'[o[1]] = o[2] /\ session'["server"] \in {"open", "sweep"}
               \/ made'[o[1]] > 1
               \/ o \in late'
    <3>1. CASE o[1] = s
      BY <1>0, <2>2, <3>1
    <3>2. CASE o[1] # s
      BY <1>0, <1>1, <2>1, <2>2, <3>2
    <3> QED BY <3>1, <3>2
  <2>4. \/ smap'[s] = made[s] + 1 /\ session'["server"] \in {"open", "sweep"}
        \/ <<s, made[s] + 1>> \in late'
    BY <2>1, <2>2
  <2> QED BY <2>1, <2>3, <2>4 DEF ObjectsReachable
<1>3. ASSUME NEW s \in Streams, HandleClose(s)
      PROVE  ObjectsReachable'
  <2>1. /\ live' = live \ {<<s, smap[s]>>} /\ smap' = [smap EXCEPT ![s] = 0]
        /\ UNCHANGED <<session, made, late>>
    BY <1>3 DEF HandleClose
  <2>2. \A o \in live' : o \in live /\ ~(o[1] = s /\ o[2] = smap[s])
    BY <1>0, <2>1
  <2>3. \A o \in live' : o[1] # s => smap'[o[1]] = smap[o[1]]
    BY <1>0, <2>1, <2>2 DEF ObjectsInv
  <2> QED BY <1>1, <2>1, <2>2, <2>3 DEF ObjectsReachable
<1>4. ASSUME NEW o \in handlers, HandlerEnds(o)
      PROVE  ObjectsReachable'
  <2>1. CASE o \in live
    <3>1. /\ live' = live \ {o} /\ smap' = [smap EXCEPT ![o[1]] = 0]
          /\ UNCHANGED <<session, made, late>>
      BY <1>4, <2>1 DEF HandlerEnds
    <3>2. ASSUME NEW u \in live'
          PROVE  \/ smap'[u[1]] = u[2] /\ session'["server"] \in {"open", "sweep"}
                 \/ made'[u[1]] > 1
                 \/ u \in late'
      <4>1. u \in live /\ u # o
        BY <3>1
      <4>2. CASE u[1] = o[1]
        <5>1. u[2] # o[2]
          BY <1>0, <2>1, <4>1, <4>2
        <5> QED BY <1>0, <2>1, <3>1, <4>1, <4>2, <5>1
      <4>3. CASE u[1] # o[1]
        <5>1. smap'[u[1]] = smap[u[1]]
          BY <1>0, <2>1, <3>1, <4>1, <4>3 DEF ObjectsInv
        <5> QED BY <1>1, <3>1, <4>1, <5>1
      <4> QED BY <4>2, <4>3
    <3> QED BY <3>2 DEF ObjectsReachable
  <2>2. CASE o \notin live
    BY <1>1, <1>4, <2>2 DEF HandlerEnds, ObjectsReachable
  <2> QED BY <2>1, <2>2
<1>5. CASE Sweep("server")
  <2>1. live' = {o \in live : smap[o[1]] # o[2]} /\ UNCHANGED <<made, late>>
    BY <1>5 DEF Sweep
  <2> QED BY <1>1, <2>1 DEF ObjectsReachable
<1>6. ASSUME UNCHANGED objects, ~Sweep("server")
      PROVE  ObjectsReachable'
  BY <1>1, <1>6, SessionStep DEF objects, ObjectsReachable
<1> QED BY <1>2, <1>3, <1>4, <1>5, <1>6, ObjectsKept

\* A stream of the server that is not marked closed can be reached by CLOSE and by the
\* session's Close, unless its OPEN arrived twice or was handled after the sweep.
THEOREM UnclosedAreReachable == Spec => []ObjectsReachable
<1>1. Init => ObjectsReachable
  BY DEF Init, ObjectsReachable
<1> QED BY TypeInductive, ReachStep, <1>1, PTL DEF Spec
===============================================================================
