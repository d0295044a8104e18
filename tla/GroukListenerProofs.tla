------------------------- MODULE GroukListenerProofs -------------------------
(***************************************************************************)
(* Proofs about GroukListener, for any number of clients, any limits and   *)
(* capacities, and networks that lose and delay packets.                   *)
(***************************************************************************)
EXTENDS GroukListener, FiniteSetTheorems, TLAPS

LEMMA NoIdIsId == NoId \in Ids
  BY ConstantsOK DEF NoId, Ids

\* A packet names the session it is about, or the client of an INIT.
LEMMA PacketTypes ==
    ASSUME NEW id \in Ids
    PROVE  /\ id \in Clients \X (1..MaxRate) /\ Owner(id) \in Clients
           /\ \A t \in {"RESP", "AUTH", "DONE", "CLOSE_client", "CLOSE_server"} :
                 Packet(t, id) \in Packets
  BY DEF Ids, Owner, Packet, Packets

LEMMA InitPackets ==
    ASSUME NEW c \in Clients
    PROVE  Packet("INIT", <<c, 0>>) \in Packets
  BY DEF Packet, Packets

ClientsTypeOK ==
    /\ setting \in Settings
    /\ client \in [Clients -> [pc : {"init", "auth", "up", "failed", "closed"},
                               tries : 0..setting.tries, id : Ids]]
    /\ rate \in [Clients -> 0..MaxRate]

NetworkTypeOK == net \subseteq Packets /\ losses \in 0..setting.loss /\ spoiled \subseteq Clients

PendingTypeOK ==
    /\ hs \in [Ids -> {"none", "started", "replied", "stored", "counted"}]
    /\ pendingAuth \subseteq Ids /\ pendingCount \in Int
    /\ old \subseteq Ids /\ expiring \subseteq Ids

AcceptedTypeOK ==
    /\ sessions \subseteq Ids /\ closed \subseteq Ids
    /\ active \subseteq Ids /\ Cardinality(active) <= MaxSessions
    /\ acceptCh \in Seq(Ids) /\ Len(acceptCh) <= AcceptCap

LoopTypeOK == loop \in {"recv", "verify", "accept"} \X Ids

LEMMA TypeParts ==
    TypeOK <=> ClientsTypeOK /\ NetworkTypeOK /\ PendingTypeOK /\ AcceptedTypeOK /\ LoopTypeOK
  BY DEF TypeOK, ClientsTypeOK, NetworkTypeOK, PendingTypeOK, AcceptedTypeOK, LoopTypeOK

\* What ClientsTypeOK says of one client, and of the setting.
LEMMA SettingTypes ==
    ASSUME ClientsTypeOK
    PROVE  /\ setting.loss \in Nat /\ setting.tries \in Nat \ {0}
           /\ setting.clients \subseteq Clients
  BY ConstantsOK DEF ClientsTypeOK

\* There are finitely many sessions.
LEMMA FiniteIds ==
    ASSUME NEW S \in SUBSET Ids
    PROVE  IsFiniteSet(S)
<1>1. IsFiniteSet(1..MaxRate)
  BY FS_Interval, ConstantsOK
<1>2. IsFiniteSet(Ids)
  BY <1>1, FS_Product, ConstantsOK DEF Ids
<1> QED BY <1>2, FS_Subset

---------------------------------------------------------------------------
(* Types, one part after the other.                                        *)

LEMMA ClientsStep ==
    ASSUME TypeOK, [Next]_vars
    PROVE  ClientsTypeOK'
<1>1. ClientsTypeOK /\ setting.tries \in Nat \ {0}
  BY TypeParts, SettingTypes
<1>2. ASSUME UNCHANGED clients
      PROVE  ClientsTypeOK'
  BY <1>1, <1>2 DEF clients, ClientsTypeOK
<1>3. ASSUME NEW c \in Clients, UNCHANGED <<setting, rate>>,
             NEW v \in [pc : {"init", "auth", "up", "failed", "closed"},
                        tries : 0..setting.tries, id : Ids],
             client' = [client EXCEPT ![c] = v]
      PROVE  ClientsTypeOK'
  BY <1>1, <1>3 DEF ClientsTypeOK
<1>4. ASSUME NEW c \in Clients, ClientStep(c) \/ ClientClosed(c)
      PROVE  ClientsTypeOK'
  <2> USE <1>1 DEF ClientsTypeOK
  <2>1. CASE ClientInit(c) \/ ClientResend(c)
    <3>1. client[c].tries + 1 \in 0..setting.tries
      BY <2>1 DEF ClientInit, ClientResend
    <3>2. client' = [client EXCEPT ![c] = [client[c] EXCEPT !.tries = client[c].tries + 1]]
      BY <2>1 DEF ClientInit, ClientResend
    <3> QED BY <1>3, <2>1, <3>1, <3>2 DEF ClientInit, ClientResend
  <2>2. ASSUME NEW id \in Ids, ClientResp(c, id)
        PROVE  ClientsTypeOK'
    BY <1>3, <2>2 DEF ClientResp
  <2>3. CASE ClientDone(c) \/ ClientTimeout(c) \/ ClientClosed(c)
    <3>1. PICK v \in {"up", "failed", "closed"} : client' = [client EXCEPT ![c] = [client[c] EXCEPT !.pc = v]]
      BY <2>3 DEF ClientDone, ClientTimeout, ClientClosed
    <3> QED BY <1>3, <2>3, <3>1 DEF ClientDone, ClientTimeout, ClientClosed
  <2> QED BY <1>4, <2>1, <2>2, <2>3 DEF ClientStep
<1>5. ASSUME NEW c \in Clients, HandleInit(c)
      PROVE  ClientsTypeOK'
  <2>1. UNCHANGED <<setting, client>>
    BY <1>5 DEF HandleInit
  <2>2. CASE rate[c] < MaxRate
    <3>1. rate' = [rate EXCEPT ![c] = @ + 1]
      BY <1>5, <2>2, <1>1, ConstantsOK DEF HandleInit, ClientsTypeOK
    <3> QED BY <1>1, <2>1, <2>2, <3>1, ConstantsOK DEF ClientsTypeOK
  <2>3. CASE ~(rate[c] < MaxRate)
    <3>1. rate' = rate
      BY <1>5, <2>3 DEF HandleInit
    <3> QED BY <1>1, <2>1, <3>1 DEF ClientsTypeOK
  <2> QED BY <2>2, <2>3
<1>6. ASSUME NEW id \in Ids, HandshakeStep(id) \/ CleanStep(id) \/ Age(id) \/ HandleSessionEnd(id)
      PROVE  UNCHANGED clients
  BY <1>6 DEF HandshakeStep, Reply, StorePending, CountPending, CleanStep, ExpireLoad, Expire,
       ExpireSession, Age, HandleSessionEnd
<1>7. ASSUME NEW p, ClientIgnore(p) \/ Lose(p)
      PROVE  UNCHANGED clients
  BY <1>7 DEF ClientIgnore, Lose
<1>8. ASSUME NEW id \in Ids, HandleAuth(id) \/ HandleClose(id)
      PROVE  UNCHANGED clients
  BY <1>8 DEF HandleAuth, HandleClose
<1>9. CASE Verify \/ LoopAccept \/ Accept
  BY <1>2, <1>9 DEF Verify, LoopAccept, Accept
<1>10. CASE UNCHANGED vars
  BY <1>2, <1>10 DEF vars
<1> QED BY <1>2, <1>4, <1>5, <1>6, <1>7, <1>8, <1>9, <1>10 DEF Next, LoopStep

LEMMA NetworkStep ==
    ASSUME TypeOK, [Next]_vars
    PROVE  NetworkTypeOK'
<1>1. /\ ClientsTypeOK /\ NetworkTypeOK /\ LoopTypeOK /\ AcceptedTypeOK
      /\ setting' = setting /\ setting.loss \in Nat
  <2>1. setting' = setting
    BY ZenonT(60) DEF Next, ClientStep, ClientInit, ClientResend, ClientDone, ClientTimeout, ClientResp,
         ClientClosed, HandshakeStep, Reply, StorePending, CountPending, CleanStep, ExpireLoad,
         Expire, ExpireSession, Age, HandleSessionEnd, ClientIgnore, Lose, LoopStep, HandleInit,
         HandleAuth, HandleClose, Verify, LoopAccept, Accept, vars, clients
  <2> QED BY <2>1, TypeParts, SettingTypes
<1> USE <1>1 DEF NetworkTypeOK
<1>2. ASSUME UNCHANGED <<losses, spoiled>>,
             \/ net' \subseteq net
             \/ \E p \in Packets : net' \subseteq net \cup {p}
      PROVE  NetworkTypeOK'
  BY <1>2
<1>3. ASSUME NEW c \in Clients, ClientStep(c) \/ ClientClosed(c)
      PROVE  NetworkTypeOK'
  <2>1. client[c].id \in Ids
    BY DEF ClientsTypeOK
  <2>2. UNCHANGED <<losses, spoiled>>
    BY <1>3 DEF ClientStep, ClientInit, ClientResend, ClientDone, ClientTimeout, ClientResp,
       ClientClosed
  <2>3. \/ net' \subseteq net
        \/ net' = net \cup {Packet("INIT", <<c, 0>>)}
        \/ \E id \in Ids : net' \subseteq net \cup {Packet("AUTH", id)}
        \/ \E id \in Ids : net' \subseteq net \cup {Packet("CLOSE_server", id)}
    BY <1>3, <2>1 DEF ClientStep, ClientInit, ClientResend, ClientDone, ClientTimeout,
       ClientResp, ClientClosed
  <2> QED BY <1>2, <2>2, <2>3, InitPackets, PacketTypes
<1>4. ASSUME NEW c \in Clients, HandleInit(c)
      PROVE  NetworkTypeOK'
  BY <1>4 DEF HandleInit
<1>5. ASSUME NEW id \in Ids, HandshakeStep(id) \/ CleanStep(id) \/ Age(id) \/ HandleSessionEnd(id)
      PROVE  NetworkTypeOK'
  <2>1. UNCHANGED <<losses, spoiled>>
    BY <1>5 DEF HandshakeStep, Reply, StorePending, CountPending, CleanStep, ExpireLoad, Expire,
         ExpireSession, Age, HandleSessionEnd, network
  <2>2. \/ net' = net
        \/ net' = net \cup {Packet("RESP", id)}
        \/ net' = net \cup {Packet("CLOSE_client", id)}
    BY <1>5 DEF HandshakeStep, Reply, StorePending, CountPending, CleanStep, ExpireLoad, Expire,
         ExpireSession, Age, HandleSessionEnd, network
  <2> QED BY <1>2, <2>1, <2>2, PacketTypes
<1>6. ASSUME NEW p \in net, ClientIgnore(p)
      PROVE  NetworkTypeOK'
  BY <1>2, <1>6 DEF ClientIgnore
<1>7. ASSUME NEW p \in net, Lose(p)
      PROVE  NetworkTypeOK'
  <2>1. Owner(p.id) \in Clients
    <3>1. p \in Packets
      OBVIOUS
    <3> QED BY <3>1 DEF Packets, Owner, Ids
  <2>2. losses' \in 0..setting.loss
    BY <1>7 DEF Lose
  <2> QED BY <1>7, <2>1, <2>2 DEF Lose
<1>8. ASSUME NEW id \in Ids, HandleAuth(id) \/ HandleClose(id)
      PROVE  NetworkTypeOK'
  <2>1. UNCHANGED <<losses, spoiled>> /\ net' \subseteq net \cup {Packet("CLOSE_client", id)}
    BY <1>8 DEF HandleAuth, HandleClose
  <2> QED BY <1>2, <2>1, PacketTypes
<1>9. CASE Verify
  <2>1. loop[2] \in Ids
    BY DEF LoopTypeOK
  <2>2. /\ UNCHANGED <<losses, spoiled>>
        /\ \/ net' \subseteq net
           \/ net' = net \cup {Packet("CLOSE_client", loop[2])}
           \/ net' = net \cup {Packet("DONE", loop[2])}
    BY <1>9 DEF Verify
  <2> QED BY <1>2, <2>1, <2>2, PacketTypes
<1>10. CASE Accept
  <2>1. Head(acceptCh) \in Ids
    BY <1>10 DEF Accept, AcceptedTypeOK
  <2>2. /\ UNCHANGED <<losses, spoiled>>
        /\ \/ net' = net
           \/ net' = net \cup {Packet("CLOSE_client", Head(acceptCh))}
    BY <1>10 DEF Accept
  <2> QED BY <1>2, <2>1, <2>2, PacketTypes
<1>11. CASE LoopAccept \/ UNCHANGED vars
  BY <1>2, <1>11 DEF LoopAccept, vars, network
<1> QED BY <1>3, <1>4, <1>5, <1>6, <1>7, <1>8, <1>9, <1>10, <1>11 DEF Next, LoopStep

\* One more element, or one element fewer.
LEMMA Counting ==
    ASSUME NEW S \in SUBSET Ids, NEW id \in Ids
    PROVE  /\ Cardinality(S) \in Nat
           /\ id \notin S => Cardinality(S \cup {id}) = Cardinality(S) + 1
           /\ id \in S => Cardinality(S \ {id}) = Cardinality(S) - 1
           /\ Cardinality(S \cup {id}) <= Cardinality(S) + 1
           /\ Cardinality(S \ {id}) <= Cardinality(S)
<1>1. IsFiniteSet(S)
  BY FiniteIds
<1>2. Cardinality(S) \in Nat
  BY <1>1, FS_CardinalityType
<1>3. id \notin S => Cardinality(S \cup {id}) = Cardinality(S) + 1
  BY <1>1, FS_AddElement
<1>4. id \in S => Cardinality(S \ {id}) = Cardinality(S) - 1
  BY <1>1, FS_RemoveElement
<1>5. (id \in S => S \cup {id} = S) /\ (id \notin S => S \ {id} = S)
  OBVIOUS
<1> QED BY <1>2, <1>3, <1>4, <1>5

LEMMA PendingStep ==
    ASSUME TypeOK, [Next]_vars
    PROVE  PendingTypeOK'
<1> USE TypeParts DEF PendingTypeOK
<1>1. ASSUME UNCHANGED pending
      PROVE  PendingTypeOK'
  BY <1>1 DEF pending
<1>2. ASSUME NEW c \in Clients, ClientStep(c) \/ ClientClosed(c)
      PROVE  UNCHANGED pending
  BY <1>2 DEF ClientStep, ClientInit, ClientResend, ClientDone, ClientTimeout, ClientResp,
     ClientClosed
<1>3. ASSUME NEW c \in Clients, HandleInit(c)
      PROVE  PendingTypeOK'
  <2>1. hs' = hs \/ \E id : hs' = [hs EXCEPT ![id] = "started"]
    BY <1>3 DEF HandleInit
  <2>2. UNCHANGED <<pendingAuth, pendingCount, old, expiring>>
    BY <1>3 DEF HandleInit
  <2> QED BY <2>1, <2>2
<1>4. ASSUME NEW id \in Ids, HandshakeStep(id) \/ CleanStep(id) \/ Age(id) \/ HandleSessionEnd(id)
      PROVE  PendingTypeOK'
  BY <1>4 DEF HandshakeStep, Reply, StorePending, CountPending, CleanStep, ExpireLoad, Expire,
       ExpireSession, Age, HandleSessionEnd, pending
<1>5. ASSUME NEW p, ClientIgnore(p) \/ Lose(p)
      PROVE  UNCHANGED pending
  BY <1>5 DEF ClientIgnore, Lose
<1>6. ASSUME NEW id \in Ids, HandleAuth(id) \/ HandleClose(id)
      PROVE  UNCHANGED pending
  BY <1>6 DEF HandleAuth, HandleClose
<1>7. CASE Verify
  BY <1>7 DEF Verify
<1>8. CASE LoopAccept \/ Accept \/ UNCHANGED vars
  BY <1>1, <1>8 DEF LoopAccept, Accept, vars
<1> QED BY <1>1, <1>2, <1>3, <1>4, <1>5, <1>6, <1>7, <1>8 DEF Next, LoopStep

LEMMA LoopTypeStep ==
    ASSUME TypeOK, [Next]_vars
    PROVE  LoopTypeOK'
<1> USE TypeParts DEF LoopTypeOK
<1>1. ASSUME NEW id \in Ids, HandleAuth(id)
      PROVE  LoopTypeOK'
  BY <1>1 DEF HandleAuth
<1>2. CASE Verify
  BY <1>2, NoIdIsId DEF Verify, Receiving
<1>3. CASE LoopAccept
  BY <1>3, NoIdIsId DEF LoopAccept, Receiving
<1>4. \/ loop' = loop
      \/ \E id \in Ids : HandleAuth(id)
      \/ Verify \/ LoopAccept
  BY ZenonT(60) DEF Next, ClientStep, ClientInit, ClientResend, ClientDone, ClientTimeout, ClientResp,
       ClientClosed, HandshakeStep, Reply, StorePending, CountPending, CleanStep, ExpireLoad,
       Expire, ExpireSession, Age, HandleSessionEnd, ClientIgnore, Lose, LoopStep, HandleInit,
       HandleClose, Accept, vars
<1> QED BY <1>1, <1>2, <1>3, <1>4

LEMMA AcceptedStep ==
    ASSUME TypeOK, [Next]_vars
    PROVE  AcceptedTypeOK'
<1>1. AcceptedTypeOK /\ LoopTypeOK
  BY TypeParts
<1>2. ASSUME UNCHANGED accepted
      PROVE  AcceptedTypeOK'
  BY <1>1, <1>2 DEF accepted, AcceptedTypeOK
<1>3. ASSUME UNCHANGED <<active, acceptCh>>, NEW id \in Ids,
             sessions' \subseteq sessions \cup {id}, closed' \subseteq closed \cup {id}
      PROVE  AcceptedTypeOK'
  BY <1>1, <1>3 DEF AcceptedTypeOK
<1>4. ASSUME NEW id \in Ids, HandshakeStep(id) \/ ExpireLoad(id) \/ Age(id)
      PROVE  UNCHANGED accepted
  BY <1>4 DEF HandshakeStep, Reply, StorePending, CountPending, ExpireLoad, Age, accepted
<1>5. ASSUME NEW id \in Ids, Expire(id) \/ ExpireSession(id) \/ HandleClose(id)
      PROVE  AcceptedTypeOK'
  BY <1>3, <1>5 DEF Expire, ExpireSession, HandleClose
<1>6. ASSUME NEW id \in Ids, HandleSessionEnd(id)
      PROVE  AcceptedTypeOK'
  <2>1. active' = active \ {id} /\ UNCHANGED <<sessions, closed, acceptCh>>
    BY <1>6 DEF HandleSessionEnd
  <2>2. Cardinality(active') <= MaxSessions
    <3>1. active \in SUBSET Ids /\ Cardinality(active) <= MaxSessions
      BY <1>1 DEF AcceptedTypeOK
    <3>2. Cardinality(active \ {id}) <= Cardinality(active) /\ Cardinality(active) \in Nat
      BY <3>1, Counting
    <3>3. Cardinality(active \ {id}) \in Nat
      BY <3>1, Counting
    <3> QED BY <2>1, <3>1, <3>2, <3>3, ConstantsOK
  <2> QED BY <1>1, <2>1, <2>2 DEF AcceptedTypeOK
<1>7. CASE Verify
  <2>1. loop[2] \in Ids
    BY <1>1 DEF LoopTypeOK
  <2> QED BY <1>3, <1>7, <2>1 DEF Verify
<1>8. CASE LoopAccept
  <2>1. loop[2] \in Ids
    BY <1>1 DEF LoopTypeOK
  <2>2. acceptCh' = Append(acceptCh, loop[2]) /\ Len(acceptCh) < AcceptCap
        /\ UNCHANGED <<sessions, closed, active>>
    BY <1>8 DEF LoopAccept
  <2> QED BY <1>1, <2>1, <2>2, ConstantsOK DEF AcceptedTypeOK
<1>9. CASE Accept
  <2> DEFINE id == Head(acceptCh)
  <2>1. id \in Ids /\ acceptCh' \in Seq(Ids) /\ Len(acceptCh') <= AcceptCap
    BY <1>1, <1>9, ConstantsOK DEF Accept, AcceptedTypeOK
  <2>2. CASE active' = active \cup {id} /\ Cardinality(active) < MaxSessions /\ UNCHANGED closed
    <3>1. Cardinality(active') <= MaxSessions
      <4>1. active \in SUBSET Ids /\ active' \in SUBSET Ids
        BY <1>1, <2>1, <2>2 DEF AcceptedTypeOK
      <4>2. Cardinality(active \cup {id}) <= Cardinality(active) + 1
        BY <2>1, <4>1, Counting
      <4>3. Cardinality(active) \in Nat /\ Cardinality(active') \in Nat
        BY <2>1, <4>1, Counting
      <4> QED BY <2>2, <4>2, <4>3, ConstantsOK
    <3> QED BY <1>1, <1>9, <2>1, <2>2, <3>1 DEF Accept, AcceptedTypeOK
  <2>3. CASE active' = active /\ closed' = closed \cup {id}
    BY <1>1, <1>9, <2>1, <2>3 DEF Accept, AcceptedTypeOK
  <2> QED BY <1>9, <2>2, <2>3 DEF Accept
<1>10. ASSUME NEW c \in Clients, ClientStep(c) \/ ClientClosed(c) \/ HandleInit(c)
       PROVE  UNCHANGED accepted
  BY <1>10 DEF ClientStep, ClientInit, ClientResend, ClientDone, ClientTimeout, ClientResp,
       ClientClosed, HandleInit
<1>11. ASSUME NEW p, ClientIgnore(p) \/ Lose(p)
       PROVE  UNCHANGED accepted
  BY <1>11 DEF ClientIgnore, Lose
<1>12. ASSUME NEW id \in Ids, HandleAuth(id)
       PROVE  UNCHANGED accepted
  BY <1>12 DEF HandleAuth
<1>13. CASE UNCHANGED vars
  BY <1>2, <1>13 DEF vars
<1> QED BY <1>2, <1>4, <1>5, <1>6, <1>7, <1>8, <1>9, <1>10, <1>11, <1>12, <1>13
        DEF Next, LoopStep, CleanStep

\* Every variable keeps to its type: in particular the rate limiter admits no
\* more than its limit, acceptCh keeps its capacity, and the server handles no
\* more sessions than MaxSessions.
THEOREM TypeCorrect == Spec => []TypeOK
<1>1. Init => TypeOK
  <2> SUFFICES ASSUME Init PROVE TypeOK
    OBVIOUS
  <2>1. setting \in Settings /\ setting.tries \in Nat \ {0} /\ setting.loss \in Nat
    BY ConstantsOK DEF Init
  <2>2. ClientsTypeOK
    BY <2>1, NoIdIsId, ConstantsOK DEF Init, ClientsTypeOK
  <2>3. NetworkTypeOK /\ PendingTypeOK
    BY <2>1 DEF Init, NetworkTypeOK, PendingTypeOK
  <2>4. AcceptedTypeOK
    <3>1. Cardinality({}) = 0
      BY FS_EmptySet
    <3>2. acceptCh = <<>> /\ active = {} /\ sessions = {} /\ closed = {}
      BY DEF Init
    <3> QED BY <3>1, <3>2, ConstantsOK DEF AcceptedTypeOK
  <2>5. LoopTypeOK
    BY NoIdIsId DEF Init, LoopTypeOK, Receiving
  <2> QED BY <2>2, <2>3, <2>4, <2>5, TypeParts
<1>2. TypeOK /\ [Next]_vars => TypeOK'
  BY ClientsStep, NetworkStep, PendingStep, AcceptedStep, LoopTypeStep
     DEF TypeOK, ClientsTypeOK, NetworkTypeOK, PendingTypeOK, AcceptedTypeOK, LoopTypeOK
<1> QED BY <1>1, <1>2, PTL DEF Spec

---------------------------------------------------------------------------
(* The pending sessions are counted exactly.                               *)

\* No AUTH for this session is on its way or will ever be sent.
AuthGone(id) ==
    /\ Packet("AUTH", id) \notin net
    /\ client[Owner(id)].pc # "init"
    /\ client[Owner(id)].pc = "auth" => client[Owner(id)].id # id

\* A handshake that the rate limiter has not admitted has not begun, and a
\* session waits for AUTH only after its handshake stored it.  On a timely
\* network the read loop verifies, and the cleanup expires, sessions that wait,
\* and never the same one: the AUTH of an old session is gone.
PendingInv ==
    /\ \A c \in Clients : client[c].pc = "auth" => Owner(client[c].id) = c
    /\ \A id \in Ids : id[2] > rate[Owner(id)] => hs[id] = "none"
    /\ \A id \in pendingAuth : hs[id] \in {"stored", "counted"}
    /\ Timely =>
          /\ \A id \in old : AuthGone(id)
          /\ loop[1] = "verify" => loop[2] \in pendingAuth \ old
          /\ expiring \subseteq pendingAuth \cap old

Stored == {id \in Ids : hs[id] = "stored"}

LEMMA SettingKept ==
    ASSUME [Next]_vars
    PROVE  setting' = setting /\ (Timely' <=> Timely)
<1>1. setting' = setting
  BY ZenonT(60) DEF Next, ClientStep, ClientInit, ClientResend, ClientDone, ClientTimeout, ClientResp,
       ClientClosed, HandshakeStep, Reply, StorePending, CountPending, CleanStep, ExpireLoad,
       Expire, ExpireSession, Age, HandleSessionEnd, ClientIgnore, Lose, LoopStep, HandleInit,
       HandleAuth, HandleClose, Verify, LoopAccept, Accept, vars, clients
<1> QED BY <1>1 DEF Timely

LEMMA DifferentPackets ==
    ASSUME NEW t, NEW u, NEW i, NEW j, Packet(t, i) = Packet(u, j)
    PROVE  t = u /\ i = j
  BY DEF Packet

\* A client in "auth" holds a session of its own.
LEMMA OwnSession ==
    ASSUME TypeOK, PendingInv, [Next]_vars
    PROVE  \A c \in Clients : client'[c].pc = "auth" => Owner(client'[c].id) = c
<1>0. ClientsTypeOK /\ \A c \in Clients : client[c].pc = "auth" => Owner(client[c].id) = c
  BY TypeParts DEF PendingInv
<1>1. ASSUME NEW c \in Clients, NEW id \in Ids, ClientResp(c, id)
      PROVE  \A d \in Clients : client'[d].pc = "auth" => Owner(client'[d].id) = d
  BY <1>0, <1>1 DEF ClientsTypeOK, ClientResp
<1>2. ASSUME NEW c \in Clients, ClientInit(c) \/ ClientResend(c)
      PROVE  \A d \in Clients : client'[d].pc = client[d].pc /\ client'[d].id = client[d].id
  BY <1>0, <1>2 DEF ClientsTypeOK, ClientInit, ClientResend
<1>3. ASSUME NEW c \in Clients, ClientDone(c) \/ ClientTimeout(c) \/ ClientClosed(c)
      PROVE  \A d \in Clients :
                /\ client'[d].id = client[d].id
                /\ client'[d].pc = "auth" => client[d].pc = "auth"
  BY <1>0, <1>3 DEF ClientsTypeOK, ClientDone, ClientTimeout, ClientClosed
<1>4. \/ client' = client
      \/ \E c \in Clients :
            \/ \E id \in Ids : ClientResp(c, id)
            \/ ClientInit(c) \/ ClientResend(c)
            \/ ClientDone(c) \/ ClientTimeout(c) \/ ClientClosed(c)
  BY DEF Next, ClientStep, HandshakeStep, Reply, StorePending, CountPending, CleanStep,
     ExpireLoad, Expire, ExpireSession, Age, HandleSessionEnd, ClientIgnore, Lose, LoopStep,
     HandleInit, HandleAuth, HandleClose, Verify, LoopAccept, Accept, vars, clients
<1>5. ASSUME client' = client
      PROVE  \A d \in Clients : client'[d].pc = "auth" => Owner(client'[d].id) = d
  BY <1>0, <1>5
<1>6. ASSUME NEW c \in Clients, ClientInit(c) \/ ClientResend(c)
      PROVE  \A d \in Clients : client'[d].pc = "auth" => Owner(client'[d].id) = d
  BY <1>0, <1>2, <1>6
<1>7. ASSUME NEW c \in Clients, ClientDone(c) \/ ClientTimeout(c) \/ ClientClosed(c)
      PROVE  \A d \in Clients : client'[d].pc = "auth" => Owner(client'[d].id) = d
  BY <1>0, <1>3, <1>7
<1> QED BY <1>1, <1>4, <1>5, <1>6, <1>7

\* The AUTH of a session that is gone does not come back.
LEMMA GoneForGood ==
    ASSUME TypeOK, PendingInv, [Next]_vars, NEW id \in Ids, AuthGone(id)
    PROVE  AuthGone(id)'
<1> DEFINE me == Owner(id)
<1>1. /\ me \in Clients /\ ClientsTypeOK
      /\ \A c \in Clients : client[c].pc = "auth" => Owner(client[c].id) = c
  BY PacketTypes, TypeParts DEF PendingInv
<1>2. ASSUME NEW q, NEW t, t # "AUTH", net' \subseteq net \cup {Packet(t, q)}
      PROVE  Packet("AUTH", id) \notin net'
  <2>1. Packet("AUTH", id) # Packet(t, q)
    BY <1>2, DifferentPackets
  <2> QED BY <1>2, <2>1 DEF AuthGone
<1>3. ASSUME client' = client, Packet("AUTH", id) \notin net'
      PROVE  AuthGone(id)'
  BY <1>3 DEF AuthGone
<1>4. ASSUME NEW c \in Clients, ClientInit(c)
      PROVE  AuthGone(id)'
  <2>1. Packet("AUTH", id) \notin net'
    BY <1>2, <1>4 DEF ClientInit
  <2>2. client'[me].pc = client[me].pc /\ client'[me].id = client[me].id
    BY <1>1, <1>4 DEF ClientInit, ClientsTypeOK
  <2> QED BY <2>1, <2>2 DEF AuthGone
<1>5. ASSUME NEW c \in Clients, NEW i \in Ids, ClientResp(c, i)
      PROVE  AuthGone(id)'
  <2>1. c # me /\ Owner(i) = c
    BY <1>5 DEF ClientResp, AuthGone
  <2>2. Packet("AUTH", id) # Packet("AUTH", i)
    BY <2>1, DifferentPackets
  <2>3. Packet("AUTH", id) \notin net' /\ client'[me] = client[me]
    BY <1>1, <1>5, <2>1, <2>2 DEF ClientResp, AuthGone, ClientsTypeOK
  <2> QED BY <2>3 DEF AuthGone
<1>6. ASSUME NEW c \in Clients, ClientResend(c)
      PROVE  AuthGone(id)'
  <2>1. client[c].id # id
    BY <1>1, <1>6 DEF ClientResend, AuthGone
  <2>2. Packet("AUTH", id) # Packet("AUTH", client[c].id)
    BY <2>1, DifferentPackets
  <2>3. /\ Packet("AUTH", id) \notin net'
        /\ client'[me].pc = client[me].pc /\ client'[me].id = client[me].id
    BY <1>1, <1>6, <2>2 DEF ClientResend, AuthGone, ClientsTypeOK
  <2> QED BY <2>3 DEF AuthGone
<1>7. ASSUME NEW c \in Clients, ClientDone(c) \/ ClientTimeout(c) \/ ClientClosed(c)
      PROVE  AuthGone(id)'
  <2>1. net' \subseteq net \cup {Packet("CLOSE_server", client[c].id)}
    BY <1>7 DEF ClientDone, ClientTimeout, ClientClosed
  <2>2. Packet("AUTH", id) \notin net'
    BY <1>2, <2>1
  <2>3. /\ client'[me].pc = client[me].pc \/ client'[me].pc \in {"up", "failed", "closed"}
        /\ client'[me].id = client[me].id
    BY <1>1, <1>7 DEF ClientDone, ClientTimeout, ClientClosed, ClientsTypeOK
  <2> QED BY <2>2, <2>3 DEF AuthGone
<1>8. ASSUME NEW i \in Ids, HandshakeStep(i) \/ CleanStep(i) \/ Age(i) \/ HandleSessionEnd(i)
                             \/ HandleAuth(i) \/ HandleClose(i)
      PROVE  AuthGone(id)'
  <2>1. client' = client
    BY <1>8 DEF HandshakeStep, Reply, StorePending, CountPending, CleanStep, ExpireLoad, Expire,
         ExpireSession, Age, HandleSessionEnd, HandleAuth, HandleClose, clients
  <2>2. \/ net' \subseteq net \cup {Packet("RESP", i)}
        \/ net' \subseteq net \cup {Packet("CLOSE_client", i)}
    BY <1>8 DEF HandshakeStep, Reply, StorePending, CountPending, CleanStep, ExpireLoad, Expire,
         ExpireSession, Age, HandleSessionEnd, HandleAuth, HandleClose, network
  <2> QED BY <1>2, <1>3, <2>1, <2>2
<1>9. ASSUME NEW p, ClientIgnore(p) \/ Lose(p)
      PROVE  AuthGone(id)'
  BY <1>9 DEF ClientIgnore, Lose, clients, AuthGone
<1>10. ASSUME NEW c \in Clients, HandleInit(c)
       PROVE  AuthGone(id)'
  BY <1>10 DEF HandleInit, AuthGone
<1>11. CASE Verify
  <2>1. \/ net' \subseteq net \cup {Packet("CLOSE_client", loop[2])}
        \/ net' \subseteq net \cup {Packet("DONE", loop[2])}
    BY <1>11 DEF Verify
  <2> QED BY <1>2, <1>3, <1>11, <2>1 DEF Verify, clients
<1>12. CASE Accept
  <2>1. net' \subseteq net \cup {Packet("CLOSE_client", Head(acceptCh))}
    BY <1>12 DEF Accept
  <2> QED BY <1>2, <1>3, <1>12, <2>1 DEF Accept, clients
<1>13. CASE LoopAccept \/ UNCHANGED vars
  BY <1>13 DEF LoopAccept, vars, clients, network, AuthGone
<1> QED BY <1>4, <1>5, <1>6, <1>7, <1>8, <1>9, <1>10, <1>11, <1>12, <1>13
        DEF Next, ClientStep, LoopStep

\* HandleInit starts a handshake that had not begun.
LEMMA FreshId ==
    ASSUME TypeOK, PendingInv, NEW c \in Clients, HandleInit(c)
    PROVE  \/ hs' = hs
           \/ \E id \in Ids : hs[id] = "none" /\ hs' = [hs EXCEPT ![id] = "started"]
<1>1. rate[c] \in 0..MaxRate
  BY TypeParts DEF ClientsTypeOK
<1>2. CASE rate[c] < MaxRate /\ hs' = [hs EXCEPT ![<<c, rate[c] + 1>>] = "started"]
  <2> DEFINE id == <<c, rate[c] + 1>>
  <2>1. id \in Ids /\ id[2] > rate[Owner(id)]
    BY <1>1, <1>2, ConstantsOK DEF Ids, Owner
  <2> QED BY <1>2, <2>1 DEF PendingInv
<1> QED BY <1>2 DEF HandleInit

LEMMA NotBegun ==
    ASSUME TypeOK, PendingInv, [Next]_vars
    PROVE  \A id \in Ids : id[2] > rate'[Owner(id)] => hs'[id] = "none"
<1>1. /\ ClientsTypeOK /\ PendingTypeOK
      /\ \A id \in Ids : id[2] > rate[Owner(id)] => hs[id] = "none"
  BY TypeParts DEF PendingInv
<1>2. ASSUME NEW c \in Clients, HandleInit(c)
      PROVE  \A id \in Ids : id[2] > rate'[Owner(id)] => hs'[id] = "none"
  <2> SUFFICES ASSUME NEW id \in Ids, id[2] > rate'[Owner(id)]
               PROVE  hs'[id] = "none"
    OBVIOUS
  <2>1. /\ Owner(id) \in Clients /\ id[2] \in Int /\ id = <<Owner(id), id[2]>>
        /\ rate[c] \in Int /\ rate[Owner(id)] \in Int
    BY <1>1, ConstantsOK DEF Ids, Owner, ClientsTypeOK
  <2>2. CASE hs' = hs
    <3>1. rate'[Owner(id)] \in Int /\ rate'[Owner(id)] >= rate[Owner(id)]
      <4>1. rate' = rate \/ rate' = [rate EXCEPT ![c] = @ + 1]
        BY <1>2 DEF HandleInit
      <4> QED BY <1>1, <2>1, <4>1 DEF ClientsTypeOK
    <3> QED BY <1>1, <2>1, <2>2, <3>1
  <2>3. CASE hs' = [hs EXCEPT ![<<c, rate[c] + 1>>] = "started"] /\ rate' = [rate EXCEPT ![c] = @ + 1]
    <3>1. rate'[Owner(id)] = IF Owner(id) = c THEN rate[c] + 1 ELSE rate[Owner(id)]
      BY <1>1, <2>1, <2>3 DEF ClientsTypeOK
    <3>2. id # <<c, rate[c] + 1>>
      BY <2>1, <3>1
    <3>3. id[2] > rate[Owner(id)]
      BY <2>1, <3>1
    <3> QED BY <1>1, <2>3, <3>2, <3>3 DEF PendingTypeOK
  <2> QED BY <1>2, <2>2, <2>3 DEF HandleInit
<1>3. ASSUME NEW i \in Ids, HandshakeStep(i)
      PROVE  \A id \in Ids : id[2] > rate'[Owner(id)] => hs'[id] = "none"
  BY <1>1, <1>3 DEF HandshakeStep, Reply, StorePending, CountPending, clients, PendingTypeOK
<1>4. \/ UNCHANGED <<rate, hs>>
      \/ \E c \in Clients : HandleInit(c)
      \/ \E i \in Ids : HandshakeStep(i)
  BY ZenonT(60) DEF Next, ClientStep, ClientInit, ClientResend, ClientDone, ClientTimeout, ClientResp,
       ClientClosed, CleanStep, ExpireLoad, Expire, ExpireSession, Age, HandleSessionEnd,
       ClientIgnore, Lose, LoopStep, HandleAuth, HandleClose, Verify, LoopAccept, Accept,
       vars, clients, pending
<1> QED BY <1>1, <1>2, <1>3, <1>4

LEMMA PendingInvInit == Init => PendingInv
  BY DEF Init, PendingInv, Receiving

LEMMA PendingInvStep ==
    ASSUME TypeOK, PendingInv, [Next]_vars
    PROVE  PendingInv'
<1>1. PendingTypeOK /\ LoopTypeOK
  BY TypeParts
<1>2. \A id \in pendingAuth' : hs'[id] \in {"stored", "counted"}
  <2>1. \A id \in pendingAuth : hs[id] \in {"stored", "counted"}
    BY DEF PendingInv
  <2>2. ASSUME pendingAuth' \subseteq pendingAuth, hs' = hs
        PROVE  \A id \in pendingAuth' : hs'[id] \in {"stored", "counted"}
    BY <2>1, <2>2
  <2>3. ASSUME NEW c \in Clients, HandleInit(c)
        PROVE  \A id \in pendingAuth' : hs'[id] \in {"stored", "counted"}
    <3>1. hs' = hs \/ \E id \in Ids : hs[id] = "none" /\ hs' = [hs EXCEPT ![id] = "started"]
      BY <2>3, FreshId
    <3>2. pendingAuth' = pendingAuth
      BY <2>3 DEF HandleInit
    <3> QED BY <1>1, <2>1, <3>1, <3>2 DEF PendingTypeOK
  <2>4. ASSUME NEW i \in Ids, HandshakeStep(i)
        PROVE  \A id \in pendingAuth' : hs'[id] \in {"stored", "counted"}
    BY <1>1, <2>1, <2>4 DEF HandshakeStep, Reply, StorePending, CountPending, PendingTypeOK
  <2>5. \/ pendingAuth' \subseteq pendingAuth /\ hs' = hs
        \/ \E c \in Clients : HandleInit(c)
        \/ \E i \in Ids : HandshakeStep(i)
    BY ZenonT(60) DEF Next, ClientStep, ClientInit, ClientResend, ClientDone, ClientTimeout, ClientResp,
         ClientClosed, CleanStep, ExpireLoad, Expire, ExpireSession, Age, HandleSessionEnd,
         ClientIgnore, Lose, LoopStep, HandleAuth, HandleClose, Verify, LoopAccept, Accept,
         vars, pending
  <2> QED BY <2>2, <2>3, <2>4, <2>5
<1>3. ASSUME Timely
      PROVE  /\ \A id \in old' : AuthGone(id)'
             /\ loop'[1] = "verify" => loop'[2] \in pendingAuth' \ old'
             /\ expiring' \subseteq pendingAuth' \cap old'
  <2>1. /\ \A id \in old : AuthGone(id)
        /\ loop[1] = "verify" => loop[2] \in pendingAuth \ old
        /\ expiring \subseteq pendingAuth \cap old
    BY <1>3 DEF PendingInv
  <2>2. \A id \in Ids : AuthGone(id) => AuthGone(id)'
    BY GoneForGood
  <2>3. ASSUME NEW i \in Ids, Age(i)
        PROVE  AuthGone(i)
    BY <1>3, <2>3 DEF Age, AuthGone
  <2>4. \A id \in old' : AuthGone(id)'
    <3>1. ASSUME NEW i \in Ids, Age(i)
          PROVE  \A id \in old' : AuthGone(id)'
      <4>1. old' = old \cup {i}
        BY <3>1 DEF Age
      <4> QED BY <1>1, <2>1, <2>2, <2>3, <3>1, <4>1 DEF PendingTypeOK
    <3>2. old' \subseteq old \/ \E i \in Ids : Age(i)
      BY ZenonT(60) DEF Next, ClientStep, ClientInit, ClientResend, ClientDone, ClientTimeout, ClientResp,
           ClientClosed, HandshakeStep, Reply, StorePending, CountPending, CleanStep, ExpireLoad,
           Expire, ExpireSession, HandleSessionEnd, ClientIgnore, Lose, LoopStep, HandleInit,
           HandleAuth, HandleClose, Verify, LoopAccept, Accept, vars, pending
    <3> QED BY <1>1, <2>1, <2>2, <3>1, <3>2 DEF PendingTypeOK
  <2>5. ASSUME UNCHANGED <<pendingAuth, old, expiring>>, loop' = loop
        PROVE  /\ loop'[1] = "verify" => loop'[2] \in pendingAuth' \ old'
               /\ expiring' \subseteq pendingAuth' \cap old'
    BY <2>1, <2>5
  <2>6. ASSUME NEW i \in Ids, HandleAuth(i)
        PROVE  /\ loop'[1] = "verify" => loop'[2] \in pendingAuth' \ old'
               /\ expiring' \subseteq pendingAuth' \cap old'
    <3>1. i \notin old
      BY <2>1, <2>6 DEF HandleAuth, AuthGone
    <3> QED BY <2>1, <2>6, <3>1 DEF HandleAuth, pending
  <2>7. CASE Verify
    <3>1. /\ pendingAuth' = pendingAuth \ {loop[2]} /\ UNCHANGED <<old, expiring>>
          /\ loop' = <<"recv", NoId>> \/ loop' = <<"accept", loop[2]>>
          /\ loop[1] = "verify"
      BY <2>7 DEF Verify, Receiving
    <3>2. loop'[1] # "verify"
      BY <3>1
    <3> QED BY <2>1, <2>4, <3>1, <3>2
  <2>8. ASSUME NEW i \in Ids, HandshakeStep(i) \/ ExpireLoad(i)
        PROVE  /\ loop'[1] = "verify" => loop'[2] \in pendingAuth' \ old'
               /\ expiring' \subseteq pendingAuth' \cap old'
    BY <2>1, <2>8 DEF HandshakeStep, Reply, StorePending, CountPending, ExpireLoad
  <2>9. ASSUME NEW i \in Ids, Age(i)
        PROVE  /\ loop'[1] = "verify" => loop'[2] \in pendingAuth' \ old'
               /\ expiring' \subseteq pendingAuth' \cap old'
    <3>1. loop # <<"verify", i>> /\ old' = old \cup {i} /\ UNCHANGED <<loop, pendingAuth, expiring>>
      BY <1>3, <2>9 DEF Age
    <3>2. loop = <<loop[1], loop[2]>>
      BY <1>1 DEF LoopTypeOK
    <3> QED BY <2>1, <2>4, <3>1, <3>2
  <2>10. ASSUME NEW i \in Ids, Expire(i)
         PROVE  /\ loop'[1] = "verify" => loop'[2] \in pendingAuth' \ old'
                /\ expiring' \subseteq pendingAuth' \cap old'
    BY <2>1, <2>10 DEF Expire
  <2>11. \/ UNCHANGED <<pendingAuth, old, expiring, loop>>
         \/ \E i \in Ids : HandleAuth(i) \/ HandshakeStep(i) \/ ExpireLoad(i) \/ Age(i) \/ Expire(i)
         \/ Verify \/ LoopAccept
    BY ZenonT(60) DEF Next, ClientStep, ClientInit, ClientResend, ClientDone, ClientTimeout, ClientResp,
         ClientClosed, CleanStep, ExpireSession, HandleSessionEnd, ClientIgnore, Lose, LoopStep,
         HandleInit, HandleClose, Accept, vars, pending
  <2>12. CASE LoopAccept
    <3>1. UNCHANGED <<pendingAuth, old, expiring>> /\ loop' = <<"recv", NoId>>
      BY <2>12 DEF LoopAccept, Receiving, pending
    <3>2. loop'[1] # "verify"
      BY <3>1
    <3> QED BY <2>1, <2>4, <3>1, <3>2
  <2> QED BY <2>4, <2>5, <2>6, <2>7, <2>8, <2>9, <2>10, <2>11, <2>12
<1> QED BY <1>2, <1>3, OwnSession, NotBegun, SettingKept DEF PendingInv

LEMMA ExactStep ==
    ASSUME TypeOK, TypeOK', PendingInv, PendingExact, [Next]_vars
    PROVE  PendingExact'
<1> SUFFICES ASSUME Timely
             PROVE  pendingCount' = Cardinality(pendingAuth') - Cardinality(Stored')
  BY SettingKept DEF PendingExact, Stored
<1>1. /\ pendingCount = Cardinality(pendingAuth) - Cardinality(Stored)
      /\ PendingTypeOK /\ PendingTypeOK'
      /\ pendingAuth \in SUBSET Ids /\ Stored \in SUBSET Ids
  BY DEF PendingExact, TypeOK, PendingTypeOK, Stored
<1>2. /\ Cardinality(pendingAuth) \in Nat /\ Cardinality(Stored) \in Nat
  BY <1>1, FiniteIds, FS_CardinalityType
<1>3. ASSUME UNCHANGED <<pendingAuth, pendingCount>>, Stored' = Stored
      PROVE  pendingCount' = Cardinality(pendingAuth') - Cardinality(Stored')
  BY <1>1, <1>3
<1>4. ASSUME NEW id \in Ids, StorePending(id)
      PROVE  pendingCount' = Cardinality(pendingAuth') - Cardinality(Stored')
  <2>1. /\ pendingAuth' = pendingAuth \cup {id} /\ pendingCount' = pendingCount
        /\ hs[id] = "replied" /\ hs' = [hs EXCEPT ![id] = "stored"]
    BY <1>4 DEF StorePending
  <2>2. id \notin pendingAuth /\ id \notin Stored /\ Stored' = Stored \cup {id}
    BY <1>1, <2>1 DEF PendingInv, PendingTypeOK, Stored
  <2> QED BY <1>1, <1>2, <2>1, <2>2, Counting
<1>5. ASSUME NEW id \in Ids, CountPending(id)
      PROVE  pendingCount' = Cardinality(pendingAuth') - Cardinality(Stored')
  <2>1. /\ pendingAuth' = pendingAuth /\ pendingCount' = pendingCount + 1
        /\ hs[id] = "stored" /\ hs' = [hs EXCEPT ![id] = "counted"]
    BY <1>5 DEF CountPending
  <2>2. id \in Stored /\ Stored' = Stored \ {id}
    BY <1>1, <2>1 DEF PendingTypeOK, Stored
  <2> QED BY <1>1, <1>2, <2>1, <2>2, Counting
<1>6. ASSUME NEW id \in pendingAuth, pendingAuth' = pendingAuth \ {id},
             pendingCount' = pendingCount - 1, Stored' = Stored
      PROVE  pendingCount' = Cardinality(pendingAuth') - Cardinality(Stored')
  BY <1>1, <1>2, <1>6, Counting
<1>7. CASE Verify
  <2>1. loop[2] \in pendingAuth
    BY <1>7 DEF Verify, PendingInv
  <2> QED BY <1>6, <1>7, <2>1 DEF Verify, Stored
<1>8. ASSUME NEW id \in Ids, Expire(id)
      PROVE  pendingCount' = Cardinality(pendingAuth') - Cardinality(Stored')
  <2>1. id \in pendingAuth
    BY <1>8 DEF Expire, PendingInv
  <2> QED BY <1>6, <1>8, <2>1 DEF Expire, Stored
<1>9. ASSUME NEW id \in Ids, Reply(id)
      PROVE  pendingCount' = Cardinality(pendingAuth') - Cardinality(Stored')
  BY <1>1, <1>3, <1>9 DEF Reply, PendingTypeOK, Stored
<1>10. ASSUME NEW c \in Clients, HandleInit(c)
       PROVE  pendingCount' = Cardinality(pendingAuth') - Cardinality(Stored')
  <2>1. UNCHANGED <<pendingAuth, pendingCount>>
    BY <1>10 DEF HandleInit
  <2>2. hs' = hs \/ \E id \in Ids : hs[id] = "none" /\ hs' = [hs EXCEPT ![id] = "started"]
    BY <1>10, FreshId
  <2>3. Stored' = Stored
    BY <1>1, <2>2 DEF PendingTypeOK, Stored
  <2> QED BY <1>3, <2>1, <2>3
<1>11. \/ UNCHANGED <<pendingAuth, pendingCount, hs>>
       \/ \E id \in Ids : StorePending(id) \/ CountPending(id) \/ Expire(id) \/ Reply(id)
       \/ Verify
       \/ \E c \in Clients : HandleInit(c)
  BY ZenonT(60) DEF Next, ClientStep, ClientInit, ClientResend, ClientDone, ClientTimeout, ClientResp,
       ClientClosed, HandshakeStep, CleanStep, ExpireLoad, ExpireSession, Age, HandleSessionEnd,
       ClientIgnore, Lose, LoopStep, HandleAuth, HandleClose, LoopAccept, Accept, vars, pending
<1> QED BY <1>3, <1>4, <1>5, <1>7, <1>8, <1>9, <1>10, <1>11 DEF Stored

\* On a timely network pendingCount counts the sessions waiting for AUTH (but
\* for those stored and not yet counted): verification, expiry and the handshake
\* goroutines never count one twice or not at all.
THEOREM PendingIsExact == Spec => []PendingExact
<1>1. Init => PendingInv /\ PendingExact
  <2>1. ASSUME Init
        PROVE  PendingExact
    <3>1. pendingAuth = {} /\ {id \in Ids : hs[id] = "stored"} = {} /\ pendingCount = 0
      BY <2>1 DEF Init
    <3> QED BY <3>1, FS_EmptySet DEF PendingExact
  <2> QED BY <2>1, PendingInvInit
<1>2. TypeOK /\ TypeOK' /\ PendingInv /\ PendingExact /\ [Next]_vars => PendingInv' /\ PendingExact'
  BY PendingInvStep, ExactStep
<1> QED BY <1>1, <1>2, TypeCorrect, PTL DEF Spec

---------------------------------------------------------------------------
(* No session is handed to the server twice.                               *)

\* The sessions that the read loop may still verify, and those it has handed on.
Waiting == pendingAuth \cup {id \in Ids : loop[1] = "verify" /\ loop[2] = id}
Handed == Queued \cup active \cup {id \in Ids : loop[1] = "accept" /\ loop[2] = id}

\* What was handed on is not verified again.  Its handshake is over, so that it is
\* never stored in pendingAuth a second time.
OnceInv ==
    /\ Waiting \cap Handed = {}
    /\ \A id \in Waiting \cup Handed : hs[id] \in {"stored", "counted"}

\* No element is in a sequence twice.
Once(q) == \A i, j \in 1..Len(q) : q[i] = q[j] => i = j

LEMMA AppendOnce ==
    ASSUME NEW S, NEW q \in Seq(S), NEW x \in S, Once(q), x \notin {q[i] : i \in 1..Len(q)}
    PROVE  /\ Once(Append(q, x))
           /\ {Append(q, x)[i] : i \in 1..Len(Append(q, x))} = {q[i] : i \in 1..Len(q)} \cup {x}
<1> DEFINE r == Append(q, x)
<1>1. /\ Len(q) \in Nat /\ Len(r) = Len(q) + 1 /\ r[Len(q) + 1] = x
      /\ \A i \in 1..Len(q) : r[i] = q[i]
  OBVIOUS
<1> HIDE DEF r
<1>2. 1..Len(r) = 1..Len(q) \cup {Len(q) + 1}
  BY <1>1
<1>3. Once(r)
  BY <1>1, <1>2 DEF Once
<1>4. {r[i] : i \in 1..Len(r)} = {q[i] : i \in 1..Len(q)} \cup {x}
  BY <1>1, <1>2
<1> QED BY <1>3, <1>4 DEF r

LEMMA TailOnce ==
    ASSUME NEW S, NEW q \in Seq(S), q # <<>>, Once(q)
    PROVE  /\ Once(Tail(q))
           /\ Head(q) \in {q[i] : i \in 1..Len(q)}
           /\ {Tail(q)[i] : i \in 1..Len(Tail(q))} \subseteq {q[i] : i \in 1..Len(q)} \ {Head(q)}
<1> DEFINE r == Tail(q)
<1>1. /\ Len(q) \in Nat \ {0} /\ Len(r) = Len(q) - 1 /\ Head(q) = q[1]
      /\ \A i \in 1..Len(r) : r[i] = q[i + 1] /\ i + 1 \in 1..Len(q) /\ i + 1 # 1
  OBVIOUS
<1> HIDE DEF r
<1>2. Once(r)
  BY <1>1 DEF Once
<1>3. 1 \in 1..Len(q) /\ \A i \in 1..Len(r) : r[i] # q[1]
  BY <1>1 DEF Once
<1>4. {r[i] : i \in 1..Len(r)} \subseteq {q[i] : i \in 1..Len(q)} \ {Head(q)}
  BY <1>1, <1>3
<1> QED BY <1>1, <1>2, <1>3, <1>4 DEF r

LEMMA OnceStep ==
    ASSUME TypeOK, PendingInv, OnceInv, AcceptedOnce, [Next]_vars
    PROVE  OnceInv' /\ AcceptedOnce'
<1>1. /\ PendingTypeOK /\ LoopTypeOK /\ acceptCh \in Seq(Ids) /\ active \subseteq Ids
      /\ Once(acceptCh)
  BY TypeParts DEF AcceptedTypeOK, AcceptedOnce, Once
<1>2. Queued \subseteq Ids /\ Waiting \subseteq Ids /\ Handed \subseteq Ids
  BY <1>1 DEF Queued, Waiting, Handed, PendingTypeOK
<1>3. ASSUME Waiting' \subseteq Waiting, Handed' \subseteq Handed, hs' = hs
      PROVE  OnceInv'
  BY <1>3 DEF OnceInv
<1>4. ASSUME UNCHANGED <<acceptCh, loop>>, active' \subseteq active
      PROVE  AcceptedOnce' /\ Queued' = Queued /\ Handed' \subseteq Handed
  BY <1>4 DEF AcceptedOnce, Queued, Handed
<1>5. ASSUME UNCHANGED <<hs, acceptCh, loop>>, active' \subseteq active,
             pendingAuth' \subseteq pendingAuth
      PROVE  OnceInv' /\ AcceptedOnce'
  <2>1. Waiting' \subseteq Waiting
    BY <1>5 DEF Waiting
  <2> QED BY <1>3, <1>4, <1>5, <2>1
<1>6. ASSUME NEW c \in Clients, HandleInit(c)
      PROVE  OnceInv' /\ AcceptedOnce'
  <2>1. UNCHANGED <<pendingAuth, acceptCh, loop, active>>
    BY <1>6 DEF HandleInit, accepted
  <2>2. Waiting' = Waiting /\ Handed' = Handed /\ AcceptedOnce'
    BY <2>1 DEF Waiting, Handed, Queued, AcceptedOnce
  <2>3. hs' = hs \/ \E id \in Ids : hs[id] = "none" /\ hs' = [hs EXCEPT ![id] = "started"]
    BY <1>6, FreshId
  <2>4. \A id \in Waiting \cup Handed : hs'[id] \in {"stored", "counted"}
    BY <1>1, <1>2, <2>3 DEF OnceInv, PendingTypeOK
  <2> QED BY <2>2, <2>4 DEF OnceInv
<1>7. ASSUME NEW id \in Ids, HandshakeStep(id)
      PROVE  OnceInv' /\ AcceptedOnce'
  <2>1. UNCHANGED <<acceptCh, loop, active>>
    BY <1>7 DEF HandshakeStep, Reply, StorePending, CountPending, accepted
  <2>2. Handed' = Handed /\ AcceptedOnce'
    BY <2>1 DEF Handed, Queued, AcceptedOnce
  <2>3. CASE Reply(id) \/ CountPending(id)
    <3>1. Waiting' = Waiting
      BY <2>1, <2>3 DEF Reply, CountPending, Waiting
    <3>2. \A i \in Waiting \cup Handed : hs'[i] \in {"stored", "counted"}
      BY <1>1, <1>2, <2>3 DEF Reply, CountPending, OnceInv, PendingTypeOK
    <3> QED BY <2>2, <3>1, <3>2 DEF OnceInv
  <2>4. CASE StorePending(id)
    <3>1. Waiting' = Waiting \cup {id}
      BY <2>1, <2>4 DEF StorePending, Waiting
    <3>2. hs[id] = "replied" /\ hs' = [hs EXCEPT ![id] = "stored"]
      BY <2>4 DEF StorePending
    <3>3. id \notin Handed
      BY <3>2 DEF OnceInv
    <3>4. \A i \in Waiting \cup {id} \cup Handed : hs'[i] \in {"stored", "counted"}
      BY <1>1, <1>2, <3>2 DEF OnceInv, PendingTypeOK
    <3> QED BY <2>2, <3>1, <3>3, <3>4 DEF OnceInv
  <2> QED BY <1>7, <2>3, <2>4 DEF HandshakeStep
<1>8. ASSUME NEW id \in Ids, HandleAuth(id)
      PROVE  OnceInv' /\ AcceptedOnce'
  <2>1. UNCHANGED <<hs, pendingAuth, acceptCh, active>>
    BY <1>8 DEF HandleAuth, pending, accepted
  <2>2. CASE loop' = loop
    BY <1>5, <2>1, <2>2
  <2>3. CASE id \in pendingAuth /\ loop' = <<"verify", id>>
    <3>1. Waiting' \subseteq Waiting
      BY <2>1, <2>3 DEF Waiting
    <3>2. loop'[1] # "accept"
      BY <2>3
    <3>3. Handed' \subseteq Handed /\ AcceptedOnce'
      BY <2>1, <3>2 DEF Handed, Queued, AcceptedOnce
    <3> QED BY <1>3, <2>1, <3>1, <3>3
  <2> QED BY <1>8, <2>2, <2>3 DEF HandleAuth
<1>9. CASE Verify
  <2>1. /\ UNCHANGED <<hs, acceptCh, active>>
        /\ pendingAuth' = pendingAuth \ {loop[2]} /\ loop[1] = "verify"
    BY <1>9 DEF Verify
  <2>2. loop[2] \in Ids /\ loop[2] \in Waiting /\ loop[2] \notin Handed
    BY <1>1, <2>1 DEF LoopTypeOK, Waiting, OnceInv
  <2>3. \/ loop' = <<"recv", NoId>>
        \/ loop' = <<"accept", loop[2]>>
    BY <1>9 DEF Verify, Receiving
  <2>4. loop'[1] # "verify" /\ (loop'[1] = "accept" => loop'[2] = loop[2])
    BY <2>3
  <2>5. Queued' = Queued /\ Waiting' \subseteq Waiting \ {loop[2]} /\ Handed' \subseteq Handed \cup {loop[2]}
    BY <2>1, <2>4 DEF Queued, Waiting, Handed
  <2>6. OnceInv'
    BY <2>1, <2>2, <2>5 DEF OnceInv
  <2>7. AcceptedOnce'
    BY <2>1, <2>2, <2>4, <2>5 DEF AcceptedOnce, Handed
  <2> QED BY <2>6, <2>7
<1>10. CASE LoopAccept
  <2>1. /\ UNCHANGED <<hs, pendingAuth, active>> /\ loop[1] = "accept"
        /\ acceptCh' = Append(acceptCh, loop[2]) /\ loop' = <<"recv", NoId>>
    BY <1>10 DEF LoopAccept, pending, Receiving
  <2>2. loop[2] \in Ids /\ loop[2] \in Handed /\ loop[2] \notin Queued \cup active
    BY <1>1, <2>1 DEF LoopTypeOK, Handed, AcceptedOnce
  <2>3. Once(acceptCh') /\ Queued' = Queued \cup {loop[2]}
    BY <1>1, <2>1, <2>2, AppendOnce DEF Queued
  <2>4. loop'[1] # "verify" /\ loop'[1] # "accept"
    BY <2>1
  <2>5. Waiting' \subseteq Waiting /\ Handed' \subseteq Handed
    BY <2>1, <2>2, <2>3, <2>4 DEF Waiting, Handed
  <2>6. AcceptedOnce'
    BY <2>1, <2>2, <2>3, <2>4 DEF AcceptedOnce, Once
  <2> QED BY <1>3, <2>1, <2>5, <2>6
<1>11. CASE Accept
  <2>1. /\ UNCHANGED <<hs, pendingAuth, loop>> /\ acceptCh # <<>> /\ acceptCh' = Tail(acceptCh)
        /\ active' \subseteq active \cup {Head(acceptCh)}
    BY <1>11 DEF Accept, pending
  <2>2. /\ Once(acceptCh') /\ Head(acceptCh) \in Queued
        /\ Queued' \subseteq Queued \ {Head(acceptCh)}
    BY <1>1, <2>1, TailOnce DEF Queued
  <2>3. Waiting' \subseteq Waiting /\ Handed' \subseteq Handed
    BY <2>1, <2>2 DEF Waiting, Handed
  <2>4. AcceptedOnce'
    BY <2>1, <2>2 DEF AcceptedOnce, Once
  <2> QED BY <1>3, <2>1, <2>3, <2>4
<1>12. \/ /\ UNCHANGED <<hs, acceptCh, loop>> /\ active' \subseteq active
          /\ pendingAuth' \subseteq pendingAuth
       \/ \E c \in Clients : HandleInit(c)
       \/ \E id \in Ids : HandshakeStep(id) \/ HandleAuth(id)
       \/ Verify \/ LoopAccept \/ Accept
  BY ZenonT(60) DEF Next, ClientStep, ClientInit, ClientResend, ClientDone, ClientTimeout, ClientResp,
       ClientClosed, CleanStep, ExpireLoad, Expire, ExpireSession, Age, HandleSessionEnd,
       ClientIgnore, Lose, LoopStep, HandleClose, vars, pending, accepted
<1> QED BY <1>5, <1>6, <1>7, <1>8, <1>9, <1>10, <1>11, <1>12

\* The read loop never hands a session to the server a second time, on any
\* network: AUTH that is sent again, or is late, finds the session no longer
\* pending, and a handshake stores its session once.
THEOREM SessionsAcceptedOnce == Spec => []AcceptedOnce
<1>1. Init => PendingInv /\ OnceInv /\ AcceptedOnce
  <2> SUFFICES ASSUME Init PROVE PendingInv /\ OnceInv /\ AcceptedOnce
    OBVIOUS
  <2>1. PendingInv
    BY PendingInvInit
  <2>2. /\ pendingAuth = {} /\ active = {} /\ acceptCh = <<>>
        /\ loop[1] # "verify" /\ loop[1] # "accept"
    BY DEF Init, Receiving
  <2>3. Queued = {} /\ Waiting = {} /\ Handed = {}
    BY <2>2 DEF Queued, Waiting, Handed
  <2> QED BY <2>1, <2>2, <2>3 DEF OnceInv, AcceptedOnce
<1>2. TypeOK /\ PendingInv /\ OnceInv /\ AcceptedOnce /\ [Next]_vars
         => PendingInv' /\ OnceInv' /\ AcceptedOnce'
  BY PendingInvStep, OnceStep
<1> QED BY <1>1, <1>2, TypeCorrect, PTL DEF Spec
=============================================================================
