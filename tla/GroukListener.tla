---------------------------- MODULE GroukListener ----------------------------
(***************************************************************************)
(* How a Grouk session comes up and goes (pkg/transport/grouk.go,          *)
(* cmd/grouk-server/main.go): clients run GroukClientHandshake, the        *)
(* listener's readLoop answers every INIT in a goroutine of its own        *)
(* (handleHandshake) and handles AUTH itself, cleanupPending and           *)
(* cleanupSessions run on timers, and the server's accept loop takes the   *)
(* authenticated sessions up to its limit.                                 *)
(*                                                                         *)
(* Every INIT that is admitted makes a session of its own: <<c, k>> is the *)
(* session ID made for the k-th admitted INIT of client c.                 *)
(***************************************************************************)
EXTENDS Integers, Sequences, FiniteSets

CONSTANTS
    Clients,
    MaxRate,        \* INITs the rate limiter admits per address (one window)
    MaxPending,     \* groukDefaultMaxPending, 64
    AcceptCap,      \* capacity of acceptCh, 16
    MaxSessions,    \* the server's limit, 500
    Settings        \* the behaviours considered: who connects, over which network

ASSUME ConstantsOK ==
    /\ IsFiniteSet(Clients) /\ Clients # {}
    /\ MaxRate \in Nat \ {0}
    /\ MaxPending \in Nat \ {0} /\ AcceptCap \in Nat \ {0} /\ MaxSessions \in Nat
    /\ Settings \subseteq [clients : SUBSET Clients, wrong : SUBSET Clients, network : {"timely", "late"},
                     loss : Nat, tries : Nat \ {0}]

Ids == Clients \X (1..MaxRate)
Owner(id) == id[1]

\* What a client and the listener send each other.
Packet(type, id) == [type |-> type, id |-> id]
\* The packets of the handshake, and CLOSE.
Packets ==
    [type : {"INIT"}, id : Clients \X {0}]
        \cup [type : {"RESP", "AUTH", "DONE", "CLOSE_client", "CLOSE_server"}, id : Ids]

VARIABLES
    setting,        \* of this behaviour: setting.wrong hold a different PSK, at most
                    \* setting.loss packets are lost;
                    \* INIT, and AUTH, are sent at most setting.tries times
                    \* (for 10 s, every 2 s)
    client,         \* client[c]: [pc, tries, id]
    net,            \* packets in flight
    losses,         \* how many were lost
    spoiled,        \* clients refused by the listener, or whose DONE was lost
    rate,           \* rate[c]: INITs of c the rate limiter has admitted
    hs,             \* hs[id]: where handleHandshake is for id
    pendingAuth,    \* the map of sessions waiting for AUTH
    pendingCount,
    sessions,       \* the map of authenticated sessions
    closed,         \* sessions closed on the server's side
    loop,           \* readLoop: <<pc, id>>
    old,            \* pending for more than 30 s
    expiring,       \* the session cleanupPending has loaded and not yet removed
    acceptCh,
    active          \* sessions the server is handling

clients  == <<setting, client, rate>>
network  == <<net, losses, spoiled>>
pending  == <<hs, pendingAuth, pendingCount, old, expiring>>
accepted == <<sessions, closed, acceptCh, active>>
vars     == <<clients, network, pending, accepted, loop>>

\* On a timely network an answer arrives before the client's next try, and no
\* AUTH is on its way 30 s after the session was made.
Timely == setting.network = "timely"

NoId == <<CHOOSE c \in Clients : TRUE, 1>>
Receiving == <<"recv", NoId>>

\* No client has started, the listener is idle.
Init ==
    /\ setting \in Settings
    /\ client = [c \in Clients |-> [pc |-> "init", tries |-> 0, id |-> NoId]]
    /\ net = {} /\ losses = 0 /\ spoiled = {}
    /\ rate = [c \in Clients |-> 0]
    /\ hs = [id \in Ids |-> "none"]
    /\ pendingAuth = {} /\ pendingCount = 0 /\ old = {} /\ expiring = {}
    /\ sessions = {} /\ closed = {} /\ acceptCh = <<>> /\ active = {}
    /\ loop = Receiving

---------------------------------------------------------------------------
(* GroukClientHandshake. *)

\* Is a packet of c, or the listener's answer to it, still on its way, or the
\* goroutine of its handshake still at work?
Underway(c, types) ==
    \/ \E p \in net : p.type \in types /\ Owner(p.id) = c
    \/ \E id \in Ids : Owner(id) = c /\ hs[id] \in {"started", "replied", "stored"}
    \/ loop[1] = "verify" /\ Owner(loop[2]) = c

\* INIT is sent, and sent again every 2 s.
ClientInit(c) ==
    /\ c \in setting.clients
    /\ client[c].pc = "init" /\ client[c].tries < setting.tries
    /\ Timely => ~Underway(c, {"INIT", "RESP"})
    /\ net' = net \cup {Packet("INIT", <<c, 0>>)}
    /\ client' = [client EXCEPT ![c].tries = @ + 1]
    /\ UNCHANGED <<setting, rate, losses, spoiled, pending, accepted, loop>>

\* The first RESP is taken, and answered with AUTH.
ClientResp(c, id) ==
    /\ client[c].pc = "init" /\ Owner(id) = c /\ Packet("RESP", id) \in net
    /\ client' = [client EXCEPT ![c] = [pc |-> "auth", tries |-> 1, id |-> id]]
    /\ net' = (net \ {Packet("RESP", id)}) \cup {Packet("AUTH", id)}
    /\ UNCHANGED <<setting, rate, losses, spoiled, pending, accepted, loop>>

\* Mutant: AUTH is sent once.
ClientResendNever(c) ==
    /\ client[c].pc = "auth" /\ client[c].tries < setting.tries
    /\ Timely => ~Underway(c, {"AUTH", "DONE"})
    /\ client' = [client EXCEPT ![c].tries = @ + 1]
    /\ UNCHANGED <<setting, rate, network, pending, accepted, loop>>

\* Nothing was read for 2 s: AUTH is sent again.
ClientResend(c) ==
    /\ client[c].pc = "auth" /\ client[c].tries < setting.tries
    /\ Timely => ~Underway(c, {"AUTH", "DONE"})
    /\ net' = net \cup {Packet("AUTH", client[c].id)}
    /\ client' = [client EXCEPT ![c].tries = @ + 1]
    /\ UNCHANGED <<setting, rate, losses, spoiled, pending, accepted, loop>>

\* DONE with the server's MAC for this session.
ClientDone(c) ==
    /\ client[c].pc = "auth" /\ Packet("DONE", client[c].id) \in net
    /\ net' = net \ {Packet("DONE", client[c].id)}
    /\ client' = [client EXCEPT ![c].pc = "up"]
    /\ UNCHANGED <<setting, rate, losses, spoiled, pending, accepted, loop>>

\* Mutant: once it has an answer the client waits for ever.
ClientTimeoutOnInit(c) ==
    /\ client[c].pc = "init" /\ client[c].tries = setting.tries
    /\ Timely => ~Underway(c, {"INIT", "RESP", "AUTH", "DONE"})
    /\ client' = [client EXCEPT ![c].pc = "failed"]
    /\ UNCHANGED <<setting, rate, network, pending, accepted, loop>>

\* The deadline: from "auth" the client's session is closed, which tells the
\* server.
ClientTimeout(c) ==
    /\ client[c].pc \in {"init", "auth"} /\ client[c].tries = setting.tries
    /\ Timely => ~Underway(c, {"INIT", "RESP", "AUTH", "DONE"})
    /\ client' = [client EXCEPT ![c].pc = "failed"]
    /\ net' = IF client[c].pc = "auth"
                THEN net \cup {Packet("CLOSE_server", client[c].id)} ELSE net
    /\ UNCHANGED <<setting, rate, losses, spoiled, pending, accepted, loop>>

\* A packet the client is not waiting for is read and dropped.
ClientIgnore(p) ==
    /\ p \in net /\ p.type \in {"RESP", "DONE", "CLOSE_client"}
    /\ LET me == client[Owner(p.id)] IN
          CASE p.type = "RESP" -> me.pc # "init"
            [] p.type = "DONE" -> me.pc # "auth" \/ me.id # p.id
            [] OTHER           -> me.pc # "up" \/ me.id # p.id
    /\ net' = net \ {p}
    /\ UNCHANGED <<clients, losses, spoiled, pending, accepted, loop>>

\* A session that is up ends: the server says so, or the client closes it.
ClientClosed(c) ==
    /\ client[c].pc = "up"
    /\ \/ /\ Packet("CLOSE_client", client[c].id) \in net
          /\ net' = net \ {Packet("CLOSE_client", client[c].id)}
       \/ net' = net \cup {Packet("CLOSE_server", client[c].id)}
    /\ client' = [client EXCEPT ![c].pc = "closed"]
    /\ UNCHANGED <<setting, rate, losses, spoiled, pending, accepted, loop>>

---------------------------------------------------------------------------
(* The listener's readLoop. *)

\* INIT: refused, or a goroutine is started for it.
HandleInit(c) ==
    /\ loop = Receiving /\ Packet("INIT", <<c, 0>>) \in net
    /\ net' = net \ {Packet("INIT", <<c, 0>>)}
    /\ \/ /\ rate[c] >= MaxRate \/ pendingCount >= MaxPending
          /\ rate' = IF rate[c] < MaxRate THEN [rate EXCEPT ![c] = @ + 1] ELSE rate
          /\ spoiled' = spoiled \cup {c}
          /\ UNCHANGED hs
       \/ /\ rate[c] < MaxRate /\ pendingCount < MaxPending
          /\ rate' = [rate EXCEPT ![c] = @ + 1]
          /\ hs' = [hs EXCEPT ![<<c, rate[c] + 1>>] = "started"]
          /\ UNCHANGED spoiled
    /\ UNCHANGED <<setting, client, losses, pendingAuth, pendingCount, old, expiring>>
    /\ UNCHANGED <<accepted, loop>>

\* AUTH: a session that is not (or not yet, or no longer) pending is ignored.
HandleAuth(id) ==
    /\ loop = Receiving /\ Packet("AUTH", id) \in net
    /\ net' = net \ {Packet("AUTH", id)}
    /\ loop' = IF id \in pendingAuth THEN <<"verify", id>> ELSE loop
    /\ UNCHANGED <<clients, losses, spoiled, pending, accepted>>

\* Mutant: only a session that fails is taken from pendingAuth.
VerifyKeeps ==
    /\ loop[1] = "verify"
    /\ LET id == loop[2] IN
          \/ /\ Owner(id) \in setting.wrong
             /\ pendingAuth' = pendingAuth \ {id} /\ pendingCount' = pendingCount - 1
             /\ closed' = closed \cup {id}
             /\ net' = IF id \in closed THEN net ELSE net \cup {Packet("CLOSE_client", id)}
             /\ loop' = Receiving
             /\ UNCHANGED sessions
          \/ /\ Owner(id) \notin setting.wrong
             /\ sessions' = sessions \cup {id}
             /\ net' = net \cup {Packet("DONE", id)}
             /\ loop' = <<"accept", id>>
             /\ UNCHANGED <<pendingAuth, pendingCount, closed>>
    /\ UNCHANGED <<clients, losses, spoiled, hs, old, expiring, acceptCh, active>>

\* GroukServerVerifyAuth and what follows it.
Verify ==
    /\ loop[1] = "verify"
    /\ pendingAuth' = pendingAuth \ {loop[2]} /\ pendingCount' = pendingCount - 1
    /\ LET id == loop[2] IN
          \/ /\ Owner(id) \in setting.wrong
             /\ closed' = closed \cup {id}
             /\ net' = IF id \in closed THEN net ELSE net \cup {Packet("CLOSE_client", id)}
             /\ loop' = Receiving
             /\ UNCHANGED sessions
          \/ /\ Owner(id) \notin setting.wrong
             /\ sessions' = sessions \cup {id}
             /\ net' = net \cup {Packet("DONE", id)}
             /\ loop' = <<"accept", id>>
             /\ UNCHANGED closed
    /\ UNCHANGED <<clients, losses, spoiled, hs, old, expiring, acceptCh, active>>

\* readLoop waits for room in acceptCh.
LoopAccept ==
    /\ loop[1] = "accept" /\ Len(acceptCh) < AcceptCap
    /\ acceptCh' = Append(acceptCh, loop[2])
    /\ loop' = Receiving
    /\ UNCHANGED <<clients, network, pending, sessions, closed, active>>

\* CLOSE of a session that is authenticated: it stays in the map.
HandleClose(id) ==
    /\ loop = Receiving /\ Packet("CLOSE_server", id) \in net
    /\ \/ /\ id \in sessions \ closed
          /\ closed' = closed \cup {id}
          /\ net' = (net \ {Packet("CLOSE_server", id)}) \cup {Packet("CLOSE_client", id)}
       \/ /\ id \notin sessions \ closed
          /\ net' = net \ {Packet("CLOSE_server", id)}
          /\ UNCHANGED closed
    /\ UNCHANGED <<clients, losses, spoiled, pending, sessions, acceptCh, active, loop>>

---------------------------------------------------------------------------
(* handleHandshake: RESP goes out before the session is pending, and the     *)
(* session is pending before it is counted.                                  *)

\* GroukServerHandshake has made RESP and its pending entry.
Reply(id) ==
    /\ hs[id] = "started"
    /\ hs' = [hs EXCEPT ![id] = "replied"]
    /\ net' = net \cup {Packet("RESP", id)}
    /\ UNCHANGED <<clients, losses, spoiled, pendingAuth, pendingCount, old, expiring>>
    /\ UNCHANGED <<accepted, loop>>

\* handleHandshake stores the entry in pendingAuth.
StorePending(id) ==
    /\ hs[id] = "replied"
    /\ hs' = [hs EXCEPT ![id] = "stored"]
    /\ pendingAuth' = pendingAuth \cup {id}
    /\ UNCHANGED <<clients, network, pendingCount, old, expiring, accepted, loop>>

\* handleHandshake counts it.
CountPending(id) ==
    /\ hs[id] = "stored"
    /\ hs' = [hs EXCEPT ![id] = "counted"]
    /\ pendingCount' = pendingCount + 1
    /\ UNCHANGED <<clients, network, pendingAuth, old, expiring, accepted, loop>>

---------------------------------------------------------------------------
(* cleanupPending and cleanupSessions. *)

\* 30 s pass.
Age(id) ==
    /\ id \in pendingAuth \ old
    /\ Timely => /\ client[Owner(id)].pc = "auth" => client[Owner(id)].id # id
                 /\ client[Owner(id)].pc # "init"
                 /\ Packet("AUTH", id) \notin net /\ loop # <<"verify", id>>
                 /\ hs[id] = "counted"
    /\ old' = old \cup {id}
    /\ UNCHANGED <<clients, network, hs, pendingAuth, pendingCount, expiring>>
    /\ UNCHANGED <<accepted, loop>>

\* Range comes to the session ...
ExpireLoad(id) ==
    /\ expiring = {} /\ id \in pendingAuth \cap old
    /\ expiring' = {id}
    /\ UNCHANGED <<clients, network, hs, pendingAuth, pendingCount, old, accepted, loop>>

\* Mutant: the counter is forgotten.
ExpireUncounted(id) ==
    /\ id \in expiring
    /\ expiring' = {} /\ old' = old \ {id}
    /\ pendingAuth' = pendingAuth \ {id}
    /\ closed' = closed \cup {id}
    /\ net' = net \cup {Packet("CLOSE_client", id)}
    /\ UNCHANGED <<clients, losses, spoiled, hs, pendingCount>>
    /\ UNCHANGED <<sessions, acceptCh, active, loop>>

\* ... and removes it, whatever has become of it since.
Expire(id) ==
    /\ id \in expiring
    /\ expiring' = {} /\ old' = old \ {id}
    /\ pendingAuth' = pendingAuth \ {id} /\ pendingCount' = pendingCount - 1
    /\ closed' = closed \cup {id}
    /\ net' = IF id \in closed THEN net ELSE net \cup {Packet("CLOSE_client", id)}
    /\ UNCHANGED <<clients, losses, spoiled, hs, sessions, acceptCh, active, loop>>

\* Mutant: only sessions that are already closed are removed.
ExpireSessionClosedOnly(id) ==
    /\ id \in sessions \cap closed
    /\ sessions' = sessions \ {id}
    /\ UNCHANGED <<clients, network, pending, closed, acceptCh, active, loop>>

\* Nothing was heard of the session for 5 minutes: its client is not up.
ExpireSession(id) ==
    /\ id \in sessions
    /\ ~(client[Owner(id)].pc \in {"auth", "up"} /\ client[Owner(id)].id = id)
    /\ sessions' = sessions \ {id} /\ closed' = closed \cup {id}
    /\ net' = IF id \in closed THEN net ELSE net \cup {Packet("CLOSE_client", id)}
    /\ UNCHANGED <<clients, losses, spoiled, pending, acceptCh, active, loop>>

---------------------------------------------------------------------------
(* The server's accept loop and handleSession. *)

\* One session is taken from the queue, and handled or closed.
Accept ==
    /\ acceptCh # <<>>
    /\ acceptCh' = Tail(acceptCh)
    /\ LET id == Head(acceptCh) IN
       \/ /\ Cardinality(active) < MaxSessions
          /\ active' = active \cup {id}
          /\ UNCHANGED <<closed, net>>
       \/ /\ Cardinality(active) >= MaxSessions
          /\ closed' = closed \cup {id}
          /\ net' = IF id \in closed THEN net ELSE net \cup {Packet("CLOSE_client", id)}
          /\ UNCHANGED active
    /\ UNCHANGED <<clients, losses, spoiled, pending, sessions, loop>>

\* AcceptStream fails once the session is closed, and handleSession returns.
HandleSessionEnd(id) ==
    /\ id \in active \cap closed
    /\ active' = active \ {id}
    /\ UNCHANGED <<clients, network, pending, sessions, closed, acceptCh, loop>>

---------------------------------------------------------------------------
\* The network loses a packet.
Lose(p) ==
    /\ p \in net /\ losses < setting.loss
    /\ net' = net \ {p} /\ losses' = losses + 1
    /\ spoiled' = IF p.type = "DONE" THEN spoiled \cup {Owner(p.id)} ELSE spoiled
    /\ UNCHANGED <<clients, pending, accepted, loop>>

ClientStep(c) ==
    \/ ClientInit(c) \/ ClientResend(c) \/ ClientDone(c) \/ ClientTimeout(c)
    \/ \E id \in Ids : ClientResp(c, id)

HandshakeStep(id) == Reply(id) \/ StorePending(id) \/ CountPending(id)

LoopStep ==
    \/ \E c \in Clients : HandleInit(c)
    \/ \E id \in Ids : HandleAuth(id) \/ HandleClose(id)
    \/ Verify \/ LoopAccept

CleanStep(id) == ExpireLoad(id) \/ Expire(id) \/ ExpireSession(id)

Next ==
    \/ \E c \in Clients : ClientStep(c) \/ ClientClosed(c)
    \/ \E id \in Ids : HandshakeStep(id) \/ CleanStep(id) \/ Age(id) \/ HandleSessionEnd(id)
    \/ \E p \in net : ClientIgnore(p) \/ Lose(p)
    \/ LoopStep \/ Accept

Spec == Init /\ [][Next]_vars

\* Every goroutine and timer runs, packets that are not lost are read.  (There
\* are finitely many handshakes, so running one of them is running each.)
Fairness ==
    /\ \A c \in Clients : WF_vars(ClientStep(c))
    /\ WF_vars(\E id \in Ids : HandshakeStep(id))
    /\ WF_vars(\E id \in Ids : Age(id))
    /\ WF_vars(\E id \in Ids : ExpireLoad(id) \/ Expire(id))
    /\ WF_vars(\E id \in Ids : ExpireSession(id))
    /\ WF_vars(LoopStep) /\ WF_vars(Accept)

FairSpec == Spec /\ Fairness

---------------------------------------------------------------------------
(* Properties. *)

\* The type invariant: a client makes at most the tries it has, the listener
\* starts no more handshakes than the rate allows, acceptCh keeps its capacity,
\* and the server handles no more sessions than its limit.
TypeOK ==
    /\ setting \in Settings
    /\ client \in [Clients -> [pc : {"init", "auth", "up", "failed", "closed"},
                               tries : 0..setting.tries, id : Ids]]
    /\ net \subseteq Packets /\ losses \in 0..setting.loss /\ spoiled \subseteq Clients
    /\ rate \in [Clients -> 0..MaxRate]
    /\ hs \in [Ids -> {"none", "started", "replied", "stored", "counted"}]
    /\ pendingAuth \subseteq Ids /\ pendingCount \in Int
    /\ old \subseteq Ids /\ expiring \subseteq Ids
    /\ sessions \subseteq Ids /\ closed \subseteq Ids
    /\ active \subseteq Ids /\ Cardinality(active) <= MaxSessions
    /\ acceptCh \in Seq(Ids) /\ Len(acceptCh) <= AcceptCap
    /\ loop \in {"recv", "verify", "accept"} \X Ids

\* On a timely network pendingCount is the number of sessions waiting for AUTH,
\* but for those stored and not yet counted: no path through the read loop, the
\* handshake goroutines and the cleanup counts a session twice or not at all,
\* although AUTH may come before the session is counted (and the counter is
\* then negative for a moment).
PendingExact ==
    Timely => pendingCount =
                Cardinality(pendingAuth) - Cardinality({id \in Ids : hs[id] = "stored"})

\* The sessions in acceptCh.
Queued == {acceptCh[i] : i \in 1..Len(acceptCh)}

\* A session is handed to the server once, however often its client sends AUTH, and
\* whatever the network does: what the read loop is about to put into acceptCh is
\* neither there nor being handled, and what is there is there once, and not being
\* handled. (Two goroutines would share the session's streams.)
AcceptedOnce ==
    /\ loop[1] = "accept" => loop[2] \notin Queued \cup active
    /\ \A i, j \in 1..Len(acceptCh) : acceptCh[i] = acceptCh[j] => i = j
    /\ Queued \cap active = {}

\* Nobody stays half way: a client's handshake ends, and a session does not stay
\* pending.
HandshakeEnds ==
    /\ \A c \in Clients :
          (c \in setting.clients /\ client[c].pc \in {"init", "auth"})
              ~> client[c].pc \notin {"init", "auth"}
    /\ pendingAuth # {} ~> pendingAuth = {}

\* On a timely network that loses at most two packets fewer than there are tries
\* (an AUTH that comes before its session is pending costs one more), INIT, RESP
\* and AUTH are repaired by the resends: the handshake succeeds unless the listener
\* refused it or it was DONE that got lost (which nothing repairs).
LossIsRepaired ==
    \A c \in Clients :
        (/\ Timely /\ c \in setting.clients \ setting.wrong
         /\ setting.loss + 1 < setting.tries /\ client[c].pc = "init")
            ~> (client[c].pc = "up" \/ c \in spoiled)

\* A session whose client is gone does not stay in the server's map.
DeadSessionsGo ==
    \A c \in Clients :
        client[c].pc \in {"failed", "closed"} ~> \A id \in sessions : Owner(id) # c
=============================================================================
