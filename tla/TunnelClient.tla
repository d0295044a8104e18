---------------------------- MODULE TunnelClient ----------------------------
(***************************************************************************)
(* The shared tunnel of the three clients (cmd/guarch-client, zhip-client  *)
(* and grouk-client) and the slots of the servers they dial.               *)
(*                                                                         *)
(* Every SOCKS request runs handleSOCKS in a goroutine of its own. It asks *)
(* for the client's tunnel, which is dialled under c.mu when there is none *)
(* that is open, and opens a stream on it. A failed OpenStream makes the   *)
(* request forget the client's tunnel, whatever it is by then, and try     *)
(* once more. A tunnel is a mux over TLS (guarch), a QUIC connection       *)
(* (zhip) or a Grouk session over UDP, with an end at each side; "spent"   *)
(* is an end that is open and can open no more streams, "stuck" one that   *)
(* is held up by a relay whose program does not take its data. The inside  *)
(* of a tunnel is in the modules Mux, SecureConn and GroukSession.         *)
(***************************************************************************)
EXTENDS Integers, Sequences, FiniteSets

CONSTANTS
    Protocols,    \* the clients considered
    Requests,     \* the SOCKS connections the client accepts
    NoOne,        \* the lock's value when it is free
    FirstBackoff, \* the pause after a first failed dial (1 s in the code)
    MaxBackoff,   \* the longest pause before a dial (30 s in the code)
    MaxConns,     \* MaxConns[p]: the slots of p's server (1000 in the code)
    MaxStreams,   \* streams a zhip server keeps open on a connection (256)
    MaxTunnels    \* bound: MaxTunnels[p], tunnels made in one behaviour

ASSUME ClientAssumption ==
    /\ Protocols \subseteq {"guarch", "zhip", "grouk"}
    /\ IsFiniteSet(Requests)
    /\ NoOne \notin Requests
    /\ FirstBackoff \in Nat \ {0}
    /\ MaxBackoff \in Nat
    /\ FirstBackoff <= MaxBackoff
    /\ MaxConns \in [Protocols -> Nat]
    /\ MaxStreams \in Nat \ {0}
    /\ MaxTunnels \in [Protocols -> Nat]

VARIABLES
    protocol,  \* of this behaviour's client and server
    lock,      \* c.mu: the request that holds it across its sleep and dial
    active,    \* c.activeMux, c.activeConn or c.session: a tunnel, or 0 for nil
    backoff,   \* c.connectBackoff, in seconds
    tunnels,   \* for each tunnel the state of its ends, the ends that are stuck,
               \* and for zhip the streams that count against the server's limit
    pc,        \* where each request is in handleSOCKS
    mux,       \* the tunnel each request was given
    retried,   \* the requests in their second attempt
    main,      \* the client's main: running, closing or exited
    fails      \* history: dials that failed since one succeeded

vars == <<protocol, lock, active, backoff, tunnels, pc, mux, retried, main, fails>>

\* "cancelled": a dial of zhip that starts when main's context is done.
Dialling == {"sleep", "dial", "cancelled"}
Stages == Dialling \union {"idle", "get", "open", "drop", "request", "status",
                          "relay", "done", "failed"}
Ends == {"open", "spent", "closed"}
Counts == {n \in Int : n <= MaxStreams}
Sides == {"client", "server"}
Tunnels == [client : Ends, server : Ends, used : Counts, stuck : SUBSET Sides]
Ids == 1..Len(tunnels)

-----------------------------------------------------------------------------

\* No request yet, no tunnel, no pause.
Init ==
    /\ protocol \in Protocols
    /\ lock = NoOne
    /\ active = 0
    /\ backoff = 0
    /\ tunnels = <<>>
    /\ pc = [r \in Requests |-> "idle"]
    /\ mux = [r \in Requests |-> 0]
    /\ retried = {}
    /\ main = "running"
    /\ fails = 0

Goto(r, stage) == pc' = [pc EXCEPT ![r] = stage]

\* The tunnel is not closed at the client: IsClosed is FALSE.
IsOpen(t) == t # 0 /\ tunnels[t].client # "closed"

\* The client can send on tunnel t.
CanSend(t) == tunnels[t].client = "open"

\* The listener hands a SOCKS connection to a handleSOCKS of its own.
Accept(r) ==
    /\ main = "running"
    /\ pc[r] = "idle"
    /\ Goto(r, "get")
    /\ UNCHANGED <<protocol, lock, active, backoff, tunnels, mux, retried, main, fails>>

\* The client's tunnel is open: the request uses it.
UseMux(r) ==
    /\ pc[r] = "get"
    /\ lock = NoOne
    /\ IsOpen(active)
    /\ backoff' = 0
    /\ mux' = [mux EXCEPT ![r] = active]
    /\ Goto(r, "open")
    /\ UNCHANGED <<protocol, lock, active, tunnels, retried, main, fails>>

\* The context given to zhip's dial and OpenStreamSync is done.
Cancelled == protocol = "zhip" /\ main # "running"

DialStage == IF Cancelled THEN "cancelled" ELSE "dial"

\* Mutant: the dial is not made under the lock.
StartDialUnlocked(r, kept) ==
    /\ pc[r] = "get"
    /\ ~IsOpen(active)
    /\ lock' = r
    /\ active' = kept
    /\ Goto(r, IF backoff > 0 THEN "sleep" ELSE DialStage)
    /\ UNCHANGED <<protocol, backoff, tunnels, mux, retried, main, fails>>

\* The request keeps the lock: it will dial, after a pause if the last dial
\* failed. What the client's field holds meanwhile is for the callers to say.
StartDial(r, kept) ==
    /\ pc[r] = "get"
    /\ lock = NoOne
    /\ ~IsOpen(active)
    /\ lock' = r
    /\ active' = kept
    /\ Goto(r, IF backoff > 0 THEN "sleep" ELSE DialStage)
    /\ UNCHANGED <<protocol, backoff, tunnels, mux, retried, main, fails>>

\* getOrCreateMux leaves the closed mux where it is.
GuarchGet(r) == protocol = "guarch" /\ (UseMux(r) \/ StartDial(r, active))

\* getOrCreateConn forgets the closed connection.
ZhipGet(r) == protocol = "zhip" /\ (UseMux(r) \/ StartDial(r, 0))

\* getOrCreateSession closes the closed session again, and forgets it.
GroukGet(r) == protocol = "grouk" /\ (UseMux(r) \/ StartDial(r, 0))

\* time.Sleep(c.connectBackoff), with the lock held.
Sleep(r) ==
    /\ pc[r] = "sleep"
    /\ Goto(r, DialStage)
    /\ UNCHANGED <<protocol, lock, active, backoff, tunnels, mux, retried, main, fails>>

-----------------------------------------------------------------------------

\* The tunnels that hold a slot at the server.
Held == {t \in Ids : tunnels[t].server # "closed"}

\* The server's accept loop finds a slot in maxConns.
HasSlot == Cardinality(Held) < MaxConns[protocol]

\* A tunnel as it is made; the stream that zhip authenticates with counts,
\* because the server never reads it to its end.
Made(client, server) ==
    [client |-> client, server |-> server, used |-> 1, stuck |-> {}]

Add(tunnel) ==
    /\ Len(tunnels) < MaxTunnels[protocol]
    /\ tunnels' = Append(tunnels, tunnel)

\* Mutant: the pause is not reset when the connection is back.
DialledKeepsBackoff(r, tunnel) ==
    /\ pc[r] = "dial"
    /\ Add(tunnel)
    /\ active' = Len(tunnels) + 1
    /\ mux' = [mux EXCEPT ![r] = Len(tunnels) + 1]
    /\ fails' = 0
    /\ lock' = NoOne
    /\ Goto(r, "open")
    /\ UNCHANGED <<protocol, backoff, retried, main>>

\* connect succeeded: the new tunnel is the client's, and the lock is free.
Dialled(r, tunnel) ==
    /\ pc[r] = "dial"
    /\ Add(tunnel)
    /\ active' = Len(tunnels) + 1
    /\ mux' = [mux EXCEPT ![r] = Len(tunnels) + 1]
    /\ backoff' = 0
    /\ fails' = 0
    /\ lock' = NoOne
    /\ Goto(r, "open")
    /\ UNCHANGED <<protocol, retried, main>>

\* The server's accept loop closes a connection it has no slot for, and the
\* client's handshake fails.
GuarchDial(r) == protocol = "guarch" /\ HasSlot /\ Dialled(r, Made("open", "open"))

\* The same with CloseWithError, before the client is authenticated.
ZhipDial(r) == protocol = "zhip" /\ HasSlot /\ Dialled(r, Made("open", "open"))

\* The listener has answered the handshake before main looks at its limit: a
\* session too many is closed at the server, and open at the client.
GroukDial(r) ==
    protocol = "grouk" /\ Dialled(r, Made("open", IF HasSlot THEN "open" ELSE "closed"))

\* Mutant: the pause is never cut.
DoubledUncut(b) == IF b = 0 THEN FirstBackoff ELSE 2 * b

\* The pause after one more failed dial.
Doubled(b) ==
    IF b = 0 THEN FirstBackoff ELSE IF 2 * b > MaxBackoff THEN MaxBackoff ELSE 2 * b

\* Mutant: a failed dial returns with the lock held.
DialFailsLocked(r) ==
    /\ pc[r] \in {"dial", "cancelled"}
    /\ backoff' = Doubled(backoff)
    /\ fails' = fails + 1
    /\ Goto(r, "failed")
    /\ UNCHANGED <<protocol, lock, active, tunnels, mux, retried, main>>

\* The server has taken the client's proof of the key, and a slot; the client does
\* not get the server's proof in time and gives up. The two ends of guarch prove
\* the key inside the encrypted connection,
GuarchAuthCut == protocol = "guarch" /\ HasSlot /\ Add(Made("closed", "open"))

\* those of zhip on the first stream of the connection,
ZhipAuthCut == protocol = "zhip" /\ HasSlot /\ Add(Made("closed", "open"))

\* and for grouk all five resends of AUTH, or their answers, may be lost.
GroukAuthCut == protocol = "grouk" /\ HasSlot /\ Add(Made("closed", "open"))

\* connect fails: the server is out of reach or out of slots, or the client
\* gave up on the handshake after it. The request is refused.
DialFails(r) ==
    /\ pc[r] \in {"dial", "cancelled"}
    /\ \/ UNCHANGED tunnels
       \/ pc[r] = "dial" /\ (GuarchAuthCut \/ ZhipAuthCut \/ GroukAuthCut)
    /\ backoff' = Doubled(backoff)
    /\ fails' = fails + 1
    /\ lock' = NoOne
    /\ Goto(r, "failed")
    /\ UNCHANGED <<protocol, active, mux, retried, main>>

-----------------------------------------------------------------------------

\* A first failure to open a stream makes the request drop the client's
\* tunnel, a second one refuses it.
OpenFails(r) == Goto(r, IF r \in retried THEN "failed" ELSE "drop")

\* The server has closed its socket: the client's may return errors already,
\* before its readLoop closes the mux.
Reset(t) == protocol = "guarch" /\ tunnels[t].server = "closed"

\* Sending OPEN fails when the mux has closed since, or its key is used up.
\* Grouk's OpenStream fails when the session has closed, or its ids are used up.
OpenStream(r) ==
    /\ pc[r] = "open"
    /\ protocol # "zhip"
    /\ \/ CanSend(mux[r]) /\ Goto(r, "request")
       \/ (~CanSend(mux[r]) \/ Reset(mux[r])) /\ OpenFails(r)
    /\ UNCHANGED <<protocol, lock, active, backoff, tunnels, mux, retried, main, fails>>

\* OpenStreamSync fails on a connection that has ended and on a context that
\* is done, and waits while the server counts MaxStreams streams.
ZhipOpen(r) ==
    /\ pc[r] = "open"
    /\ protocol = "zhip"
    /\ IF Cancelled \/ ~IsOpen(mux[r])
         THEN OpenFails(r) /\ UNCHANGED tunnels
         ELSE /\ tunnels[mux[r]].used < MaxStreams
              /\ tunnels' = [tunnels EXCEPT ![mux[r]].used = @ + 1]
              /\ Goto(r, "request")
    /\ UNCHANGED <<protocol, lock, active, backoff, mux, retried, main, fails>>

\* handleSOCKS sets the client's tunnel to nil without looking at which tunnel
\* that is, and without closing it; then it asks for the tunnel again.
Drop(r) ==
    /\ pc[r] = "drop"
    /\ lock = NoOne
    /\ active' = 0
    /\ retried' = retried \union {r}
    /\ Goto(r, "get")
    /\ UNCHANGED <<protocol, lock, backoff, tunnels, mux, main, fails>>

\* The CONNECT request can be written to the stream: a used-up key lets no data
\* through,
GuarchWrites(t) == protocol = "guarch" /\ CanSend(t)

\* a QUIC stream takes it as long as the connection lasts,
ZhipWrites(t) == protocol = "zhip" /\ IsOpen(t)

\* and used-up ids do not matter to a stream that has one.
GroukWrites(t) == protocol = "grouk" /\ IsOpen(t)

Writes(t) == GuarchWrites(t) \/ ZhipWrites(t) \/ GroukWrites(t)

\* The target is split and encoded, and the request written.
WriteRequest(r) ==
    /\ pc[r] = "request"
    /\ \/ Writes(mux[r]) /\ Goto(r, "status")
       \/ (~Writes(mux[r]) \/ Reset(mux[r])) /\ Goto(r, "failed")
    /\ UNCHANGED <<protocol, lock, active, backoff, tunnels, mux, retried, main, fails>>

\* handleStream can answer on the stream: its end of the tunnel can send.
GuarchAnswers(t) == protocol = "guarch" /\ tunnels[t].server = "open"

\* handleQUICStream likewise. (What the client of Grouk writes never reaches the
\* server's program, see OpenedIsRead in GroukStream.)
ZhipAnswers(t) == protocol = "zhip" /\ tunnels[t].server = "open"

\* The server's handler answered with a status, and the client's end takes it off
\* the connection: the target was reached and the request is relayed, or it was
\* not. Neither this read nor the handler's read of the request has a deadline.
ReadStatus(r) ==
    /\ pc[r] = "status"
    /\ IsOpen(mux[r])
    /\ "client" \notin tunnels[mux[r]].stuck
    /\ GuarchAnswers(mux[r]) \/ ZhipAnswers(mux[r])
    /\ \E stage \in {"relay", "failed"} : Goto(r, stage)
    /\ UNCHANGED <<protocol, lock, active, backoff, tunnels, mux, retried, main, fails>>

\* The tunnel closed while the request waited for the status.
ReadFails(r) ==
    /\ pc[r] = "status"
    /\ ~IsOpen(mux[r])
    /\ Goto(r, "failed")
    /\ UNCHANGED <<protocol, lock, active, backoff, tunnels, mux, retried, main, fails>>

\* The server's end is gone and acknowledges nothing: the stream gives up.
\* It does not if the request was acknowledged before.
GroukGivesUp(r) ==
    /\ pc[r] = "status"
    /\ protocol = "grouk"
    /\ IsOpen(mux[r])
    /\ tunnels[mux[r]].server = "closed"
    /\ Goto(r, "failed")
    /\ UNCHANGED <<protocol, lock, active, backoff, tunnels, mux, retried, main, fails>>

\* zhip's relay cancels both directions of its stream at both ends, which ends
\* it for the server's limit. A refused request only closes its own direction,
\* and the server returns without reading to the end: that stream counts on.
RelayEnds(r) ==
    /\ pc[r] = "relay"
    /\ protocol = "zhip"
    /\ IsOpen(mux[r])
    /\ tunnels' = [tunnels EXCEPT ![mux[r]].used = @ - 1]
    /\ Goto(r, "done")
    /\ UNCHANGED <<protocol, lock, active, backoff, mux, retried, main, fails>>

-----------------------------------------------------------------------------

\* A relay's conn.Write, which has no deadline, waits for a program that does not
\* read; behind it the stream's readCh fills and readLoop waits, and at last the
\* other end, whose writes and PONGs fill the connection. (For QUIC it is the
\* connection's flow control that streams nobody reads use up.)
Stall(t, end) ==
    /\ protocol # "grouk"
    /\ \E r \in Requests : pc[r] = "relay" /\ mux[r] = t
    /\ tunnels[t][end] # "closed" /\ end \notin tunnels[t].stuck
    /\ tunnels' = [tunnels EXCEPT ![t].stuck = @ \union {end}]
    /\ UNCHANGED <<protocol, lock, active, backoff, pc, mux, retried, main, fails>>

\* The program reads on, or its relay ends. Nothing makes it.
Resume(t, end) ==
    /\ end \in tunnels[t].stuck
    /\ tunnels' = [tunnels EXCEPT ![t].stuck = @ \ {end}]
    /\ UNCHANGED <<protocol, lock, active, backoff, pc, mux, retried, main, fails>>

\* The mux of a stuck end does not notice that the connection has ended: its
\* readLoop is not reading, and keepAlive's error closes nothing. QUIC's does.
Listens(t, end) == protocol = "guarch" => end \notin tunnels[t].stuck

Other(end) == IF end = "client" THEN "server" ELSE "client"

\* A connection fails at one end: a read fails and readLoop closes the mux, or
\* QUIC gives the connection up. Nothing tells a Grouk client of a loss; its
\* server may restart, or hear nothing for five minutes.
Break(t, end) ==
    /\ protocol = "grouk" => end = "server"
    /\ Listens(t, end)
    /\ "closed" \notin {tunnels[t].client, tunnels[t].server}
    /\ tunnels' = [tunnels EXCEPT ![t][end] = "closed"]
    /\ UNCHANGED <<protocol, lock, active, backoff, pc, mux, retried, main, fails>>

\* An end's key is used up (guarch), or the client's stream ids (grouk).
Spend(t, end) ==
    /\ protocol = "guarch" \/ (protocol = "grouk" /\ end = "client")
    /\ tunnels[t][end] = "open"
    /\ tunnels' = [tunnels EXCEPT ![t][end] = "spent"]
    /\ UNCHANGED <<protocol, lock, active, backoff, pc, mux, retried, main, fails>>

\* An end sees that the other one closed; at the server the slot is free.
PeerCloses(t, end) ==
    /\ Listens(t, end)
    /\ tunnels[t][end] # "closed"
    /\ tunnels[t][Other(end)] = "closed"
    /\ tunnels' = [tunnels EXCEPT ![t][end] = "closed"]
    /\ UNCHANGED <<protocol, lock, active, backoff, pc, mux, retried, main, fails>>

\* A signal: the listener is closed, requests under way go on.
Interrupt ==
    /\ main = "running"
    /\ main' = "closing"
    /\ UNCHANGED <<protocol, lock, active, backoff, tunnels, pc, mux, retried, fails>>

\* close waits for c.mu and closes the client's tunnel; then main returns, and
\* with the process every other connection is gone.
Exit ==
    /\ main = "closing"
    /\ lock = NoOne
    /\ main' = "exited"
    /\ tunnels' = [t \in Ids |-> [tunnels[t] EXCEPT !.client = "closed"]]
    /\ UNCHANGED <<protocol, lock, active, backoff, pc, mux, retried, fails>>

-----------------------------------------------------------------------------

GetMux(r) == GuarchGet(r) \/ ZhipGet(r) \/ GroukGet(r)

Connect(r) == GuarchDial(r) \/ ZhipDial(r) \/ GroukDial(r) \/ DialFails(r)

\* What a request does by itself.
Handle(r) ==
    \/ Sleep(r)
    \/ Connect(r)
    \/ ZhipOpen(r)
    \/ ReadFails(r)

\* What it does with the tunnel's help.
Exchange(r) == OpenStream(r) \/ WriteRequest(r) \/ ReadStatus(r)

Request(r) ==
    \/ Accept(r) \/ GetMux(r) \/ Drop(r) \/ Handle(r) \/ Exchange(r)
    \/ GroukGivesUp(r) \/ RelayEnds(r)

\* When the client has exited, only the server's ends are left to close.
Next ==
    \/ /\ main # "exited"
       /\ \/ \E r \in Requests : Request(r)
          \/ \E t \in Ids, end \in Sides : Break(t, end) \/ Spend(t, end)
          \/ \E t \in Ids, end \in Sides : Stall(t, end) \/ Resume(t, end)
          \/ Interrupt
          \/ Exit
    \/ \E t \in Ids, end \in Sides : PeerCloses(t, end)

Spec == Init /\ [][Next]_vars

Alive(A) == main # "exited" /\ A

\* The numbers of the tunnels.
Numbers == UNION {1..MaxTunnels[p] : p \in Protocols}

\* Nothing on tunnel t waits for a relay, or nothing waits any more.
Flows(t) == tunnels[t].stuck = {} \/ ~IsOpen(t)

\* Pauses, dials and handshakes are bounded by timers (10 s or 15 s to dial, at
\* most 30 s for the handshake), and c.mu is handed to its waiters in the order
\* they came once one of them has waited for a millisecond. What a request writes
\* and reads on its stream has no timer: it comes through while no end of its
\* tunnel is stuck, for the server then reads the request, and takes at most 10 s
\* to reach the target. An end of a TCP or QUIC connection hears of the other
\* end's closing (keep-alives fail otherwise) unless it is stuck; a Grouk server
\* forgets a silent client, a Grouk client may hear nothing.
FairSpec ==
    /\ Spec
    /\ \A r \in Requests :
          /\ WF_vars(Alive(Handle(r)))
          /\ WF_vars(Alive(Exchange(r) /\ Flows(mux[r])))
          /\ WF_vars(Alive(GetMux(r)))
          /\ WF_vars(Alive(Drop(r)))
    /\ \A t \in Numbers :
          /\ WF_vars(t \in Ids /\ PeerCloses(t, "server"))
          /\ WF_vars(protocol # "grouk" /\ t \in Ids /\ PeerCloses(t, "client"))
    /\ WF_vars(Exit)

-----------------------------------------------------------------------------

\* The variables have their types, and the server never has more
\* tunnels than maxConns has slots, nor more streams on one than its limit.
TypeOK ==
    /\ protocol \in Protocols
    /\ lock \in Requests \union {NoOne}
    /\ active \in 0..Len(tunnels)
    /\ backoff \in 0..MaxBackoff
    /\ tunnels \in Seq(Tunnels)
    /\ pc \in [Requests -> Stages]
    /\ mux \in [Requests -> 0..Len(tunnels)]
    /\ retried \subseteq Requests
    /\ main \in {"running", "closing", "exited"}
    /\ fails \in Nat
    /\ Cardinality(Held) <= MaxConns[protocol]

\* A request sleeps or dials exactly while it holds c.mu, so that no two
\* requests dial at once.
DialsAlone ==
    \A r \in Requests : pc[r] \in Dialling <=> lock = r

Shorter(a, b) == IF a < b THEN a ELSE b

PowersOf2[n \in Nat] == IF n = 0 THEN 1 ELSE 2 * PowersOf2[n - 1]

\* The pause doubles with every dial that failed since the last success, up to
\* its cap, whichever requests made those dials; and while the client's mux is
\* open no pause is left over from an earlier outage.
BackoffIsExact ==
    /\ backoff = IF fails = 0 THEN 0
                 ELSE Shorter(FirstBackoff * PowersOf2[fails - 1], MaxBackoff)
    /\ IsOpen(active) => backoff = 0

OpenTunnels == {t \in Ids : tunnels[t].client # "closed"}

\* README.md says that all streams share one tunnel. A tunnel that is open and is
\* no longer the client's was forgotten by a request whose OpenStream failed, maybe
\* just after another request had dialled it; a request leaves at most one behind.
\* The lock keeps two requests from replacing each other's tunnel in any other way.
LeakIsBounded ==
    Cardinality(OpenTunnels \ {active}) <= Cardinality(retried)

\* A request that waits for something no timer bounds: for a tunnel that another
\* request's relay holds up; for a status from a server whose key is used up, or
\* for one that answers a request which Grouk did not deliver; or zhip's limit is
\* reached, by relays that go on and by refused requests, whose streams count as
\* long as the connection lasts.
Hangs(r) ==
    /\ IsOpen(mux[r])
    /\ \/ pc[r] \in {"request", "status"} /\ ~Flows(mux[r])
       \/ pc[r] = "open" /\ protocol = "guarch" /\ ~Flows(mux[r])
       \/ pc[r] = "status" /\ protocol = "guarch" /\ tunnels[mux[r]].server = "spent"
       \/ pc[r] = "status" /\ protocol = "grouk"
       \/ pc[r] = "open" /\ protocol = "zhip" /\ tunnels[mux[r]].used = MaxStreams

\* Every SOCKS connection is answered: it is relayed, refused, or the client
\* exits, although requests wait for each other's dials and pauses, drop each
\* other's tunnels and find them closed. The exceptions are those of Hangs: there
\* the code has no deadline, and a request may wait as long as its tunnel lasts.
EveryoneAnswered ==
    \A r \in Requests :
        []<>(main = "exited" \/ pc[r] \in {"idle", "relay", "done", "failed"} \/ Hangs(r))

\* The client exits after a signal, although close has to wait for requests
\* that sleep and dial with the lock held.
ExitsAfterSignal == []<>(main \in {"running", "exited"})

\* README.md, "Key Limits | 2^30 messages or 64GB | Force reconnect before key
\* exhaustion": no request waits for ever on a tunnel that is held up by nothing
\* else than a used-up key.
ForcesReconnect ==
    \A r \in Requests :
        []<>(main = "exited" \/ ~(/\ pc[r] = "status" /\ IsOpen(mux[r]) /\ Flows(mux[r])
                                 /\ "spent" \in {tunnels[mux[r]].client, tunnels[mux[r]].server}))

\* README.md, "Exponential backoff reconnect on connection loss": a client does
\* not keep a tunnel for ever whose server has gone.
Reconnects ==
    []<>(main = "exited" \/ (IsOpen(active) => tunnels[active].server # "closed"))
=============================================================================
