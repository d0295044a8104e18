---------------------------- MODULE GroukSession ----------------------------
(***************************************************************************)
(* The life of the streams of one authenticated Grouk session              *)
(* (pkg/transport/grouk.go): the client's session, whose program opens     *)
(* streams, writes to them and closes them, and the server's, whose        *)
(* program accepts them.  What arrives at the client goes through          *)
(* sessionReadLoop, what arrives at the server through the listener's      *)
(* readLoop, which all sessions share.  Either session may be closed by    *)
(* its program, by the peer's CLOSE, or by the listener's cleanup.         *)
(*                                                                         *)
(* A stream carries one chunk, from the client; the transfer of more is    *)
(* the subject of GroukStream.  The server's program is any one that runs  *)
(* AcceptStream in a loop and a handler per stream that may return at any  *)
(* time.                                                                   *)
(***************************************************************************)
EXTENDS Integers, Sequences, SequencesExt

CONSTANTS
    Settings,     \* [streams, ordered, dups, retries]: streams the client may
                  \* open, does the network keep all packets in order, how many
                  \* it may deliver twice, groukMaxRetransmit (10)
    AcceptCap     \* capacity of acceptCh (32)

ASSUME SessionConstantsOK ==
    /\ Settings \subseteq [streams : Nat, ordered : BOOLEAN, dups : Nat, retries : Nat]
    /\ AcceptCap \in Nat \ {0}

Ends == {"client", "server"}
Peer(e) == IF e = "client" THEN "server" ELSE "client"

VARIABLES
    setting,      \* of this behaviour
    session,      \* session[e]: open, sweep (closeCh is closed), closed
    net,          \* net[e]: packets on their way to e
    dups,         \* packets the network has delivered twice
    \* --- the client's streams, each a single object
    app,          \* app[s]: where the client's program is with stream s
    cmap, cdone,  \* streams in the session's map, streams marked closed
    ended,        \* streams whose Close has sent CLOSE
    wrote,        \* streams with a chunk written
    unacked,      \* streams with that chunk in sendBuf
    tries,        \* tries[s]: how often it was retransmitted
    \* --- the server's streams: an object is named by its stream and a number
    made,         \* made[s]: how many objects were made for stream s
    smap,         \* smap[s]: the object in the session's map, 0 if none
    live,         \* objects not marked closed
    late,         \* objects stored when the sweep of Close was over
    \* --- the server's goroutines
    routed,       \* the listener has the session in its table
    loop,         \* the listener's readLoop: [pc, s]
    acceptCh,     \* the session's queue of streams
    accepting,    \* the program and the session: queued, running, ended
    handlers      \* objects whose handler runs

client == <<app, cmap, cdone, ended, wrote, unacked, tries>>
objects == <<made, smap, live, late>>
server == <<objects, routed, loop, acceptCh, accepting, handlers>>
vars == <<setting, session, net, dups, client, server>>

Streams == 1..setting.streams
Packets(S) == [type : {"OPEN", "DATA", "CLOSE", "ACK"}, s : S] \cup [type : {"SCLOSE"}, s : {0}]
Packet(type, s) == [type |-> type, s |-> s]

\* The session as both handshakes leave it: stored in the listener's table and
\* waiting in the listener's acceptCh.
Init ==
    /\ setting \in Settings
    /\ session = [e \in Ends |-> "open"]
    /\ net = [e \in Ends |-> <<>>] /\ dups = 0
    /\ app = [s \in Streams |-> "none"]
    /\ cmap = {} /\ cdone = {} /\ ended = {} /\ wrote = {} /\ unacked = {}
    /\ tries = [s \in Streams |-> 0]
    /\ made = [s \in Streams |-> 0] /\ smap = [s \in Streams |-> 0]
    /\ live = {} /\ late = {}
    /\ routed = TRUE /\ loop = [pc |-> "recv", s |-> 0]
    /\ acceptCh = <<>> /\ accepting = "queued" /\ handlers = {}

\* A packet p is put on q, one of the network's two directions.  Of a network
\* without order it matters only whether a packet is in flight.
Put(q, p) == IF setting.ordered \/ p \notin Range(q) THEN Append(q, p) ELSE q

\* sendPacket to the peer of e.
Send(e, type, s) == net' = [net EXCEPT ![Peer(e)] = Put(@, Packet(type, s))]

\* Packet p is the next that e gets, and its answer, if any, makes back of what is
\* on its way to the peer.  p is the first in flight, or any if the network does
\* not keep order.  Such a network may also lose p, which is the same as never
\* delivering it, and deliver it once more later.
Arrives(e, p, back) ==
    \E i \in 1..Len(net[e]), again \in {0, 1} :
        /\ net[e][i] = p /\ (setting.ordered => i = 1)
        /\ dups' = dups + again /\ dups' <= setting.dups
        /\ net' = [net EXCEPT ![e] = IF again = 1 THEN @ ELSE RemoveAt(@, i),
                              ![Peer(e)] = back]

---------------------------------------------------------------------------
(* Close of a session.  closeOnce: whoever comes second waits for the first. *)

\* closed is set and closeCh closed, by the first caller.
StartClose(e) == session' = [session EXCEPT ![e] = IF @ = "open" THEN "sweep" ELSE @]

\* Every stream in the map is marked closed, and stays in the map; then CLOSE
\* is sent.
Sweep(e) ==
    /\ session[e] = "sweep"
    /\ session' = [session EXCEPT ![e] = "closed"]
    /\ Send(e, "SCLOSE", 0)
    /\ IF e = "client"
         THEN cdone' = cdone \cup cmap /\ UNCHANGED live
         ELSE live' = {o \in live : smap[o[1]] # o[2]} /\ UNCHANGED cdone
    /\ UNCHANGED <<setting, dups, app, cmap, ended, wrote, unacked, tries>>
    /\ UNCHANGED <<made, smap, late, routed, loop, acceptCh, accepting, handlers>>

\* The client is interrupted.
Interrupt ==
    /\ session["client"] = "open" /\ StartClose("client")
    /\ UNCHANGED <<setting, net, dups, client, server>>

\* cleanupSessions: nothing arrived for groukSessionTimeout, although a client
\* whose session is open pings every 20 seconds.
Expire ==
    /\ routed /\ (setting.ordered => session["client"] # "open")
    /\ routed' = FALSE /\ StartClose("server")
    /\ UNCHANGED <<setting, net, dups, client, objects>>
    /\ UNCHANGED <<loop, acceptCh, accepting, handlers>>

---------------------------------------------------------------------------
(* The client's program. *)

\* OpenStream: the session is open, the next number is taken.
OpenCheck(s) ==
    /\ app[s] = "none" /\ \A t \in 1..(s - 1) : app[t] # "none"
    /\ session["client"] = "open"
    /\ app' = [app EXCEPT ![s] = "checked"]
    /\ UNCHANGED <<setting, session, net, dups, server>>
    /\ UNCHANGED <<cmap, cdone, ended, wrote, unacked, tries>>

\* The stream is stored and OPEN sent, once: it is not in sendBuf.
OpenStore(s) ==
    /\ app[s] = "checked"
    /\ app' = [app EXCEPT ![s] = "up"] /\ cmap' = cmap \cup {s}
    /\ Send("client", "OPEN", s)
    /\ UNCHANGED <<setting, session, dups, server>>
    /\ UNCHANGED <<cdone, ended, wrote, unacked, tries>>

\* Write of one chunk.
Write(s) ==
    /\ app[s] = "up" /\ s \notin wrote \cup cdone
    /\ wrote' = wrote \cup {s} /\ unacked' = unacked \cup {s}
    /\ Send("client", "DATA", s)
    /\ UNCHANGED <<setting, session, dups, server>>
    /\ UNCHANGED <<app, cmap, cdone, ended, tries>>

\* Mutant: the limit is compared before the count.
RetransmitOneMore(s) ==
    /\ s \in unacked \ cdone /\ tries[s] <= setting.retries
    /\ tries' = [tries EXCEPT ![s] = @ + 1]
    /\ Send("client", "DATA", s)
    /\ UNCHANGED <<setting, session, dups, server>>
    /\ UNCHANGED <<app, cmap, cdone, ended, wrote, unacked>>

\* retransmitLoop sends the chunk again.
Retransmit(s) ==
    /\ s \in unacked \ cdone /\ tries[s] < setting.retries
    /\ tries' = [tries EXCEPT ![s] = @ + 1]
    /\ Send("client", "DATA", s)
    /\ UNCHANGED <<setting, session, dups, server>>
    /\ UNCHANGED <<app, cmap, cdone, ended, wrote, unacked>>

\* It has done so often enough: the stream is marked closed, nothing is sent.
GiveUp(s) ==
    /\ s \in unacked \ cdone /\ tries[s] = setting.retries
    /\ cdone' = cdone \cup {s}
    /\ UNCHANGED <<setting, session, net, dups, server>>
    /\ UNCHANGED <<app, cmap, ended, wrote, unacked, tries>>

\* Close of a stream: nothing if it is marked closed already.
CloseStream(s) ==
    /\ app[s] = "up"
    /\ app' = [app EXCEPT ![s] = "ended"]
    /\ IF s \in cdone
         THEN UNCHANGED <<net, cmap, cdone, ended>>
         ELSE /\ Send("client", "CLOSE", s)
              /\ cmap' = cmap \ {s} /\ cdone' = cdone \cup {s}
              /\ ended' = ended \cup {s}
    /\ UNCHANGED <<setting, session, dups, wrote, unacked, tries, server>>

---------------------------------------------------------------------------
(* What arrives. *)

\* sessionReadLoop and handlePacket of the client, while its session is open.
ClientReceive(p) ==
    /\ session["client"] = "open" /\ Arrives("client", p, net["server"])
    /\ \/ /\ p.type = "ACK"
          /\ unacked' = IF p.s \in cmap THEN unacked \ {p.s} ELSE unacked
          /\ UNCHANGED <<session, cmap, cdone>>
       \/ /\ p.type = "CLOSE"
          /\ cdone' = IF p.s \in cmap THEN cdone \cup {p.s} ELSE cdone
          /\ cmap' = cmap \ {p.s}
          /\ UNCHANGED <<session, unacked>>
       \/ /\ p.type = "SCLOSE" /\ StartClose("client")
          /\ UNCHANGED <<cmap, cdone, unacked>>
    /\ UNCHANGED <<setting, app, ended, wrote, tries, server>>

\* The listener's readLoop hands the session a packet of this type for stream s.
ServerGets(type, s, back) ==
    /\ loop.pc = "recv" /\ routed
    /\ Arrives("server", Packet(type, s), back)

\* OPEN: a new object takes the place of any other, even if the session is
\* closed; then acceptCh must take it.
HandleOpen(s) ==
    /\ ServerGets("OPEN", s, net["client"])
    /\ made' = [made EXCEPT ![s] = @ + 1]
    /\ smap' = [smap EXCEPT ![s] = made[s] + 1]
    /\ live' = live \cup {<<s, made[s] + 1>>}
    /\ late' = IF session["server"] \in {"open", "sweep"} THEN late
               ELSE late \cup {<<s, made[s] + 1>>}
    /\ loop' = [pc |-> "accept", s |-> s]
    /\ UNCHANGED <<setting, session, client, routed, acceptCh, accepting, handlers>>

\* Mutant: the loop waits for acceptCh alone.
PushStreamBlind ==
    /\ loop.pc = "accept"
    /\ Len(acceptCh) < AcceptCap
    /\ acceptCh' = Append(acceptCh, <<loop.s, made[loop.s]>>)
    /\ loop' = [pc |-> "recv", s |-> 0]
    /\ UNCHANGED <<setting, session, net, dups, client, objects, routed, accepting, handlers>>

\* acceptCh has room, or the session is closed.
PushStream ==
    /\ loop.pc = "accept"
    /\ \/ /\ Len(acceptCh) < AcceptCap
          /\ acceptCh' = Append(acceptCh, <<loop.s, made[loop.s]>>)
       \/ session["server"] # "open" /\ UNCHANGED acceptCh
    /\ loop' = [pc |-> "recv", s |-> 0]
    /\ UNCHANGED <<setting, session, net, dups, client, objects, routed, accepting, handlers>>

\* Mutant: data of an unknown stream is acknowledged too.
HandleDataAcksAll(s) ==
    /\ ServerGets("DATA", s, Put(net["client"], Packet("ACK", s)))
    /\ UNCHANGED <<setting, session, client, server>>

\* DATA is acknowledged if the map has the stream, marked closed or not.
HandleData(s) ==
    /\ ServerGets("DATA", s, IF smap[s] # 0 THEN Put(net["client"], Packet("ACK", s))
                                            ELSE net["client"])
    /\ UNCHANGED <<setting, session, client, server>>

\* Mutant: the stream leaves the map and is not marked closed.
HandleCloseUnmarked(s) ==
    /\ ServerGets("CLOSE", s, net["client"])
    /\ smap' = [smap EXCEPT ![s] = 0]
    /\ UNCHANGED <<setting, session, client, made, live, late>>
    /\ UNCHANGED <<routed, loop, acceptCh, accepting, handlers>>

\* CLOSE marks the object in the map and removes it.
HandleClose(s) ==
    /\ ServerGets("CLOSE", s, net["client"])
    /\ live' = live \ {<<s, smap[s]>>}
    /\ smap' = [smap EXCEPT ![s] = 0]
    /\ UNCHANGED <<setting, session, client, made, late>>
    /\ UNCHANGED <<routed, loop, acceptCh, accepting, handlers>>

\* The peer's session CLOSE: the loop runs Close, or waits for who does.
HandleSessionClose ==
    /\ ServerGets("SCLOSE", 0, net["client"])
    /\ StartClose("server")
    /\ loop' = [pc |-> "close", s |-> 0]
    /\ UNCHANGED <<setting, client, objects, routed, acceptCh, accepting, handlers>>

LoopClosed ==
    /\ loop.pc = "close" /\ session["server"] = "closed"
    /\ loop' = [pc |-> "recv", s |-> 0]
    /\ UNCHANGED <<setting, session, net, dups, client, objects>>
    /\ UNCHANGED <<routed, acceptCh, accepting, handlers>>

---------------------------------------------------------------------------
(* The server's program. *)

\* The listener's Accept returns the session: it is served, or the limit on
\* sessions is reached and it is closed.
AcceptSession ==
    /\ accepting = "queued"
    /\ \/ accepting' = "running" /\ UNCHANGED session
       \/ accepting' = "ended" /\ StartClose("server")
    /\ UNCHANGED <<setting, net, dups, client, objects, routed, loop, acceptCh, handlers>>

\* AcceptStream in a loop: a handler per stream, until the session is closed.
AcceptStream ==
    /\ accepting = "running"
    /\ \/ /\ acceptCh # <<>>
          /\ acceptCh' = Tail(acceptCh) /\ handlers' = handlers \cup {Head(acceptCh)}
          /\ UNCHANGED accepting
       \/ /\ session["server"] # "open"
          /\ accepting' = "ended" /\ UNCHANGED <<acceptCh, handlers>>
    /\ UNCHANGED <<setting, session, net, dups, client, objects, routed, loop>>

\* Mutant: only the map is cleaned up.
HandlerEndsUnmarked(o) ==
    /\ o \in handlers /\ handlers' = handlers \ {o}
    /\ IF o \in live
         THEN smap' = [smap EXCEPT ![o[1]] = 0] /\ Send("server", "CLOSE", o[1])
         ELSE UNCHANGED <<net, smap>>
    /\ UNCHANGED <<setting, session, dups, client, made, live, late>>
    /\ UNCHANGED <<routed, loop, acceptCh, accepting>>

\* A handler returns and closes its stream, which deletes whatever object the
\* map has under that number.
HandlerEnds(o) ==
    /\ o \in handlers /\ handlers' = handlers \ {o}
    /\ IF o \in live
         THEN /\ live' = live \ {o} /\ smap' = [smap EXCEPT ![o[1]] = 0]
              /\ Send("server", "CLOSE", o[1])
         ELSE UNCHANGED <<net, smap, live>>
    /\ UNCHANGED <<setting, session, dups, client, made, late>>
    /\ UNCHANGED <<routed, loop, acceptCh, accepting>>

---------------------------------------------------------------------------
ClientLoop == \E p \in Range(net["client"]) : ClientReceive(p)

ServerLoop ==
    \/ \E s \in Streams : HandleOpen(s) \/ HandleData(s) \/ HandleClose(s)
    \/ PushStream \/ HandleSessionClose \/ LoopClosed

Next ==
    \/ \E e \in Ends : Sweep(e)
    \/ Interrupt \/ Expire \/ ClientLoop \/ ServerLoop \/ AcceptSession \/ AcceptStream
    \/ \E s \in Streams :
          \/ OpenCheck(s) \/ OpenStore(s) \/ Write(s)
          \/ Retransmit(s) \/ GiveUp(s) \/ CloseStream(s)
    \/ \E o \in handlers : HandlerEnds(o)

Spec == Init /\ [][Next]_vars

AllStreams == UNION {1..w.streams : w \in Settings}

\* Every goroutine runs; nothing is assumed of the programs' choices to write,
\* to close or to return, and packets arrive on an ordered network only.
Fairness ==
    /\ \A e \in Ends : WF_vars(Sweep(e))
    /\ WF_vars(setting.ordered /\ ClientLoop)
    /\ WF_vars((setting.ordered \/ loop.pc # "recv") /\ ServerLoop)
    /\ WF_vars(AcceptSession) /\ WF_vars(AcceptStream)
    /\ \A s \in AllStreams : WF_vars(s \in Streams /\ (Retransmit(s) \/ GiveUp(s)))

FairSpec == Spec /\ Fairness

---------------------------------------------------------------------------
(* Properties. *)

Objects == Streams \X (1..(1 + setting.dups))

\* The type invariant.
TypeOK ==
    /\ setting \in Settings
    /\ session \in [Ends -> {"open", "sweep", "closed"}]
    /\ net \in [Ends -> Seq(Packets(Streams))] /\ dups \in 0..setting.dups
    /\ app \in [Streams -> {"none", "checked", "up", "ended"}]
    /\ ended \subseteq cdone /\ cdone \subseteq Streams /\ cmap \subseteq Streams
    /\ unacked \subseteq wrote /\ wrote \subseteq Streams
    /\ tries \in [Streams -> 0..setting.retries]
    /\ made \in [Streams -> 0..(1 + setting.dups)]
    /\ \A s \in Streams : smap[s] \in 0..made[s]
    /\ live \subseteq Objects /\ late \subseteq Objects /\ handlers \subseteq Objects
    /\ routed \in BOOLEAN
    /\ loop \in [pc : {"recv", "accept", "close"}, s : Streams \cup {0}]
    /\ acceptCh \in Seq(Objects) /\ Len(acceptCh) <= AcceptCap
    /\ accepting \in {"queued", "running", "ended"}

\* A stream of the server that is not marked closed, and so has a retransmitLoop
\* and perhaps a handler that reads, can still be reached by what its peer or
\* the session's Close does: it is in the map of a session that Close has not
\* swept.  Two cases escape, and no other: an OPEN that arrived twice (the
\* second object takes the place of the first, whose Close then removes the
\* second), and an OPEN handled after the sweep.
ObjectsReachable ==
    \A o \in live :
        \/ smap[o[1]] = o[2] /\ session["server"] \in {"open", "sweep"}
        \/ made[o[1]] > 1
        \/ o \in late

\* The readLoop of the listener, which serves all sessions, is never stuck on
\* the accept queue of one: the queue is full until the program accepts or
\* refuses the session, and both make way.
LoopFree == []<>(loop.pc # "accept")

\* OPEN is sent once, and a lost one is not repaired.  But who has written to a
\* stream that the server never made is not left waiting: unknown data is not
\* acknowledged, so the retransmission limit closes the stream.
WriterIsTold == []<>(\A s \in Streams : s \in wrote \ cdone => made[s] > 0)

\* On a network that keeps order, a stream closed by the client's program is in
\* the end marked closed at the server, in whatever order its OPEN, data and
\* CLOSE meet the handler, the accept queue and the retransmissions.
CloseReaches ==
    []<>(setting.ordered /\ session = [e \in Ends |-> "open"]
           => \A o \in live : o[1] \notin ended)
=============================================================================
