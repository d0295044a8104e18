-------------------------------- MODULE Mux --------------------------------
(***************************************************************************)
(* Two Mux ends (pkg/mux/mux.go) over one SecureConn, and the programs     *)
(* that use their streams as the guarch client and server do: the client   *)
(* opens streams, the server accepts them, both run RelayStream on each.   *)
(*                                                                         *)
(* Per end: OpenStream or AcceptStream, Stream.Write, Read and Close, the  *)
(* goroutine readLoop, keepAlive and paddingLoop, and Close.  A goroutine  *)
(* that finds the connection's buffers full waits, holding sendMu; one     *)
(* that finds acceptCh or readCh full waits, and readLoop is one of them.  *)
(*                                                                         *)
(* The connection is TCP: a FIFO per direction.  A chunk written to a      *)
(* stream is named by its number on that stream and in that direction.     *)
(***************************************************************************)
EXTENDS Integers, Sequences, FiniteSets, SequencesExt

CONSTANTS
    Streams,      \* stream IDs the client may open: nextID.Add(1) starts at 1
    MaxChunks,    \* bound: chunks written per stream and direction
    ReadCap,      \* capacity of a stream's readCh, 256
    AcceptCap,    \* capacity of acceptCh, 32
    WireCap,      \* frames the connection buffers in one direction
    MaxIdle,      \* bound: PING and padding packets an end sends by itself
    Settings      \* the behaviours considered: which streams are opened, how much
                  \* is sent, who writes, whether the programs close a mux, and
                  \* whether the keys of the SecureConn reach their limits

ASSUME ConstantsOK ==
    /\ Streams \subseteq Nat \ {0}
    /\ MaxChunks \in Nat /\ MaxIdle \in Nat
    /\ ReadCap \in Nat \ {0} /\ AcceptCap \in Nat \ {0} /\ WireCap \in Nat \ {0}
    /\ Settings \subseteq [streams : SUBSET Streams, chunks : 0..MaxChunks,
                           idle : 0..MaxIdle, duplex : BOOLEAN, closes : BOOLEAN,
                           keyEnds : BOOLEAN]

Ends == {"client", "server"}
Peer(e) == IF e = "client" THEN "server" ELSE "client"

Frame(cmd, s, n) == [cmd |-> cmd, s |-> s, n |-> n]
Cmds == {"OPEN", "CLOSE", "DATA", "PING", "PONG", "PADDING"}

VARIABLES
    setting,      \* of this behaviour
    muxPc,        \* muxPc[e]: "open", and in Close "sweep", "swept", "closed"
    streams,      \* streams[e]: the map of end e
    shut,         \* shut[e]: streams of e whose closed flag is set
    done,         \* done[e]: streams of e whose doneCh is closed
    loop,         \* loop[e]: what readLoop is doing, and with which frame
    wire,         \* wire[e]: frames sent by e and not yet received
    acceptCh,     \* the server's accept queue
    accepting,    \* the server's accept loop: "on", "off"
    idle,         \* idle[e]: PING and padding packets sent by e
    spent,        \* the ends whose sending key is used up: every send fails
    app,          \* app[e][s]: where the program is with stream s
    writing,      \* writing[e]: streams with a call of Write in its loop
    reading,      \* reading[e]: streams whose reading goroutine runs
    sent,         \* sent[e][s]: chunks e has written to s
    delivered,    \* delivered[e][s]: chunks handed to readCh of e's stream s
    nread         \* nread[e][s]: how many of them Read has returned

mux   == <<muxPc, streams, shut, done>>
conn  == <<loop, wire, acceptCh, idle, spent>>
prog  == <<accepting, app, writing, reading>>
data  == <<sent, delivered, nread>>
vars  == <<setting, mux, conn, prog, data>>

\* The ends that write, send PINGs and hang up by themselves; the server's
\* relay always does when its stream has ended.
Active(e) == e = "client" \/ setting.duplex

\* readLoop between two frames, and after it has returned.
Receiving == [pc |-> "recv", frame |-> Frame("PONG", 0, 0)]
Stopped == [pc |-> "stopped", frame |-> Frame("PONG", 0, 0)]

\* Both ends as NewMux makes them.
Init ==
    /\ setting \in Settings
    /\ muxPc = [e \in Ends |-> "open"]
    /\ streams = [e \in Ends |-> {}] /\ shut = [e \in Ends |-> {}]
    /\ done = [e \in Ends |-> {}]
    /\ loop = [e \in Ends |-> Receiving]
    /\ wire = [e \in Ends |-> <<>>]
    /\ acceptCh = <<>> /\ accepting = "on"
    /\ idle = [e \in Ends |-> 0] /\ spent = {}
    /\ app = [e \in Ends |-> [s \in Streams |-> "none"]]
    /\ writing = [e \in Ends |-> {}] /\ reading = [e \in Ends |-> {}]
    /\ sent = [e \in Ends |-> [s \in Streams |-> 0]]
    /\ delivered = [e \in Ends |-> [s \in Streams |-> <<>>]]
    /\ nread = [e \in Ends |-> [s \in Streams |-> 0]]

---------------------------------------------------------------------------
(* sendFrame: one packet, under sendMu. *)

\* sendFrame: the frame joins the connection, under sendMu.
Send(e, frame) ==
    /\ muxPc[e] # "closed" /\ e \notin spent /\ Len(wire[e]) < WireCap
    /\ wire' = [wire EXCEPT ![e] = Append(@, frame)]
    /\ UNCHANGED spent

\* The socket is closed here, or there and this end has been told.
Broken(e) == "closed" \in {muxPc[e], muxPc[Peer(e)]}

\* sendFrame returns an error: the connection is broken, or the counts of the
\* sending key are over a limit, where they stay. The mux stays open.
SendFails(e) ==
    /\ \/ Broken(e) /\ UNCHANGED spent
       \/ /\ setting.keyEnds \/ e \in spent
          /\ spent' = spent \cup {e}
    /\ UNCHANGED wire

\* RecvPacket returns an error: the connection is broken, or the packet takes
\* the counts of the receiving key over a limit.
RecvFails(e) == Broken(e) \/ (setting.keyEnds /\ wire[Peer(e)] # <<>>)

At(e, s, pc) == app[e][s] = pc
Goto(e, s, pc) == app' = [app EXCEPT ![e][s] = pc]

---------------------------------------------------------------------------
(* OpenStream, called by the client for each SOCKS5 connection. *)

\* The look at closeCh, well before the stream gets its number and is stored.
OpenCheck(s) ==
    /\ s \in setting.streams
    /\ At("client", s, "none") /\ muxPc["client"] = "open"
    /\ Goto("client", s, "checked")
    /\ UNCHANGED <<setting, mux, conn, accepting, writing, reading, data>>

\* OpenStream stores the new stream in the map.
OpenStore(s) ==
    /\ At("client", s, "checked")
    /\ \A r \in 1..(s - 1) : app["client"][r] \notin {"none", "checked"}
    /\ streams' = [streams EXCEPT !["client"] = @ \cup {s}]
    /\ Goto("client", s, "stored")
    /\ UNCHANGED <<setting, muxPc, shut, done, conn, accepting, writing, reading, data>>

\* The OPEN frame; an error forgets the stream.
OpenSend(s) ==
    /\ At("client", s, "stored")
    /\ \/ /\ Send("client", Frame("OPEN", s, 0))
          /\ Goto("client", s, "up")
          /\ reading' = [reading EXCEPT !["client"] = @ \cup {s}]
          /\ UNCHANGED streams
       \/ /\ SendFails("client")
          /\ streams' = [streams EXCEPT !["client"] = @ \ {s}]
          /\ Goto("client", s, "gone")
          /\ UNCHANGED reading
    /\ UNCHANGED <<setting, muxPc, shut, done, loop, acceptCh, idle>>
    /\ UNCHANGED <<accepting, writing, data>>

\* AcceptStream: the select may still find a stream when closeCh is closed.
AcceptStream ==
    /\ accepting = "on"
    /\ \/ /\ acceptCh # <<>>
          /\ acceptCh' = Tail(acceptCh)
          /\ Goto("server", Head(acceptCh), "up")
          /\ reading' = [reading EXCEPT !["server"] = @ \cup {Head(acceptCh)}]
          /\ UNCHANGED accepting
       \/ /\ muxPc["server"] # "open"
          /\ accepting' = "off"
          /\ UNCHANGED <<acceptCh, app, reading>>
    /\ UNCHANGED <<setting, mux, loop, wire, idle, spent, writing, data>>

---------------------------------------------------------------------------
(* Stream.Write, Read and Close, called by RelayStream. *)

\* Write looks at closed once, whatever it has to send.
WriteCall(e, s) ==
    /\ Active(e) /\ At(e, s, "up") /\ s \notin shut[e] \cup writing[e]
    /\ sent[e][s] < setting.chunks
    /\ writing' = [writing EXCEPT ![e] = @ \cup {s}]
    /\ UNCHANGED <<setting, mux, conn, accepting, app, reading, data>>

\* One round of Write's loop: a chunk of at most one frame.
WriteChunk(e, s) ==
    /\ s \in writing[e]
    /\ \/ /\ Send(e, Frame("DATA", s, sent[e][s] + 1))
          /\ sent' = [sent EXCEPT ![e][s] = @ + 1]
          /\ \/ sent'[e][s] < setting.chunks /\ UNCHANGED writing
             \/ writing' = [writing EXCEPT ![e] = @ \ {s}]
       \/ /\ SendFails(e)
          /\ writing' = [writing EXCEPT ![e] = @ \ {s}]
          /\ UNCHANGED sent
    /\ UNCHANGED <<setting, mux, loop, acceptCh, idle, accepting, app, reading>>
    /\ UNCHANGED <<delivered, nread>>

\* Read: a chunk or the end of the stream, at random when both are there.
Read(e, s) ==
    /\ s \in reading[e]
    /\ \/ /\ nread[e][s] < Len(delivered[e][s])
          /\ nread' = [nread EXCEPT ![e][s] = @ + 1]
          /\ UNCHANGED reading
       \/ /\ s \in done[e]
          /\ reading' = [reading EXCEPT ![e] = @ \ {s}]
          /\ UNCHANGED nread
    /\ UNCHANGED <<setting, mux, conn, accepting, app, writing, sent, delivered>>

\* RelayStream ends when either of its goroutines does, and closes the stream.
CloseStream(e, s) ==
    /\ At(e, s, "up") /\ (Active(e) \/ s \notin reading[e])
    /\ IF s \in shut[e] THEN Goto(e, s, "gone") /\ UNCHANGED shut
       ELSE /\ shut' = [shut EXCEPT ![e] = @ \cup {s}]
            /\ Goto(e, s, "closing")
    /\ reading' \in {reading, [reading EXCEPT ![e] = @ \ {s}]}
    /\ UNCHANGED <<setting, muxPc, streams, done, conn, accepting, writing, data>>

\* Stream.Close sends CLOSE, and does not look whether it could.
CloseSend(e, s) ==
    /\ At(e, s, "closing")
    /\ Send(e, Frame("CLOSE", s, 0)) \/ SendFails(e)
    /\ Goto(e, s, "sent")
    /\ UNCHANGED <<setting, mux, loop, acceptCh, idle, accepting, writing, reading, data>>

\* Stream.Close marks the stream closed and deletes it from the map.
CloseFinish(e, s) ==
    /\ At(e, s, "sent")
    /\ streams' = [streams EXCEPT ![e] = @ \ {s}]
    /\ done' = [done EXCEPT ![e] = @ \cup {s}]
    /\ Goto(e, s, "gone")
    /\ UNCHANGED <<setting, muxPc, shut, conn, accepting, writing, reading, data>>

---------------------------------------------------------------------------
(* readLoop. *)

\* Mutant: a CLOSE frame marks the stream and leaves it in the map.
HandleCloseLeaves(e, s) ==
    IF s \in streams[e]
      THEN /\ shut' = [shut EXCEPT ![e] = @ \cup {s}]
           /\ done' = [done EXCEPT ![e] = @ \cup {s}]
           /\ UNCHANGED streams
      ELSE UNCHANGED <<streams, shut, done>>

\* Mutant: a CLOSE frame only removes the stream from the map.
HandleCloseUnmarked(e, s) ==
    /\ streams' = [streams EXCEPT ![e] = @ \ {s}]
    /\ UNCHANGED <<shut, done>>

\* The read loop handles CLOSE.
HandleClose(e, s) ==
    IF s \in streams[e]
      THEN /\ shut' = [shut EXCEPT ![e] = @ \cup {s}]
           /\ done' = [done EXCEPT ![e] = @ \cup {s}]
           /\ streams' = [streams EXCEPT ![e] = @ \ {s}]
      ELSE UNCHANGED <<streams, shut, done>>

\* One frame is read and handled, up to the point where readLoop may wait.
HandleFrame(e, f) ==
    /\ loop[e].pc = "recv" /\ muxPc[e] # "closed"
    /\ wire[Peer(e)] # <<>> /\ f = Head(wire[Peer(e)])
    /\ wire' = [wire EXCEPT ![Peer(e)] = Tail(@)]
    /\ \/ /\ f.cmd = "OPEN"
          /\ streams' = [streams EXCEPT ![e] = @ \cup {f.s}]
          /\ loop' = [loop EXCEPT ![e] = [pc |-> "accept", frame |-> f]]
          /\ UNCHANGED <<shut, done>>
       \/ /\ f.cmd = "DATA"
          /\ IF f.s \in streams[e] \ shut[e]
               THEN loop' = [loop EXCEPT ![e] = [pc |-> "push", frame |-> f]]
               ELSE UNCHANGED loop
          /\ UNCHANGED <<streams, shut, done>>
       \/ /\ f.cmd = "CLOSE"
          /\ HandleClose(e, f.s)
          /\ UNCHANGED loop
       \/ /\ f.cmd = "PING"
          /\ loop' = [loop EXCEPT ![e] = [pc |-> "pong", frame |-> f]]
          /\ UNCHANGED <<streams, shut, done>>
       \/ /\ f.cmd \in {"PONG", "PADDING"}
          /\ UNCHANGED <<loop, streams, shut, done>>
    /\ UNCHANGED <<setting, muxPc, acceptCh, idle, spent, prog, data>>

Resume(e) == loop' = [loop EXCEPT ![e] = Receiving]

\* Mutant: the queue has no limit.
LoopAcceptUnbounded(e) ==
    /\ loop[e].pc = "accept"
    /\ acceptCh' = Append(acceptCh, loop[e].frame.s)
    /\ Resume(e)
    /\ UNCHANGED <<setting, mux, wire, idle, spent, prog, data>>

\* The new stream is queued for AcceptStream, or the mux closes.
LoopAccept(e) ==
    /\ loop[e].pc = "accept"
    /\ \/ Len(acceptCh) < AcceptCap /\ acceptCh' = Append(acceptCh, loop[e].frame.s)
       \/ muxPc[e] # "open" /\ UNCHANGED acceptCh
    /\ Resume(e)
    /\ UNCHANGED <<setting, mux, wire, idle, spent, prog, data>>

\* Mutant: readLoop does not wait for room in readCh, it drops the chunk.
LoopPushDrops(e) ==
    /\ loop[e].pc = "push"
    /\ LET s == loop[e].frame.s IN
       \/ /\ Len(delivered[e][s]) - nread[e][s] < ReadCap
          /\ delivered' = [delivered EXCEPT ![e][s] = Append(@, loop[e].frame.n)]
       \/ UNCHANGED delivered
    /\ Resume(e)
    /\ UNCHANGED <<setting, mux, wire, acceptCh, idle, spent, prog, sent, nread>>

\* The chunk goes to readCh, or the stream or the mux closes.
LoopPush(e) ==
    /\ loop[e].pc = "push"
    /\ LET s == loop[e].frame.s IN
       \/ /\ Len(delivered[e][s]) - nread[e][s] < ReadCap
          /\ delivered' = [delivered EXCEPT ![e][s] = Append(@, loop[e].frame.n)]
       \/ /\ s \in done[e] \/ muxPc[e] # "open"
          /\ UNCHANGED delivered
    /\ Resume(e)
    /\ UNCHANGED <<setting, mux, wire, acceptCh, idle, spent, prog, sent, nread>>

\* The PONG is sent from readLoop itself, which goes on if it could not be.
LoopPong(e) ==
    /\ loop[e].pc = "pong"
    /\ Send(e, Frame("PONG", 0, 0)) \/ SendFails(e)
    /\ Resume(e)
    /\ UNCHANGED <<setting, mux, acceptCh, idle, prog, data>>

\* The start of Close: once, closeCh is closed and Range begins.
BeginClose(e) ==
    IF muxPc[e] = "open"
      THEN muxPc' = [muxPc EXCEPT ![e] = "sweep"]
      ELSE UNCHANGED muxPc

\* Mutant: readLoop returns without closing the mux.
LoopEndSilent(e) ==
    /\ loop[e].pc = "recv"
    /\ RecvFails(e)
    /\ loop' = [loop EXCEPT ![e] = Stopped]
    /\ UNCHANGED <<setting, mux, wire, acceptCh, idle, spent, prog, data>>

\* RecvPacket fails (on a closed socket whatever is still in flight may be lost):
\* readLoop returns, and closes the mux.
LoopEnd(e) ==
    /\ loop[e].pc = "recv"
    /\ RecvFails(e)
    /\ loop' = [loop EXCEPT ![e] = Stopped]
    /\ BeginClose(e)
    /\ UNCHANGED <<setting, streams, shut, done, wire, acceptCh, idle, spent, prog, data>>

---------------------------------------------------------------------------
(* keepAlive, paddingLoop and Close. *)

\* keepAlive's PING, or padding. When it cannot be sent, keepAlive returns and
\* the mux stays open.
SendIdle(e) ==
    /\ Active(e) /\ muxPc[e] = "open" /\ idle[e] < setting.idle
    /\ SendFails(e) \/ \E cmd \in {"PING", "PADDING"} : Send(e, Frame(cmd, 0, 0))
    /\ idle' = [idle EXCEPT ![e] = @ + 1]
    /\ UNCHANGED <<setting, mux, loop, acceptCh, prog, data>>

\* The program closes the mux.
CloseMux(e) ==
    /\ setting.closes /\ muxPc[e] = "open"
    /\ BeginClose(e)
    /\ UNCHANGED <<setting, streams, shut, done, conn, prog, data>>

\* Mutant: the streams are taken from the map and nobody tells their readers.
SweepSilent(e) ==
    /\ muxPc[e] = "sweep"
    /\ muxPc' = [muxPc EXCEPT ![e] = "swept"]
    /\ streams' = [streams EXCEPT ![e] = {}]
    /\ UNCHANGED <<setting, shut, done, conn, prog, data>>

\* Range; a stream that is stored when it is over is missed.
Sweep(e) ==
    /\ muxPc[e] = "sweep"
    /\ muxPc' = [muxPc EXCEPT ![e] = "swept"]
    /\ streams' = [streams EXCEPT ![e] = {}]
    /\ shut' = [shut EXCEPT ![e] = @ \cup streams[e]]
    /\ done' = [done EXCEPT ![e] = @ \cup streams[e]]
    /\ UNCHANGED <<setting, conn, prog, data>>

\* The connection is closed.
CloseConn(e) ==
    /\ muxPc[e] = "swept"
    /\ muxPc' = [muxPc EXCEPT ![e] = "closed"]
    /\ UNCHANGED <<setting, streams, shut, done, conn, prog, data>>

---------------------------------------------------------------------------
OpenStep(s) == OpenCheck(s) \/ OpenStore(s) \/ OpenSend(s)

StreamStep(e, s) ==
    \/ WriteCall(e, s) \/ WriteChunk(e, s) \/ Read(e, s)
    \/ CloseStream(e, s) \/ CloseSend(e, s) \/ CloseFinish(e, s)

Frames == [cmd : Cmds, s : Streams \cup {0}, n : 0..MaxChunks]

LoopStep(e) ==
    \/ (wire[Peer(e)] # <<>> /\ HandleFrame(e, Head(wire[Peer(e)])))
    \/ LoopAccept(e) \/ LoopPush(e) \/ LoopPong(e) \/ LoopEnd(e)

Next ==
    \/ \E s \in Streams : OpenStep(s)
    \/ AcceptStream
    \/ \E e \in Ends :
          \/ \E s \in Streams : StreamStep(e, s)
          \/ LoopStep(e) \/ SendIdle(e) \/ CloseMux(e) \/ Sweep(e) \/ CloseConn(e)

Spec == Init /\ [][Next]_vars

\* What the program does with stream s without being asked.
Control(e, s) ==
    \/ e = "client" /\ (OpenStore(s) \/ OpenSend(s))
    \/ s \notin reading[e] /\ CloseStream(e, s)
    \/ CloseSend(e, s) \/ CloseFinish(e, s)

\* Every goroutine runs, and RelayStream closes the stream once its reading
\* goroutine has ended.  (The traffic is bounded, so a sender that waits for
\* room gets its turn.)
Fairness ==
    /\ WF_vars(AcceptStream)
    /\ \A e \in Ends :
          /\ WF_vars(LoopStep(e))
          /\ WF_vars(Sweep(e) \/ CloseConn(e))
          /\ \A s \in Streams :
                WF_vars(Control(e, s)) /\ WF_vars(WriteChunk(e, s)) /\ WF_vars(Read(e, s))

FairSpec == Spec /\ Fairness

---------------------------------------------------------------------------
(* Properties. *)

\* The type invariant: the accept queue, the read channels and the connection's
\* buffers keep their capacities.
TypeOK ==
    /\ setting \in Settings
    /\ muxPc \in [Ends -> {"open", "sweep", "swept", "closed"}]
    /\ \A v \in {streams, shut, done, writing, reading} : v \in [Ends -> SUBSET Streams]
    /\ loop \in [Ends -> [pc : {"recv", "accept", "push", "pong", "stopped"}, frame : Frames]]
    /\ \A e \in Ends : wire[e] \in Seq(Frames) /\ Len(wire[e]) <= WireCap
    /\ acceptCh \in Seq(Streams) /\ Len(acceptCh) <= AcceptCap
    /\ accepting \in {"on", "off"} /\ idle \in [Ends -> 0..MaxIdle] /\ spent \subseteq Ends
    /\ app \in [Ends -> [Streams ->
                  {"none", "checked", "stored", "up", "closing", "sent", "gone"}]]
    /\ sent \in [Ends -> [Streams -> 0..MaxChunks]]
    /\ \A e \in Ends, s \in Streams :
          /\ delivered[e][s] \in Seq(1..MaxChunks)
          /\ nread[e][s] \in 0..Len(delivered[e][s])

\* What e has written to stream s, and what readCh at the other end was given.
Direction(e, s) == INSTANCE ReliableStream
                     WITH written <- sent[e][s], delivered <- delivered[Peer(e)][s]

\* Every direction of every stream implements ReliableStream as long as the
\* receiving mux is open: chunks are handed over in order, each once, whatever
\* streams share the connection, whoever closes what and when, and however
\* full the channels are.
StreamsAreReliable ==
    /\ \A e \in Ends, s \in Streams : Direction(e, s)!Init
    /\ [][\A e \in Ends, s \in Streams :
             muxPc[Peer(e)] = "open" =>
                 Direction(e, s)!Next \/ UNCHANGED Direction(e, s)!vars]_vars

\* No frame is in flight and nobody is in the middle of a call or a frame.
Quiet ==
    /\ \A e \in Ends : wire[e] = <<>> /\ loop[e].pc = "recv" /\ muxPc[e] = "open"
    /\ \A e \in Ends, s \in Streams : app[e][s] \notin {"stored", "closing", "sent"}

\* An end that can send never leaves a stream behind at the other: when both are
\* quiet, each stream in the peer's map is in its own, and no map holds a stream
\* that its end has closed. So while neither key is used up the maps are equal,
\* whatever was opened and (simultaneously) closed. The exception is the code's:
\* once e's key is used up the CLOSE is dropped on an open mux, whose error
\* Stream.Close ignores, and the peer keeps the stream until the mux closes.
MapsAgree ==
    Quiet => \A e \in Ends :
                /\ e \notin spent => streams[Peer(e)] \subseteq streams[e]
                /\ streams[e] \cap shut[e] = {}

\* A Read that can still block is always within reach: its stream is in the map,
\* where the peer's CLOSE and Close find it.  The one Read that a closed mux
\* leaves behind is that of a stream stored after Close had swept the map.
ReadersAreReachable ==
    \A e \in Ends : reading[e] \subseteq done[e] \cup streams[e]

\* Head-of-line blocking is never for ever: with one writing end, all that was
\* written is read in the end, although readLoop waits for the slow reader of
\* another stream, unless the stream or the mux is closed at one end.  (Each
\* disjunct stays true of a stream that is written no more, and the traffic is
\* bounded, so that this says it of every chunk.)
WrittenIsRead ==
    []<>(setting.duplex \/ \A s \in Streams :
            \/ nread["server"][s] >= sent["client"][s]
            \/ \E e \in Ends : s \in shut[e] \/ muxPc[e] # "open"
            \/ s \notin reading["server"] /\ app["server"][s] # "none")

\* A stream closed at one end ends at the other: its reader is told, even if
\* it has chunks waiting in front of it (or the mux closes). The reader is not
\* told of a close by an end whose key is used up: Close ignores that its CLOSE
\* was not sent, and the mux stays open.
CloseIsSeen ==
    []<>(setting.duplex \/ \A e \in Ends, s \in Streams :
            app[e][s] \in {"sent", "gone"} =>
                \/ s \in done[Peer(e)]
                \/ e \in spent
                \/ \E f \in Ends : muxPc[f] # "open")

\* When one mux has closed the other closes too, even if its readLoop was
\* waiting in the middle of a frame: no end is left with half a connection.
PeerCloses == []<>(\A e \in Ends : muxPc[e] = "closed" => muxPc[Peer(e)] = "closed")
=============================================================================
