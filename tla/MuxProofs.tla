------------------------------ MODULE MuxProofs ------------------------------
(***************************************************************************)
(* Proofs about Mux, for any number of streams and chunks, any capacities  *)
(* of the queues and of the connection, and every program that opens,      *)
(* writes and closes streams and muxes in any order.                       *)
(***************************************************************************)
EXTENDS Mux, TLAPS

LEMMA EndsPeer ==
    /\ \A e \in Ends : Peer(e) \in Ends /\ Peer(e) # e /\ Peer(Peer(e)) = e
    /\ "client" \in Ends /\ "server" \in Ends /\ "client" # "server"
    /\ Peer("client") = "server" /\ Peer("server") = "client"
  BY DEF Ends, Peer

---------------------------------------------------------------------------
(* What sending and receiving does to a FIFO.                              *)

\* Frame k of stream s follows frame j of it only if j < k, and nothing of
\* a stream comes before its OPEN.
Ordered(q) ==
    \A i, j \in 1..Len(q) : i < j =>
        /\ q[j].cmd = "OPEN" => q[i].s # q[j].s
        /\ q[i].cmd = "DATA" /\ q[j].cmd = "DATA" /\ q[i].s = q[j].s => q[i].n < q[j].n

\* x may follow y.
Follows(x, y) ==
    /\ x.cmd = "OPEN" => y.s # x.s
    /\ y.cmd = "DATA" /\ x.cmd = "DATA" /\ y.s = x.s => y.n < x.n

\* Append adds one element at the end.
LEMMA AppendFacts ==
    ASSUME NEW S, NEW q \in Seq(S), NEW x \in S
    PROVE  /\ Append(q, x) \in Seq(S) /\ Len(Append(q, x)) = Len(q) + 1
           /\ \A i \in 1..Len(q) : Append(q, x)[i] = q[i]
           /\ Append(q, x)[Len(q) + 1] = x
           /\ \A y : Contains(Append(q, x), y) <=> Contains(q, y) \/ y = x
<1>1. /\ Append(q, x) \in Seq(S) /\ Len(Append(q, x)) = Len(q) + 1
      /\ \A i \in 1..Len(q) : Append(q, x)[i] = q[i]
      /\ Append(q, x)[Len(q) + 1] = x /\ Len(q) \in Nat
  OBVIOUS
<1>2. \A i \in 1..(Len(q) + 1) : i \in 1..Len(q) \/ i = Len(q) + 1
  BY <1>1
<1>3. \A y : Contains(Append(q, x), y) => Contains(q, y) \/ y = x
  BY <1>1, <1>2 DEF Contains
<1>4. \A y : Contains(q, y) \/ y = x => Contains(Append(q, x), y)
  BY <1>1 DEF Contains
<1> QED BY <1>1, <1>3, <1>4

\* Head and Tail take the first element away.
LEMMA TailFacts ==
    ASSUME NEW S, NEW q \in Seq(S), q # <<>>
    PROVE  /\ Tail(q) \in Seq(S) /\ Len(Tail(q)) = Len(q) - 1 /\ Len(q) >= 1
           /\ Head(q) = q[1] /\ Head(q) \in S
           /\ \A i \in 1..Len(Tail(q)) : Tail(q)[i] = q[i + 1]
           /\ \A y : Contains(q, y) <=> Contains(Tail(q), y) \/ y = Head(q)
<1>1. /\ Tail(q) \in Seq(S) /\ Len(Tail(q)) = Len(q) - 1 /\ Len(q) >= 1 /\ Len(q) \in Nat
      /\ Head(q) = q[1] /\ Head(q) \in S
      /\ \A i \in 1..Len(Tail(q)) : Tail(q)[i] = q[i + 1]
  OBVIOUS
<1>2. \A i \in 1..Len(q) : i = 1 \/ (i - 1 \in 1..Len(Tail(q)) /\ Tail(q)[i - 1] = q[i])
  BY <1>1
<1>3. \A y : Contains(q, y) => Contains(Tail(q), y) \/ y = Head(q)
  BY <1>1, <1>2 DEF Contains
<1>4. \A i \in 1..Len(Tail(q)) : i + 1 \in 1..Len(q)
  BY <1>1
<1>5. \A y : Contains(Tail(q), y) \/ y = Head(q) => Contains(q, y)
  BY <1>1, <1>4 DEF Contains
<1> QED BY <1>1, <1>3, <1>5

LEMMA OrderedAppend ==
    ASSUME NEW S, NEW q \in Seq(S), NEW x \in S, Ordered(q),
           \A y : Contains(q, y) => Follows(x, y)
    PROVE  Ordered(Append(q, x))
<1> DEFINE r == Append(q, x)
<1>1. /\ Len(r) = Len(q) + 1 /\ Len(q) \in Nat /\ r[Len(q) + 1] = x
      /\ \A i \in 1..Len(q) : r[i] = q[i] /\ Contains(q, q[i])
  BY AppendFacts DEF Contains
<1> SUFFICES ASSUME NEW i \in 1..Len(r), NEW j \in 1..Len(r), i < j
             PROVE  Follows(r[j], r[i])
  BY DEF Ordered, Follows
<1>2. i \in 1..Len(q) /\ r[i] = q[i]
  BY <1>1
<1>3. CASE j = Len(q) + 1
  BY <1>1, <1>2, <1>3
<1>4. CASE j # Len(q) + 1
  <2>1. j \in 1..Len(q) /\ r[j] = q[j]
    BY <1>1, <1>4
  <2> QED BY <1>2, <2>1 DEF Ordered, Follows
<1> QED BY <1>3, <1>4

LEMMA OrderedTail ==
    ASSUME NEW S, NEW q \in Seq(S), q # <<>>, Ordered(q)
    PROVE  /\ Ordered(Tail(q))
           /\ \A y : Contains(Tail(q), y) => Follows(y, Head(q))
<1>1. /\ Len(Tail(q)) = Len(q) - 1 /\ Len(q) >= 1 /\ Len(q) \in Nat /\ Head(q) = q[1]
      /\ \A i \in 1..Len(Tail(q)) : Tail(q)[i] = q[i + 1] /\ i + 1 \in 1..Len(q)
  BY TailFacts
<1>2. Ordered(Tail(q))
  <2> SUFFICES ASSUME NEW i \in 1..Len(Tail(q)), NEW j \in 1..Len(Tail(q)), i < j
               PROVE  Follows(Tail(q)[j], Tail(q)[i])
    BY DEF Ordered, Follows
  <2>1. i + 1 \in 1..Len(q) /\ j + 1 \in 1..Len(q) /\ i + 1 < j + 1
    BY <1>1
  <2>2. Follows(q[j + 1], q[i + 1])
    BY <2>1 DEF Ordered, Follows
  <2> QED BY <1>1, <2>2
<1>3. \A y : Contains(Tail(q), y) => Follows(y, Head(q))
  <2> SUFFICES ASSUME NEW i \in 1..Len(Tail(q))
               PROVE  Follows(Tail(q)[i], q[1])
    BY <1>1 DEF Contains
  <2>1. 1 \in 1..Len(q) /\ i + 1 \in 1..Len(q) /\ 1 < i + 1
    BY <1>1
  <2>2. Follows(q[i + 1], q[1])
    BY <2>1 DEF Ordered, Follows
  <2> QED BY <1>1, <2>2
<1> QED BY <1>2, <1>3

---------------------------------------------------------------------------
(* Types.                                                                  *)

\* The frames that are sent: those about a stream name one, and those with
\* data number the chunk.
Sendable ==
    {f \in Frames : /\ f.s = 0 <=> f.cmd \in {"PING", "PONG", "PADDING"}
                    /\ f.n = 0 <=> f.cmd # "DATA"}

MuxTypeInv ==
    /\ setting \in Settings
    /\ muxPc \in [Ends -> {"open", "sweep", "swept", "closed"}]
    /\ streams \in [Ends -> SUBSET Streams] /\ shut \in [Ends -> SUBSET Streams]
    /\ done \in [Ends -> SUBSET Streams]

LoopTypeInv ==
    /\ loop \in [Ends -> [pc : {"recv", "accept", "push", "pong", "stopped"}, frame : Frames]]
    /\ \A e \in Ends :
          /\ loop[e].pc \in {"accept", "push"} => loop[e].frame.s \in Streams
          /\ loop[e].pc = "push" => loop[e].frame.n # 0

WireTypeInv ==
    /\ wire \in [Ends -> Seq(Sendable)] /\ \A e \in Ends : Len(wire[e]) <= WireCap
    /\ idle \in [Ends -> 0..MaxIdle] /\ spent \subseteq Ends

ProgTypeInv ==
    /\ acceptCh \in Seq(Streams) /\ Len(acceptCh) <= AcceptCap
    /\ accepting \in {"on", "off"}
    /\ app \in [Ends -> [Streams ->
                  {"none", "checked", "stored", "up", "closing", "sent", "gone"}]]
    /\ writing \in [Ends -> SUBSET Streams] /\ reading \in [Ends -> SUBSET Streams]

SentTypeInv ==
    /\ sent \in [Ends -> [Streams -> 0..MaxChunks]]
    /\ \A e \in Ends : \A s \in writing[e] : sent[e][s] < setting.chunks

ReadTypeInv ==
    /\ delivered \in [Ends -> [Streams -> Seq(1..MaxChunks)]]
    /\ nread \in [Ends -> [Streams -> Nat]]
    /\ \A e \in Ends, s \in Streams : nread[e][s] <= Len(delivered[e][s])

TypeInv ==
    MuxTypeInv /\ LoopTypeInv /\ WireTypeInv /\ ProgTypeInv /\ SentTypeInv /\ ReadTypeInv

LEMMA SettingTypes ==
    ASSUME setting \in Settings
    PROVE  /\ setting.streams \subseteq Streams /\ setting.chunks \in 0..MaxChunks
           /\ setting.idle \in 0..MaxIdle
           /\ MaxChunks \in Nat /\ MaxIdle \in Nat
           /\ WireCap \in Nat \ {0} /\ AcceptCap \in Nat \ {0} /\ ReadCap \in Nat \ {0}
           /\ Streams \subseteq Nat \ {0}
  BY ConstantsOK

LEMMA TypeInvGivesTypeOK == TypeInv => TypeOK
<1> SUFFICES ASSUME TypeInv PROVE TypeOK
  OBVIOUS
<1> USE DEF TypeInv
<1>1. ASSUME NEW e \in Ends
      PROVE  wire[e] \in Seq(Frames) /\ Len(wire[e]) <= WireCap
  <2>1. wire[e] \in Seq(Sendable) /\ Sendable \subseteq Frames
    BY DEF WireTypeInv, Sendable
  <2> QED BY <2>1 DEF WireTypeInv
<1>2. ASSUME NEW e \in Ends, NEW s \in Streams
      PROVE  delivered[e][s] \in Seq(1..MaxChunks) /\ nread[e][s] \in 0..Len(delivered[e][s])
  BY DEF ReadTypeInv
<1>3. \A v \in {streams, shut, done, writing, reading} : v \in [Ends -> SUBSET Streams]
  BY DEF MuxTypeInv, ProgTypeInv
<1> QED BY <1>1, <1>2, <1>3 DEF TypeOK, MuxTypeInv, LoopTypeInv, WireTypeInv, ProgTypeInv,
           SentTypeInv

\* The frames of the model are sendable.
LEMMA FrameTypes ==
    ASSUME Streams \subseteq Nat \ {0}, MaxChunks \in Nat
    PROVE  /\ \A cmd \in {"PING", "PONG", "PADDING"} : Frame(cmd, 0, 0) \in Sendable
           /\ \A s \in Streams : Frame("OPEN", s, 0) \in Sendable /\ Frame("CLOSE", s, 0) \in Sendable
           /\ \A s \in Streams, n \in 1..MaxChunks : Frame("DATA", s, n) \in Sendable
           /\ Sendable \subseteq Frames
           /\ \A f \in Sendable :
                 /\ f.cmd \in Cmds
                 /\ f.cmd \in {"OPEN", "CLOSE", "DATA"} => f.s \in Streams
                 /\ f.cmd = "DATA" => f.n \in 1..MaxChunks
                 /\ f.cmd \in {"OPEN", "CLOSE"} => f.n = 0
                 /\ f = Frame(f.cmd, f.s, f.n)
<1>1. ASSUME NEW f \in Sendable
      PROVE  /\ f.cmd \in Cmds
             /\ f.cmd \in {"OPEN", "CLOSE", "DATA"} => f.s \in Streams
             /\ f.cmd = "DATA" => f.n \in 1..MaxChunks
             /\ f.cmd \in {"OPEN", "CLOSE"} => f.n = 0
             /\ f = Frame(f.cmd, f.s, f.n)
  BY DEF Sendable, Frames, Frame
<1>2. Sendable \subseteq Frames
  BY DEF Sendable
<1>3. \A cmd \in {"PING", "PONG", "PADDING"} : Frame(cmd, 0, 0) \in Sendable
  BY DEF Sendable, Frames, Frame, Cmds
<1>4. \A s \in Streams : Frame("OPEN", s, 0) \in Sendable /\ Frame("CLOSE", s, 0) \in Sendable
  BY DEF Sendable, Frames, Frame, Cmds
<1>5. \A s \in Streams, n \in 1..MaxChunks : Frame("DATA", s, n) \in Sendable
  BY DEF Sendable, Frames, Frame, Cmds
<1> QED BY <1>1, <1>2, <1>3, <1>4, <1>5

LEMMA TypesHoldAtStart == Init => TypeInv
<1> SUFFICES ASSUME Init PROVE TypeInv
  OBVIOUS
<1>0. MaxChunks \in Nat /\ MaxIdle \in Nat /\ WireCap \in Nat \ {0} /\ AcceptCap \in Nat \ {0}
  BY ConstantsOK
<1>1. MuxTypeInv
  BY DEF Init, MuxTypeInv
<1>2. LoopTypeInv
  BY <1>0 DEF Init, LoopTypeInv, Receiving, Frame, Frames, Cmds
<1>3. WireTypeInv
  BY <1>0 DEF Init, WireTypeInv
<1>4. ProgTypeInv
  BY <1>0 DEF Init, ProgTypeInv
<1>5. SentTypeInv
  BY <1>0 DEF Init, SentTypeInv
<1>6. ReadTypeInv
  BY <1>0 DEF Init, ReadTypeInv
<1> QED BY <1>1, <1>2, <1>3, <1>4, <1>5, <1>6 DEF TypeInv

\* No call on a stream touches what belongs to the read loop or to the queue
\* of accepted streams, nor opens or closes the mux.
LEMMA CallsKeep ==
    ASSUME NEW e, NEW s, StreamStep(e, s)
    PROVE  /\ UNCHANGED <<setting, muxPc>>
           /\ UNCHANGED <<loop, acceptCh, idle>>
           /\ UNCHANGED <<accepting, delivered>>
<1>1. ASSUME WriteCall(e, s)
      PROVE  /\ UNCHANGED <<setting, muxPc>>
             /\ UNCHANGED <<loop, acceptCh, idle>>
             /\ UNCHANGED <<accepting, delivered>>
  BY <1>1 DEF WriteCall, mux, conn, data
<1>2. ASSUME WriteChunk(e, s)
      PROVE  /\ UNCHANGED <<setting, muxPc>>
             /\ UNCHANGED <<loop, acceptCh, idle>>
             /\ UNCHANGED <<accepting, delivered>>
  BY <1>2 DEF WriteChunk, mux, conn, data
<1>3. ASSUME Read(e, s)
      PROVE  /\ UNCHANGED <<setting, muxPc>>
             /\ UNCHANGED <<loop, acceptCh, idle>>
             /\ UNCHANGED <<accepting, delivered>>
  BY <1>3 DEF Read, mux, conn, data
<1>4. ASSUME CloseStream(e, s)
      PROVE  /\ UNCHANGED <<setting, muxPc>>
             /\ UNCHANGED <<loop, acceptCh, idle>>
             /\ UNCHANGED <<accepting, delivered>>
  BY <1>4 DEF CloseStream, mux, conn, data
<1>5. ASSUME CloseSend(e, s)
      PROVE  /\ UNCHANGED <<setting, muxPc>>
             /\ UNCHANGED <<loop, acceptCh, idle>>
             /\ UNCHANGED <<accepting, delivered>>
  BY <1>5 DEF CloseSend, mux, conn, data
<1>6. ASSUME CloseFinish(e, s)
      PROVE  /\ UNCHANGED <<setting, muxPc>>
             /\ UNCHANGED <<loop, acceptCh, idle>>
             /\ UNCHANGED <<accepting, delivered>>
  BY <1>6 DEF CloseFinish, mux, conn, data
<1> QED BY <1>1, <1>2, <1>3, <1>4, <1>5, <1>6, Zenon DEF StreamStep

\* What a call on a stream does to where its program is, and to the sets of
\* streams with a writer and with a reader.
LEMMA CallsMove ==
    ASSUME NEW e, NEW s, StreamStep(e, s)
    PROVE  /\ app' = app \/ \E pc \in {"closing", "sent", "gone"} : Goto(e, s, pc)
           /\ reading' = reading \/ reading' = [reading EXCEPT ![e] = reading[e] \ {s}]
           /\ \/ writing' = writing
              \/ WriteCall(e, s) /\ writing' = [writing EXCEPT ![e] = writing[e] \cup {s}]
              \/ WriteChunk(e, s) /\ writing' = [writing EXCEPT ![e] = writing[e] \ {s}]
<1> DEFINE Moved ==
             /\ app' = app \/ \E pc \in {"closing", "sent", "gone"} : Goto(e, s, pc)
             /\ reading' = reading \/ reading' = [reading EXCEPT ![e] = reading[e] \ {s}]
             /\ \/ writing' = writing
                \/ WriteCall(e, s) /\ writing' = [writing EXCEPT ![e] = writing[e] \cup {s}]
                \/ WriteChunk(e, s) /\ writing' = [writing EXCEPT ![e] = writing[e] \ {s}]
<1>1. ASSUME WriteCall(e, s)
      PROVE  Moved
  BY <1>1 DEF WriteCall
<1>2. ASSUME WriteChunk(e, s)
      PROVE  Moved
  BY <1>2 DEF WriteChunk
<1>3. ASSUME Read(e, s)
      PROVE  Moved
  BY <1>3 DEF Read
<1>4. ASSUME CloseStream(e, s)
      PROVE  Moved
  BY <1>4 DEF CloseStream
<1>5. ASSUME CloseSend(e, s)
      PROVE  Moved
  BY <1>5 DEF CloseSend
<1>6. ASSUME CloseFinish(e, s)
      PROVE  Moved
  BY <1>6 DEF CloseFinish
<1> QED BY <1>1, <1>2, <1>3, <1>4, <1>5, <1>6, Zenon DEF StreamStep

\* OpenStream touches neither the read loops nor what has been transferred.
LEMMA OpeningKeeps ==
    ASSUME NEW s, OpenStep(s)
    PROVE  /\ UNCHANGED <<setting, muxPc, shut, done>>
           /\ UNCHANGED <<loop, acceptCh, idle>>
           /\ UNCHANGED <<accepting, writing, sent, delivered, nread>>
<1>1. ASSUME OpenCheck(s)
      PROVE  /\ UNCHANGED <<setting, muxPc, shut, done>>
             /\ UNCHANGED <<loop, acceptCh, idle>>
             /\ UNCHANGED <<accepting, writing, sent, delivered, nread>>
  BY <1>1 DEF OpenCheck, mux, conn, data
<1>2. ASSUME OpenStore(s)
      PROVE  /\ UNCHANGED <<setting, muxPc, shut, done>>
             /\ UNCHANGED <<loop, acceptCh, idle>>
             /\ UNCHANGED <<accepting, writing, sent, delivered, nread>>
  BY <1>2 DEF OpenStore, conn, data
<1>3. ASSUME OpenSend(s)
      PROVE  /\ UNCHANGED <<setting, muxPc, shut, done>>
             /\ UNCHANGED <<loop, acceptCh, idle>>
             /\ UNCHANGED <<accepting, writing, sent, delivered, nread>>
  BY <1>3 DEF OpenSend, data
<1> QED BY <1>1, <1>2, <1>3, Zenon DEF OpenStep

LEMMA SettingKept ==
    ASSUME [Next]_vars
    PROVE  setting' = setting
<1>1. ASSUME NEW s \in Streams, OpenStep(s)
      PROVE  setting' = setting
  BY <1>1, OpeningKeeps
<1>2. ASSUME NEW e \in Ends, NEW s \in Streams, StreamStep(e, s)
      PROVE  setting' = setting
  BY <1>2, CallsKeep, SMTT(30)
<1>3. ASSUME NEW e \in Ends, LoopStep(e)
      PROVE  setting' = setting
  BY <1>3 DEF LoopStep, HandleFrame, LoopAccept, LoopPush, LoopPong, LoopEnd
<1>4. ASSUME NEW e \in Ends, SendIdle(e) \/ CloseMux(e) \/ Sweep(e) \/ CloseConn(e)
      PROVE  setting' = setting
  BY <1>4 DEF SendIdle, CloseMux, Sweep, CloseConn
<1>5. CASE AcceptStream \/ UNCHANGED vars
  BY <1>5 DEF AcceptStream, vars
<1> QED BY <1>1, <1>2, <1>3, <1>4, <1>5 DEF Next

\* A key that is used up stays so.
LEMMA SpentMoves ==
    ASSUME [Next]_vars
    PROVE  spent' = spent \/ \E e \in Ends : spent' = spent \cup {e}
<1> DEFINE Moves == spent' = spent \/ \E e \in Ends : spent' = spent \cup {e}
<1>1. ASSUME NEW e \in Ends, (\E f : Send(e, f)) \/ SendFails(e)
      PROVE  Moves
  BY <1>1 DEF Send, SendFails
<1>2. ASSUME NEW s \in Streams, OpenStep(s)
      PROVE  Moves
  <2>1. CASE OpenCheck(s) \/ OpenStore(s)
    BY <2>1 DEF OpenCheck, OpenStore, conn
  <2>2. CASE OpenSend(s)
    BY <1>1, <2>2, EndsPeer DEF OpenSend
  <2> QED BY <1>2, <2>1, <2>2 DEF OpenStep
<1>3. ASSUME NEW e \in Ends, NEW s \in Streams, StreamStep(e, s)
      PROVE  Moves
  <2>1. CASE WriteCall(e, s) \/ Read(e, s) \/ CloseStream(e, s) \/ CloseFinish(e, s)
    BY <2>1 DEF WriteCall, Read, CloseStream, CloseFinish, conn
  <2>2. CASE WriteChunk(e, s) \/ CloseSend(e, s)
    BY <1>1, <2>2 DEF WriteChunk, CloseSend
  <2> QED BY <1>3, <2>1, <2>2 DEF StreamStep
<1>4. ASSUME NEW e \in Ends, LoopStep(e)
      PROVE  Moves
  <2>1. CASE LoopPong(e)
    BY <1>1, <2>1 DEF LoopPong
  <2>2. CASE ~LoopPong(e)
    BY <1>4, <2>2 DEF LoopStep, HandleFrame, LoopAccept, LoopPush, LoopEnd
  <2> QED BY <2>1, <2>2
<1>5. ASSUME NEW e \in Ends, SendIdle(e) \/ CloseMux(e) \/ Sweep(e) \/ CloseConn(e)
      PROVE  Moves
  BY <1>1, <1>5 DEF SendIdle, CloseMux, Sweep, CloseConn, conn
<1>6. ASSUME AcceptStream \/ UNCHANGED vars
      PROVE  Moves
  BY <1>6 DEF AcceptStream, vars, conn
<1> HIDE DEF Moves
<1>7. Moves
  BY <1>2, <1>3, <1>4, <1>5, <1>6 DEF Next
<1> QED BY <1>7 DEF Moves

LEMMA MuxTypeStep ==
    ASSUME TypeInv, [Next]_vars
    PROVE  MuxTypeInv'
<1>1. MuxTypeInv /\ WireTypeInv /\ setting' \in Settings
  BY SettingKept DEF TypeInv, MuxTypeInv
<1>2. setting.streams \subseteq Streams /\ Streams \subseteq Nat \ {0} /\ MaxChunks \in Nat
  BY <1>1, SettingTypes DEF MuxTypeInv
<1> USE <1>1, EndsPeer DEF MuxTypeInv
<1>3. ASSUME NEW s \in Streams, OpenStep(s)
      PROVE  MuxTypeInv'
  <2>1. UNCHANGED <<muxPc, shut, done>>
    BY <1>3 DEF OpenStep, OpenCheck, OpenStore, OpenSend, mux
  <2>2. streams' \in [Ends -> SUBSET Streams]
    BY <1>3 DEF OpenStep, OpenCheck, OpenStore, OpenSend, mux
  <2> QED BY <2>1, <2>2
<1>4. CASE AcceptStream
  BY <1>4 DEF AcceptStream, mux
<1>5. ASSUME NEW e \in Ends, NEW s \in Streams, StreamStep(e, s)
      PROVE  MuxTypeInv'
  <2>1. CASE WriteCall(e, s) \/ WriteChunk(e, s) \/ Read(e, s) \/ CloseSend(e, s)
    BY <2>1 DEF WriteCall, WriteChunk, Read, CloseSend, mux
  <2>2. CASE CloseStream(e, s)
    BY <2>2 DEF CloseStream
  <2>3. CASE CloseFinish(e, s)
    BY <2>3 DEF CloseFinish
  <2> QED BY <1>5, <2>1, <2>2, <2>3 DEF StreamStep
<1>6. ASSUME NEW e \in Ends, wire[Peer(e)] # <<>>, HandleFrame(e, Head(wire[Peer(e)]))
      PROVE  MuxTypeInv'
  <2> DEFINE f == Head(wire[Peer(e)])
  <2>1. f \in Sendable
    BY <1>6, TailFacts DEF WireTypeInv
  <2>2. f.cmd \in {"OPEN", "CLOSE", "DATA"} => f.s \in Streams
    BY <2>1, FrameTypes, <1>2
  <2> HIDE DEF f
  <2>3. muxPc' = muxPc
    BY <1>6 DEF HandleFrame
  <2>4. CASE f.cmd = "OPEN" /\ streams' = [streams EXCEPT ![e] = @ \cup {f.s}] /\ UNCHANGED <<shut, done>>
    BY <2>2, <2>3, <2>4
  <2>5. CASE f.cmd = "CLOSE" /\ HandleClose(e, f.s)
    <3>1. f.s \in Streams
      BY <2>2, <2>5
    <3> QED BY <2>3, <2>5, <3>1 DEF HandleClose
  <2>6. CASE UNCHANGED <<streams, shut, done>>
    BY <2>3, <2>6, SMTT(30)
  <2> QED BY <1>6, <2>4, <2>5, <2>6 DEF HandleFrame, f
<1>7. ASSUME NEW e \in Ends, LoopAccept(e) \/ LoopPush(e) \/ LoopPong(e) \/ SendIdle(e)
      PROVE  MuxTypeInv'
  BY <1>7 DEF LoopAccept, LoopPush, LoopPong, SendIdle, mux
<1>8. ASSUME NEW e \in Ends, LoopEnd(e) \/ CloseMux(e) \/ CloseConn(e)
      PROVE  MuxTypeInv'
  BY <1>8 DEF LoopEnd, CloseMux, CloseConn, BeginClose
<1>9. ASSUME NEW e \in Ends, Sweep(e)
      PROVE  MuxTypeInv'
  BY <1>9 DEF Sweep
<1>10. CASE UNCHANGED vars
  BY <1>10 DEF vars, mux
<1> QED BY <1>3, <1>4, <1>5, <1>6, <1>7, <1>8, <1>9, <1>10 DEF Next, LoopStep

\* The frame that readLoop reads next.
LEMMA HeadTypes ==
    ASSUME TypeInv, NEW e \in Ends, wire[Peer(e)] # <<>>
    PROVE  Head(wire[Peer(e)]) \in Sendable
  BY EndsPeer, TailFacts DEF TypeInv, WireTypeInv

LEMMA LoopTypeStep ==
    ASSUME TypeInv, [Next]_vars
    PROVE  LoopTypeInv'
<1>1. LoopTypeInv /\ WireTypeInv /\ Streams \subseteq Nat \ {0} /\ MaxChunks \in Nat
  BY SettingTypes DEF TypeInv, MuxTypeInv
<1> DEFINE Good(l) == /\ l \in [pc : {"recv", "accept", "push", "pong", "stopped"}, frame : Frames]
                      /\ l.pc \in {"accept", "push"} => l.frame.s \in Streams
                      /\ l.pc = "push" => l.frame.n # 0
<1>2. Good(Receiving) /\ Good(Stopped)
  BY <1>1 DEF Receiving, Stopped, Frame, Frames, Cmds
<1>3. ASSUME NEW e \in Ends, NEW l, Good(l), loop' = [loop EXCEPT ![e] = l]
      PROVE  LoopTypeInv'
  BY <1>1, <1>3 DEF LoopTypeInv
<1>4. ASSUME NEW f \in Sendable, NEW pc \in {"accept", "push", "pong"},
             pc \in {"accept", "push"} => f.cmd \in {"OPEN", "DATA"}, pc = "push" => f.cmd = "DATA"
      PROVE  Good([pc |-> pc, frame |-> f])
  <2>1. f \in Frames /\ (f.cmd \in {"OPEN", "DATA"} => f.s \in Streams) /\ (f.cmd = "DATA" => f.n # 0)
    BY <1>1, FrameTypes
  <2> QED BY <1>4, <2>1
<1> HIDE DEF Good
<1>5. ASSUME UNCHANGED loop
      PROVE  LoopTypeInv'
  BY <1>1, <1>5 DEF LoopTypeInv
<1>6. ASSUME NEW s \in Streams, OpenStep(s)
      PROVE  UNCHANGED loop
  BY <1>6, OpeningKeeps
<1>7. ASSUME NEW e \in Ends, NEW s \in Streams, StreamStep(e, s)
      PROVE  UNCHANGED loop
  BY <1>7, CallsKeep
<1>8. ASSUME NEW e \in Ends, SendIdle(e) \/ CloseMux(e) \/ Sweep(e) \/ CloseConn(e)
      PROVE  UNCHANGED loop
  BY <1>8 DEF SendIdle, CloseMux, Sweep, CloseConn, conn
<1>9. ASSUME NEW e \in Ends, wire[Peer(e)] # <<>>, HandleFrame(e, Head(wire[Peer(e)]))
      PROVE  LoopTypeInv'
  <2> DEFINE f == Head(wire[Peer(e)])
  <2>1. f \in Sendable
    BY <1>9, HeadTypes
  <2> HIDE DEF f
  <2>2. ASSUME NEW pc \in {"accept", "push", "pong"}, loop' = [loop EXCEPT ![e] = [pc |-> pc, frame |-> f]],
               pc \in {"accept", "push"} => f.cmd \in {"OPEN", "DATA"}, pc = "push" => f.cmd = "DATA"
        PROVE  LoopTypeInv'
    BY <1>3, <1>4, <2>1, <2>2
  <2> QED BY <1>9, <1>5, <2>2 DEF HandleFrame, f
<1>10. ASSUME NEW e \in Ends, LoopAccept(e) \/ LoopPush(e) \/ LoopPong(e)
       PROVE  LoopTypeInv'
  BY <1>10, <1>2, <1>3 DEF LoopAccept, LoopPush, LoopPong, Resume
<1>11. ASSUME NEW e \in Ends, LoopEnd(e)
       PROVE  LoopTypeInv'
  BY <1>11, <1>2, <1>3 DEF LoopEnd
<1>12. CASE AcceptStream \/ UNCHANGED vars
  BY <1>12, <1>5 DEF AcceptStream, vars, conn
<1> QED BY <1>5, <1>6, <1>7, <1>8, <1>9, <1>10, <1>11, <1>12 DEF Next, LoopStep

\* The connection gains a frame at the end, or the receiver takes the first.
WireKept == UNCHANGED wire
WireGains == \E e \in Ends, f \in Sendable : Send(e, f)
WireLoses ==
    \E e \in Ends : wire[Peer(e)] # <<>> /\ wire' = [wire EXCEPT ![Peer(e)] = Tail(@)]

LEMMA WireMoves ==
    ASSUME TypeInv, [Next]_vars
    PROVE  WireKept \/ WireGains \/ WireLoses
<1>1. /\ LoopTypeInv /\ WireTypeInv /\ SentTypeInv /\ setting.chunks \in 0..MaxChunks
      /\ Streams \subseteq Nat \ {0} /\ MaxChunks \in Nat
  BY SettingTypes DEF TypeInv, MuxTypeInv
<1> USE EndsPeer DEF WireKept, WireGains, WireLoses
<1>2. ASSUME NEW s \in Streams, OpenStep(s)
      PROVE  WireKept \/ WireGains
  BY <1>1, <1>2, FrameTypes DEF OpenStep, OpenCheck, OpenStore, OpenSend, SendFails, conn
<1>3. ASSUME NEW e \in Ends, NEW s \in Streams, WriteChunk(e, s)
      PROVE  WireKept \/ WireGains
  <2>1. sent[e][s] \in 0..MaxChunks /\ sent[e][s] < setting.chunks
    BY <1>1, <1>3 DEF SentTypeInv, WriteChunk
  <2>2. sent[e][s] + 1 \in 1..MaxChunks
    BY <1>1, <2>1
  <2>3. Frame("DATA", s, sent[e][s] + 1) \in Sendable
    BY <1>1, <2>2, FrameTypes
  <2> QED BY <1>3, <2>3 DEF WriteChunk, SendFails
<1>4. ASSUME NEW e \in Ends, NEW s \in Streams, StreamStep(e, s), ~WriteChunk(e, s)
      PROVE  WireKept \/ WireGains
  BY <1>1, <1>4, FrameTypes DEF StreamStep, WriteCall, Read, CloseStream, CloseSend,
     CloseFinish, SendFails, conn
<1>5. ASSUME NEW e \in Ends, LoopPong(e) \/ SendIdle(e)
      PROVE  WireKept \/ WireGains
  BY <1>1, <1>5, FrameTypes, SMTT(30) DEF LoopPong, SendIdle, SendFails
<1>6. ASSUME NEW e \in Ends, LoopAccept(e) \/ LoopPush(e) \/ LoopEnd(e) \/ CloseMux(e) \/ Sweep(e) \/ CloseConn(e)
      PROVE  WireKept
  BY <1>6 DEF LoopAccept, LoopPush, LoopEnd, CloseMux, Sweep, CloseConn, conn
<1>7. ASSUME NEW e \in Ends, wire[Peer(e)] # <<>>, HandleFrame(e, Head(wire[Peer(e)]))
      PROVE  WireLoses
  BY <1>7 DEF HandleFrame
<1>8. CASE AcceptStream \/ UNCHANGED vars
  BY <1>8 DEF AcceptStream, vars, conn
<1> QED BY <1>2, <1>3, <1>4, <1>5, <1>6, <1>7, <1>8 DEF Next, LoopStep

LEMMA WireTypeStep ==
    ASSUME TypeInv, [Next]_vars
    PROVE  WireTypeInv'
<1>1. /\ WireTypeInv /\ setting.idle \in 0..MaxIdle /\ MaxIdle \in Nat /\ WireCap \in Nat
  BY SettingTypes DEF TypeInv, MuxTypeInv
<1> USE EndsPeer
<1>2. wire' \in [Ends -> Seq(Sendable)] /\ \A e \in Ends : Len(wire'[e]) <= WireCap
  <2>1. CASE WireKept
    BY <1>1, <2>1 DEF WireTypeInv, WireKept
  <2>2. CASE WireGains
    <3>1. PICK e \in Ends, f \in Sendable : Send(e, f)
      BY <2>2 DEF WireGains
    <3>2. wire[e] \in Seq(Sendable) /\ Len(wire[e]) < WireCap
          /\ wire' = [wire EXCEPT ![e] = Append(wire[e], f)]
      BY <1>1, <3>1 DEF WireTypeInv, Send
    <3>3. Append(wire[e], f) \in Seq(Sendable) /\ Len(Append(wire[e], f)) = Len(wire[e]) + 1
          /\ Len(wire[e]) \in Nat
      BY <3>2, AppendFacts
    <3> QED BY <1>1, <3>2, <3>3 DEF WireTypeInv
  <2>3. CASE WireLoses
    <3>1. PICK e \in Ends : wire[Peer(e)] # <<>> /\ wire' = [wire EXCEPT ![Peer(e)] = Tail(wire[Peer(e)])]
      BY <2>3 DEF WireLoses
    <3>2. wire[Peer(e)] \in Seq(Sendable) /\ Len(wire[Peer(e)]) <= WireCap
      BY <1>1 DEF WireTypeInv
    <3>3. /\ Tail(wire[Peer(e)]) \in Seq(Sendable) /\ Len(wire[Peer(e)]) \in Nat
          /\ Len(Tail(wire[Peer(e)])) = Len(wire[Peer(e)]) - 1
      BY <3>1, <3>2, TailFacts
    <3> QED BY <1>1, <3>1, <3>2, <3>3, SMTT(30) DEF WireTypeInv
  <2> QED BY <2>1, <2>2, <2>3, WireMoves
<1>3. idle' \in [Ends -> 0..MaxIdle]
  <2>1. ASSUME NEW s \in Streams, OpenStep(s)
        PROVE  idle' = idle
    BY <2>1, OpeningKeeps
  <2>2. ASSUME NEW e \in Ends, NEW s \in Streams, StreamStep(e, s)
        PROVE  idle' = idle
    BY <2>2, CallsKeep
  <2>3. ASSUME NEW e \in Ends, LoopStep(e) \/ CloseMux(e) \/ Sweep(e) \/ CloseConn(e)
        PROVE  idle' = idle
    BY <2>3 DEF LoopStep, HandleFrame, LoopAccept, LoopPush, LoopPong, LoopEnd, CloseMux,
       Sweep, CloseConn, conn
  <2>4. ASSUME NEW e \in Ends, SendIdle(e)
        PROVE  idle' \in [Ends -> 0..MaxIdle]
    <3>1. idle' = [idle EXCEPT ![e] = @ + 1] /\ idle[e] < setting.idle /\ idle[e] \in 0..MaxIdle
      BY <1>1, <2>4 DEF SendIdle, WireTypeInv
    <3>2. idle[e] + 1 \in 0..MaxIdle
      BY <1>1, <3>1
    <3> QED BY <1>1, <3>1, <3>2 DEF WireTypeInv
  <2>5. CASE AcceptStream \/ UNCHANGED vars
    BY <1>1, <2>5 DEF AcceptStream, vars, conn, WireTypeInv
  <2> QED BY <1>1, <2>1, <2>2, <2>3, <2>4, <2>5 DEF Next, WireTypeInv
<1>4. spent' \subseteq Ends
  BY <1>1, SpentMoves DEF WireTypeInv
<1> QED BY <1>2, <1>3, <1>4 DEF WireTypeInv

LEMMA ProgTypeStep ==
    ASSUME TypeInv, [Next]_vars
    PROVE  ProgTypeInv'
<1>1. /\ LoopTypeInv /\ ProgTypeInv /\ AcceptCap \in Nat \ {0} /\ setting.streams \subseteq Streams
  BY SettingTypes DEF TypeInv, MuxTypeInv
<1> USE EndsPeer
<1>2. ASSUME NEW s \in Streams, OpenStep(s)
      PROVE  ProgTypeInv'
  <2> USE <1>1 DEF ProgTypeInv
  <2>1. UNCHANGED <<acceptCh, accepting, writing>>
    BY <1>2 DEF OpenStep, OpenCheck, OpenStore, OpenSend, conn
  <2>2. app' \in [Ends -> [Streams -> {"none", "checked", "stored", "up", "closing", "sent", "gone"}]]
    <3>1. PICK pc \in {"checked", "stored", "up", "gone"} : app' = [app EXCEPT !["client"][s] = pc]
      BY <1>2 DEF OpenStep, OpenCheck, OpenStore, OpenSend, Goto
    <3> QED BY <3>1
  <2>3. reading' \in [Ends -> SUBSET Streams]
    BY <1>2 DEF OpenStep, OpenCheck, OpenStore, OpenSend
  <2> QED BY <2>1, <2>2, <2>3
<1>3. CASE AcceptStream
  <2> USE <1>1 DEF ProgTypeInv
  <2>1. CASE acceptCh # <<>> /\ acceptCh' = Tail(acceptCh)
             /\ Goto("server", Head(acceptCh), "up")
             /\ reading' = [reading EXCEPT !["server"] = @ \cup {Head(acceptCh)}]
             /\ UNCHANGED accepting
    <3>1. /\ Head(acceptCh) \in Streams /\ Tail(acceptCh) \in Seq(Streams)
          /\ Len(Tail(acceptCh)) = Len(acceptCh) - 1 /\ Len(acceptCh) \in Nat
      BY <2>1, TailFacts
    <3>2. app' \in [Ends -> [Streams -> {"none", "checked", "stored", "up", "closing", "sent", "gone"}]]
      BY <2>1, <3>1 DEF Goto
    <3>3. reading' \in [Ends -> SUBSET Streams]
      BY <2>1, <3>1
    <3>4. writing' = writing
      BY <1>3 DEF AcceptStream
    <3> QED BY <2>1, <3>1, <3>2, <3>3, <3>4
  <2>2. CASE accepting' = "off" /\ UNCHANGED <<acceptCh, app, reading>>
    BY <1>3, <2>2 DEF AcceptStream
  <2> QED BY <1>3, <2>1, <2>2 DEF AcceptStream
<1>4. ASSUME NEW e \in Ends, NEW s \in Streams, StreamStep(e, s)
      PROVE  ProgTypeInv'
  <2> USE <1>1 DEF ProgTypeInv
  <2>1. UNCHANGED <<acceptCh, accepting>>
    BY <1>4, CallsKeep
  <2>2. app' \in [Ends -> [Streams -> {"none", "checked", "stored", "up", "closing", "sent", "gone"}]]
    <3>1. ASSUME NEW pc \in {"closing", "sent", "gone"}, Goto(e, s, pc)
          PROVE  app' \in [Ends -> [Streams -> {"none", "checked", "stored", "up", "closing", "sent", "gone"}]]
      BY <3>1 DEF Goto
    <3> QED BY <1>4, <3>1, CallsMove
  <2>3. reading' \in [Ends -> SUBSET Streams]
    <3>1. reading' = reading \/ reading' = [reading EXCEPT ![e] = reading[e] \ {s}]
      BY <1>4, CallsMove
    <3> QED BY <3>1
  <2>4. writing' \in [Ends -> SUBSET Streams]
    <3>1. \/ writing' = writing
          \/ writing' = [writing EXCEPT ![e] = writing[e] \cup {s}]
          \/ writing' = [writing EXCEPT ![e] = writing[e] \ {s}]
      BY <1>4, CallsMove
    <3>2. ASSUME NEW W \in SUBSET Streams, writing' = [writing EXCEPT ![e] = W]
          PROVE  writing' \in [Ends -> SUBSET Streams]
      BY <3>2
    <3>3. writing[e] \cup {s} \in SUBSET Streams /\ writing[e] \ {s} \in SUBSET Streams
      OBVIOUS
    <3>4. CASE writing' = writing
      BY <3>4
    <3> QED BY <3>1, <3>2, <3>3, <3>4, Zenon
  <2> QED BY <2>1, <2>2, <2>3, <2>4
<1>5. ASSUME NEW e \in Ends, LoopAccept(e)
      PROVE  ProgTypeInv'
  <2> DEFINE s == loop[e].frame.s
  <2>1. s \in Streams
    BY <1>1, <1>5 DEF LoopTypeInv, LoopAccept
  <2>2. UNCHANGED <<accepting, app, writing, reading>>
    BY <1>5 DEF LoopAccept, prog
  <2>3. acceptCh' = acceptCh \/ (Len(acceptCh) < AcceptCap /\ acceptCh' = Append(acceptCh, s))
    BY <1>5 DEF LoopAccept
  <2> HIDE DEF s
  <2>4. acceptCh' \in Seq(Streams) /\ Len(acceptCh') <= AcceptCap
    <3>1. CASE acceptCh' = acceptCh
      BY <1>1, <3>1 DEF ProgTypeInv
    <3>2. CASE Len(acceptCh) < AcceptCap /\ acceptCh' = Append(acceptCh, s)
      <4>1. acceptCh' \in Seq(Streams) /\ Len(acceptCh') = Len(acceptCh) + 1 /\ Len(acceptCh) \in Nat
        BY <1>1, <2>1, <3>2, AppendFacts DEF ProgTypeInv
      <4> QED BY <1>1, <3>2, <4>1
    <3> QED BY <2>3, <3>1, <3>2
  <2> QED BY <1>1, <2>2, <2>4 DEF ProgTypeInv
<1>6. ASSUME UNCHANGED <<acceptCh, accepting, app, writing, reading>>
      PROVE  ProgTypeInv'
  BY <1>1, <1>6, SMTT(30) DEF ProgTypeInv
<1>7. ASSUME NEW e \in Ends, HandleFrame(e, Head(wire[Peer(e)])) \/ LoopPush(e) \/ LoopPong(e) \/ LoopEnd(e)
      PROVE  ProgTypeInv'
  BY <1>6, <1>7 DEF HandleFrame, LoopPush, LoopPong, LoopEnd, prog
<1>8. ASSUME NEW e \in Ends, SendIdle(e) \/ CloseMux(e) \/ Sweep(e) \/ CloseConn(e)
      PROVE  ProgTypeInv'
  BY <1>6, <1>8 DEF SendIdle, CloseMux, Sweep, CloseConn, prog, conn
<1>9. CASE UNCHANGED vars
  BY <1>6, <1>9 DEF vars, prog, conn
<1> QED BY <1>2, <1>3, <1>4, <1>5, <1>7, <1>8, <1>9 DEF Next, LoopStep

\* Chunks are written by the calls of Write, one at a time, and pushed by
\* readLoop, one at a time.
LEMMA SentMoves ==
    ASSUME TypeInv, [Next]_vars
    PROVE  \/ UNCHANGED sent
           \/ \E e \in Ends, s \in Streams :
                 /\ s \in writing[e] /\ WriteChunk(e, s) /\ Send(e, Frame("DATA", s, sent[e][s] + 1))
                 /\ sent' = [sent EXCEPT ![e][s] = @ + 1]
<1>1. ASSUME NEW s \in Streams, OpenStep(s)
      PROVE  sent' = sent
  BY <1>1, OpeningKeeps
<1>2. ASSUME NEW e \in Ends, NEW s \in Streams, StreamStep(e, s), ~WriteChunk(e, s)
      PROVE  sent' = sent
  BY <1>2 DEF StreamStep, WriteCall, Read, CloseStream, CloseSend, CloseFinish, data
<1>3. ASSUME NEW e \in Ends, LoopStep(e)
      PROVE  sent' = sent
  BY <1>3 DEF LoopStep, HandleFrame, LoopAccept, LoopPush, LoopPong, LoopEnd, data
<1>4. ASSUME NEW e \in Ends, SendIdle(e) \/ CloseMux(e) \/ Sweep(e) \/ CloseConn(e)
      PROVE  sent' = sent
  BY <1>4 DEF SendIdle, CloseMux, Sweep, CloseConn, data
<1>5. CASE AcceptStream \/ UNCHANGED vars
  BY <1>5 DEF AcceptStream, vars, data
<1>6. ASSUME NEW e \in Ends, NEW s \in Streams, WriteChunk(e, s)
      PROVE  \/ UNCHANGED sent
             \/ /\ s \in writing[e] /\ WriteChunk(e, s) /\ Send(e, Frame("DATA", s, sent[e][s] + 1))
                /\ sent' = [sent EXCEPT ![e][s] = @ + 1]
  BY <1>6 DEF WriteChunk
<1> QED BY <1>1, <1>2, <1>3, <1>4, <1>5, <1>6 DEF Next

LEMMA DeliveredMoves ==
    ASSUME TypeInv, [Next]_vars
    PROVE  \/ UNCHANGED delivered
           \/ \E e \in Ends :
                 /\ LoopPush(e) /\ loop[e].pc = "push"
                 /\ delivered' = [delivered EXCEPT ![e][loop[e].frame.s] = Append(@, loop[e].frame.n)]
<1>1. ASSUME NEW s \in Streams, OpenStep(s)
      PROVE  delivered' = delivered
  BY <1>1, OpeningKeeps
<1>2. ASSUME NEW e \in Ends, NEW s \in Streams, StreamStep(e, s)
      PROVE  delivered' = delivered
  BY <1>2, CallsKeep
<1>3. ASSUME NEW e \in Ends, LoopStep(e), ~LoopPush(e)
      PROVE  delivered' = delivered
  BY <1>3 DEF LoopStep, HandleFrame, LoopAccept, LoopPong, LoopEnd, data
<1>4. ASSUME NEW e \in Ends, SendIdle(e) \/ CloseMux(e) \/ Sweep(e) \/ CloseConn(e)
      PROVE  delivered' = delivered
  BY <1>4 DEF SendIdle, CloseMux, Sweep, CloseConn, data
<1>5. CASE AcceptStream \/ UNCHANGED vars
  <2>1. ASSUME AcceptStream
        PROVE  delivered' = delivered
    BY <2>1 DEF AcceptStream, data
  <2>2. ASSUME UNCHANGED vars
        PROVE  delivered' = delivered
    BY <2>2 DEF vars, data
  <2> QED BY <1>5, <2>1, <2>2, Zenon
<1>6. ASSUME NEW e \in Ends, LoopPush(e)
      PROVE  \/ UNCHANGED delivered
             \/ /\ loop[e].pc = "push"
                /\ delivered' = [delivered EXCEPT ![e][loop[e].frame.s] = Append(@, loop[e].frame.n)]
  BY <1>6 DEF LoopPush
<1> QED BY <1>1, <1>2, <1>3, <1>4, <1>5, <1>6 DEF Next

LEMMA SentTypeStep ==
    ASSUME TypeInv, [Next]_vars
    PROVE  SentTypeInv'
<1>1. /\ SentTypeInv /\ ProgTypeInv /\ setting.chunks \in 0..MaxChunks /\ MaxChunks \in Nat
      /\ setting' = setting
  BY SettingTypes, SettingKept DEF TypeInv, MuxTypeInv
<1>2. sent' \in [Ends -> [Streams -> 0..MaxChunks]]
  <2>1. ASSUME NEW e \in Ends, NEW s \in Streams, s \in writing[e],
               sent' = [sent EXCEPT ![e][s] = @ + 1]
        PROVE  sent' \in [Ends -> [Streams -> 0..MaxChunks]]
    <3>1. sent[e][s] \in 0..MaxChunks /\ sent[e][s] < setting.chunks
      BY <1>1, <2>1 DEF SentTypeInv
    <3>2. sent[e][s] + 1 \in 0..MaxChunks
      BY <1>1, <3>1
    <3> QED BY <1>1, <2>1, <3>2 DEF SentTypeInv
  <2> QED BY <1>1, <2>1, SentMoves DEF SentTypeInv
<1>3. ASSUME NEW e \in Ends, NEW s \in Streams, WriteChunk(e, s)
      PROVE  SentTypeInv'
  <2>1. \/ writing' = writing /\ sent'[e][s] < setting.chunks
        \/ writing' = [writing EXCEPT ![e] = @ \ {s}]
    BY <1>3 DEF WriteChunk
  <2>2. \A d \in Ends, r \in Streams : d # e \/ r # s => sent'[d][r] = sent[d][r]
    <3>1. sent' = sent \/ sent' = [sent EXCEPT ![e][s] = @ + 1]
      BY <1>3 DEF WriteChunk
    <3> QED BY <1>1, <3>1 DEF SentTypeInv
  <2>3. ASSUME NEW d \in Ends, NEW r \in writing'[d]
        PROVE  sent'[d][r] < setting'.chunks
    <3>1. r \in writing[d] /\ r \in Streams
      BY <1>1, <2>1 DEF ProgTypeInv
    <3>2. sent[d][r] < setting.chunks
      BY <1>1, <3>1 DEF SentTypeInv
    <3>3. CASE d = e /\ r = s
      <4>1. writing \in [Ends -> SUBSET Streams] /\ r \in writing'[e]
        BY <1>1, <3>3 DEF ProgTypeInv
      <4>2. writing' # [writing EXCEPT ![e] = @ \ {s}]
        BY <3>3, <4>1
      <4> QED BY <1>1, <2>1, <3>3, <4>2
    <3> QED BY <1>1, <2>2, <3>1, <3>2, <3>3
  <2> QED BY <1>2, <2>3 DEF SentTypeInv
<1>4. ASSUME NEW e \in Ends, NEW s \in Streams, WriteCall(e, s)
      PROVE  SentTypeInv'
  <2>1. writing' = [writing EXCEPT ![e] = @ \cup {s}] /\ sent' = sent /\ sent[e][s] < setting.chunks
    BY <1>4 DEF WriteCall, data
  <2> QED BY <1>1, <2>1 DEF SentTypeInv, ProgTypeInv
<1>5. ASSUME UNCHANGED <<sent, writing>>
      PROVE  SentTypeInv'
  BY <1>1, <1>5 DEF SentTypeInv
<1>6. ASSUME NEW e \in Ends, NEW s \in Streams, StreamStep(e, s), ~WriteChunk(e, s), ~WriteCall(e, s)
      PROVE  UNCHANGED <<sent, writing>>
  BY <1>6 DEF StreamStep, Read, CloseStream, CloseSend, CloseFinish, data
<1>7. ASSUME NEW s \in Streams, OpenStep(s)
      PROVE  UNCHANGED <<sent, writing>>
  BY <1>7, OpeningKeeps
<1>8. ASSUME NEW e \in Ends, LoopStep(e)
      PROVE  UNCHANGED <<sent, writing>>
  BY <1>8 DEF LoopStep, HandleFrame, LoopAccept, LoopPush, LoopPong, LoopEnd, data, prog
<1>9. ASSUME NEW e \in Ends, SendIdle(e) \/ CloseMux(e) \/ Sweep(e) \/ CloseConn(e)
      PROVE  UNCHANGED <<sent, writing>>
  BY <1>9 DEF SendIdle, CloseMux, Sweep, CloseConn, data, prog
<1>10. CASE AcceptStream \/ UNCHANGED vars
  BY <1>5, <1>10 DEF AcceptStream, vars, data, prog
<1> QED BY <1>3, <1>4, <1>5, <1>6, <1>7, <1>8, <1>9, <1>10 DEF Next

LEMMA ReadTypeStep ==
    ASSUME TypeInv, [Next]_vars
    PROVE  ReadTypeInv'
<1>1. ReadTypeInv /\ LoopTypeInv /\ MaxChunks \in Nat
  BY SettingTypes DEF TypeInv, MuxTypeInv
<1>2. ASSUME UNCHANGED <<delivered, nread>>
      PROVE  ReadTypeInv'
  BY <1>1, <1>2 DEF ReadTypeInv
<1>3. ASSUME NEW e \in Ends, LoopPush(e),
             delivered' = [delivered EXCEPT ![e][loop[e].frame.s] = Append(@, loop[e].frame.n)]
      PROVE  ReadTypeInv'
  <2> DEFINE s == loop[e].frame.s
             q == Append(delivered[e][s], loop[e].frame.n)
  <2>1. s \in Streams /\ loop[e].frame.n \in 1..MaxChunks
    BY <1>1, <1>3 DEF LoopTypeInv, LoopPush, Frames
  <2>2. q \in Seq(1..MaxChunks) /\ Len(q) = Len(delivered[e][s]) + 1 /\ Len(delivered[e][s]) \in Nat
    BY <1>1, <2>1, AppendFacts, SMTT(30) DEF ReadTypeInv
  <2>3. delivered' = [delivered EXCEPT ![e][s] = q] /\ nread' = nread
    BY <1>3 DEF LoopPush
  <2> HIDE DEF s, q
  <2> QED BY <1>1, <2>1, <2>2, <2>3, SMTT(30) DEF ReadTypeInv
<1>4. ASSUME NEW e \in Ends, NEW s \in Streams, Read(e, s)
      PROVE  ReadTypeInv'
  <2>1. CASE nread[e][s] < Len(delivered[e][s]) /\ nread' = [nread EXCEPT ![e][s] = @ + 1]
    <3>1. Len(delivered[e][s]) \in Nat /\ nread[e][s] \in Nat
      BY <1>1 DEF ReadTypeInv
    <3>2. nread[e][s] + 1 \in Nat /\ nread[e][s] + 1 <= Len(delivered[e][s])
      BY <2>1, <3>1
    <3> QED BY <1>1, <1>4, <2>1, <3>2 DEF ReadTypeInv, Read
  <2>2. CASE nread' = nread
    BY <1>2, <1>4, <2>2 DEF Read
  <2> QED BY <1>4, <2>1, <2>2 DEF Read
<1>5. ASSUME NEW s \in Streams, OpenStep(s)
      PROVE  nread' = nread
  BY <1>5, OpeningKeeps
<1>6. ASSUME NEW e \in Ends, NEW s \in Streams, StreamStep(e, s), ~Read(e, s)
      PROVE  UNCHANGED <<delivered, nread>>
  <2>1. CASE WriteCall(e, s) \/ WriteChunk(e, s)
    BY <2>1 DEF WriteCall, WriteChunk, data
  <2>2. CASE CloseStream(e, s) \/ CloseSend(e, s) \/ CloseFinish(e, s)
    BY <2>2 DEF CloseStream, CloseSend, CloseFinish, data
  <2> QED BY <1>6, <2>1, <2>2, Zenon DEF StreamStep
<1>7. ASSUME NEW e \in Ends, LoopStep(e)
      PROVE  nread' = nread
  BY <1>7 DEF LoopStep, HandleFrame, LoopAccept, LoopPush, LoopPong, LoopEnd, data
<1>8. ASSUME NEW e \in Ends, SendIdle(e) \/ CloseMux(e) \/ Sweep(e) \/ CloseConn(e)
      PROVE  nread' = nread
  BY <1>8 DEF SendIdle, CloseMux, Sweep, CloseConn, data
<1>9. CASE AcceptStream \/ UNCHANGED vars
  BY <1>2, <1>9 DEF AcceptStream, vars, data
<1>10. nread' = nread \/ \E e \in Ends, s \in Streams : StreamStep(e, s)
  BY <1>5, <1>7, <1>8, <1>9 DEF Next, AcceptStream, vars, data
<1>11. CASE nread' = nread
  BY <1>2, <1>3, <1>11, DeliveredMoves
<1> QED BY <1>4, <1>6, <1>2, <1>10, <1>11

LEMMA TypesKept ==
    ASSUME TypeInv, [Next]_vars
    PROVE  TypeInv'
  BY MuxTypeStep, LoopTypeStep, WireTypeStep, ProgTypeStep, SentTypeStep, ReadTypeStep DEF
     TypeInv

\* The accept queue, the channels of the streams and the connection's buffers
\* keep their capacities, and every state is one the code can name.
THEOREM TypeCorrect == Spec => []TypeOK
<1>1. TypeInv /\ [Next]_vars => TypeInv'
  BY TypesKept
<1> QED BY <1>1, TypesHoldAtStart, TypeInvGivesTypeOK, PTL DEF Spec

---------------------------------------------------------------------------
(* Where the frames of a stream can be, and where a stream can be that has *)
(* not begun.                                                              *)

\* The pieces of the program's way before its end of a stream may be used.
Unbegun == {"none", "checked", "stored"}

\* The OPEN of s is in flight.
Opening(s) == Contains(wire["client"], Frame("OPEN", s, 0))

\* readLoop of e is in the middle of a frame of s that it hands on.
Handling(e, s) == loop[e].pc \in {"accept", "push"} /\ loop[e].frame.s = s
Pushing(e, s) == loop[e].pc = "push" /\ loop[e].frame.s = s

\* Frames are in flight in the order in which they were sent, and only frames
\* that were sent.
WireInv ==
    /\ \A e \in Ends : Ordered(wire[e])
    /\ \A s \in Streams : ~Contains(wire["server"], Frame("OPEN", s, 0))
    /\ loop["client"].pc # "accept"
    /\ \A e \in Ends, s \in Streams, k \in 1..MaxChunks :
          Contains(wire[e], Frame("DATA", s, k)) => k <= sent[e][s]
    /\ \A e \in Ends, s \in Streams :
          Pushing(e, s) => loop[e].frame.n <= sent[Peer(e)][s]

\* Nothing of a stream has left an end where it has not begun.
UnbegunInv ==
    \A e \in Ends, s \in Streams : app[e][s] \in Unbegun =>
        /\ sent[e][s] = 0 /\ s \notin writing[e] /\ s \notin reading[e]
        /\ \A f : Contains(wire[e], f) => f.s # s
        /\ ~Handling(Peer(e), s) /\ delivered[Peer(e)][s] = <<>>

\* Before its OPEN has arrived the server knows nothing of a stream.
UnopenedInv ==
    \A s \in Streams : app["client"][s] \in Unbegun \/ Opening(s) =>
        /\ s \notin streams["server"] /\ s \notin shut["server"]
        /\ app["server"][s] = "none"
        /\ ~Contains(acceptCh, s) /\ ~Handling("server", s)
        /\ delivered["server"][s] = <<>>

\* The client's map has a stream from OpenStore on, until its mux closes.
UnstoredInv ==
    \A s \in Streams :
        /\ app["client"][s] \in {"none", "checked"} => s \notin streams["client"] /\ s \notin shut["client"]
        /\ app["client"][s] = "stored" /\ muxPc["client"] = "open" =>
              s \in streams["client"] /\ s \notin shut["client"]

\* A stream is in the accept queue once, and only before it is accepted.
QueueInv ==
    /\ \A i, j \in 1..Len(acceptCh) : acceptCh[i] = acceptCh[j] => i = j
    /\ \A s \in Streams : Contains(acceptCh, s) \/ (loop["server"].pc = "accept" /\ Handling("server", s))
          => app["server"][s] = "none"
    /\ \A s \in Streams : loop["server"].pc = "accept" /\ Handling("server", s) => ~Contains(acceptCh, s)

\* A stream that somebody may still read is in the map or has been ended.
ReachInv ==
    /\ \A e \in Ends : done[e] \subseteq shut[e] /\ reading[e] \subseteq done[e] \cup streams[e]
    /\ \A e \in Ends, s \in Streams : app[e][s] \in {"closing", "sent"} => s \in shut[e]
    /\ \A s \in Streams : app["client"][s] = "stored" => s \in done["client"] \cup streams["client"]
    /\ \A s \in Streams : Contains(acceptCh, s) \/ (loop["server"].pc = "accept" /\ Handling("server", s))
          => s \in done["server"] \cup streams["server"]

\* Of the chunks written to s by e, those that have reached the other end.
Taken(e, s) == Len(delivered[Peer(e)][s]) + (IF Pushing(Peer(e), s) THEN 1 ELSE 0)

\* As long as the receiving stream is open, the chunks it has not had are in
\* flight, and the one that is being pushed is the next.
OrderInv ==
    \A e \in Ends, s \in Streams : muxPc[Peer(e)] = "open" =>
        /\ Len(delivered[Peer(e)][s]) <= sent[e][s]
        /\ Pushing(Peer(e), s) => loop[Peer(e)].frame.n = Len(delivered[Peer(e)][s]) + 1
        /\ /\ s \notin shut[Peer(e)]
           /\ s \in streams[Peer(e)] \/ (e = "client" /\ Opening(s))
           => \A k \in 1..MaxChunks :
                 Contains(wire[e], Frame("DATA", s, k)) <=> Taken(e, s) < k /\ k <= sent[e][s]

\* The CLOSE of s sent by e is in flight.
CloseInFlight(e, s) == Contains(wire[e], Frame("CLOSE", s, 0))

\* What the map of one end holds and the other's does not is about to be
\* opened or closed, or was closed by an end whose key is used up.
MapInv ==
    (\A e \in Ends : muxPc[e] = "open") =>
        /\ \A s \in Streams : Opening(s) =>
                 s \in streams["client"] \/ CloseInFlight("client", s) \/ "client" \in spent
        /\ \A e \in Ends, s \in Streams :
              /\ s \in streams[e] /\ s \in shut[e] => app[e][s] \in {"closing", "sent"}
              /\ s \in streams[e] /\ s \notin streams[Peer(e)] =>
                    \/ e = "client" /\ (app[e][s] = "stored" \/ Opening(s))
                    \/ CloseInFlight(Peer(e), s) \/ app[e][s] = "sent" \/ Peer(e) \in spent
              /\ app[e][s] = "gone" => s \notin streams[e]
              /\ CloseInFlight(e, s) => app[e][s] \in {"sent", "gone"}
              /\ app[e][s] = "sent" =>
                    \/ CloseInFlight(e, s) \/ e \in spent
                    \/ s \notin streams[Peer(e)] /\ ~(e = "client" /\ Opening(s))

Inv ==
    /\ TypeInv /\ WireInv /\ UnbegunInv /\ UnopenedInv /\ UnstoredInv
    /\ QueueInv /\ ReachInv /\ OrderInv /\ MapInv

LEMMA InvTypes ==
    ASSUME Inv
    PROVE  /\ TypeInv /\ MuxTypeInv /\ LoopTypeInv /\ WireTypeInv /\ ProgTypeInv /\ SentTypeInv /\ ReadTypeInv
           /\ Streams \subseteq Nat \ {0} /\ MaxChunks \in Nat /\ 0 \notin Streams
           /\ setting.streams \subseteq Streams /\ setting.chunks \in 0..MaxChunks
           /\ \A e \in Ends : wire[e] \in Seq(Sendable)
           /\ acceptCh \in Seq(Streams)
  BY SettingTypes DEF Inv, TypeInv, MuxTypeInv, WireTypeInv, ProgTypeInv

\* What is in flight after a frame was sent, and after one was read.
LEMMA AfterSend ==
    ASSUME Inv, NEW e \in Ends, NEW f \in Sendable, Send(e, f)
    PROVE  /\ \A d \in Ends : \A g : Contains(wire'[d], g) <=> Contains(wire[d], g) \/ (d = e /\ g = f)
           /\ \A d \in Ends : d # e => wire'[d] = wire[d]
           /\ wire'[e] = Append(wire[e], f)
<1>1. wire' = [wire EXCEPT ![e] = Append(wire[e], f)] /\ wire[e] \in Seq(Sendable) /\ DOMAIN wire = Ends
  BY InvTypes DEF Send, WireTypeInv
<1>2. wire'[e] = Append(wire[e], f) /\ \A d \in Ends : d # e => wire'[d] = wire[d]
  BY <1>1
<1>3. \A g : Contains(wire'[e], g) <=> Contains(wire[e], g) \/ g = f
  BY <1>1, <1>2, AppendFacts
<1> QED BY <1>2, <1>3

LEMMA AfterTake ==
    ASSUME Inv, NEW e \in Ends, wire[Peer(e)] # <<>>,
           wire' = [wire EXCEPT ![Peer(e)] = Tail(@)]
    PROVE  /\ Head(wire[Peer(e)]) \in Sendable /\ wire'[e] = wire[e] /\ Ordered(wire'[Peer(e)])
           /\ Contains(wire[Peer(e)], Head(wire[Peer(e)]))
           /\ \A g : Contains(wire[Peer(e)], g) <=> Contains(wire'[Peer(e)], g) \/ g = Head(wire[Peer(e)])
           /\ \A g : Contains(wire'[Peer(e)], g) => Follows(g, Head(wire[Peer(e)]))
<1>1. /\ wire'[Peer(e)] = Tail(wire[Peer(e)]) /\ wire[Peer(e)] \in Seq(Sendable) /\ wire'[e] = wire[e]
      /\ Ordered(wire[Peer(e)])
  BY InvTypes, EndsPeer DEF WireTypeInv, Inv, WireInv
<1>2. /\ Head(wire[Peer(e)]) \in Sendable
      /\ \A g : Contains(wire[Peer(e)], g) <=> Contains(Tail(wire[Peer(e)]), g) \/ g = Head(wire[Peer(e)])
  BY <1>1, TailFacts
<1>3. /\ Ordered(Tail(wire[Peer(e)]))
      /\ \A g : Contains(Tail(wire[Peer(e)]), g) => Follows(g, Head(wire[Peer(e)]))
  BY <1>1, OrderedTail
<1> QED BY <1>1, <1>2, <1>3

---------------------------------------------------------------------------
(* One invariant after the other.                                          *)

LEMMA InvAtStart == Init => Inv
<1> SUFFICES ASSUME Init PROVE Inv
  OBVIOUS
<1>1. TypeInv
  BY TypesHoldAtStart
<1>2. \A e \in Ends : wire[e] = <<>> /\ muxPc[e] = "open" /\ loop[e].pc = "recv"
                      /\ streams[e] = {} /\ shut[e] = {} /\ done[e] = {} /\ reading[e] = {} /\ writing[e] = {}
  BY DEF Init, Receiving
<1>3. \A e \in Ends, s \in Streams : app[e][s] = "none" /\ sent[e][s] = 0 /\ delivered[e][s] = <<>>
  BY DEF Init
<1>4. \A f : ~Contains(<<>>, f)
  BY DEF Contains
<1>5. acceptCh = <<>>
  BY DEF Init
<1> USE EndsPeer
<1>6. WireInv
  BY <1>2, <1>4 DEF WireInv, Ordered, Pushing
<1>7. UnbegunInv /\ UnopenedInv /\ UnstoredInv
  BY <1>2, <1>3, <1>4, <1>5 DEF UnbegunInv, UnopenedInv, UnstoredInv, Unbegun, Handling, Opening
<1>8. QueueInv /\ ReachInv
  BY <1>2, <1>3, <1>4, <1>5 DEF QueueInv, ReachInv
<1>9. OrderInv
  <2> SUFFICES ASSUME NEW e \in Ends, NEW s \in Streams
               PROVE  /\ ~Pushing(Peer(e), s) /\ s \notin streams[Peer(e)] /\ ~Opening(s)
                      /\ Len(delivered[Peer(e)][s]) <= sent[e][s]
    BY DEF OrderInv
  <2> QED BY <1>2, <1>3, <1>4 DEF Pushing, Opening
<1>10. MapInv
  BY <1>2, <1>3, <1>4 DEF MapInv, Opening, CloseInFlight
<1> QED BY <1>1, <1>6, <1>7, <1>8, <1>9, <1>10 DEF Inv

\* The frames of one stream, and of one kind, are distinct from the others.
LEMMA FramesDiffer ==
    \A c, d, r, s, m, n : Frame(c, r, m) = Frame(d, s, n) <=> c = d /\ r = s /\ m = n
  BY DEF Frame

LEMMA FrameFields ==
    \A c, s, n : Frame(c, s, n).cmd = c /\ Frame(c, s, n).s = s /\ Frame(c, s, n).n = n
  BY DEF Frame


\* readLoop of e reads the next frame.
Reads(e) == wire[Peer(e)] # <<>> /\ HandleFrame(e, Head(wire[Peer(e)]))

\* The steps that send a frame, and the frame.
SendsOpen(s) == OpenSend(s) /\ Send("client", Frame("OPEN", s, 0)) /\ Goto("client", s, "up")
SendsData(e, s) ==
    /\ WriteChunk(e, s) /\ Send(e, Frame("DATA", s, sent[e][s] + 1))
    /\ sent' = [sent EXCEPT ![e][s] = @ + 1]
SendsClose(e, s) == CloseSend(e, s) /\ Send(e, Frame("CLOSE", s, 0))
SendsOther(e) ==
    /\ \E cmd \in {"PING", "PONG", "PADDING"} : Send(e, Frame(cmd, 0, 0))
    /\ UNCHANGED <<mux, acceptCh, prog, data>>
    /\ UNCHANGED loop \/ Resume(e)

LEMMA WireSteps ==
    ASSUME Inv, [Next]_vars
    PROVE  \/ UNCHANGED wire
           \/ \E e \in Ends : Reads(e) \/ SendsOther(e)
           \/ \E e \in Ends, s \in Streams : SendsData(e, s) \/ SendsClose(e, s)
           \/ \E s \in Streams : SendsOpen(s)
<1>1. ASSUME NEW s \in Streams, OpenStep(s)
      PROVE  UNCHANGED wire \/ SendsOpen(s)
  BY <1>1 DEF OpenStep, OpenCheck, OpenStore, OpenSend, SendsOpen, SendFails, conn
<1>2. ASSUME NEW e \in Ends, NEW s \in Streams, StreamStep(e, s)
      PROVE  UNCHANGED wire \/ SendsData(e, s) \/ SendsClose(e, s)
  <2>1. CASE WriteChunk(e, s)
    BY <2>1 DEF WriteChunk, SendsData, SendFails
  <2>2. CASE CloseSend(e, s)
    BY <2>2 DEF CloseSend, SendsClose, SendFails
  <2> QED BY <1>2, <2>1, <2>2 DEF StreamStep, WriteCall, Read, CloseStream, CloseFinish, conn
<1>3. ASSUME NEW e \in Ends, LoopPong(e)
      PROVE  UNCHANGED wire \/ SendsOther(e)
  BY <1>3 DEF LoopPong, SendsOther, SendFails
<1>4. ASSUME NEW e \in Ends, SendIdle(e)
      PROVE  UNCHANGED wire \/ SendsOther(e)
  BY <1>4 DEF SendIdle, SendsOther, SendFails
<1>5. ASSUME NEW e \in Ends, LoopStep(e), ~LoopPong(e)
      PROVE  UNCHANGED wire \/ Reads(e)
  BY <1>5 DEF LoopStep, Reads, LoopAccept, LoopPush, LoopEnd
<1>6. ASSUME NEW e \in Ends, CloseMux(e) \/ Sweep(e) \/ CloseConn(e)
      PROVE  UNCHANGED wire
  BY <1>6 DEF CloseMux, Sweep, CloseConn, conn
<1>7. CASE AcceptStream \/ UNCHANGED vars
  BY <1>7 DEF AcceptStream, vars, conn
<1> QED BY <1>1, <1>2, <1>3, <1>4, <1>5, <1>6, <1>7 DEF Next

LEMMA LoopSteps ==
    ASSUME Inv, [Next]_vars
    PROVE  \/ \E e \in Ends : Reads(e)
           \/ \A e \in Ends : loop'[e] = loop[e] \/ loop'[e].pc \in {"recv", "stopped"}
<1>0. DOMAIN loop = Ends
  BY InvTypes DEF LoopTypeInv
<1>1. ASSUME NEW s \in Streams, OpenStep(s)
      PROVE  UNCHANGED loop
  BY <1>1, OpeningKeeps
<1>2. ASSUME NEW e \in Ends, NEW s \in Streams, StreamStep(e, s)
      PROVE  UNCHANGED loop
  BY <1>2, CallsKeep
<1>3. ASSUME NEW e \in Ends, SendIdle(e) \/ CloseMux(e) \/ Sweep(e) \/ CloseConn(e)
      PROVE  UNCHANGED loop
  BY <1>3 DEF SendIdle, CloseMux, Sweep, CloseConn, conn
<1>4. ASSUME NEW e \in Ends, LoopStep(e)
      PROVE  \/ Reads(e)
             \/ loop' = [loop EXCEPT ![e] = Receiving] \/ loop' = [loop EXCEPT ![e] = Stopped]
  BY <1>4 DEF LoopStep, Reads, LoopAccept, LoopPush, LoopPong, LoopEnd, Resume
<1>5. Receiving.pc = "recv" /\ Stopped.pc = "stopped"
  BY DEF Receiving, Stopped
<1>6. CASE AcceptStream \/ UNCHANGED vars
  BY <1>6 DEF AcceptStream, vars, conn
<1> QED BY <1>0, <1>1, <1>2, <1>3, <1>4, <1>5, <1>6 DEF Next

\* Sending does not disturb the order.
LEMMA OrderKeptBySend ==
    ASSUME Inv, NEW e \in Ends, NEW f \in Sendable, Send(e, f),
           \A g : Contains(wire[e], g) => Follows(f, g)
    PROVE  \A d \in Ends : Ordered(wire'[d])
<1>1. /\ wire'[e] = Append(wire[e], f) /\ wire[e] \in Seq(Sendable)
      /\ \A d \in Ends : Ordered(wire[d]) /\ (d # e => wire'[d] = wire[d])
  BY AfterSend, InvTypes DEF Inv, WireInv
<1>2. Ordered(wire'[e])
  BY <1>1, OrderedAppend
<1> QED BY <1>1, <1>2

\* The elements of the connection are frames.
LEMMA WireElements ==
    ASSUME Inv, NEW e \in Ends, NEW g, Contains(wire[e], g)
    PROVE  g \in Sendable
  BY InvTypes DEF Contains

LEMMA SentGrows ==
    ASSUME Inv, [Next]_vars
    PROVE  \A e \in Ends, s \in Streams : sent'[e][s] \in Nat /\ sent[e][s] \in Nat /\ sent[e][s] <= sent'[e][s]
<1>1. sent \in [Ends -> [Streams -> 0..MaxChunks]] /\ sent' \in [Ends -> [Streams -> 0..MaxChunks]]
      /\ MaxChunks \in Nat
  BY InvTypes, SentTypeStep DEF SentTypeInv
<1>2. CASE UNCHANGED sent
  BY <1>1, <1>2
<1>3. ASSUME NEW d \in Ends, NEW r \in Streams, sent' = [sent EXCEPT ![d][r] = @ + 1]
      PROVE  \A e \in Ends, s \in Streams : sent'[e][s] \in Nat /\ sent[e][s] \in Nat /\ sent[e][s] <= sent'[e][s]
  BY <1>1, <1>3
<1> QED BY <1>2, <1>3, SentMoves, InvTypes

LEMMA OrderKept ==
    ASSUME Inv, [Next]_vars
    PROVE  \A e \in Ends : Ordered(wire'[e])
<1> USE EndsPeer
<1>1. \A e \in Ends : Ordered(wire[e])
  BY DEF Inv, WireInv
<1>2. ASSUME NEW e \in Ends, Reads(e)
      PROVE  \A d \in Ends : Ordered(wire'[d])
  <2>1. wire'[e] = wire[e] /\ Ordered(wire'[Peer(e)])
    BY <1>2, AfterTake DEF Reads, HandleFrame
  <2> QED BY <1>1, <2>1 DEF Ends, Peer
<1>3. ASSUME NEW e \in Ends, SendsOther(e)
      PROVE  \A d \in Ends : Ordered(wire'[d])
  <2>1. PICK cmd \in {"PING", "PONG", "PADDING"} : Send(e, Frame(cmd, 0, 0))
    BY <1>3 DEF SendsOther
  <2>2. Frame(cmd, 0, 0) \in Sendable /\ \A g : Follows(Frame(cmd, 0, 0), g)
    BY InvTypes, FrameTypes, FrameFields DEF Follows
  <2> QED BY <2>1, <2>2, OrderKeptBySend
<1>4. ASSUME NEW e \in Ends, NEW s \in Streams, SendsClose(e, s)
      PROVE  \A d \in Ends : Ordered(wire'[d])
  <2>1. Frame("CLOSE", s, 0) \in Sendable /\ \A g : Follows(Frame("CLOSE", s, 0), g)
    BY InvTypes, FrameTypes, FrameFields DEF Follows
  <2> QED BY <1>4, <2>1, OrderKeptBySend DEF SendsClose
<1>5. ASSUME NEW s \in Streams, SendsOpen(s)
      PROVE  \A d \in Ends : Ordered(wire'[d])
  <2>1. app["client"][s] \in Unbegun
    BY <1>5 DEF SendsOpen, OpenSend, At, Unbegun
  <2>2. \A g : Contains(wire["client"], g) => g.s # s
    BY <2>1 DEF Inv, UnbegunInv
  <2>3. /\ Frame("OPEN", s, 0) \in Sendable
        /\ \A g : Contains(wire["client"], g) => Follows(Frame("OPEN", s, 0), g)
    BY <2>2, InvTypes, FrameTypes, FrameFields DEF Follows
  <2> QED BY <1>5, <2>3, OrderKeptBySend DEF SendsOpen
<1>6. ASSUME NEW e \in Ends, NEW s \in Streams, SendsData(e, s)
      PROVE  \A d \in Ends : Ordered(wire'[d])
  <2>1. sent[e][s] + 1 \in 1..MaxChunks /\ sent[e][s] \in Nat
    BY <1>6, InvTypes DEF SendsData, WriteChunk, SentTypeInv
  <2>2. Frame("DATA", s, sent[e][s] + 1) \in Sendable
    BY <2>1, InvTypes, FrameTypes
  <2>3. ASSUME NEW g, Contains(wire[e], g)
        PROVE  Follows(Frame("DATA", s, sent[e][s] + 1), g)
    <3>1. g \in Sendable /\ (g.cmd = "DATA" => g.n \in 1..MaxChunks /\ g = Frame("DATA", g.s, g.n))
      BY <2>3, WireElements, InvTypes, FrameTypes
    <3>2. g.cmd = "DATA" /\ g.s = s => g.n <= sent[e][s]
      BY <2>3, <3>1 DEF Inv, WireInv
    <3>3. /\ Frame("DATA", s, sent[e][s] + 1).cmd = "DATA"
          /\ Frame("DATA", s, sent[e][s] + 1).s = s
          /\ Frame("DATA", s, sent[e][s] + 1).n = sent[e][s] + 1
      BY FrameFields
    <3>4. sent[e][s] \in Nat
      BY InvTypes DEF SentTypeInv
    <3>5. g.cmd = "DATA" /\ g.s = s => g.n < sent[e][s] + 1
      BY <3>1, <3>2, <3>4
    <3> QED BY <3>3, <3>5 DEF Follows
  <2> QED BY <1>6, <2>2, <2>3, OrderKeptBySend DEF SendsData
<1> QED BY <1>1, <1>2, <1>3, <1>4, <1>5, <1>6, WireSteps

LEMMA WireInvStep ==
    ASSUME Inv, [Next]_vars
    PROVE  WireInv'
<1> USE EndsPeer
<1>0. WireInv /\ WireTypeInv /\ LoopTypeInv /\ MaxChunks \in Nat
  BY InvTypes DEF Inv
<1>1. \A e \in Ends : Ordered(wire'[e])
  BY OrderKept
<1>2. ASSUME NEW s \in Streams
      PROVE  ~Contains(wire'["server"], Frame("OPEN", s, 0))
  <2>1. ~Contains(wire["server"], Frame("OPEN", s, 0))
    BY <1>0 DEF WireInv
  <2>2. ASSUME NEW e \in Ends, Reads(e)
        PROVE  \A d \in Ends : \A g : Contains(wire'[d], g) => Contains(wire[d], g)
    BY <2>2, AfterTake DEF Reads, HandleFrame, Ends, Peer
  <2>3. ASSUME NEW e \in Ends, SendsOther(e)
        PROVE  ~Contains(wire'["server"], Frame("OPEN", s, 0))
    <3>1. PICK cmd \in {"PING", "PONG", "PADDING"} : Send(e, Frame(cmd, 0, 0))
      BY <2>3 DEF SendsOther
    <3>2. Frame(cmd, 0, 0) \in Sendable /\ Frame(cmd, 0, 0) # Frame("OPEN", s, 0)
      BY InvTypes, FrameTypes, FramesDiffer
    <3> QED BY <2>1, <3>1, <3>2, AfterSend
  <2>4. ASSUME NEW e \in Ends, NEW r \in Streams, SendsClose(e, r)
        PROVE  ~Contains(wire'["server"], Frame("OPEN", s, 0))
    <3>1. Frame("CLOSE", r, 0) \in Sendable /\ Frame("CLOSE", r, 0) # Frame("OPEN", s, 0)
      BY InvTypes, FrameTypes, FramesDiffer
    <3> QED BY <2>1, <2>4, <3>1, AfterSend DEF SendsClose
  <2>5. ASSUME NEW r \in Streams, SendsOpen(r)
        PROVE  ~Contains(wire'["server"], Frame("OPEN", s, 0))
    <3>1. Frame("OPEN", r, 0) \in Sendable
      BY InvTypes, FrameTypes
    <3> QED BY <2>1, <2>5, <3>1, AfterSend DEF SendsOpen
  <2>6. ASSUME NEW e \in Ends, NEW r \in Streams, SendsData(e, r)
        PROVE  ~Contains(wire'["server"], Frame("OPEN", s, 0))
    <3>1. sent[e][r] + 1 \in 1..MaxChunks
      BY <2>6, InvTypes DEF SendsData, WriteChunk, SentTypeInv
    <3>2. /\ Frame("DATA", r, sent[e][r] + 1) \in Sendable
          /\ Frame("DATA", r, sent[e][r] + 1) # Frame("OPEN", s, 0)
      BY <3>1, InvTypes, FrameTypes, FramesDiffer
    <3> QED BY <2>1, <2>6, <3>2, AfterSend DEF SendsData
  <2> QED BY <2>1, <2>2, <2>3, <2>4, <2>5, <2>6, WireSteps
<1>3. loop'["client"].pc # "accept"
  <2>1. CASE \A e \in Ends : loop'[e] = loop[e] \/ loop'[e].pc \in {"recv", "stopped"}
    BY <1>0, <2>1 DEF WireInv
  <2>2. ASSUME NEW e \in Ends, Reads(e)
        PROVE  loop'["client"].pc # "accept"
    <3> DEFINE f == Head(wire[Peer(e)])
    <3>1. f \in Sendable /\ Contains(wire[Peer(e)], f)
      BY <2>2, AfterTake DEF Reads, HandleFrame
    <3>2. f.cmd = "OPEN" => f = Frame("OPEN", f.s, 0) /\ f.s \in Streams
      BY <3>1, InvTypes, FrameTypes
    <3>3. f.cmd = "OPEN" => e # "client"
      BY <1>0, <3>1, <3>2 DEF WireInv
    <3> HIDE DEF f
    <3>4. HandleFrame(e, f)
      BY <2>2 DEF Reads, f
    <3> QED BY <1>0, <3>3, <3>4 DEF HandleFrame, WireInv, LoopTypeInv
  <2> QED BY <2>1, <2>2, LoopSteps
<1>4. ASSUME NEW e \in Ends, NEW s \in Streams, NEW k \in 1..MaxChunks,
             Contains(wire'[e], Frame("DATA", s, k))
      PROVE  k <= sent'[e][s]
  <2>1. Contains(wire[e], Frame("DATA", s, k)) => k <= sent'[e][s]
    BY <1>0, SentGrows DEF WireInv
  <2>2. ASSUME NEW d \in Ends, Reads(d)
        PROVE  k <= sent'[e][s]
    BY <1>4, <2>1, <2>2, AfterTake DEF Reads, HandleFrame, Ends, Peer
  <2>3. ASSUME NEW d \in Ends, SendsOther(d)
        PROVE  k <= sent'[e][s]
    <3>1. PICK cmd \in {"PING", "PONG", "PADDING"} : Send(d, Frame(cmd, 0, 0))
      BY <2>3 DEF SendsOther
    <3>2. Frame(cmd, 0, 0) \in Sendable /\ Frame(cmd, 0, 0) # Frame("DATA", s, k)
      BY InvTypes, FrameTypes, FramesDiffer
    <3> QED BY <1>4, <2>1, <3>1, <3>2, AfterSend
  <2>4. ASSUME NEW d \in Ends, NEW r \in Streams, SendsClose(d, r)
        PROVE  k <= sent'[e][s]
    <3>1. Frame("CLOSE", r, 0) \in Sendable /\ Frame("CLOSE", r, 0) # Frame("DATA", s, k)
      BY InvTypes, FrameTypes, FramesDiffer
    <3> QED BY <1>4, <2>1, <2>4, <3>1, AfterSend DEF SendsClose
  <2>5. ASSUME NEW r \in Streams, SendsOpen(r)
        PROVE  k <= sent'[e][s]
    <3>1. Frame("OPEN", r, 0) \in Sendable /\ Frame("OPEN", r, 0) # Frame("DATA", s, k)
      BY InvTypes, FrameTypes, FramesDiffer
    <3> QED BY <1>4, <2>1, <2>5, <3>1, AfterSend DEF SendsOpen
  <2>6. ASSUME NEW d \in Ends, NEW r \in Streams, SendsData(d, r)
        PROVE  k <= sent'[e][s]
    <3>1. sent[d][r] + 1 \in 1..MaxChunks /\ sent'[d][r] = sent[d][r] + 1
      <4>1. /\ setting.chunks \in 0..MaxChunks /\ MaxChunks \in Nat
            /\ sent \in [Ends -> [Streams -> 0..MaxChunks]] /\ sent[d][r] < setting.chunks
        BY <2>6, InvTypes DEF SendsData, WriteChunk, SentTypeInv
      <4>2. sent' = [sent EXCEPT ![d][r] = @ + 1]
        BY <2>6 DEF SendsData
      <4>3. sent[d][r] + 1 \in 1..MaxChunks
        BY <4>1
      <4> QED BY <4>1, <4>2, <4>3
    <3>2. Frame("DATA", r, sent[d][r] + 1) \in Sendable
      BY <3>1, InvTypes, FrameTypes
    <3>3. Contains(wire[e], Frame("DATA", s, k)) \/ (d = e /\ Frame("DATA", s, k) = Frame("DATA", r, sent[d][r] + 1))
      BY <1>4, <2>6, <3>2, AfterSend DEF SendsData
    <3>4. Contains(wire[e], Frame("DATA", s, k)) \/ (d = e /\ s = r /\ k = sent[d][r] + 1)
      BY <3>3, FramesDiffer
    <3> QED BY <2>1, <3>1, <3>4
  <2> QED BY <1>4, <2>1, <2>2, <2>3, <2>4, <2>5, <2>6, WireSteps
<1>5. ASSUME NEW e \in Ends, NEW s \in Streams, Pushing(e, s)'
      PROVE  loop'[e].frame.n <= sent'[Peer(e)][s]
  <2>1. CASE loop'[e] = loop[e]
    <3>1. loop[e].frame.n <= sent[Peer(e)][s] /\ loop[e].frame \in Frames
      BY <1>0, <1>5, <2>1 DEF WireInv, Pushing, LoopTypeInv
    <3>2. loop[e].frame.n \in Nat
      BY <1>0, <3>1 DEF Frames
    <3> QED BY <2>1, <3>1, <3>2, SentGrows
  <2>2. CASE loop'[e].pc \in {"recv", "stopped"}
    BY <1>5, <2>2 DEF Pushing
  <2>3. ASSUME NEW d \in Ends, Reads(d)
        PROVE  loop'[e].frame.n <= sent'[Peer(e)][s]
    <3> DEFINE f == Head(wire[Peer(d)])
    <3>1. f \in Sendable /\ Contains(wire[Peer(d)], f)
      BY <2>3, AfterTake DEF Reads, HandleFrame
    <3>2. f.cmd = "DATA" => f = Frame("DATA", f.s, f.n) /\ f.s \in Streams /\ f.n \in 1..MaxChunks
      BY <3>1, InvTypes, FrameTypes
    <3>3. f.cmd = "DATA" => f.n <= sent[Peer(d)][f.s]
      BY <1>0, <3>1, <3>2 DEF WireInv
    <3>4. f.cmd = "DATA" => f.n <= sent'[Peer(d)][f.s]
      BY <1>0, <3>2, <3>3, SentGrows
    <3> HIDE DEF f
    <3>5. HandleFrame(d, f)
      BY <2>3 DEF Reads, f
    <3>6. CASE e = d
      <4>1. \/ loop' = loop
            \/ loop'[e] = [pc |-> "push", frame |-> f] /\ f.cmd = "DATA"
            \/ loop'[e].pc # "push"
        BY <1>0, <3>5, <3>6 DEF HandleFrame, LoopTypeInv
      <4>2. CASE loop'[e] = [pc |-> "push", frame |-> f] /\ f.cmd = "DATA"
        BY <1>5, <3>4, <3>6, <4>2 DEF Pushing
      <4> QED BY <1>5, <2>1, <4>1, <4>2 DEF Pushing
    <3>7. CASE e # d
      <4>1. loop'[e] = loop[e]
        BY <1>0, <3>5, <3>7 DEF HandleFrame, LoopTypeInv
      <4> QED BY <2>1, <4>1
    <3> QED BY <3>6, <3>7
  <2> QED BY <2>1, <2>2, <2>3, LoopSteps
<1> QED BY <1>1, <1>2, <1>3, <1>4, <1>5 DEF WireInv

\* What is in flight after each of the steps that touch the connection.
LEMMA AfterOpen ==
    ASSUME Inv, NEW s \in Streams, SendsOpen(s)
    PROVE  \A d \in Ends : \A g : Contains(wire'[d], g) <=>
              Contains(wire[d], g) \/ (d = "client" /\ g = Frame("OPEN", s, 0))
  BY AfterSend, FrameTypes, InvTypes, EndsPeer DEF SendsOpen

LEMMA AfterData ==
    ASSUME Inv, NEW e \in Ends, NEW s \in Streams, SendsData(e, s)
    PROVE  /\ s \in writing[e] /\ sent[e][s] + 1 \in 1..MaxChunks
           /\ \A d \in Ends : \A g : Contains(wire'[d], g) <=>
                 Contains(wire[d], g) \/ (d = e /\ g = Frame("DATA", s, sent[e][s] + 1))
<1>1. s \in writing[e] /\ sent[e][s] + 1 \in 1..MaxChunks
  BY InvTypes DEF SendsData, WriteChunk, SentTypeInv
<1>2. Frame("DATA", s, sent[e][s] + 1) \in Sendable
  BY <1>1, FrameTypes, InvTypes
<1> QED BY <1>1, <1>2, AfterSend DEF SendsData

LEMMA AfterClose ==
    ASSUME Inv, NEW e \in Ends, NEW s \in Streams, SendsClose(e, s)
    PROVE  \A d \in Ends : \A g : Contains(wire'[d], g) <=>
              Contains(wire[d], g) \/ (d = e /\ g = Frame("CLOSE", s, 0))
  BY AfterSend, FrameTypes, InvTypes DEF SendsClose

LEMMA AfterOther ==
    ASSUME Inv, NEW e \in Ends, SendsOther(e)
    PROVE  \E cmd \in {"PING", "PONG", "PADDING"} :
              \A d \in Ends : \A g : Contains(wire'[d], g) <=>
                 Contains(wire[d], g) \/ (d = e /\ g = Frame(cmd, 0, 0))
<1>1. PICK cmd \in {"PING", "PONG", "PADDING"} : Send(e, Frame(cmd, 0, 0))
  BY DEF SendsOther
<1>2. Frame(cmd, 0, 0) \in Sendable
  BY FrameTypes, InvTypes
<1> QED BY <1>1, <1>2, AfterSend

LEMMA AfterRead ==
    ASSUME Inv, NEW e \in Ends, Reads(e)
    PROVE  LET f == Head(wire[Peer(e)]) IN
           /\ HandleFrame(e, f) /\ f \in Sendable /\ Contains(wire[Peer(e)], f)
           /\ f = Frame(f.cmd, f.s, f.n)
           /\ f.cmd \in {"OPEN", "CLOSE", "DATA"} => f.s \in Streams
           /\ f.cmd \in {"OPEN", "CLOSE"} => f.n = 0
           /\ f.cmd = "DATA" => f.n \in 1..MaxChunks
           /\ wire'[e] = wire[e]
           /\ \A g : Contains(wire[Peer(e)], g) <=> Contains(wire'[Peer(e)], g) \/ g = f
           /\ \A g : Contains(wire'[Peer(e)], g) => Follows(g, f)
  BY AfterTake, FrameTypes, InvTypes DEF Reads, HandleFrame

\* A stream that has begun never starts again.
LEMMA AppForward ==
    ASSUME Inv, [Next]_vars
    PROVE  \A e \in Ends, s \in Streams :
              /\ app'[e][s] \in Unbegun => app[e][s] \in Unbegun
              /\ app'[e][s] \in {"none", "checked"} => app[e][s] \in {"none", "checked"}
              /\ app'[e][s] = "none" => app[e][s] = "none"
<1> USE EndsPeer DEF Unbegun
<1>0. app \in [Ends -> [Streams -> {"none", "checked", "stored", "up", "closing", "sent", "gone"}]]
  BY InvTypes DEF ProgTypeInv
<1>1. ASSUME UNCHANGED app
      PROVE  \A e \in Ends, s \in Streams : app'[e][s] = app[e][s]
  BY <1>1
<1>2. ASSUME NEW s \in Streams, OpenStep(s)
      PROVE  \/ At("client", s, "none") /\ Goto("client", s, "checked")
             \/ At("client", s, "checked") /\ Goto("client", s, "stored")
             \/ \E pc \in {"up", "gone"} : Goto("client", s, pc)
  BY <1>2 DEF OpenStep, OpenCheck, OpenStore, OpenSend
<1>3. ASSUME NEW e \in Ends, NEW s \in Streams, StreamStep(e, s)
      PROVE  UNCHANGED app \/ \E pc \in {"closing", "sent", "gone"} : Goto(e, s, pc)
  BY <1>3, CallsMove
<1>4. CASE AcceptStream
  BY <1>0, <1>4 DEF AcceptStream, Goto
<1>5. ASSUME NEW e \in Ends, LoopStep(e)
      PROVE  UNCHANGED app
  BY <1>5 DEF LoopStep, HandleFrame, LoopAccept, LoopPush, LoopPong, LoopEnd, prog
<1>6. ASSUME NEW e \in Ends, SendIdle(e) \/ CloseMux(e) \/ Sweep(e) \/ CloseConn(e)
      PROVE  UNCHANGED app
  BY <1>6 DEF SendIdle, CloseMux, Sweep, CloseConn, prog
<1>7. CASE UNCHANGED vars
  BY <1>7 DEF vars, prog
<1>8. ASSUME NEW s \in Streams, OpenStep(s)
      PROVE  \A e \in Ends, r \in Streams :
                /\ app'[e][r] \in Unbegun => app[e][r] \in Unbegun
                /\ app'[e][r] \in {"none", "checked"} => app[e][r] \in {"none", "checked"}
                /\ app'[e][r] = "none" => app[e][r] = "none"
  BY <1>0, <1>2, <1>8 DEF At, Goto
<1>9. ASSUME NEW e \in Ends, NEW s \in Streams, NEW pc \in {"closing", "sent", "gone"}, Goto(e, s, pc)
      PROVE  \A d \in Ends, r \in Streams : app'[d][r] = app[d][r] \/ app'[d][r] = pc
  BY <1>0, <1>9 DEF Goto
<1> QED BY <1>1, <1>3, <1>4, <1>5, <1>6, <1>7, <1>8, <1>9 DEF Next

LEMMA UnbegunInvStep ==
    ASSUME Inv, [Next]_vars
    PROVE  UnbegunInv'
<1> USE EndsPeer
<1> SUFFICES ASSUME NEW e \in Ends, NEW s \in Streams, app'[e][s] \in Unbegun
             PROVE  /\ sent'[e][s] = 0 /\ s \notin writing'[e] /\ s \notin reading'[e]
                    /\ \A f : Contains(wire'[e], f) => f.s # s
                    /\ ~Handling(Peer(e), s)' /\ delivered'[Peer(e)][s] = <<>>
  BY DEF UnbegunInv, Unbegun
<1>1. /\ app[e][s] \in Unbegun
      /\ sent[e][s] = 0 /\ s \notin writing[e] /\ s \notin reading[e]
      /\ \A f : Contains(wire[e], f) => f.s # s
      /\ ~Handling(Peer(e), s) /\ delivered[Peer(e)][s] = <<>>
  BY AppForward DEF Inv, UnbegunInv
<1>2. /\ ProgTypeInv /\ LoopTypeInv /\ 0 \notin Streams
      /\ sent \in [Ends -> [Streams -> 0..MaxChunks]]
      /\ delivered \in [Ends -> [Streams -> Seq(1..MaxChunks)]]
  BY InvTypes DEF SentTypeInv, ReadTypeInv
<1>3. sent'[e][s] = 0
  <2>1. ASSUME NEW d \in Ends, NEW r \in Streams, r \in writing[d],
               sent' = [sent EXCEPT ![d][r] = @ + 1]
        PROVE  sent'[e][s] = 0
    <3>1. d # e \/ r # s
      BY <1>1, <2>1
    <3> QED BY <1>1, <1>2, <2>1, <3>1
  <2> QED BY <1>1, <2>1, SentMoves, InvTypes
<1>4. \A f : Contains(wire'[e], f) => f.s # s
  <2>1. ASSUME NEW d \in Ends, Reads(d)
        PROVE  \A f : Contains(wire'[e], f) => f.s # s
    BY <1>1, <2>1, AfterRead DEF Ends, Peer
  <2>2. ASSUME NEW d \in Ends, SendsOther(d)
        PROVE  \A f : Contains(wire'[e], f) => f.s # s
    <3>1. PICK cmd \in {"PING", "PONG", "PADDING"} :
             \A c \in Ends : \A g : Contains(wire'[c], g) <=> Contains(wire[c], g) \/ (c = d /\ g = Frame(cmd, 0, 0))
      BY <2>2, AfterOther
    <3>2. Frame(cmd, 0, 0).s # s
      BY <1>2, FrameFields
    <3> QED BY <1>1, <3>1, <3>2
  <2>3. ASSUME NEW d \in Ends, NEW r \in Streams, SendsData(d, r)
        PROVE  \A f : Contains(wire'[e], f) => f.s # s
    <3>1. (d # e \/ r # s) /\ Frame("DATA", r, sent[d][r] + 1).s = r
      BY <1>1, <2>3, AfterData, FrameFields
    <3> DEFINE x == Frame("DATA", r, sent[d][r] + 1)
    <3>2. \A g : Contains(wire'[e], g) => Contains(wire[e], g) \/ (d = e /\ g = x)
      BY <2>3, AfterData
    <3>3. x.s = r
      BY <3>1
    <3> HIDE DEF x
    <3> QED BY <1>1, <3>1, <3>2, <3>3
  <2>4. ASSUME NEW d \in Ends, NEW r \in Streams, SendsClose(d, r)
        PROVE  \A f : Contains(wire'[e], f) => f.s # s
    <3>1. d # e \/ r # s
      BY <1>1, <2>4 DEF SendsClose, CloseSend, At, Unbegun
    <3>2. Frame("CLOSE", r, 0).s = r
      BY FrameFields
    <3> DEFINE x == Frame("CLOSE", r, 0)
    <3>3. \A g : Contains(wire'[e], g) => Contains(wire[e], g) \/ (d = e /\ g = x)
      BY <2>4, AfterClose
    <3> HIDE DEF x
    <3>4. x.s = r
      BY <3>2 DEF x
    <3> QED BY <1>1, <3>1, <3>3, <3>4
  <2>5. ASSUME NEW r \in Streams, SendsOpen(r)
        PROVE  \A f : Contains(wire'[e], f) => f.s # s
    <3>1. e # "client" \/ r # s
      <4>1. app'["client"][r] = "up"
        BY <1>2, <2>5 DEF SendsOpen, Goto, ProgTypeInv
      <4> QED BY <4>1 DEF Unbegun
    <3>2. Frame("OPEN", r, 0).s = r
      BY FrameFields
    <3> QED BY <1>1, <2>5, <3>1, <3>2, AfterOpen
  <2> QED BY <1>1, <2>1, <2>2, <2>3, <2>4, <2>5, WireSteps
<1>5. ~Handling(Peer(e), s)'
  <2>1. CASE loop'[Peer(e)] = loop[Peer(e)] \/ loop'[Peer(e)].pc \in {"recv", "stopped"}
    BY <1>1, <2>1 DEF Handling
  <2>2. ASSUME NEW d \in Ends, Reads(d)
        PROVE  ~Handling(Peer(e), s)'
    <3> DEFINE f == Head(wire[Peer(d)])
    <3>1. HandleFrame(d, f) /\ Contains(wire[Peer(d)], f)
      BY <2>2, AfterRead
    <3> HIDE DEF f
    <3>2. CASE d = Peer(e)
      <4>1. f.s # s
        BY <1>1, <3>1, <3>2
      <4>2. loop' = loop \/ loop'[d].frame = f
        BY <1>2, <3>1 DEF HandleFrame, LoopTypeInv
      <4> QED BY <1>1, <3>2, <4>1, <4>2 DEF Handling
    <3>3. CASE d # Peer(e)
      <4>1. loop'[Peer(e)] = loop[Peer(e)]
        BY <1>2, <3>1, <3>3 DEF HandleFrame, LoopTypeInv
      <4> QED BY <1>1, <4>1 DEF Handling
    <3> QED BY <3>2, <3>3
  <2> QED BY <2>1, <2>2, LoopSteps
<1>6. delivered'[Peer(e)][s] = <<>>
  <2>1. ASSUME NEW d \in Ends, loop[d].pc = "push",
               delivered' = [delivered EXCEPT ![d][loop[d].frame.s] = Append(@, loop[d].frame.n)]
        PROVE  delivered'[Peer(e)][s] = <<>>
    <3>1. d # Peer(e) \/ loop[d].frame.s # s
      BY <1>1, <2>1 DEF Handling
    <3> QED BY <1>1, <1>2, <2>1, <3>1
  <2> QED BY <1>1, <2>1, DeliveredMoves, InvTypes
<1>7. s \notin writing'[e]
  <2>1. ASSUME NEW d \in Ends, NEW r \in Streams, WriteCall(d, r)
        PROVE  s \notin writing'[e]
    <3>1. d # e \/ r # s
      BY <1>1, <2>1 DEF WriteCall, At, Unbegun
    <3> QED BY <1>1, <1>2, <2>1, <3>1 DEF WriteCall, ProgTypeInv
  <2>2. ASSUME NEW d \in Ends, NEW r \in Streams, StreamStep(d, r), ~WriteCall(d, r)
        PROVE  s \notin writing'[e]
    <3>0. writing \in [Ends -> SUBSET Streams]
      BY <1>2 DEF ProgTypeInv
    <3>1. writing' = writing \/ writing' = [writing EXCEPT ![d] = writing[d] \ {r}]
      BY <2>2, CallsMove
    <3> QED BY <1>1, <3>0, <3>1
  <2>3. ASSUME NEW r \in Streams, OpenStep(r)
        PROVE  writing' = writing
    BY <2>3, OpeningKeeps
  <2>4. ASSUME NEW d \in Ends, LoopStep(d)
        PROVE  writing' = writing
    BY <2>4 DEF LoopStep, HandleFrame, LoopAccept, LoopPush, LoopPong, LoopEnd, prog
  <2>5. ASSUME NEW d \in Ends, SendIdle(d) \/ CloseMux(d) \/ Sweep(d) \/ CloseConn(d)
        PROVE  writing' = writing
    BY <2>5 DEF SendIdle, CloseMux, Sweep, CloseConn, prog
  <2>6. CASE AcceptStream \/ UNCHANGED vars
    BY <1>1, <2>6 DEF AcceptStream, vars, prog
  <2> QED BY <1>1, <2>1, <2>2, <2>3, <2>4, <2>5, <2>6 DEF Next
<1>8. s \notin reading'[e]
  <2>1. ASSUME NEW r \in Streams, OpenStep(r)
        PROVE  s \notin reading'[e]
    <3>1. \/ reading' = reading
          \/ reading' = [reading EXCEPT !["client"] = @ \cup {r}] /\ Goto("client", r, "up")
      BY <2>1 DEF OpenStep, OpenCheck, OpenStore, OpenSend
    <3>2. CASE reading' = [reading EXCEPT !["client"] = @ \cup {r}] /\ Goto("client", r, "up")
      <4>1. app'["client"][r] = "up"
        BY <1>2, <3>2 DEF Goto, ProgTypeInv
      <4>2. e # "client" \/ r # s
        BY <4>1 DEF Unbegun
      <4> QED BY <1>1, <1>2, <3>2, <4>2 DEF ProgTypeInv
    <3> QED BY <1>1, <3>1, <3>2
  <2>2. CASE AcceptStream
    <3>1. CASE acceptCh # <<>> /\ Goto("server", Head(acceptCh), "up")
               /\ reading' = [reading EXCEPT !["server"] = @ \cup {Head(acceptCh)}]
      <4>1. Head(acceptCh) \in Streams
        BY <1>2, <3>1 DEF ProgTypeInv
      <4>2. app'["server"][Head(acceptCh)] = "up"
        BY <1>2, <3>1, <4>1 DEF Goto, ProgTypeInv
      <4>3. e # "server" \/ Head(acceptCh) # s
        BY <4>2 DEF Unbegun
      <4> QED BY <1>1, <1>2, <3>1, <4>3 DEF ProgTypeInv
    <3> QED BY <1>1, <2>2, <3>1 DEF AcceptStream
  <2>3. ASSUME NEW d \in Ends, NEW r \in Streams, StreamStep(d, r)
        PROVE  s \notin reading'[e]
    <3>0. reading \in [Ends -> SUBSET Streams]
      BY <1>2 DEF ProgTypeInv
    <3>1. reading' = reading \/ reading' = [reading EXCEPT ![d] = reading[d] \ {r}]
      BY <2>3, CallsMove
    <3> QED BY <1>1, <3>0, <3>1
  <2>4. ASSUME NEW d \in Ends, LoopStep(d)
        PROVE  reading' = reading
    BY <2>4 DEF LoopStep, HandleFrame, LoopAccept, LoopPush, LoopPong, LoopEnd, prog
  <2>5. ASSUME NEW d \in Ends, SendIdle(d) \/ CloseMux(d) \/ Sweep(d) \/ CloseConn(d)
        PROVE  reading' = reading
    BY <2>5 DEF SendIdle, CloseMux, Sweep, CloseConn, prog
  <2>6. CASE UNCHANGED vars
    BY <1>1, <2>6 DEF vars, prog
  <2> QED BY <1>1, <2>1, <2>2, <2>3, <2>4, <2>5, <2>6 DEF Next
<1> QED BY <1>3, <1>4, <1>5, <1>6, <1>7, <1>8

\* The frame that readLoop of e reads is this one.
ReadsFrame(e, cmd, s) == Reads(e) /\ Head(wire[Peer(e)]) = Frame(cmd, s, 0)

\* When a stream enters and leaves a map, and when it is marked closed.
LEMMA MapMoves ==
    ASSUME Inv, [Next]_vars, NEW e \in Ends, NEW s \in Streams
    PROVE  /\ s \in streams'[e] /\ s \notin streams[e] =>
                 \/ e = "client" /\ OpenStore(s)
                 \/ e = "server" /\ ReadsFrame(e, "OPEN", s)
           /\ s \in streams[e] /\ s \notin streams'[e] =>
                 \/ e = "client" /\ OpenSend(s) /\ SendFails(e) /\ Goto("client", s, "gone")
                 \/ CloseFinish(e, s) /\ s \in done'[e]
                 \/ s \in done'[e] /\ s \in shut'[e] /\ (ReadsFrame(e, "CLOSE", s) \/ Sweep(e))
           /\ s \in shut'[e] /\ s \notin shut[e] =>
                 \/ CloseStream(e, s) /\ Goto(e, s, "closing")
                 \/ s \in streams[e] /\ s \notin streams'[e] /\ s \in done'[e]
                    /\ (ReadsFrame(e, "CLOSE", s) \/ Sweep(e))
           /\ s \in done'[e] /\ s \notin done[e] =>
                 \/ CloseFinish(e, s)
                 \/ s \in streams[e] /\ s \in shut'[e] /\ (ReadsFrame(e, "CLOSE", s) \/ Sweep(e))
           /\ s \in shut[e] => s \in shut'[e]
           /\ s \in done[e] => s \in done'[e]
<1> DEFINE Moves ==
      /\ s \in streams'[e] /\ s \notin streams[e] =>
            \/ e = "client" /\ OpenStore(s)
            \/ e = "server" /\ ReadsFrame(e, "OPEN", s)
      /\ s \in streams[e] /\ s \notin streams'[e] =>
            \/ e = "client" /\ OpenSend(s) /\ SendFails(e) /\ Goto("client", s, "gone")
            \/ CloseFinish(e, s) /\ s \in done'[e]
            \/ s \in done'[e] /\ s \in shut'[e] /\ (ReadsFrame(e, "CLOSE", s) \/ Sweep(e))
      /\ s \in shut'[e] /\ s \notin shut[e] =>
            \/ CloseStream(e, s) /\ Goto(e, s, "closing")
            \/ s \in streams[e] /\ s \notin streams'[e] /\ s \in done'[e]
               /\ (ReadsFrame(e, "CLOSE", s) \/ Sweep(e))
      /\ s \in done'[e] /\ s \notin done[e] =>
            \/ CloseFinish(e, s)
            \/ s \in streams[e] /\ s \in shut'[e] /\ (ReadsFrame(e, "CLOSE", s) \/ Sweep(e))
      /\ s \in shut[e] => s \in shut'[e]
      /\ s \in done[e] => s \in done'[e]
<1> USE EndsPeer
<1>0. /\ streams \in [Ends -> SUBSET Streams] /\ shut \in [Ends -> SUBSET Streams]
      /\ done \in [Ends -> SUBSET Streams]
  BY InvTypes DEF MuxTypeInv
<1>1. ASSUME UNCHANGED <<streams, shut, done>>
      PROVE  Moves
  BY <1>1
<1>2. ASSUME NEW r \in Streams, OpenCheck(r)
      PROVE  Moves
  BY <1>1, <1>2 DEF OpenCheck, mux
<1>3. ASSUME NEW r \in Streams, OpenStore(r)
      PROVE  Moves
  BY <1>0, <1>3 DEF OpenStore
<1>4. ASSUME NEW r \in Streams, OpenSend(r)
      PROVE  Moves
  <2>1. UNCHANGED <<shut, done>>
    BY <1>4 DEF OpenSend
  <2>2. CASE UNCHANGED streams
    BY <1>1, <2>1, <2>2
  <2>3. CASE SendFails("client") /\ streams' = [streams EXCEPT !["client"] = @ \ {r}] /\ Goto("client", r, "gone")
    BY <1>0, <1>4, <2>1, <2>3
  <2> QED BY <1>4, <2>2, <2>3 DEF OpenSend
<1>5. ASSUME NEW d \in Ends, NEW r \in Streams, WriteCall(d, r) \/ WriteChunk(d, r) \/ Read(d, r) \/ CloseSend(d, r)
      PROVE  Moves
  BY <1>1, <1>5 DEF WriteCall, WriteChunk, Read, CloseSend, mux
<1>6. ASSUME NEW d \in Ends, NEW r \in Streams, CloseStream(d, r)
      PROVE  Moves
  <2>1. UNCHANGED <<streams, done>>
    BY <1>6 DEF CloseStream
  <2>2. shut' = shut \/ (shut' = [shut EXCEPT ![d] = @ \cup {r}] /\ Goto(d, r, "closing"))
    BY <1>6 DEF CloseStream
  <2> QED BY <1>0, <1>6, <2>1, <2>2
<1>7. ASSUME NEW d \in Ends, NEW r \in Streams, CloseFinish(d, r)
      PROVE  Moves
  <2>1. /\ streams' = [streams EXCEPT ![d] = @ \ {r}] /\ done' = [done EXCEPT ![d] = @ \cup {r}]
        /\ shut' = shut
    BY <1>7 DEF CloseFinish
  <2> QED BY <1>0, <1>7, <2>1
<1>8. ASSUME NEW d \in Ends, Reads(d)
      PROVE  Moves
  <2> DEFINE f == Head(wire[Peer(d)])
  <2>1. /\ HandleFrame(d, f) /\ f \in Sendable /\ Contains(wire[Peer(d)], f) /\ f = Frame(f.cmd, f.s, f.n)
        /\ f.cmd \in {"OPEN", "CLOSE", "DATA"} => f.s \in Streams
        /\ f.cmd \in {"OPEN", "CLOSE"} => f.n = 0
    BY <1>8, AfterRead
  <2>2. ASSUME NEW cmd \in {"OPEN", "CLOSE"}, f.cmd = cmd
        PROVE  ReadsFrame(d, cmd, f.s)
    BY <1>8, <2>1, <2>2 DEF ReadsFrame
  <2>3. f.cmd = "OPEN" => d = "server"
    BY <2>1 DEF Inv, WireInv, Ends, Peer
  <2> HIDE DEF f
  <2>4. CASE f.cmd = "OPEN" /\ streams' = [streams EXCEPT ![d] = @ \cup {f.s}] /\ UNCHANGED <<shut, done>>
    BY <1>0, <2>2, <2>3, <2>4
  <2>5. CASE f.cmd = "CLOSE" /\ HandleClose(d, f.s)
    <3>1. CASE f.s \in streams[d]
      <4>1. /\ shut' = [shut EXCEPT ![d] = @ \cup {f.s}] /\ done' = [done EXCEPT ![d] = @ \cup {f.s}]
            /\ streams' = [streams EXCEPT ![d] = @ \ {f.s}]
        BY <2>5, <3>1 DEF HandleClose
      <4>2. ReadsFrame(d, "CLOSE", f.s)
        BY <2>2, <2>5
      <4> QED BY <1>0, <3>1, <4>1, <4>2
    <3>2. CASE f.s \notin streams[d]
      BY <1>1, <2>5, <3>2 DEF HandleClose
    <3> QED BY <3>1, <3>2
  <2> QED BY <1>1, <2>1, <2>4, <2>5 DEF HandleFrame
<1>9. ASSUME NEW d \in Ends, LoopStep(d), ~Reads(d)
      PROVE  Moves
  BY <1>1, <1>9 DEF LoopStep, Reads, LoopAccept, LoopPush, LoopPong, LoopEnd, mux
<1>10. ASSUME NEW d \in Ends, SendIdle(d) \/ CloseMux(d) \/ CloseConn(d)
       PROVE  Moves
  BY <1>1, <1>10 DEF SendIdle, CloseMux, CloseConn, mux
<1>11. ASSUME NEW d \in Ends, Sweep(d)
       PROVE  Moves
  <2>1. /\ streams' = [streams EXCEPT ![d] = {}]
        /\ shut' = [shut EXCEPT ![d] = @ \cup streams[d]]
        /\ done' = [done EXCEPT ![d] = @ \cup streams[d]]
    BY <1>11 DEF Sweep
  <2> QED BY <1>0, <1>11, <2>1
<1>12. ASSUME AcceptStream \/ UNCHANGED vars
       PROVE  Moves
  BY <1>1, <1>12 DEF AcceptStream, vars, mux
<1> HIDE DEF Moves
<1>13. ASSUME NEW r \in Streams, OpenStep(r)
       PROVE  Moves
  BY <1>2, <1>3, <1>4, <1>13 DEF OpenStep
<1>14. ASSUME NEW d \in Ends, NEW r \in Streams, StreamStep(d, r)
       PROVE  Moves
  BY <1>5, <1>6, <1>7, <1>14 DEF StreamStep
<1>15. ASSUME NEW d \in Ends, LoopStep(d)
       PROVE  Moves
  BY <1>8, <1>9, <1>15
<1>16. Moves
  BY <1>10, <1>11, <1>12, <1>13, <1>14, <1>15 DEF Next
<1> QED BY <1>16 DEF Moves

\* When a stream enters and leaves the accept queue.
LEMMA QueueMoves ==
    ASSUME Inv, [Next]_vars
    PROVE  \/ UNCHANGED acceptCh
           \/ /\ LoopAccept("server") /\ loop["server"].pc = "accept"
              /\ loop["server"].frame.s \in Streams
              /\ acceptCh' = Append(acceptCh, loop["server"].frame.s)
           \/ /\ AcceptStream /\ acceptCh # <<>> /\ Head(acceptCh) \in Streams
              /\ acceptCh' = Tail(acceptCh) /\ Goto("server", Head(acceptCh), "up")
              /\ reading' = [reading EXCEPT !["server"] = @ \cup {Head(acceptCh)}]
<1> USE EndsPeer
<1>1. ASSUME NEW r \in Streams, OpenStep(r)
      PROVE  UNCHANGED acceptCh
  BY <1>1, OpeningKeeps
<1>2. ASSUME NEW d \in Ends, NEW r \in Streams, StreamStep(d, r)
      PROVE  UNCHANGED acceptCh
  BY <1>2, CallsKeep
<1>3. ASSUME NEW d \in Ends, LoopStep(d), ~LoopAccept(d)
      PROVE  UNCHANGED acceptCh
  BY <1>3 DEF LoopStep, HandleFrame, LoopPush, LoopPong, LoopEnd
<1>4. ASSUME NEW d \in Ends, SendIdle(d) \/ CloseMux(d) \/ Sweep(d) \/ CloseConn(d)
      PROVE  UNCHANGED acceptCh
  BY <1>4 DEF SendIdle, CloseMux, Sweep, CloseConn, conn
<1>5. ASSUME NEW d \in Ends, LoopAccept(d)
      PROVE  \/ UNCHANGED acceptCh
             \/ /\ LoopAccept("server") /\ loop["server"].pc = "accept"
                /\ loop["server"].frame.s \in Streams
                /\ acceptCh' = Append(acceptCh, loop["server"].frame.s)
  <2>1. d = "server"
    BY <1>5 DEF LoopAccept, Inv, WireInv, Ends
  <2>2. loop["server"].pc = "accept" /\ loop["server"].frame.s \in Streams
    BY <1>5, <2>1, InvTypes DEF LoopAccept, LoopTypeInv
  <2> QED BY <1>5, <2>1, <2>2 DEF LoopAccept
<1>6. CASE AcceptStream
  <2>1. acceptCh # <<>> => Head(acceptCh) \in Streams
    BY InvTypes
  <2> QED BY <1>6, <2>1 DEF AcceptStream
<1>7. CASE UNCHANGED vars
  BY <1>7 DEF vars, conn
<1> QED BY <1>1, <1>2, <1>3, <1>4, <1>5, <1>6, <1>7 DEF Next

\* When a frame joins and leaves the connection.
LEMMA FlightMoves ==
    ASSUME Inv, [Next]_vars, NEW e \in Ends, NEW g
    PROVE  /\ Contains(wire'[e], g) /\ ~Contains(wire[e], g) =>
                 \/ \E s \in Streams : e = "client" /\ SendsOpen(s) /\ g = Frame("OPEN", s, 0)
                 \/ \E s \in Streams : SendsData(e, s) /\ g = Frame("DATA", s, sent[e][s] + 1)
                 \/ \E s \in Streams : SendsClose(e, s) /\ g = Frame("CLOSE", s, 0)
                 \/ \E cmd \in {"PING", "PONG", "PADDING"} : g = Frame(cmd, 0, 0)
           /\ Contains(wire[e], g) /\ ~Contains(wire'[e], g) =>
                 Reads(Peer(e)) /\ g = Head(wire[e])
<1> DEFINE Joins == Contains(wire'[e], g) /\ ~Contains(wire[e], g)
           Leaves == Contains(wire[e], g) /\ ~Contains(wire'[e], g)
           How == \/ \E s \in Streams : e = "client" /\ SendsOpen(s) /\ g = Frame("OPEN", s, 0)
                  \/ \E s \in Streams : SendsData(e, s) /\ g = Frame("DATA", s, sent[e][s] + 1)
                  \/ \E s \in Streams : SendsClose(e, s) /\ g = Frame("CLOSE", s, 0)
                  \/ \E cmd \in {"PING", "PONG", "PADDING"} : g = Frame(cmd, 0, 0)
           Moves == (Joins => How) /\ (Leaves => Reads(Peer(e)) /\ g = Head(wire[e]))
<1> USE EndsPeer
<1>1. ASSUME UNCHANGED wire
      PROVE  Moves
  BY <1>1
<1>2. ASSUME NEW d \in Ends, Reads(d)
      PROVE  Moves
  <2>1. CASE d = e
    <3>1. wire'[e] = wire[e]
      BY <1>2, <2>1, AfterRead
    <3> QED BY <3>1
  <2>2. CASE d = Peer(e)
    <3>1. Contains(wire[e], g) <=> Contains(wire'[e], g) \/ g = Head(wire[e])
      BY <1>2, <2>2, AfterRead
    <3> QED BY <1>2, <2>2, <3>1
  <2> QED BY <2>1, <2>2 DEF Ends, Peer
<1>3. ASSUME NEW d \in Ends, SendsOther(d)
      PROVE  Moves
  <2>1. PICK cmd \in {"PING", "PONG", "PADDING"} :
           \A c \in Ends : \A x : Contains(wire'[c], x) <=> Contains(wire[c], x) \/ (c = d /\ x = Frame(cmd, 0, 0))
    BY <1>3, AfterOther
  <2> QED BY <2>1
<1>4. ASSUME NEW d \in Ends, NEW s \in Streams, SendsData(d, s)
      PROVE  Moves
  <2>1. Contains(wire'[e], g) <=> Contains(wire[e], g) \/ (e = d /\ g = Frame("DATA", s, sent[d][s] + 1))
    BY <1>4, AfterData
  <2> QED BY <1>4, <2>1
<1>5. ASSUME NEW d \in Ends, NEW s \in Streams, SendsClose(d, s)
      PROVE  Moves
  <2>1. Contains(wire'[e], g) <=> Contains(wire[e], g) \/ (e = d /\ g = Frame("CLOSE", s, 0))
    BY <1>5, AfterClose
  <2> QED BY <1>5, <2>1
<1>6. ASSUME NEW s \in Streams, SendsOpen(s)
      PROVE  Moves
  <2>1. Contains(wire'[e], g) <=> Contains(wire[e], g) \/ (e = "client" /\ g = Frame("OPEN", s, 0))
    BY <1>6, AfterOpen
  <2> QED BY <1>6, <2>1
<1> HIDE DEF Moves
<1>7. Moves
  BY <1>1, <1>2, <1>3, <1>4, <1>5, <1>6, WireSteps
<1> QED BY <1>7 DEF Moves

\* The same for the OPEN and for a CLOSE.
LEMMA OpenCloseMoves ==
    ASSUME Inv, [Next]_vars, NEW s \in Streams
    PROVE  /\ Opening(s)' /\ ~Opening(s) => SendsOpen(s)
           /\ Opening(s) /\ ~Opening(s)' => ReadsFrame("server", "OPEN", s)
           /\ \A e \in Ends :
                 /\ CloseInFlight(e, s)' /\ ~CloseInFlight(e, s) => SendsClose(e, s)
                 /\ CloseInFlight(e, s) /\ ~CloseInFlight(e, s)' => ReadsFrame(Peer(e), "CLOSE", s)
<1> USE EndsPeer
<1>1. ASSUME Opening(s)', ~Opening(s)
      PROVE  SendsOpen(s)
  <2> DEFINE g == Frame("OPEN", s, 0)
  <2>1. \/ \E r \in Streams : SendsOpen(r) /\ g = Frame("OPEN", r, 0)
        \/ \E r \in Streams : SendsData("client", r) /\ g = Frame("DATA", r, sent["client"][r] + 1)
        \/ \E r \in Streams : SendsClose("client", r) /\ g = Frame("CLOSE", r, 0)
        \/ \E cmd \in {"PING", "PONG", "PADDING"} : g = Frame(cmd, 0, 0)
    BY <1>1, FlightMoves DEF Opening
  <2>2. \A c, r, n : g = Frame(c, r, n) => c = "OPEN" /\ r = s
    BY FramesDiffer
  <2> HIDE DEF g
  <2> QED BY <2>1, <2>2
<1>2. Opening(s) /\ ~Opening(s)' => ReadsFrame("server", "OPEN", s)
  BY FlightMoves DEF Opening, ReadsFrame
<1>3. ASSUME NEW e \in Ends, CloseInFlight(e, s)', ~CloseInFlight(e, s)
      PROVE  SendsClose(e, s)
  <2> DEFINE g == Frame("CLOSE", s, 0)
  <2>1. \/ \E r \in Streams : SendsOpen(r) /\ g = Frame("OPEN", r, 0)
        \/ \E r \in Streams : SendsData(e, r) /\ g = Frame("DATA", r, sent[e][r] + 1)
        \/ \E r \in Streams : SendsClose(e, r) /\ g = Frame("CLOSE", r, 0)
        \/ \E cmd \in {"PING", "PONG", "PADDING"} : g = Frame(cmd, 0, 0)
    BY <1>3, FlightMoves DEF CloseInFlight
  <2>2. \A c, r, n : g = Frame(c, r, n) => c = "CLOSE" /\ r = s
    BY FramesDiffer
  <2> HIDE DEF g
  <2> QED BY <2>1, <2>2
<1>4. ASSUME NEW e \in Ends, CloseInFlight(e, s), ~CloseInFlight(e, s)'
      PROVE  ReadsFrame(Peer(e), "CLOSE", s)
  BY <1>4, FlightMoves DEF CloseInFlight, ReadsFrame
<1> QED BY <1>1, <1>2, <1>3, <1>4

\* How the program moves on with a stream.
LEMMA AppMoves ==
    ASSUME Inv, [Next]_vars, NEW e \in Ends, NEW s \in Streams, app'[e][s] # app[e][s]
    PROVE  \/ e = "client" /\ OpenCheck(s) /\ app[e][s] = "none" /\ app'[e][s] = "checked"
           \/ e = "client" /\ OpenStore(s) /\ app[e][s] = "checked" /\ app'[e][s] = "stored"
           \/ e = "client" /\ SendsOpen(s) /\ app[e][s] = "stored" /\ app'[e][s] = "up"
           \/ e = "client" /\ OpenSend(s) /\ SendFails(e) /\ app[e][s] = "stored" /\ app'[e][s] = "gone"
           \/ e = "server" /\ AcceptStream /\ acceptCh # <<>> /\ s = Head(acceptCh) /\ app'[e][s] = "up"
              /\ acceptCh' = Tail(acceptCh)
           \/ CloseStream(e, s) /\ app[e][s] = "up" /\ s \notin shut[e] /\ s \in shut'[e] /\ app'[e][s] = "closing"
           \/ CloseStream(e, s) /\ app[e][s] = "up" /\ s \in shut[e] /\ app'[e][s] = "gone"
           \/ CloseSend(e, s) /\ app[e][s] = "closing" /\ app'[e][s] = "sent"
           \/ CloseFinish(e, s) /\ app[e][s] = "sent" /\ app'[e][s] = "gone"
<1> USE EndsPeer
<1>0. /\ app \in [Ends -> [Streams -> {"none", "checked", "stored", "up", "closing", "sent", "gone"}]]
      /\ shut \in [Ends -> SUBSET Streams] /\ acceptCh \in Seq(Streams)
  BY InvTypes DEF ProgTypeInv, MuxTypeInv
<1>1. ASSUME NEW d \in Ends, NEW r \in Streams, NEW pc, Goto(d, r, pc)
      PROVE  e = d /\ s = r /\ app'[e][s] = pc
  BY <1>0, <1>1 DEF Goto
<1>2. ASSUME NEW r \in Streams, OpenStep(r)
      PROVE  e = "client" /\ s = r
  <2>1. PICK pc : Goto("client", r, pc)
    BY <1>2 DEF OpenStep, OpenCheck, OpenStore, OpenSend
  <2> QED BY <1>1, <2>1
<1>3. CASE OpenCheck(s) \/ OpenStore(s)
  BY <1>1, <1>3 DEF OpenCheck, OpenStore, At
<1>4. CASE OpenSend(s)
  BY <1>1, <1>4 DEF OpenSend, At, SendsOpen
<1>5. CASE AcceptStream
  <2>1. acceptCh # <<>> /\ acceptCh' = Tail(acceptCh) /\ Goto("server", Head(acceptCh), "up")
        /\ Head(acceptCh) \in Streams
    BY <1>0, <1>5 DEF AcceptStream
  <2> QED BY <1>1, <1>5, <2>1
<1>6. ASSUME NEW d \in Ends, NEW r \in Streams, StreamStep(d, r)
      PROVE  e = d /\ s = r /\ (CloseStream(e, s) \/ CloseSend(e, s) \/ CloseFinish(e, s))
  <2>1. ~(WriteCall(d, r) \/ WriteChunk(d, r) \/ Read(d, r))
    BY DEF WriteCall, WriteChunk, Read
  <2>2. CloseStream(d, r) \/ CloseSend(d, r) \/ CloseFinish(d, r)
    BY <1>6, <2>1 DEF StreamStep
  <2>3. PICK pc : Goto(d, r, pc)
    BY <2>2 DEF CloseStream, CloseSend, CloseFinish
  <2> QED BY <1>1, <2>2, <2>3
<1>7. CASE CloseStream(e, s)
  <2>1. CASE s \in shut[e]
    <3>1. app[e][s] = "up" /\ Goto(e, s, "gone")
      BY <1>7, <2>1 DEF CloseStream, At
    <3> QED BY <1>1, <1>7, <2>1, <3>1
  <2>2. CASE s \notin shut[e]
    <3>1. app[e][s] = "up" /\ Goto(e, s, "closing") /\ shut' = [shut EXCEPT ![e] = @ \cup {s}]
      BY <1>7, <2>2 DEF CloseStream, At
    <3>2. s \in shut'[e]
      BY <1>0, <3>1
    <3> QED BY <1>1, <1>7, <2>2, <3>1, <3>2
  <2> QED BY <2>1, <2>2
<1>8. CASE CloseSend(e, s)
  BY <1>1, <1>8 DEF CloseSend, At
<1>9. CASE CloseFinish(e, s)
  BY <1>1, <1>9 DEF CloseFinish, At
<1>10. ~(\E d \in Ends : LoopStep(d) \/ SendIdle(d) \/ CloseMux(d) \/ Sweep(d) \/ CloseConn(d))
  BY DEF LoopStep, HandleFrame, LoopAccept, LoopPush, LoopPong, LoopEnd, SendIdle, CloseMux,
     Sweep, CloseConn, prog
<1>11. ~(UNCHANGED vars)
  BY DEF vars, prog
<1> QED BY <1>2, <1>3, <1>4, <1>5, <1>6, <1>7, <1>8, <1>9, <1>10, <1>11 DEF Next, OpenStep

\* What LoopSteps says of one end and one stream.
LEMMA HandlingMoves ==
    ASSUME Inv, [Next]_vars, NEW e \in Ends, NEW s \in Streams, Handling(e, s)'
    PROVE  \/ loop'[e] = loop[e]
           \/ /\ Reads(e) /\ Head(wire[Peer(e)]).s = s
              /\ loop'[e].pc = "accept" => ReadsFrame(e, "OPEN", s) /\ e = "server"
              /\ loop'[e].pc = "push" =>
                    /\ Head(wire[Peer(e)]) = Frame("DATA", s, loop'[e].frame.n)
                    /\ loop'[e].frame.n \in 1..MaxChunks
                    /\ s \in streams[e] /\ s \notin shut[e]
<1> USE EndsPeer
<1>0. LoopTypeInv
  BY InvTypes
<1>1. CASE loop'[e].pc \in {"recv", "stopped"}
  BY <1>1 DEF Handling
<1>2. ASSUME NEW d \in Ends, Reads(d), loop'[e] # loop[e]
      PROVE  /\ Reads(e) /\ Head(wire[Peer(e)]).s = s
             /\ loop'[e].pc = "accept" => ReadsFrame(e, "OPEN", s) /\ e = "server"
             /\ loop'[e].pc = "push" =>
                   /\ Head(wire[Peer(e)]) = Frame("DATA", s, loop'[e].frame.n)
                   /\ loop'[e].frame.n \in 1..MaxChunks
                   /\ s \in streams[e] /\ s \notin shut[e]
  <2>1. d = e
    BY <1>0, <1>2 DEF Reads, HandleFrame, LoopTypeInv
  <2> DEFINE f == Head(wire[Peer(e)])
  <2>2. /\ HandleFrame(e, f) /\ f \in Sendable /\ Contains(wire[Peer(e)], f) /\ f = Frame(f.cmd, f.s, f.n)
        /\ f.cmd \in {"OPEN", "CLOSE", "DATA"} => f.s \in Streams
        /\ f.cmd \in {"OPEN", "CLOSE"} => f.n = 0
        /\ f.cmd = "DATA" => f.n \in 1..MaxChunks
    BY <1>2, <2>1, AfterRead
  <2>3. f.cmd = "OPEN" => e = "server"
    BY <2>2 DEF Inv, WireInv, Ends, Peer
  <2>4. f = Frame("OPEN", f.s, 0) => ReadsFrame(e, "OPEN", f.s)
    BY <1>2, <2>1 DEF ReadsFrame
  <2> HIDE DEF f
  <2>5. \/ f.cmd = "OPEN" /\ loop'[e] = [pc |-> "accept", frame |-> f]
        \/ f.cmd = "DATA" /\ f.s \in streams[e] \ shut[e] /\ loop'[e] = [pc |-> "push", frame |-> f]
        \/ loop'[e].pc = "pong"
    BY <1>0, <1>2, <2>2 DEF HandleFrame, LoopTypeInv
  <2>6. CASE f.cmd = "OPEN" /\ loop'[e] = [pc |-> "accept", frame |-> f]
    <3>1. f.s = s /\ loop'[e].pc = "accept"
      BY <2>6 DEF Handling
    <3> QED BY <1>2, <2>1, <2>2, <2>3, <2>4, <2>6, <3>1 DEF f
  <2>7. CASE f.cmd = "DATA" /\ f.s \in streams[e] \ shut[e] /\ loop'[e] = [pc |-> "push", frame |-> f]
    <3>1. f.s = s /\ loop'[e].pc = "push" /\ loop'[e].frame = f
      BY <2>7 DEF Handling
    <3> QED BY <1>2, <2>1, <2>2, <2>7, <3>1 DEF f
  <2> QED BY <2>5, <2>6, <2>7 DEF Handling
<1> QED BY <1>1, <1>2, LoopSteps

\* A queue holds its head, and what it holds after a step.
LEMMA QueueContents ==
    ASSUME Inv, [Next]_vars, NEW s \in Streams, Contains(acceptCh', s), ~Contains(acceptCh, s)
    PROVE  LoopAccept("server") /\ loop["server"].pc = "accept" /\ Handling("server", s)
<1>1. acceptCh \in Seq(Streams)
  BY InvTypes
<1>2. acceptCh # <<>> /\ acceptCh' = Tail(acceptCh) => Contains(acceptCh, s)
  BY <1>1, TailFacts
<1>3. loop["server"].frame.s \in Streams /\ acceptCh' = Append(acceptCh, loop["server"].frame.s)
      => s = loop["server"].frame.s
  BY <1>1, AppendFacts
<1> QED BY <1>2, <1>3, QueueMoves DEF Handling

LEMMA HeadQueued ==
    ASSUME Inv, acceptCh # <<>>
    PROVE  Contains(acceptCh, Head(acceptCh)) /\ Head(acceptCh) \in Streams
  BY InvTypes, TailFacts

LEMMA UnopenedInvStep ==
    ASSUME Inv, [Next]_vars
    PROVE  UnopenedInv'
<1> USE EndsPeer
<1> SUFFICES ASSUME NEW s \in Streams, app'["client"][s] \in Unbegun \/ Opening(s)'
             PROVE  /\ s \notin streams'["server"] /\ s \notin shut'["server"]
                    /\ app'["server"][s] = "none"
                    /\ ~Contains(acceptCh', s) /\ ~Handling("server", s)'
                    /\ delivered'["server"][s] = <<>>
  BY DEF UnopenedInv, Unbegun
<1>1. app["client"][s] \in Unbegun \/ Opening(s)
  <2>1. SendsOpen(s) => app["client"][s] \in Unbegun
    BY DEF SendsOpen, OpenSend, At, Unbegun
  <2> QED BY <2>1, AppForward, OpenCloseMoves
<1>2. /\ s \notin streams["server"] /\ s \notin shut["server"] /\ app["server"][s] = "none"
      /\ ~Contains(acceptCh, s) /\ ~Handling("server", s) /\ delivered["server"][s] = <<>>
  BY <1>1 DEF Inv, UnopenedInv
<1>3. Reads("server") => Head(wire["client"]).s # s
  <2> SUFFICES ASSUME Reads("server") PROVE Head(wire["client"]).s # s
    OBVIOUS
  <2>1. /\ Contains(wire["client"], Head(wire["client"]))
        /\ \A g : Contains(wire'["client"], g) => Follows(g, Head(wire["client"]))
    BY AfterRead
  <2>2. CASE app'["client"][s] \in Unbegun
    BY <2>1, <2>2, AppForward DEF Inv, UnbegunInv
  <2>3. CASE Opening(s)'
    <3>1. Contains(wire'["client"], Frame("OPEN", s, 0))
      BY <2>3 DEF Opening
    <3> QED BY <2>1, <3>1, FrameFields DEF Follows
  <2> QED BY <2>2, <2>3
<1>4. ~Handling("server", s)'
  BY <1>2, <1>3, HandlingMoves DEF Handling
<1>5. s \notin streams'["server"]
  BY <1>2, <1>3, MapMoves, FrameFields DEF ReadsFrame
<1>6. s \notin shut'["server"]
  <2>1. ~CloseStream("server", s)
    BY <1>2 DEF CloseStream, At
  <2> QED BY <1>2, <2>1, MapMoves
<1>7. app'["server"][s] = "none"
  BY <1>2, AppMoves, HeadQueued
<1>8. ~Contains(acceptCh', s)
  BY <1>2, QueueContents
<1>9. delivered'["server"][s] = <<>>
  <2>1. ASSUME NEW d \in Ends, loop[d].pc = "push",
               delivered' = [delivered EXCEPT ![d][loop[d].frame.s] = Append(@, loop[d].frame.n)]
        PROVE  delivered'["server"][s] = <<>>
    <3>1. d # "server" \/ loop[d].frame.s # s
      BY <1>2, <2>1 DEF Handling
    <3>2. delivered \in [Ends -> [Streams -> Seq(1..MaxChunks)]]
      BY InvTypes DEF ReadTypeInv
    <3> QED BY <1>2, <2>1, <3>1, <3>2
  <2> QED BY <1>2, <2>1, DeliveredMoves, InvTypes
<1> QED BY <1>4, <1>5, <1>6, <1>7, <1>8, <1>9

\* A mux never opens again.
LEMMA OpenBefore ==
    ASSUME Inv, [Next]_vars, NEW e \in Ends, muxPc'[e] = "open"
    PROVE  muxPc[e] = "open" /\ ~Sweep(e)
<1>0. muxPc \in [Ends -> {"open", "sweep", "swept", "closed"}]
  BY InvTypes DEF MuxTypeInv
<1>1. ASSUME NEW s \in Streams, OpenStep(s)
      PROVE  UNCHANGED muxPc
  BY <1>1, OpeningKeeps
<1>2. ASSUME NEW d \in Ends, NEW s \in Streams, StreamStep(d, s)
      PROVE  UNCHANGED muxPc
  BY <1>2, CallsKeep
<1>3. ASSUME NEW d \in Ends, LoopStep(d)
      PROVE  UNCHANGED muxPc \/ muxPc' = [muxPc EXCEPT ![d] = "sweep"]
  BY <1>3 DEF LoopStep, HandleFrame, LoopAccept, LoopPush, LoopPong, LoopEnd, BeginClose, mux
<1>4. ASSUME NEW d \in Ends, SendIdle(d) \/ CloseMux(d) \/ Sweep(d) \/ CloseConn(d)
      PROVE  UNCHANGED muxPc \/ \E pc \in {"sweep", "swept", "closed"} : muxPc' = [muxPc EXCEPT ![d] = pc]
  BY <1>4 DEF SendIdle, CloseMux, Sweep, CloseConn, BeginClose, mux
<1>5. UNCHANGED muxPc \/ \E d \in Ends, pc \in {"sweep", "swept", "closed"} : muxPc' = [muxPc EXCEPT ![d] = pc]
  BY <1>1, <1>2, <1>3, <1>4 DEF Next, AcceptStream, vars, mux
<1>6. muxPc[e] = "open"
  BY <1>0, <1>5
<1>7. ~Sweep(e)
  BY <1>6 DEF Sweep
<1> QED BY <1>6, <1>7

LEMMA UnstoredInvStep ==
    ASSUME Inv, [Next]_vars
    PROVE  UnstoredInv'
<1> USE EndsPeer
<1> SUFFICES ASSUME NEW s \in Streams
             PROVE  /\ app'["client"][s] \in {"none", "checked"} => s \notin streams'["client"] /\ s \notin shut'["client"]
                    /\ app'["client"][s] = "stored" /\ muxPc'["client"] = "open" =>
                          s \in streams'["client"] /\ s \notin shut'["client"]
  BY DEF UnstoredInv
<1>1. /\ app["client"][s] \in {"none", "checked"} => s \notin streams["client"] /\ s \notin shut["client"]
      /\ app["client"][s] = "stored" /\ muxPc["client"] = "open" => s \in streams["client"] /\ s \notin shut["client"]
  BY DEF Inv, UnstoredInv
<1>2. OpenStore(s) => app'["client"][s] = "stored" /\ s \in streams'["client"]
  BY InvTypes DEF OpenStore, Goto, ProgTypeInv, MuxTypeInv
<1>3. CASE app'["client"][s] \in {"none", "checked"}
  <2>1. app["client"][s] \in {"none", "checked"}
    BY <1>3, AppForward
  <2>2. ~CloseStream("client", s) /\ ~OpenStore(s)
    BY <1>2, <1>3, <2>1 DEF CloseStream, At
  <2> QED BY <1>1, <1>3, <2>1, <2>2, MapMoves
<1>4. CASE app'["client"][s] = "stored" /\ muxPc'["client"] = "open"
  <2>1. muxPc["client"] = "open" /\ ~Sweep("client")
    BY <1>4, OpenBefore
  <2>2. CASE app["client"][s] = "stored"
    <3>1. s \in streams["client"] /\ s \notin shut["client"]
      BY <1>1, <2>1, <2>2
    <3>2. ~CloseStream("client", s) /\ ~CloseFinish("client", s)
      BY <2>2 DEF CloseStream, CloseFinish, At
    <3>3. ~Goto("client", s, "gone")
      BY <1>4, InvTypes DEF Goto, ProgTypeInv
    <3>4. ~ReadsFrame("client", "CLOSE", s)
      <4>1. app["server"][s] = "none"
        BY <2>2 DEF Inv, UnopenedInv, Unbegun
      <4>2. ~Contains(wire["server"], Frame("CLOSE", s, 0))
        BY <4>1, FrameFields DEF Inv, UnbegunInv, Unbegun
      <4> QED BY <4>2, AfterRead DEF ReadsFrame
    <3> QED BY <1>4, <2>1, <3>1, <3>2, <3>3, <3>4, MapMoves
  <2>3. CASE app["client"][s] # "stored"
    <3>1. OpenStore(s) /\ app["client"][s] = "checked"
      BY <1>4, <2>3, AppMoves
    <3>2. s \in streams'["client"] /\ UNCHANGED shut
      BY <1>2, <3>1 DEF OpenStore
    <3> QED BY <1>1, <1>4, <3>1, <3>2
  <2> QED BY <2>2, <2>3
<1> QED BY <1>3, <1>4

LEMMA UniqueAfter ==
    ASSUME NEW q \in Seq(Streams),
           \A i, j \in 1..Len(q) : q[i] = q[j] => i = j
    PROVE  /\ q # <<>> => /\ ~Contains(Tail(q), Head(q))
                          /\ \A i, j \in 1..Len(Tail(q)) : Tail(q)[i] = Tail(q)[j] => i = j
           /\ \A s \in Streams : ~Contains(q, s) =>
                 \A i, j \in 1..Len(Append(q, s)) : Append(q, s)[i] = Append(q, s)[j] => i = j
<1>1. ASSUME q # <<>>
      PROVE  /\ ~Contains(Tail(q), Head(q))
             /\ \A i, j \in 1..Len(Tail(q)) : Tail(q)[i] = Tail(q)[j] => i = j
  <2>1. /\ Len(Tail(q)) = Len(q) - 1 /\ Len(q) >= 1 /\ Len(q) \in Nat /\ Head(q) = q[1]
        /\ \A i \in 1..Len(Tail(q)) : Tail(q)[i] = q[i + 1]
    BY <1>1, TailFacts
  <2>2. \A i \in 1..Len(Tail(q)) : i + 1 \in 1..Len(q) /\ i + 1 # 1
    BY <2>1
  <2>3. 1 \in 1..Len(q)
    BY <2>1
  <2>4. ~Contains(Tail(q), Head(q))
    BY <2>1, <2>2, <2>3 DEF Contains
  <2>5. \A i, j \in 1..Len(Tail(q)) : Tail(q)[i] = Tail(q)[j] => i + 1 = j + 1
    BY <2>1, <2>2
  <2> QED BY <2>1, <2>4, <2>5
<1>2. ASSUME NEW s \in Streams, ~Contains(q, s),
             NEW i \in 1..Len(Append(q, s)), NEW j \in 1..Len(Append(q, s)),
             Append(q, s)[i] = Append(q, s)[j]
      PROVE  i = j
  <2>1. /\ Len(Append(q, s)) = Len(q) + 1 /\ Len(q) \in Nat /\ Append(q, s)[Len(q) + 1] = s
        /\ \A k \in 1..Len(q) : Append(q, s)[k] = q[k] /\ q[k] # s
    BY <1>2, AppendFacts DEF Contains
  <2>2. (i \in 1..Len(q) \/ i = Len(q) + 1) /\ (j \in 1..Len(q) \/ j = Len(q) + 1)
    BY <2>1
  <2> QED BY <1>2, <2>1, <2>2
<1> QED BY <1>1, <1>2

LEMMA QueueInvStep ==
    ASSUME Inv, [Next]_vars
    PROVE  QueueInv'
<1> USE EndsPeer
<1>0. /\ acceptCh \in Seq(Streams)
      /\ \A i, j \in 1..Len(acceptCh) : acceptCh[i] = acceptCh[j] => i = j
      /\ \A s \in Streams : Contains(acceptCh, s) \/ (loop["server"].pc = "accept" /\ Handling("server", s))
            => app["server"][s] = "none"
      /\ \A s \in Streams : loop["server"].pc = "accept" /\ Handling("server", s) => ~Contains(acceptCh, s)
  BY InvTypes DEF Inv, QueueInv
<1>1. \A i, j \in 1..Len(acceptCh') : acceptCh'[i] = acceptCh'[j] => i = j
  <2>1. CASE acceptCh # <<>> /\ acceptCh' = Tail(acceptCh)
    BY <1>0, <2>1, UniqueAfter
  <2>2. CASE /\ loop["server"].pc = "accept" /\ loop["server"].frame.s \in Streams
             /\ acceptCh' = Append(acceptCh, loop["server"].frame.s)
    <3>1. ~Contains(acceptCh, loop["server"].frame.s)
      BY <1>0, <2>2 DEF Handling
    <3> QED BY <1>0, <2>2, <3>1, UniqueAfter
  <2> QED BY <1>0, <2>1, <2>2, QueueMoves
<1>2. ASSUME NEW s \in Streams, loop'["server"].pc = "accept", Handling("server", s)'
      PROVE  \/ ~Contains(acceptCh', s) /\ app["server"][s] = "none" /\ ~AcceptStream
             \/ loop'["server"] = loop["server"]
  <2>1. CASE ReadsFrame("server", "OPEN", s)
    <3>1. Opening(s) /\ UNCHANGED acceptCh
      BY <2>1, AfterRead DEF ReadsFrame, Opening, HandleFrame
    <3>2. ~Contains(acceptCh', s) /\ app["server"][s] = "none"
      BY <3>1 DEF Inv, UnopenedInv
    <3>3. UNCHANGED loop \/ ~AcceptStream
      BY DEF AcceptStream
    <3> QED BY <3>2, <3>3
  <2> QED BY <1>2, <2>1, HandlingMoves
<1>3. ASSUME NEW s \in Streams, loop'["server"].pc = "accept", Handling("server", s)'
      PROVE  ~Contains(acceptCh', s)
  <2>1. CASE loop'["server"] = loop["server"]
    <3>1. ~Contains(acceptCh, s)
      BY <1>0, <1>3, <2>1 DEF Handling
    <3>2. ~LoopAccept("server")
      BY <1>3, InvTypes DEF LoopAccept, Resume, Receiving, LoopTypeInv
    <3> QED BY <3>1, <3>2, QueueContents
  <2> QED BY <1>2, <1>3, <2>1
<1>4. ASSUME NEW s \in Streams,
             Contains(acceptCh', s) \/ (loop'["server"].pc = "accept" /\ Handling("server", s)')
      PROVE  app'["server"][s] = "none"
  <2>1. app["server"][s] = "none"
    <3>1. CASE Contains(acceptCh', s)
      BY <1>0, <3>1, QueueContents
    <3>2. CASE loop'["server"].pc = "accept" /\ Handling("server", s)'
      <4>1. CASE loop'["server"] = loop["server"]
        BY <1>0, <3>2, <4>1 DEF Handling
      <4> QED BY <1>2, <3>2, <4>1
    <3> QED BY <1>4, <3>1, <3>2
  <2>2. SUFFICES ASSUME AcceptStream, acceptCh # <<>>, s = Head(acceptCh), acceptCh' = Tail(acceptCh)
                 PROVE  FALSE
    BY <2>1, AppMoves
  <2>3. Contains(acceptCh, s) /\ ~Contains(acceptCh', s)
    BY <1>0, <2>2, UniqueAfter, HeadQueued
  <2>4. UNCHANGED loop
    BY <2>2 DEF AcceptStream
  <2> QED BY <1>0, <1>4, <2>3, <2>4 DEF Handling
<1> QED BY <1>1, <1>3, <1>4 DEF QueueInv

\* A stream within reach stays so, unless its OPEN could not be sent.
LEMMA StaysInReach ==
    ASSUME Inv, [Next]_vars, NEW e \in Ends, NEW s \in Streams,
           s \in done[e] \cup streams[e],
           app'[e][s] # "gone" \/ app[e][s] # "stored"
    PROVE  s \in done'[e] \cup streams'[e]
<1>1. ~(e = "client" /\ OpenSend(s) /\ Goto("client", s, "gone"))
  <2>1. Goto("client", s, "gone") => app'["client"][s] = "gone"
    BY InvTypes, EndsPeer DEF Goto, ProgTypeInv
  <2>2. OpenSend(s) => app["client"][s] = "stored"
    BY DEF OpenSend, At
  <2> QED BY <2>1, <2>2
<1> QED BY <1>1, MapMoves

\* When a reading goroutine starts.
LEMMA ReadingMoves ==
    ASSUME Inv, [Next]_vars, NEW e \in Ends, NEW s \in Streams, s \in reading'[e], s \notin reading[e]
    PROVE  \/ e = "client" /\ app[e][s] = "stored" /\ UNCHANGED <<streams, done>>
           \/ e = "server" /\ AcceptStream /\ acceptCh # <<>> /\ s = Head(acceptCh) /\ UNCHANGED <<streams, done>>
<1> USE EndsPeer
<1>0. reading \in [Ends -> SUBSET Streams]
  BY InvTypes DEF ProgTypeInv
<1>1. ASSUME NEW r \in Streams, OpenStep(r)
      PROVE  e = "client" /\ app[e][s] = "stored" /\ UNCHANGED <<streams, done>>
  <2>1. /\ OpenSend(r) /\ UNCHANGED <<streams, done>>
        /\ reading' = [reading EXCEPT !["client"] = @ \cup {r}]
    BY <1>1 DEF OpenStep, OpenCheck, OpenStore, OpenSend
  <2>2. e = "client" /\ s = r
    BY <1>0, <2>1
  <2> QED BY <2>1, <2>2 DEF OpenSend, At
<1>2. CASE AcceptStream
  <2>1. reading' = [reading EXCEPT !["server"] = @ \cup {Head(acceptCh)}] /\ acceptCh # <<>>
    BY <1>2 DEF AcceptStream
  <2>2. e = "server" /\ s = Head(acceptCh)
    BY <1>0, <2>1
  <2> QED BY <1>2, <2>1, <2>2 DEF AcceptStream, mux
<1>3. ASSUME NEW d \in Ends, NEW r \in Streams, StreamStep(d, r)
      PROVE  FALSE
  <2>1. reading' = reading \/ reading' = [reading EXCEPT ![d] = reading[d] \ {r}]
    BY <1>3, CallsMove
  <2> QED BY <1>0, <2>1
<1>4. ASSUME NEW d \in Ends, LoopStep(d) \/ SendIdle(d) \/ CloseMux(d) \/ Sweep(d) \/ CloseConn(d)
      PROVE  reading' = reading
  BY <1>4 DEF LoopStep, HandleFrame, LoopAccept, LoopPush, LoopPong, LoopEnd, SendIdle,
     CloseMux, Sweep, CloseConn, prog
<1>5. ~(UNCHANGED vars)
  BY DEF vars, prog
<1> QED BY <1>1, <1>2, <1>3, <1>4, <1>5 DEF Next

LEMMA ReachInvStep ==
    ASSUME Inv, [Next]_vars
    PROVE  ReachInv'
<1> USE EndsPeer
<1>0. ReachInv /\ MuxTypeInv /\ ProgTypeInv /\ MuxTypeInv' /\ ProgTypeInv'
  BY InvTypes, MuxTypeStep, ProgTypeStep DEF Inv
<1>1. ASSUME NEW e \in Ends, NEW s \in Streams, s \in done'[e]
      PROVE  s \in shut'[e]
  <2>1. s \in done[e] => s \in shut[e]
    BY <1>0 DEF ReachInv
  <2>2. CloseFinish(e, s) => s \in shut[e]
    BY <1>0 DEF CloseFinish, At, ReachInv
  <2> QED BY <1>1, <2>1, <2>2, MapMoves
<1>2. ASSUME NEW e \in Ends, NEW s \in Streams, s \in reading'[e]
      PROVE  s \in done'[e] \cup streams'[e]
  <2>1. CASE s \in reading[e]
    <3>1. s \in done[e] \cup streams[e]
      BY <1>0, <2>1 DEF ReachInv
    <3>2. app[e][s] # "stored"
      BY <2>1 DEF Inv, UnbegunInv, Unbegun
    <3> QED BY <3>1, <3>2, StaysInReach
  <2>2. CASE s \notin reading[e]
    <3>1. s \in done[e] \cup streams[e]
      BY <1>0, <1>2, <2>2, ReadingMoves, HeadQueued DEF ReachInv
    <3> QED BY <1>2, <2>2, <3>1, ReadingMoves
  <2> QED BY <2>1, <2>2
<1>3. ASSUME NEW e \in Ends, NEW s \in Streams, app'[e][s] \in {"closing", "sent"}
      PROVE  s \in shut'[e]
  <2>1. app[e][s] \in {"closing", "sent"} => s \in shut[e]
    BY <1>0 DEF ReachInv
  <2> QED BY <1>3, <2>1, AppMoves, MapMoves
<1>4. ASSUME NEW s \in Streams, app'["client"][s] = "stored"
      PROVE  s \in done'["client"] \cup streams'["client"]
  <2>1. CASE app["client"][s] = "stored"
    <3>1. s \in done["client"] \cup streams["client"]
      BY <1>0, <2>1 DEF ReachInv
    <3> QED BY <1>4, <3>1, StaysInReach
  <2>2. CASE app["client"][s] # "stored"
    <3>1. OpenStore(s)
      BY <1>4, <2>2, AppMoves
    <3> QED BY <1>0, <3>1 DEF OpenStore, MuxTypeInv
  <2> QED BY <2>1, <2>2
<1>5. ASSUME NEW s \in Streams,
             Contains(acceptCh', s) \/ (loop'["server"].pc = "accept" /\ Handling("server", s)')
      PROVE  s \in done'["server"] \cup streams'["server"]
  <2>1. CASE Contains(acceptCh, s) \/ (loop["server"].pc = "accept" /\ Handling("server", s))
    <3>1. s \in done["server"] \cup streams["server"]
      BY <1>0, <2>1 DEF ReachInv
    <3>2. app["server"][s] # "stored"
      BY <2>1 DEF Inv, QueueInv
    <3> QED BY <3>1, <3>2, StaysInReach
  <2>2. CASE ReadsFrame("server", "OPEN", s)
    <3>1. HandleFrame("server", Frame("OPEN", s, 0))
      BY <2>2 DEF ReadsFrame, Reads
    <3>2. Frame("OPEN", s, 0).cmd = "OPEN" /\ Frame("OPEN", s, 0).s = s
      BY FrameFields
    <3> QED BY <1>0, <3>1, <3>2 DEF HandleFrame, MuxTypeInv
  <2>3. Contains(acceptCh', s) => Contains(acceptCh, s) \/ (loop["server"].pc = "accept" /\ Handling("server", s))
    BY QueueContents
  <2>4. loop'["server"].pc = "accept" /\ Handling("server", s)' =>
           \/ loop["server"].pc = "accept" /\ Handling("server", s)
           \/ ReadsFrame("server", "OPEN", s)
    BY HandlingMoves DEF Handling
  <2> QED BY <1>5, <2>1, <2>2, <2>3, <2>4
<1>6. \A e \in Ends : done'[e] \subseteq shut'[e] /\ reading'[e] \subseteq done'[e] \cup streams'[e]
  BY <1>0, <1>1, <1>2 DEF MuxTypeInv, ProgTypeInv
<1> QED BY <1>3, <1>4, <1>5, <1>6 DEF ReachInv

---------------------------------------------------------------------------
(* Order.                                                                  *)

\* The chunks of s in flight from e are those that are written and not taken.
InStep(e, s) ==
    \A k \in 1..MaxChunks :
        Contains(wire[e], Frame("DATA", s, k)) <=> Taken(e, s) < k /\ k <= sent[e][s]

\* readLoop pushes the chunk it holds before it does anything else.
LEMMA PushFirst ==
    ASSUME Inv, [Next]_vars, NEW e \in Ends, loop[e].pc = "push"
    PROVE  LoopPush(e) \/ (loop'[e] = loop[e] /\ ~Reads(e))
<1>0. loop \in [Ends -> [pc : {"recv", "accept", "push", "pong", "stopped"}, frame : Frames]]
  BY InvTypes DEF LoopTypeInv
<1>1. ~Reads(e)
  BY DEF Reads, HandleFrame
<1>2. ASSUME NEW d \in Ends, LoopStep(d), ~LoopPush(e)
      PROVE  loop'[e] = loop[e]
  <2>1. CASE d # e
    <3>1. \/ loop' = loop
          \/ \E x : loop' = [loop EXCEPT ![d] = x]
      BY <1>2 DEF LoopStep, HandleFrame, LoopAccept, LoopPush, LoopPong, LoopEnd, Resume
    <3> QED BY <1>0, <2>1, <3>1, SMTT(30)
  <2>2. CASE d = e
    BY <1>2, <2>2 DEF LoopStep, HandleFrame, LoopAccept, LoopPong, LoopEnd
  <2> QED BY <2>1, <2>2, SMTT(30)
<1>3. ASSUME NEW s \in Streams, OpenStep(s)
      PROVE  UNCHANGED loop
  BY <1>3, OpeningKeeps
<1>4. ASSUME NEW d \in Ends, NEW s \in Streams, StreamStep(d, s)
      PROVE  UNCHANGED loop
  BY <1>4, CallsKeep
<1>5. ASSUME NEW d \in Ends, SendIdle(d) \/ CloseMux(d) \/ Sweep(d) \/ CloseConn(d)
      PROVE  UNCHANGED loop
  BY <1>5 DEF SendIdle, CloseMux, Sweep, CloseConn, conn
<1> QED BY <1>1, <1>2, <1>3, <1>4, <1>5 DEF Next, AcceptStream, vars, conn

\* What leaves the two ends of a direction alone leaves its chunks alone,
\* except for one that is written.
LEMMA ElsewhereMoves ==
    ASSUME Inv, [Next]_vars, NEW e \in Ends, NEW s \in Streams,
           ~Reads(Peer(e)), ~LoopPush(Peer(e))
    PROVE  /\ delivered'[Peer(e)][s] = delivered[Peer(e)][s]
           /\ Pushing(Peer(e), s)' <=> Pushing(Peer(e), s)
           /\ Pushing(Peer(e), s) => loop'[Peer(e)] = loop[Peer(e)]
           /\ \/ /\ sent'[e][s] = sent[e][s]
                 /\ \A k \in 1..MaxChunks : Contains(wire'[e], Frame("DATA", s, k)) <=>
                                            Contains(wire[e], Frame("DATA", s, k))
              \/ /\ sent'[e][s] = sent[e][s] + 1
                 /\ \A k \in 1..MaxChunks : Contains(wire'[e], Frame("DATA", s, k)) <=>
                                            Contains(wire[e], Frame("DATA", s, k)) \/ k = sent[e][s] + 1
<1> USE EndsPeer
<1>0. /\ sent \in [Ends -> [Streams -> 0..MaxChunks]]
      /\ delivered \in [Ends -> [Streams -> Seq(1..MaxChunks)]]
  BY InvTypes DEF SentTypeInv, ReadTypeInv
<1>1. delivered'[Peer(e)][s] = delivered[Peer(e)][s]
  <2>1. ASSUME NEW d \in Ends, LoopPush(d),
               delivered' = [delivered EXCEPT ![d][loop[d].frame.s] = Append(@, loop[d].frame.n)]
        PROVE  delivered'[Peer(e)][s] = delivered[Peer(e)][s]
    <3>1. d # Peer(e)
      BY <2>1
    <3> QED BY <1>0, <2>1, <3>1
  <2> QED BY <2>1, DeliveredMoves, InvTypes
<1>2. Pushing(Peer(e), s) => loop'[Peer(e)] = loop[Peer(e)]
  BY PushFirst DEF Pushing
<1>3. Pushing(Peer(e), s)' => Pushing(Peer(e), s)
  BY HandlingMoves DEF Pushing, Handling
<1>4. Pushing(Peer(e), s)' <=> Pushing(Peer(e), s)
  BY <1>2, <1>3 DEF Pushing
<1>5. CASE SendsData(e, s)
  <2>1. sent'[e][s] = sent[e][s] + 1
    BY <1>0, <1>5 DEF SendsData
  <2>2. ASSUME NEW k \in 1..MaxChunks
        PROVE  Contains(wire'[e], Frame("DATA", s, k)) <=>
               Contains(wire[e], Frame("DATA", s, k)) \/ k = sent[e][s] + 1
    <3>1. Contains(wire'[e], Frame("DATA", s, k)) <=>
          Contains(wire[e], Frame("DATA", s, k)) \/ Frame("DATA", s, k) = Frame("DATA", s, sent[e][s] + 1)
      BY <1>5, AfterData
    <3> QED BY <3>1, FramesDiffer
  <2> QED BY <1>1, <1>2, <1>4, <2>1, <2>2
<1>6. CASE ~SendsData(e, s)
  <2>1. sent'[e][s] = sent[e][s]
    <3>1. ASSUME NEW d \in Ends, NEW r \in Streams, SendsData(d, r)
          PROVE  sent'[e][s] = sent[e][s]
      <4>1. d # e \/ r # s
        BY <1>6, <3>1
      <4> QED BY <1>0, <3>1, <4>1 DEF SendsData
    <3>2. UNCHANGED sent \/ \E d \in Ends, r \in Streams : SendsData(d, r)
      BY SentMoves, InvTypes DEF SendsData
    <3> QED BY <3>1, <3>2
  <2>2. ASSUME NEW k \in 1..MaxChunks
        PROVE  Contains(wire'[e], Frame("DATA", s, k)) <=> Contains(wire[e], Frame("DATA", s, k))
    <3> DEFINE g == Frame("DATA", s, k)
    <3>1. \A c, r, n : g = Frame(c, r, n) => c = "DATA" /\ r = s
      BY FramesDiffer
    <3> HIDE DEF g
    <3>2. Contains(wire[e], g) => Contains(wire'[e], g)
      BY FlightMoves
    <3>3. Contains(wire'[e], g) => Contains(wire[e], g)
      BY <1>6, <3>1, FlightMoves
    <3> QED BY <3>2, <3>3 DEF g
  <2> QED BY <1>1, <1>2, <1>4, <2>1, <2>2
<1> QED BY <1>5, <1>6

\* The chunk that readLoop takes from the connection is the next one.
LEMMA NextChunk ==
    ASSUME Inv, [Next]_vars, NEW e \in Ends, NEW s \in Streams, NEW n \in 1..MaxChunks,
           InStep(e, s), Reads(Peer(e)), Head(wire[e]) = Frame("DATA", s, n)
    PROVE  /\ n = Len(delivered[Peer(e)][s]) + 1 /\ n <= sent[e][s]
           /\ \A k \in 1..MaxChunks : Contains(wire'[e], Frame("DATA", s, k)) <=> n < k /\ k <= sent[e][s]
<1> USE EndsPeer
<1>0. /\ sent[e][s] \in 0..MaxChunks /\ Len(delivered[Peer(e)][s]) \in Nat
      /\ MaxChunks \in Nat
  BY InvTypes DEF SentTypeInv, ReadTypeInv
<1>1. ~Pushing(Peer(e), s)
  BY DEF Reads, HandleFrame, Pushing
<1>2. Taken(e, s) = Len(delivered[Peer(e)][s])
  BY <1>0, <1>1 DEF Taken
<1>3. \A k \in 1..MaxChunks : Contains(wire[e], Frame("DATA", s, k)) <=>
                              Len(delivered[Peer(e)][s]) < k /\ k <= sent[e][s]
  BY <1>2 DEF InStep
<1>4. /\ Contains(wire[e], Frame("DATA", s, n))
      /\ \A g : Contains(wire[e], g) <=> Contains(wire'[e], g) \/ g = Frame("DATA", s, n)
      /\ \A g : Contains(wire'[e], g) => Follows(g, Frame("DATA", s, n))
  BY AfterRead
<1>5. \A k \in 1..MaxChunks : Contains(wire'[e], Frame("DATA", s, k)) => n < k
  BY <1>4, FrameFields DEF Follows
<1>6. \A k \in 1..MaxChunks : Contains(wire[e], Frame("DATA", s, k)) <=>
                              Contains(wire'[e], Frame("DATA", s, k)) \/ k = n
  BY <1>4, FramesDiffer
<1>7. Len(delivered[Peer(e)][s]) < n /\ n <= sent[e][s]
  BY <1>3, <1>4
<1>8. n = Len(delivered[Peer(e)][s]) + 1
  <2> DEFINE took == Len(delivered[Peer(e)][s])
             m == took + 1
  <2>1. m \in 1..MaxChunks /\ m <= n /\ took < m /\ m <= sent[e][s]
    <3>1. took \in Nat /\ took < n /\ n <= MaxChunks /\ n <= sent[e][s] /\ n \in Nat
      BY <1>0, <1>7
    <3> HIDE DEF took
    <3> QED BY <1>0, <3>1
  <2> HIDE DEF m
  <2>2. m = n \/ n < m
    BY <1>3, <1>5, <1>6, <2>1
  <2>3. m = n
    BY <1>0, <2>1, <2>2
  <2> QED BY <2>3 DEF m
<1>9. ASSUME NEW k \in 1..MaxChunks
      PROVE  Contains(wire'[e], Frame("DATA", s, k)) <=> n < k /\ k <= sent[e][s]
  <2>1. n < k /\ k <= sent[e][s] => Len(delivered[Peer(e)][s]) < k /\ k # n
    BY <1>0, <1>7
  <2> QED BY <1>3, <1>5, <1>6, <2>1
<1> QED BY <1>7, <1>8, <1>9

\* A direction of a stream that counts: the receiving end has it open, or will.
Expected(e, s) ==
    /\ s \notin shut[Peer(e)]
    /\ s \in streams[Peer(e)] \/ (e = "client" /\ Opening(s))

LEMMA InStepWhenUnbegun ==
    ASSUME Inv, NEW e \in Ends, NEW s \in Streams, app[e][s] \in Unbegun
    PROVE  InStep(e, s)
<1>1. sent[e][s] = 0 /\ \A f : Contains(wire[e], f) => f.s # s
  BY DEF Inv, UnbegunInv
<1>2. ~Handling(Peer(e), s) /\ delivered[Peer(e)][s] = <<>>
  BY DEF Inv, UnbegunInv
<1>3. Taken(e, s) = 0
  BY <1>2 DEF Taken, Handling, Pushing
<1>4. \A k \in 1..MaxChunks : ~Contains(wire[e], Frame("DATA", s, k))
  BY <1>1, FrameFields
<1> QED BY <1>1, <1>3, <1>4, InvTypes DEF InStep

\* Whatever is expected after a step was in step before it.
LEMMA InStepBefore ==
    ASSUME Inv, [Next]_vars, NEW e \in Ends, NEW s \in Streams,
           muxPc[Peer(e)] = "open", Expected(e, s)'
    PROVE  s \notin shut[Peer(e)] /\ InStep(e, s)
<1> USE EndsPeer
<1>1. s \notin shut[Peer(e)]
  BY MapMoves DEF Expected
<1>2. CASE s \in streams[Peer(e)] \/ (e = "client" /\ Opening(s))
  BY <1>1, <1>2 DEF Inv, OrderInv, InStep
<1>3. CASE e = "client" /\ SendsOpen(s)
  <2>1. app[e][s] \in Unbegun
    BY <1>3 DEF SendsOpen, OpenSend, At, Unbegun
  <2> QED BY <1>1, <2>1, InStepWhenUnbegun
<1>4. CASE Peer(e) = "client" /\ OpenStore(s)
  <2>1. app["client"][s] = "checked" /\ e = "server"
    BY <1>4 DEF OpenStore, At, Ends, Peer
  <2>2. app[e][s] \in Unbegun
    BY <2>1 DEF Inv, UnopenedInv, Unbegun
  <2> QED BY <1>1, <2>2, InStepWhenUnbegun
<1>5. CASE Peer(e) = "server" /\ ReadsFrame(Peer(e), "OPEN", s)
  <2>1. e = "client" /\ Opening(s)
    BY <1>5, AfterRead DEF ReadsFrame, Opening, Ends, Peer
  <2> QED BY <1>2, <2>1
<1>6. \/ s \in streams[Peer(e)] \/ (e = "client" /\ (Opening(s) \/ SendsOpen(s)))
      \/ Peer(e) = "client" /\ OpenStore(s)
      \/ Peer(e) = "server" /\ ReadsFrame(Peer(e), "OPEN", s)
  BY MapMoves, OpenCloseMoves DEF Expected
<1> QED BY <1>2, <1>3, <1>4, <1>5, <1>6

LEMMA OrderInvStep ==
    ASSUME Inv, [Next]_vars
    PROVE  OrderInv'
<1> USE EndsPeer
<1> SUFFICES ASSUME NEW e \in Ends, NEW s \in Streams, muxPc'[Peer(e)] = "open"
             PROVE  /\ Len(delivered'[Peer(e)][s]) <= sent'[e][s]
                    /\ Pushing(Peer(e), s)' => loop'[Peer(e)].frame.n = Len(delivered'[Peer(e)][s]) + 1
                    /\ Expected(e, s)' => InStep(e, s)'
  BY DEF OrderInv, Expected, InStep
<1> DEFINE p == Peer(e)
           took == Len(delivered[p][s])
<1>1. /\ muxPc[p] = "open" /\ took <= sent[e][s]
      /\ Pushing(p, s) => loop[p].frame.n = took + 1
      /\ Pushing(p, s) => loop[p].frame.n <= sent[e][s]
      /\ Expected(e, s)' => s \notin shut[p] /\ InStep(e, s)
  BY OpenBefore, InStepBefore DEF Inv, OrderInv, WireInv
<1>2. /\ took \in Nat /\ sent[e][s] \in Nat /\ MaxChunks \in Nat
      /\ delivered \in [Ends -> [Streams -> Seq(1..MaxChunks)]]
      /\ loop \in [Ends -> [pc : {"recv", "accept", "push", "pong", "stopped"}, frame : Frames]]
  <2>1. /\ delivered \in [Ends -> [Streams -> Seq(1..MaxChunks)]]
        /\ loop \in [Ends -> [pc : {"recv", "accept", "push", "pong", "stopped"}, frame : Frames]]
        /\ MaxChunks \in Nat /\ sent \in [Ends -> [Streams -> 0..MaxChunks]]
    BY InvTypes DEF SentTypeInv, ReadTypeInv, LoopTypeInv
  <2>2. delivered[p][s] \in Seq(1..MaxChunks) /\ sent[e][s] \in 0..MaxChunks
    BY <2>1
  <2> QED BY <2>1, <2>2
<1>3. CASE Reads(p)
  <2> DEFINE f == Head(wire[e])
  <2>1. /\ HandleFrame(p, f) /\ f \in Sendable /\ Contains(wire[e], f) /\ f = Frame(f.cmd, f.s, f.n)
        /\ f.cmd \in {"OPEN", "CLOSE", "DATA"} => f.s \in Streams
        /\ f.cmd \in {"OPEN", "CLOSE"} => f.n = 0
        /\ f.cmd = "DATA" => f.n \in 1..MaxChunks
        /\ \A g : Contains(wire[e], g) <=> Contains(wire'[e], g) \/ g = f
        /\ \A g : Contains(wire'[e], g) => Follows(g, f)
    BY <1>3, AfterRead
  <2>2. UNCHANGED data /\ ~Pushing(p, s)
    BY <2>1 DEF HandleFrame, Pushing
  <2>3. UNCHANGED <<sent, delivered>>
    BY <2>2 DEF data
  <2>4. Len(delivered'[p][s]) <= sent'[e][s]
    BY <1>1, <2>3
  <2>5. CASE f.cmd = "DATA" /\ f.s = s
    <3>1. f = Frame("DATA", s, f.n) /\ f.n \in 1..MaxChunks
      BY <2>1, <2>5
    <3>2. ASSUME InStep(e, s)
          PROVE  /\ f.n = took + 1
                 /\ \A k \in 1..MaxChunks : Contains(wire'[e], Frame("DATA", s, k)) <=> f.n < k /\ k <= sent[e][s]
      BY <1>3, <3>1, <3>2, NextChunk
    <3> HIDE DEF f
    <3>3. CASE s \in streams[p] /\ s \notin shut[p]
      <4>1. loop'[p] = [pc |-> "push", frame |-> f]
        BY <1>2, <2>1, <2>5, <3>3 DEF HandleFrame
      <4>2. InStep(e, s)
        BY <1>1, <3>3 DEF Inv, OrderInv, InStep
      <4>3. Pushing(p, s)' /\ loop'[p].frame.n = took + 1
        BY <2>5, <3>2, <4>1, <4>2 DEF Pushing
      <4>4. Taken(e, s)' = f.n
        BY <2>3, <3>2, <4>2, <4>3 DEF Taken
      <4>5. InStep(e, s)'
        BY <2>3, <3>2, <4>2, <4>4 DEF InStep
      <4> QED BY <2>3, <2>4, <4>3, <4>5
    <3>4. CASE ~(s \in streams[p] /\ s \notin shut[p])
      <4>1. UNCHANGED <<loop, streams, shut>>
        BY <2>1, <2>5, <3>4 DEF HandleFrame
      <4>2. ~Pushing(p, s)'
        BY <2>2, <4>1 DEF Pushing
      <4>3. ~Expected(e, s)'
        <5>1. Opening(s)' /\ e = "client" => Follows(Frame("OPEN", s, 0), f)
          BY <2>1 DEF Opening
        <5>2. ~(Opening(s)' /\ e = "client")
          BY <2>5, <5>1, FrameFields DEF Follows
        <5> QED BY <3>4, <4>1, <5>2 DEF Expected
      <4> QED BY <2>4, <4>2, <4>3
    <3> QED BY <3>3, <3>4
  <2>6. CASE ~(f.cmd = "DATA" /\ f.s = s)
    <3>1. ~Pushing(p, s)'
      <4>1. Pushing(p, s)' => loop'[p] # loop[p]
        BY <2>2 DEF Pushing
      <4>2. Pushing(p, s)' => Head(wire[Peer(p)]) = Frame("DATA", s, loop'[p].frame.n)
        BY <4>1, HandlingMoves DEF Pushing, Handling
      <4> QED BY <2>6, <4>2, FrameFields
    <3>2. Taken(e, s)' = Taken(e, s)
      BY <2>2, <2>3, <3>1 DEF Taken
    <3>3. \A k \in 1..MaxChunks : f # Frame("DATA", s, k)
      BY <2>6, FrameFields
    <3>4. InStep(e, s) => InStep(e, s)'
      BY <2>1, <2>3, <3>2, <3>3 DEF InStep
    <3> QED BY <1>1, <2>4, <3>1, <3>4
  <2> QED BY <2>5, <2>6
<1>4. CASE LoopPush(p)
  <2>1. /\ loop[p].pc = "push" /\ loop'[p].pc = "recv" /\ UNCHANGED <<wire, sent, mux>>
    BY <1>2, <1>4 DEF LoopPush, Resume, Receiving
  <2>2. ~Pushing(p, s)'
    BY <2>1 DEF Pushing
  <2>3. CASE ~Pushing(p, s)
    <3>1. loop[p].frame.s # s
      BY <2>1, <2>3 DEF Pushing
    <3>2. delivered'[p][s] = delivered[p][s]
      BY <1>2, <1>4, <3>1 DEF LoopPush
    <3>3. Taken(e, s)' = Taken(e, s)
      BY <2>2, <2>3, <3>2 DEF Taken
    <3>4. InStep(e, s) => InStep(e, s)'
      BY <2>1, <3>3 DEF InStep
    <3> QED BY <1>1, <2>1, <2>2, <3>2, <3>4
  <2>4. CASE Pushing(p, s)
    <3>1. loop[p].frame.s = s
      BY <2>4 DEF Pushing
    <3>2. CASE delivered' = [delivered EXCEPT ![p][s] = Append(@, loop[p].frame.n)]
      <4>1. loop[p].frame.n \in 1..MaxChunks
        BY <2>4, InvTypes DEF LoopTypeInv, Pushing, Frames
      <4>2. delivered'[p][s] = Append(delivered[p][s], loop[p].frame.n)
        BY <1>2, <3>2
      <4>3. Len(delivered'[p][s]) = took + 1
        BY <1>2, <4>1, <4>2, AppendFacts
      <4>4. Len(delivered'[p][s]) <= sent'[e][s]
        BY <1>1, <1>2, <2>1, <2>4, <4>3
      <4>5. Taken(e, s)' = Taken(e, s)
        BY <1>2, <2>2, <2>4, <4>3 DEF Taken
      <4>6. InStep(e, s) => InStep(e, s)'
        BY <2>1, <4>5 DEF InStep
      <4> QED BY <1>1, <2>2, <4>4, <4>6
    <3>3. CASE s \in done[p] /\ UNCHANGED delivered
      <4>1. s \in shut[p]
        BY <3>3 DEF Inv, ReachInv
      <4> QED BY <1>1, <2>1, <2>2, <3>3, <4>1
    <3> QED BY <1>1, <1>4, <3>1, <3>2, <3>3 DEF LoopPush
  <2> QED BY <2>3, <2>4
<1>5. CASE ~Reads(p) /\ ~LoopPush(p)
  <2>1. /\ delivered'[p][s] = delivered[p][s]
        /\ Pushing(p, s)' <=> Pushing(p, s)
        /\ Pushing(p, s) => loop'[p] = loop[p]
    BY <1>5, ElsewhereMoves
  <2>2. Taken(e, s)' = Taken(e, s)
    BY <2>1 DEF Taken
  <2>3. Taken(e, s) \in Nat /\ Taken(e, s) <= sent[e][s]
    <3>1. CASE Pushing(p, s)
      BY <1>1, <1>2, <3>1 DEF Taken
    <3>2. CASE ~Pushing(p, s)
      BY <1>1, <1>2, <3>2 DEF Taken
    <3> QED BY <3>1, <3>2
  <2>4. CASE /\ sent'[e][s] = sent[e][s]
             /\ \A k \in 1..MaxChunks : Contains(wire'[e], Frame("DATA", s, k)) <=>
                                        Contains(wire[e], Frame("DATA", s, k))
    <3>1. InStep(e, s) => InStep(e, s)'
      BY <2>2, <2>4 DEF InStep
    <3> QED BY <1>1, <2>1, <2>4, <3>1
  <2>5. CASE /\ sent'[e][s] = sent[e][s] + 1
             /\ \A k \in 1..MaxChunks : Contains(wire'[e], Frame("DATA", s, k)) <=>
                                        Contains(wire[e], Frame("DATA", s, k)) \/ k = sent[e][s] + 1
    <3>1. ASSUME InStep(e, s), NEW k \in 1..MaxChunks
          PROVE  Contains(wire'[e], Frame("DATA", s, k)) <=> Taken(e, s) < k /\ k <= sent[e][s] + 1
      <4>1. Contains(wire[e], Frame("DATA", s, k)) <=> Taken(e, s) < k /\ k <= sent[e][s]
        BY <3>1 DEF InStep
      <4>2. Contains(wire'[e], Frame("DATA", s, k)) <=>
            Contains(wire[e], Frame("DATA", s, k)) \/ k = sent[e][s] + 1
        BY <2>5
      <4> DEFINE a == Taken(e, s)
                 b == sent[e][s]
      <4>3. a \in Nat /\ b \in Nat /\ a <= b /\ k \in Nat
        BY <1>2, <2>3
      <4> HIDE DEF a, b
      <4>4. (a < k /\ k <= b) \/ k = b + 1 <=> a < k /\ k <= b + 1
        BY <4>3
      <4> QED BY <4>1, <4>2, <4>4 DEF a, b
    <3>2. InStep(e, s) => InStep(e, s)'
      BY <2>2, <2>5, <3>1 DEF InStep
    <3> QED BY <1>1, <1>2, <2>1, <2>5, <3>2
  <2> QED BY <1>5, <2>4, <2>5, ElsewhereMoves
<1> QED BY <1>3, <1>4, <1>5

---------------------------------------------------------------------------
(* The maps.                                                               *)

\* What the steps that change a map do, in detail.
LEMMA MapEffects ==
    ASSUME Inv, [Next]_vars, NEW e \in Ends, NEW s \in Streams
    PROVE  /\ ReadsFrame(e, "CLOSE", s) =>
                 /\ s \notin streams'[e] /\ UNCHANGED app /\ CloseInFlight(Peer(e), s)
                 /\ ~(e = "server" /\ Opening(s)')
           /\ ReadsFrame(e, "OPEN", s) =>
                 /\ s \in streams'[e] /\ streams'[Peer(e)] = streams[Peer(e)] /\ UNCHANGED app
                 /\ e = "server" /\ Opening(s)
           /\ CloseFinish(e, s) => s \notin streams'[e] /\ UNCHANGED wire
           /\ CloseStream(e, s) => UNCHANGED streams
           /\ OpenStore(s) => app["client"][s] = "checked" /\ app'["client"][s] = "stored"
<1> USE EndsPeer
<1>0. MuxTypeInv /\ ProgTypeInv
  BY InvTypes
<1>1. ASSUME ReadsFrame(e, "CLOSE", s)
      PROVE  /\ s \notin streams'[e] /\ UNCHANGED app /\ CloseInFlight(Peer(e), s)
             /\ ~(e = "server" /\ Opening(s)')
  <2>1. /\ HandleFrame(e, Frame("CLOSE", s, 0)) /\ Contains(wire[Peer(e)], Frame("CLOSE", s, 0))
        /\ \A g : Contains(wire'[Peer(e)], g) => Follows(g, Frame("CLOSE", s, 0))
    BY <1>1, AfterRead DEF ReadsFrame
  <2>2. Frame("CLOSE", s, 0).cmd = "CLOSE" /\ Frame("CLOSE", s, 0).s = s
        /\ Frame("OPEN", s, 0).cmd = "OPEN" /\ Frame("OPEN", s, 0).s = s
    BY FrameFields
  <2>3. HandleClose(e, s) /\ UNCHANGED app
    BY <2>1, <2>2 DEF HandleFrame, prog
  <2>4. s \notin streams'[e]
    BY <1>0, <2>3 DEF HandleClose, MuxTypeInv
  <2>5. ~(e = "server" /\ Opening(s)')
    BY <2>1, <2>2 DEF Opening, Follows
  <2> QED BY <2>1, <2>3, <2>4, <2>5 DEF CloseInFlight
<1>2. ASSUME ReadsFrame(e, "OPEN", s)
      PROVE  /\ s \in streams'[e] /\ streams'[Peer(e)] = streams[Peer(e)] /\ UNCHANGED app
             /\ e = "server" /\ Opening(s)
  <2>1. HandleFrame(e, Frame("OPEN", s, 0)) /\ Contains(wire[Peer(e)], Frame("OPEN", s, 0))
    BY <1>2, AfterRead DEF ReadsFrame
  <2>2. Frame("OPEN", s, 0).cmd = "OPEN" /\ Frame("OPEN", s, 0).s = s
    BY FrameFields
  <2>3. streams' = [streams EXCEPT ![e] = @ \cup {s}] /\ UNCHANGED app
    BY <2>1, <2>2 DEF HandleFrame, prog
  <2>4. e = "server"
    BY <2>1 DEF Inv, WireInv, Ends, Peer
  <2> QED BY <1>0, <2>1, <2>3, <2>4 DEF MuxTypeInv, Opening
<1>3. CloseFinish(e, s) => s \notin streams'[e] /\ UNCHANGED wire
  BY <1>0 DEF CloseFinish, conn, MuxTypeInv
<1>4. CloseStream(e, s) => UNCHANGED streams
  BY DEF CloseStream
<1>5. OpenStore(s) => app["client"][s] = "checked" /\ app'["client"][s] = "stored"
  BY <1>0 DEF OpenStore, At, Goto, ProgTypeInv
<1> QED BY <1>1, <1>2, <1>3, <1>4, <1>5

\* With both muxes open, streams enter the maps in two ways and leave them in
\* two, and by an OPEN that a used-up key does not let through.
LEMMA OpenMapMoves ==
    ASSUME Inv, [Next]_vars, \A d \in Ends : muxPc'[d] = "open", NEW e \in Ends, NEW s \in Streams
    PROVE  /\ s \in streams'[e] /\ s \notin streams[e] =>
                 (e = "client" /\ OpenStore(s)) \/ (e = "server" /\ ReadsFrame(e, "OPEN", s))
           /\ s \in streams[e] /\ s \notin streams'[e] =>
                 CloseFinish(e, s) \/ ReadsFrame(e, "CLOSE", s) \/ (e = "client" /\ "client" \in spent')
           /\ SendFails(e) => e \in spent'
<1>1. \A d \in Ends : muxPc[d] = "open" /\ ~Sweep(d)
  BY OpenBefore
<1>2. \A d \in Ends : SendFails(d) => d \in spent'
  BY <1>1, EndsPeer DEF SendFails, Broken
<1> QED BY <1>1, <1>2, EndsPeer, MapMoves

\* A stream that is being closed, or has been, stays so.
LEMMA ClosingForward ==
    ASSUME Inv, [Next]_vars, NEW e \in Ends, NEW s \in Streams
    PROVE  /\ app[e][s] = "closing" => app'[e][s] \in {"closing", "sent"}
           /\ app[e][s] = "sent" => app'[e][s] = "sent" \/ (app'[e][s] = "gone" /\ CloseFinish(e, s))
           /\ app[e][s] = "gone" => app'[e][s] = "gone"
<1> USE EndsPeer
<1>1. CASE app'[e][s] = app[e][s]
  BY <1>1
<1>2. CASE app'[e][s] # app[e][s]
  <2>1. \/ app[e][s] \in {"none", "checked", "stored", "up"}
        \/ app[e][s] = "none" /\ app'[e][s] = "up"
        \/ app[e][s] = "closing" /\ app'[e][s] = "sent"
        \/ app[e][s] = "sent" /\ app'[e][s] = "gone" /\ CloseFinish(e, s)
        \/ AcceptStream /\ acceptCh # <<>> /\ s = Head(acceptCh) /\ e = "server"
    BY <1>2, AppMoves
  <2>2. AcceptStream /\ acceptCh # <<>> /\ s = Head(acceptCh) /\ e = "server" => app[e][s] = "none"
    BY HeadQueued DEF Inv, QueueInv
  <2> QED BY <2>1, <2>2
<1> QED BY <1>1, <1>2

LEMMA MapInvStep ==
    ASSUME Inv, [Next]_vars
    PROVE  MapInv'
<1> USE EndsPeer
<1> SUFFICES ASSUME \A d \in Ends : muxPc'[d] = "open"
             PROVE  /\ \A s \in Streams : Opening(s)' =>
                             s \in streams'["client"] \/ CloseInFlight("client", s)' \/ "client" \in spent'
                    /\ \A e \in Ends, s \in Streams :
                          /\ s \in streams'[e] /\ s \in shut'[e] => app'[e][s] \in {"closing", "sent"}
                          /\ s \in streams'[e] /\ s \notin streams'[Peer(e)] =>
                                \/ e = "client" /\ (app'[e][s] = "stored" \/ Opening(s)')
                                \/ CloseInFlight(Peer(e), s)' \/ app'[e][s] = "sent" \/ Peer(e) \in spent'
                          /\ app'[e][s] = "gone" => s \notin streams'[e]
                          /\ CloseInFlight(e, s)' => app'[e][s] \in {"sent", "gone"}
                          /\ app'[e][s] = "sent" =>
                                \/ CloseInFlight(e, s)' \/ e \in spent'
                                \/ s \notin streams'[Peer(e)] /\ ~(e = "client" /\ Opening(s)')
  BY DEF MapInv
<1>0. /\ \A d \in Ends : muxPc[d] = "open" /\ (SendFails(d) => d \in spent')
      /\ \A s \in Streams : Opening(s) =>
            s \in streams["client"] \/ CloseInFlight("client", s) \/ "client" \in spent'
      /\ \A e \in Ends, s \in Streams :
            /\ s \in streams[e] /\ s \in shut[e] => app[e][s] \in {"closing", "sent"}
            /\ s \in streams[e] /\ s \notin streams[Peer(e)] =>
                  \/ e = "client" /\ (app[e][s] = "stored" \/ Opening(s))
                  \/ CloseInFlight(Peer(e), s) \/ app[e][s] = "sent" \/ Peer(e) \in spent'
            /\ app[e][s] = "gone" => s \notin streams[e]
            /\ CloseInFlight(e, s) => app[e][s] \in {"sent", "gone"}
            /\ app[e][s] = "sent" =>
                  \/ CloseInFlight(e, s) \/ e \in spent'
                  \/ s \notin streams[Peer(e)] /\ ~(e = "client" /\ Opening(s))
  <2>1. \A d \in Ends : muxPc[d] = "open"
    BY OpenBefore
  <2>2. \A d \in Ends : SendFails(d) => d \in spent'
    BY <2>1 DEF SendFails, Broken
  <2>3. spent \subseteq spent'
    BY SpentMoves
  <2> QED BY <2>1, <2>2, <2>3 DEF Inv, MapInv
<1>1. ASSUME NEW s \in Streams
      PROVE  /\ Opening(s) => s \notin streams["server"] /\ s \notin shut["server"] /\ app["server"][s] = "none"
             /\ app["client"][s] \in Unbegun => app["server"][s] = "none"
             /\ app["client"][s] = "checked" => s \notin shut["client"]
             /\ app["client"][s] = "stored" => s \in streams["client"]
  BY <1>0 DEF Inv, UnopenedInv, UnstoredInv
<1>2. ASSUME NEW e \in Ends, NEW s \in Streams
      PROVE  /\ CloseSend(e, s) => app'[e][s] = "sent" /\ app[e][s] = "closing"
                                   /\ (CloseInFlight(e, s)' \/ e \in spent')
             /\ SendsOpen(s) => Opening(s)' /\ app["client"][s] = "stored" /\ UNCHANGED streams
             /\ OpenSend(s) /\ app'["client"][s] = "gone" => s \notin streams'["client"]
  <2>1. CloseSend(e, s) => SendsClose(e, s) \/ e \in spent'
    BY <1>0 DEF CloseSend, SendsClose
  <2>2. SendsClose(e, s) => CloseInFlight(e, s)'
    BY AfterClose DEF CloseInFlight
  <2>3. CloseSend(e, s) => app'[e][s] = "sent" /\ app[e][s] = "closing"
    BY InvTypes DEF CloseSend, At, Goto, ProgTypeInv
  <2>4. SendsOpen(s) => Opening(s)'
    BY AfterOpen DEF Opening
  <2>5. ASSUME NEW pc, Goto("client", s, pc)
        PROVE  app'["client"][s] = pc
    BY <2>5, InvTypes DEF Goto, ProgTypeInv
  <2>6. SendsOpen(s) => app["client"][s] = "stored" /\ UNCHANGED streams
    <3> SUFFICES ASSUME SendsOpen(s) PROVE app["client"][s] = "stored" /\ UNCHANGED streams
      OBVIOUS
    <3>1. OpenSend(s) /\ app'["client"][s] = "up"
      BY <2>5 DEF SendsOpen
    <3>2. ~Goto("client", s, "gone")
      BY <2>5, <3>1
    <3> QED BY <3>1, <3>2 DEF OpenSend, At
  <2>7. OpenSend(s) /\ app'["client"][s] = "gone" => s \notin streams'["client"]
    <3> SUFFICES ASSUME OpenSend(s), app'["client"][s] = "gone" PROVE s \notin streams'["client"]
      OBVIOUS
    <3>1. ~Goto("client", s, "up")
      BY <2>5
    <3>2. streams' = [streams EXCEPT !["client"] = @ \ {s}]
      BY <3>1 DEF OpenSend
    <3> QED BY <3>2, InvTypes DEF MuxTypeInv
  <2> QED BY <2>1, <2>2, <2>3, <2>4, <2>6, <2>7
<1>3. ASSUME NEW s \in Streams, Opening(s)'
      PROVE  s \in streams'["client"] \/ CloseInFlight("client", s)' \/ "client" \in spent'
  <2>1. CASE SendsOpen(s)
    BY <1>1, <1>2, <2>1
  <2>2. CASE Opening(s)
    <3>1. ~ReadsFrame("server", "CLOSE", s)
      BY <1>3, MapEffects
    <3>2. CloseInFlight("client", s) => CloseInFlight("client", s)'
      BY <3>1, OpenCloseMoves
    <3>3. CASE s \in streams["client"] /\ CloseFinish("client", s)
      <4>1. app["client"][s] = "sent"
        BY <3>3 DEF CloseFinish, At
      <4> QED BY <1>0, <2>2, <3>2, <4>1
    <3>4. ~ReadsFrame("client", "CLOSE", s)
      <4>1. ReadsFrame("client", "CLOSE", s) => CloseInFlight("server", s)
        BY MapEffects
      <4>2. CloseInFlight("server", s) => app["server"][s] # "none"
        BY <1>0
      <4> QED BY <1>1, <2>2, <4>1, <4>2
    <3> QED BY <1>0, <2>2, <3>2, <3>3, <3>4, OpenMapMoves
  <2> QED BY <1>3, <2>1, <2>2, OpenCloseMoves
<1>4. ASSUME NEW e \in Ends, NEW s \in Streams, s \in streams'[e], s \in shut'[e]
      PROVE  app'[e][s] \in {"closing", "sent"}
  <2>1. CASE s \in shut[e]
    <3>1. s \in streams[e]
      <4>1. ~(e = "client" /\ OpenStore(s))
        BY <1>1, <2>1, MapEffects
      <4>2. ~(e = "server" /\ ReadsFrame(e, "OPEN", s))
        BY <1>1, <2>1, MapEffects
      <4> QED BY <1>4, <4>1, <4>2, OpenMapMoves
    <3>2. app[e][s] \in {"closing", "sent"} /\ ~CloseFinish(e, s)
      BY <1>0, <1>4, <2>1, <3>1, MapEffects
    <3> QED BY <3>2, ClosingForward
  <2>2. CASE s \notin shut[e]
    <3>1. CloseStream(e, s) /\ Goto(e, s, "closing")
      BY <1>4, <2>2, MapMoves
    <3> QED BY <3>1, InvTypes DEF Goto, ProgTypeInv
  <2> QED BY <2>1, <2>2
<1>5. ASSUME NEW e \in Ends, NEW s \in Streams, s \in streams'[e], s \notin streams'[Peer(e)]
      PROVE  \/ e = "client" /\ (app'[e][s] = "stored" \/ Opening(s)')
             \/ CloseInFlight(Peer(e), s)' \/ app'[e][s] = "sent" \/ Peer(e) \in spent'
  <2>1. ~CloseFinish(e, s) /\ ~ReadsFrame(e, "CLOSE", s) /\ ~ReadsFrame(Peer(e), "OPEN", s)
    BY <1>5, MapEffects
  <2>2. CloseInFlight(Peer(e), s) => CloseInFlight(Peer(e), s)'
    BY <2>1, OpenCloseMoves
  <2>3. app[e][s] = "sent" => app'[e][s] = "sent"
    BY <2>1, ClosingForward
  <2>4. CASE s \in streams[e] /\ s \notin streams[Peer(e)]
    <3>1. e = "client" /\ app[e][s] = "stored" => app'[e][s] = "stored" \/ Opening(s)'
      <4>1. ~(e = "client" /\ OpenSend(s) /\ app'[e][s] = "gone")
        BY <1>2, <1>5
      <4> QED BY <1>2, <4>1, AppMoves
    <3>2. e = "client" /\ Opening(s) => Opening(s)'
      BY <2>1, OpenCloseMoves
    <3> QED BY <1>0, <2>2, <2>3, <2>4, <3>1, <3>2
  <2>5. CASE s \notin streams[e]
    <3>1. CASE e = "client" /\ OpenStore(s)
      BY <3>1, MapEffects
    <3>2. CASE e = "server" /\ ReadsFrame(e, "OPEN", s)
      <4>1. s \notin streams["client"] /\ Opening(s)
        BY <1>5, <3>2, MapEffects
      <4>2. CloseInFlight("client", s) \/ "client" \in spent'
        BY <1>0, <4>1
      <4> QED BY <2>2, <3>2, <4>2
    <3> QED BY <1>5, <2>5, <3>1, <3>2, OpenMapMoves
  <2>6. CASE s \in streams[e] /\ s \in streams[Peer(e)]
    <3>1. CASE CloseFinish(Peer(e), s)
      <4>1. app[Peer(e)][s] = "sent"
        BY <3>1 DEF CloseFinish, At
      <4>2. CloseInFlight(Peer(e), s) \/ Peer(e) \in spent'
        BY <1>0, <2>6, <4>1
      <4> QED BY <2>2, <4>2
    <3>2. CASE ReadsFrame(Peer(e), "CLOSE", s)
      <4>1. CloseInFlight(e, s)
        BY <3>2, MapEffects
      <4>2. app[e][s] = "sent"
        BY <1>0, <2>6, <4>1
      <4> QED BY <2>3, <4>2
    <3> QED BY <1>5, <2>6, <3>1, <3>2, OpenMapMoves
  <2> QED BY <2>4, <2>5, <2>6
<1>6. ASSUME NEW e \in Ends, NEW s \in Streams, app'[e][s] = "gone"
      PROVE  s \notin streams'[e]
  <2>1. CASE app[e][s] = "gone"
    <3>1. ~(e = "client" /\ OpenStore(s))
      BY <2>1, MapEffects
    <3>2. ~(e = "server" /\ ReadsFrame(e, "OPEN", s))
      BY <1>1, <2>1, MapEffects
    <3> QED BY <1>0, <2>1, <3>1, <3>2, OpenMapMoves
  <2>2. CASE CloseStream(e, s) /\ app[e][s] = "up" /\ s \in shut[e]
    <3>1. s \notin streams[e]
      BY <1>0, <2>2
    <3> QED BY <2>2, <3>1, MapEffects
  <2>3. CASE CloseFinish(e, s)
    BY <2>3, MapEffects
  <2>4. CASE e = "client" /\ OpenSend(s)
    BY <1>2, <1>6, <2>4
  <2> QED BY <1>6, <2>1, <2>2, <2>3, <2>4, AppMoves
<1>7. ASSUME NEW e \in Ends, NEW s \in Streams, CloseInFlight(e, s)'
      PROVE  app'[e][s] \in {"sent", "gone"}
  <2>1. CASE CloseInFlight(e, s)
    <3>1. app[e][s] \in {"sent", "gone"}
      BY <1>0, <2>1
    <3> QED BY <3>1, ClosingForward
  <2>2. CASE SendsClose(e, s)
    BY <1>2, <2>2 DEF SendsClose
  <2> QED BY <1>7, <2>1, <2>2, OpenCloseMoves
<1>8. ASSUME NEW e \in Ends, NEW s \in Streams, app'[e][s] = "sent"
      PROVE  \/ CloseInFlight(e, s)' \/ e \in spent'
             \/ s \notin streams'[Peer(e)] /\ ~(e = "client" /\ Opening(s)')
  <2>1. CASE CloseSend(e, s)
    BY <1>2, <2>1
  <2>2. CASE app[e][s] = "sent"
    <3>1. CASE ReadsFrame(Peer(e), "CLOSE", s)
      <4>1. s \notin streams'[Peer(e)] /\ ~(Peer(e) = "server" /\ Opening(s)')
        BY <3>1, MapEffects
      <4> QED BY <4>1
    <3>2. CASE CloseInFlight(e, s) /\ ~ReadsFrame(Peer(e), "CLOSE", s)
      BY <3>2, OpenCloseMoves
    <3>3. CASE s \notin streams[Peer(e)] /\ ~(e = "client" /\ Opening(s))
      <4>1. ~(Peer(e) = "client" /\ OpenStore(s))
        <5>1. OpenStore(s) => app["server"][s] = "none"
          BY <1>1, MapEffects DEF Unbegun
        <5> QED BY <2>2, <5>1 DEF Ends, Peer
      <4>2. ~(Peer(e) = "server" /\ ReadsFrame(Peer(e), "OPEN", s))
        BY <3>3, MapEffects DEF Ends, Peer
      <4>3. s \notin streams'[Peer(e)]
        BY <3>3, <4>1, <4>2, OpenMapMoves
      <4>4. ~(e = "client" /\ Opening(s)')
        BY <1>2, <2>2, <3>3, OpenCloseMoves
      <4> QED BY <4>3, <4>4
    <3> QED BY <1>0, <2>2, <3>1, <3>2, <3>3
  <2> QED BY <1>8, <2>1, <2>2, AppMoves
<1> QED BY <1>3, <1>4, <1>5, <1>6, <1>7, <1>8

---------------------------------------------------------------------------
(* Theorems.                                                               *)

LEMMA InvKept ==
    ASSUME Inv, [Next]_vars
    PROVE  Inv'
<1>1. TypeInv'
  BY InvTypes, TypesKept
<1> QED BY <1>1, WireInvStep, UnbegunInvStep, UnopenedInvStep, UnstoredInvStep, QueueInvStep,
           ReachInvStep, OrderInvStep, MapInvStep DEF Inv

THEOREM InvHolds == Spec => []Inv
<1>1. Inv /\ [Next]_vars => Inv'
  BY InvKept
<1> QED BY <1>1, InvAtStart, PTL DEF Spec

\* Close and the peer's CLOSE find every stream that somebody may still be
\* reading: it is in the map, or its reader has been told of the end.
THEOREM ReadersReachable == Spec => []ReadersAreReachable
<1>1. Inv => ReadersAreReachable
  BY DEF Inv, ReachInv, ReadersAreReachable
<1> QED BY <1>1, InvHolds, PTL

\* Whatever streams are opened and closed, at both ends and at once, no end whose
\* key is not used up leaves a stream behind at the other, once nothing is in
\* flight. (Stream.Close ignores that a used-up key kept its CLOSE back.)
THEOREM MapsInAgreement == Spec => []MapsAgree
<1>1. Inv => MapsAgree
  <2> SUFFICES ASSUME Inv, Quiet, NEW e \in Ends
               PROVE  /\ e \notin spent => streams[Peer(e)] \subseteq streams[e]
                      /\ streams[e] \cap shut[e] = {}
    BY DEF MapsAgree
  <2> USE EndsPeer
  <2>1. \A d \in Ends : muxPc[d] = "open" /\ wire[d] = <<>>
    BY DEF Quiet
  <2>2. \A d \in Ends, s \in Streams : app[d][s] \notin {"stored", "closing", "sent"}
    BY DEF Quiet
  <2>3. \A f : ~Contains(<<>>, f)
    BY DEF Contains
  <2>4. \A s \in Streams : ~Opening(s) /\ \A d \in Ends : ~CloseInFlight(d, s)
    BY <2>1, <2>3 DEF Opening, CloseInFlight
  <2>5. ASSUME NEW d \in Ends, NEW s \in Streams
        PROVE  /\ ~(s \in streams[d] /\ s \in shut[d])
               /\ s \in streams[d] => s \in streams[Peer(d)] \/ Peer(d) \in spent
    BY <2>1, <2>2, <2>4 DEF Inv, MapInv
  <2>6. streams[e] \subseteq Streams /\ streams[Peer(e)] \subseteq Streams
    BY InvTypes DEF MuxTypeInv
  <2>7. ASSUME e \notin spent
        PROVE  streams[Peer(e)] \subseteq streams[e]
    BY <2>5, <2>6, <2>7
  <2>8. streams[e] \cap shut[e] = {}
    BY <2>5, <2>6
  <2> QED BY <2>7, <2>8
<1> QED BY <1>1, InvHolds, PTL

LEMMA DeliversInOrder ==
    ASSUME Inv, [Next]_vars, NEW e \in Ends, NEW s \in Streams, muxPc[Peer(e)] = "open"
    PROVE  Direction(e, s)!Next \/ UNCHANGED Direction(e, s)!vars
<1> USE EndsPeer
<1> DEFINE p == Peer(e)
<1>0. /\ sent \in [Ends -> [Streams -> 0..MaxChunks]]
      /\ delivered \in [Ends -> [Streams -> Seq(1..MaxChunks)]]
      /\ loop \in [Ends -> [pc : {"recv", "accept", "push", "pong", "stopped"}, frame : Frames]]
  BY InvTypes DEF SentTypeInv, ReadTypeInv, LoopTypeInv
<1>1. CASE LoopPush(p)
  <2>1. sent'[e][s] = sent[e][s]
    BY <1>1 DEF LoopPush
  <2>2. CASE Pushing(p, s) /\ delivered' = [delivered EXCEPT ![p][s] = Append(@, loop[p].frame.n)]
    <3>1. loop[p].frame.n = Len(delivered[p][s]) + 1 /\ loop[p].frame.n <= sent[e][s]
      BY <2>2 DEF Inv, OrderInv, WireInv
    <3>2. Len(delivered[p][s]) \in Nat /\ sent[e][s] \in Nat
      BY <1>0, InvTypes
    <3>3. Len(delivered[p][s]) < sent[e][s]
      BY <3>1, <3>2
    <3>4. delivered'[p][s] = Append(delivered[p][s], Len(delivered[p][s]) + 1)
      BY <1>0, <2>2, <3>1
    <3>5. Direction(e, s)!Deliver
      BY <2>1, <3>3, <3>4 DEF Direction!Deliver
    <3> QED BY <3>5 DEF Direction!Next
  <2>3. CASE delivered'[p][s] = delivered[p][s]
    BY <2>1, <2>3 DEF Direction!vars
  <2>4. \/ Pushing(p, s) /\ delivered' = [delivered EXCEPT ![p][s] = Append(@, loop[p].frame.n)]
        \/ delivered'[p][s] = delivered[p][s]
    <3>1. CASE loop[p].frame.s = s
      BY <1>1, <3>1 DEF LoopPush, Pushing
    <3>2. CASE loop[p].frame.s # s
      <4>1. \/ delivered' = delivered
            \/ delivered' = [delivered EXCEPT ![p][loop[p].frame.s] = Append(@, loop[p].frame.n)]
        BY <1>1 DEF LoopPush
      <4>2. ASSUME delivered' = delivered
            PROVE  delivered'[p][s] = delivered[p][s]
        BY <4>2
      <4>3. ASSUME delivered' = [delivered EXCEPT ![p][loop[p].frame.s] = Append(@, loop[p].frame.n)]
            PROVE  delivered'[p][s] = delivered[p][s]
        BY <1>0, <3>2, <4>3
      <4>4. delivered'[p][s] = delivered[p][s]
        BY <4>1, <4>2, <4>3, Zenon
      <4> QED BY <4>4, Zenon
    <3> QED BY <3>1, <3>2
  <2> QED BY <2>2, <2>3, <2>4
<1>2. CASE ~LoopPush(p)
  <2>1. delivered'[p][s] = delivered[p][s]
    <3>1. ASSUME NEW d \in Ends, LoopPush(d),
                 delivered' = [delivered EXCEPT ![d][loop[d].frame.s] = Append(@, loop[d].frame.n)]
          PROVE  delivered'[p][s] = delivered[p][s]
      <4>1. d # p
        BY <1>2, <3>1
      <4> QED BY <1>0, <3>1, <4>1
    <3> QED BY <3>1, DeliveredMoves, InvTypes
  <2>2. sent'[e][s] = sent[e][s] \/ sent'[e][s] = sent[e][s] + 1
    <3>1. ASSUME NEW d \in Ends, NEW r \in Streams, sent' = [sent EXCEPT ![d][r] = @ + 1]
          PROVE  sent'[e][s] = sent[e][s] \/ sent'[e][s] = sent[e][s] + 1
      BY <1>0, <3>1
    <3> QED BY <3>1, SentMoves, InvTypes
  <2>3. Direction(e, s)!Write \/ UNCHANGED Direction(e, s)!vars
    BY <2>1, <2>2 DEF Direction!Write, Direction!vars
  <2> QED BY <2>3 DEF Direction!Next
<1> QED BY <1>1, <1>2

\* Every direction of every stream implements ReliableStream while the mux
\* that receives it is open: nothing is lost, duplicated or reordered,
\* whatever else shares the connection and however full the channels are.
THEOREM MuxStreamsAreReliable == Spec => StreamsAreReliable
<1> DEFINE KeepsOrder == \A e \in Ends, s \in Streams :
                          muxPc[Peer(e)] = "open" =>
                              Direction(e, s)!Next \/ UNCHANGED Direction(e, s)!vars
<1>1. Init => \A e \in Ends, s \in Streams : Direction(e, s)!Init
  BY EndsPeer DEF Init, Direction!Init
<1>2. Inv /\ [Next]_vars => [KeepsOrder]_vars
  BY DeliversInOrder
<1>3. Spec => [][KeepsOrder]_vars
  BY <1>2, InvHolds, PTL DEF Spec
<1> QED BY <1>1, <1>3 DEF StreamsAreReliable, Spec
=============================================================================
