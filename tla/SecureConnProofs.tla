--------------------------- MODULE SecureConnProofs ---------------------------
(***************************************************************************)
(* Proofs about SecureConn, for key limits, packet sizes, capacities and   *)
(* widths of the packet number as large as one likes.                      *)
(***************************************************************************)
EXTENDS SecureConn, TLAPS

Sent == [type : {"DATA", "PADDING"}, seq : Numbers, data : 0..MaxData, size : Sizes]

\* NextSeq stays within the width, and does not wrap before it must.
LEMMA NextIsNumber ==
    ASSUME seq \in Numbers
    PROVE  /\ NextSeq \in Numbers /\ NextSeq <= seq + 1
           /\ seq + 1 < SeqMod => NextSeq = seq + 1
  BY ConstantsOK DEF NextSeq, Numbers

\* sendRaw counts its packet, and writes it or nothing; what it writes is within
\* the limit.
LEMMA RawSends ==
    ASSUME TypeOK, NEW type \in {"DATA", "PADDING"}, NEW n \in Numbers, NEW data \in 0..MaxData,
           SendRaw(type, n, data)
    PROVE  /\ sendCount' = sendCount + 1 /\ sendBytes' \in Nat
           /\ \/ wire' = wire
              \/ /\ sendCount < MsgLimit /\ Len(wire) < WireCap
                 /\ \E p \in Sent : p.type = type /\ p.seq = n /\ wire' = Append(wire, p)
<1>1. PICK size \in Sizes :
        /\ sendCount' = sendCount + 1 /\ sendBytes' = sendBytes + size
        /\ IF KeyUsedUp(sendCount', sendBytes')
           THEN UNCHANGED wire
           ELSE /\ Len(wire) < WireCap
                /\ wire' = Append(wire, [type |-> type, seq |-> n, data |-> data, size |-> size])
  BY DEF SendRaw
<1>2. sendBytes' \in Nat /\ sendCount \in Nat
  BY <1>1, ConstantsOK DEF TypeOK
<1>3. CASE KeyUsedUp(sendCount', sendBytes')
  BY <1>1, <1>2, <1>3
<1>4. CASE ~KeyUsedUp(sendCount', sendBytes')
  <2> DEFINE p == [type |-> type, seq |-> n, data |-> data, size |-> size]
  <2>1. p \in Sent /\ p.type = type /\ p.seq = n
    BY DEF Sent
  <2>2. wire' = Append(wire, p) /\ Len(wire) < WireCap
    BY <1>1, <1>4
  <2>3. sendCount < MsgLimit
    BY <1>1, <1>2, <1>4, ConstantsOK DEF KeyUsedUp
  <2> QED BY <1>1, <1>2, <2>1, <2>2, <2>3
<1> QED BY <1>3, <1>4

\* The wire keeps its type when sendRaw is called.
LEMMA RawKeepsWire ==
    ASSUME TypeOK, NEW type \in {"DATA", "PADDING"}, NEW n \in Numbers, NEW data \in 0..MaxData,
           SendRaw(type, n, data)
    PROVE  wire' \in Seq(Sent) /\ Len(wire') <= WireCap /\ sendCount' \in Nat /\ sendBytes' \in Nat
<1>1. wire \in Seq(Sent) /\ Len(wire) <= WireCap /\ sendCount \in Nat
  BY DEF TypeOK, Sent
<1>2. sendCount' \in Nat /\ sendBytes' \in Nat
  BY <1>1, RawSends
<1>3. CASE wire' = wire
  BY <1>1, <1>2, <1>3
<1>4. ASSUME Len(wire) < WireCap, NEW p \in Sent, wire' = Append(wire, p)
      PROVE  wire' \in Seq(Sent) /\ Len(wire') <= WireCap
  <2>1. Append(wire, p) \in Seq(Sent) /\ Len(Append(wire, p)) = Len(wire) + 1 /\ Len(wire) \in Nat
    BY <1>1
  <2> QED BY <1>4, <2>1, ConstantsOK
<1> QED BY <1>2, <1>3, <1>4, RawSends

---------------------------------------------------------------------------
\* The receiver never counts more messages than were written, and no more
\* than the limit are written.
CountInv ==
    /\ recvCount + Len(wire) <= sendCount
    /\ recvCount + Len(wire) <= MsgLimit
    /\ link = "exhausted" => recvBytes > ByteLimit

\* What is sent takes part in both counts.
LEMMA RawKeepsCount ==
    ASSUME TypeOK, CountInv, UNCHANGED receiving,
           NEW type \in {"DATA", "PADDING"}, NEW n \in Numbers, NEW data \in 0..MaxData,
           SendRaw(type, n, data)
    PROVE  CountInv'
<1>1. /\ wire \in Seq(Sent) /\ sendCount \in Nat /\ recvCount \in Nat /\ Len(wire) \in Nat
      /\ MsgLimit \in Nat
  BY ConstantsOK DEF TypeOK, Sent
<1>2. UNCHANGED <<recvCount, recvBytes, link>>
  BY DEF receiving
<1>3. sendCount' = sendCount + 1
  BY RawSends
<1>4. CASE wire' = wire
  BY <1>1, <1>2, <1>3, <1>4 DEF CountInv
<1>5. CASE sendCount < MsgLimit /\ \E p \in Sent : wire' = Append(wire, p)
  <2>1. Len(wire') = Len(wire) + 1
    BY <1>1, <1>5
  <2> QED BY <1>1, <1>2, <1>3, <1>5, <2>1 DEF CountInv
<1> QED BY <1>4, <1>5, RawSends

\* What is taken from a queue, and what stays, is of the queue's type.
LEMMA Taken ==
    ASSUME NEW S, NEW q \in Seq(S), q # <<>>
    PROVE  Head(q) \in S /\ Tail(q) \in Seq(S)
  OBVIOUS

\* The head of the wire leaves it.
LEMMA HeadLeaves ==
    ASSUME TypeOK, wire # <<>>
    PROVE  /\ Head(wire) \in Sent /\ Tail(wire) \in Seq(Sent)
           /\ Len(Tail(wire)) = Len(wire) - 1 /\ Len(wire) \in Nat \ {0}
           /\ wire[1] = Head(wire)
           /\ \A i \in 1..Len(Tail(wire)) : Tail(wire)[i] = wire[i + 1]
<1>1. wire \in Seq(Sent)
  BY DEF TypeOK, Sent
<1>2. Len(wire) \in Nat \ {0}
  BY <1>1
<1>3. Tail(wire) \in Seq(Sent) /\ Len(Tail(wire)) = Len(wire) - 1
  BY <1>1, <1>2
<1>4. Head(wire) = wire[1] /\ wire[1] \in Sent
  BY <1>1, <1>2
<1>5. \A i \in 1..Len(Tail(wire)) : Tail(wire)[i] = wire[i + 1]
  BY <1>1, <1>2
<1> QED BY <1>2, <1>3, <1>4, <1>5

LEMMA CountStep ==
    ASSUME TypeOK, CountInv, [Next]_vars
    PROVE  CountInv'
<1>1. CASE Send
  <2>1. NextSeq \in Numbers /\ given' \in 0..MaxData
    BY <1>1, NextIsNumber, ConstantsOK DEF Send, TypeOK
  <2>2. SendRaw("DATA", NextSeq, given')
    BY <1>1 DEF Send
  <2> QED BY <1>1, <2>1, <2>2, RawKeepsCount DEF Send
<1>2. CASE SendPadding
  <2>1. 0 \in Numbers /\ None \in 0..MaxData
    BY ConstantsOK DEF Numbers, None
  <2> QED BY <1>2, <2>1, RawKeepsCount DEF SendPadding
<1>3. ASSUME NEW t \in Tasks, SendPacket(t)
      PROVE  CountInv'
  <2>1. task[t].seq \in Numbers /\ task[t].data \in 0..MaxData
    BY DEF TypeOK
  <2> DEFINE type == IF t = "idle" THEN "PADDING" ELSE "DATA"
  <2>2. type \in {"DATA", "PADDING"} /\ SendRaw(type, task[t].seq, task[t].data)
    BY <1>3 DEF SendPacket
  <2>3. UNCHANGED receiving
    BY <1>3 DEF SendPacket
  <2> HIDE DEF type
  <2> QED BY <2>1, <2>2, <2>3, RawKeepsCount
<1>4. CASE RecvPacket
  <2>1. /\ wire # <<>> /\ wire' = Tail(wire) /\ recvCount' = recvCount + 1
        /\ UNCHANGED sendCount
        /\ link' = "exhausted" => KeyUsedUp(recvCount', recvBytes')
    BY <1>4 DEF RecvPacket
  <2>2. recvCount \in Nat /\ sendCount \in Nat /\ MsgLimit \in Nat
    BY ConstantsOK DEF TypeOK
  <2>3. recvCount' + Len(wire') = recvCount + Len(wire)
    BY <2>1, <2>2, HeadLeaves
  <2>4. recvCount' <= MsgLimit
    BY <2>1, <2>2, <2>3, HeadLeaves DEF CountInv
  <2> QED BY <2>1, <2>2, <2>3, <2>4 DEF CountInv, KeyUsedUp
<1>5. CASE \/ RelaySend \/ LoopTake \/ UNCHANGED vars
           \/ \E t \in Tasks : Number(t)
  BY <1>5 DEF RelaySend, LoopTake, Number, vars, sent, receiving, CountInv
<1> QED BY <1>1, <1>2, <1>3, <1>4, <1>5 DEF Next

---------------------------------------------------------------------------
\* What sending leaves alone keeps its type.
LEMMA RawKeepsType ==
    ASSUME TypeOK, UNCHANGED <<setting, queue, receiving>>,
           seq' \in Numbers, given' \in 0..MaxData,
           task' \in [Tasks -> [pc : {"free", "shaped", "numbered"}, data : 0..MaxData, seq : Numbers]],
           NEW type \in {"DATA", "PADDING"}, NEW n \in Numbers, NEW data \in 0..MaxData,
           SendRaw(type, n, data)
    PROVE  TypeOK'
  BY RawKeepsWire DEF TypeOK, receiving, Sent, Numbers

\* Packets, goroutines and counters keep their types; the receiver counts no more
\* messages than its limit (CountInv).
LEMMA TypeStep ==
    ASSUME TypeOK, CountInv, [Next]_vars
    PROVE  TypeOK'
<1> DEFINE Task == [pc : {"free", "shaped", "numbered"}, data : 0..MaxData, seq : Numbers]
<1>0. 0 \in Numbers /\ 0 \in 0..MaxData /\ Free \in Task
  BY ConstantsOK DEF Numbers, Free, None
<1>1. CASE Send
  <2>1. NextSeq \in Numbers /\ given' \in 0..MaxData
    BY <1>1, NextIsNumber, ConstantsOK DEF Send, TypeOK
  <2>2. SendRaw("DATA", NextSeq, given') /\ seq' = NextSeq
    BY <1>1 DEF Send
  <2>3. UNCHANGED <<setting, queue, task, receiving>>
    BY <1>1 DEF Send
  <2>4. task' \in [Tasks -> Task]
    BY <2>3 DEF TypeOK
  <2> QED BY <2>1, <2>2, <2>3, <2>4, RawKeepsType
<1>2. CASE SendPadding
  <2>1. SendRaw("PADDING", 0, None) /\ None = 0
    BY <1>2 DEF SendPadding, None
  <2>2. UNCHANGED <<setting, seq, given, queue, task, receiving>>
    BY <1>2 DEF SendPadding
  <2>3. seq' \in Numbers /\ given' \in 0..MaxData /\ task' \in [Tasks -> Task]
    BY <2>2 DEF TypeOK
  <2> QED BY <1>0, <2>1, <2>2, <2>3, RawKeepsType
<1>3. CASE RelaySend
  <2>1. given' \in 1..MaxData
    BY <1>3, ConstantsOK DEF RelaySend, TypeOK
  <2>2. /\ queue' \in Seq(1..MaxData) /\ Len(queue') <= setting.queueCap
    <3>1. setting.queueCap \in Nat /\ queue \in Seq(1..MaxData) /\ Len(queue) <= setting.queueCap
      BY ConstantsOK DEF TypeOK
    <3>2. CASE queue' = Append(queue, given') /\ Len(queue) < setting.queueCap
      BY <2>1, <3>1, <3>2
    <3>3. CASE queue' = queue
      BY <3>1, <3>3
    <3> QED BY <1>3, <3>2, <3>3 DEF RelaySend
  <2>3. task' \in [Tasks -> Task]
    BY <1>0, <1>3, <2>1, SMTT(30) DEF RelaySend, Goto, TypeOK
  <2> QED BY <1>3, <2>1, <2>2, <2>3, SMTT(30) DEF RelaySend, TypeOK, sent, receiving, Numbers
<1>4. CASE LoopTake
  <2>1. /\ queue' \in Seq(1..MaxData) /\ Head(queue) \in 1..MaxData
        /\ Len(queue') <= setting.queueCap
    <3>1. setting.queueCap \in Nat /\ queue \in Seq(1..MaxData) /\ Len(queue) <= setting.queueCap
      BY ConstantsOK DEF TypeOK
    <3>2. queue # <<>> /\ queue' = Tail(queue)
      BY <1>4 DEF LoopTake
    <3>3. Len(queue) \in Nat \ {0} /\ Len(Tail(queue)) = Len(queue) - 1
      BY <3>1, <3>2
    <3>4. Head(queue) \in 1..MaxData /\ Tail(queue) \in Seq(1..MaxData)
      BY <3>1, <3>2, Taken
    <3> QED BY <3>1, <3>2, <3>3, <3>4
  <2>2. task' \in [Tasks -> Task]
    <3>1. task' = [task EXCEPT !["loop"] = [pc |-> "shaped", data |-> Head(queue), seq |-> 0]]
      BY <1>4 DEF LoopTake, Goto
    <3>2. [pc |-> "shaped", data |-> Head(queue), seq |-> 0] \in Task
      BY <1>0, <2>1
    <3> QED BY <3>1, <3>2 DEF TypeOK
  <2> QED BY <1>4, <2>1, <2>2 DEF LoopTake, TypeOK, sent, receiving, Numbers
<1>5. ASSUME NEW t \in Tasks, Number(t)
      PROVE  TypeOK'
  <2>1. seq' = NextSeq /\ NextSeq \in Numbers
    BY <1>5, NextIsNumber DEF Number, TypeOK
  <2>2. given' \in 0..MaxData
    BY <1>5, ConstantsOK DEF Number, TypeOK
  <2>3. task' \in [Tasks -> Task]
    <3>1. PICK data \in 0..MaxData :
              task' = [task EXCEPT ![t] = [pc |-> "numbered", data |-> data, seq |-> NextSeq]]
      <4>1. task[t].data \in 0..MaxData
        BY DEF TypeOK
      <4> QED BY <1>0, <1>5, <2>2, <4>1 DEF Number, Goto, None
    <3>2. [pc |-> "numbered", data |-> data, seq |-> NextSeq] \in Task
      BY <2>1
    <3> QED BY <3>1, <3>2 DEF TypeOK
  <2> QED BY <1>5, <2>1, <2>2, <2>3 DEF Number, TypeOK, sent, receiving, Numbers
<1>6. ASSUME NEW t \in Tasks, SendPacket(t)
      PROVE  TypeOK'
  <2>1. task[t].seq \in Numbers /\ task[t].data \in 0..MaxData
    BY DEF TypeOK
  <2> DEFINE type == IF t = "idle" THEN "PADDING" ELSE "DATA"
  <2>2. type \in {"DATA", "PADDING"} /\ SendRaw(type, task[t].seq, task[t].data)
    BY <1>6 DEF SendPacket
  <2>3. UNCHANGED <<setting, seq, given, queue, receiving>>
    BY <1>6 DEF SendPacket
  <2>4. seq' \in Numbers /\ given' \in 0..MaxData
    BY <2>3 DEF TypeOK
  <2>5. task' \in [Tasks -> Task]
    BY <1>0, <1>6 DEF SendPacket, TypeOK
  <2> HIDE DEF type
  <2> QED BY <2>1, <2>2, <2>3, <2>4, <2>5, RawKeepsType
<1>7. CASE RecvPacket
  <2> DEFINE pkt == Head(wire)
  <2>1. /\ wire # <<>> /\ link = "up" /\ wire' = Tail(wire)
        /\ recvCount' = recvCount + 1
        /\ recvBytes' = recvBytes + pkt.size + Overhead
        /\ link' \in {"up", "replay", "exhausted"}
        /\ lastRecvSeq' \in {pkt.seq, lastRecvSeq}
        /\ \/ received' = received
           \/ pkt.type = "DATA" /\ received' = Append(received, pkt.data)
        /\ UNCHANGED <<setting, sending, sendCount, sendBytes>>
    BY <1>7 DEF RecvPacket
  <2>2. pkt \in Sent /\ Tail(wire) \in Seq(Sent) /\ Len(Tail(wire)) <= WireCap
    BY <2>1, HeadLeaves, ConstantsOK DEF TypeOK
  <2>3. recvCount' \in 0..(MsgLimit + 1)
    BY <2>1, HeadLeaves, ConstantsOK DEF TypeOK, CountInv
  <2>4. recvBytes' \in Nat /\ lastRecvSeq' \in Numbers
    <3>1. pkt.size \in Nat /\ pkt.seq \in Numbers
      BY <2>2, ConstantsOK DEF Sent
    <3>2. recvBytes \in Nat /\ lastRecvSeq \in Numbers /\ Overhead \in Nat
      BY ConstantsOK DEF TypeOK
    <3>3. recvBytes' \in Nat
      BY <2>1, <3>1, <3>2
    <3> QED BY <2>1, <3>1, <3>2, <3>3
  <2>5. received' \in Seq(0..MaxData)
    <3>1. pkt.data \in 0..MaxData
      BY <2>2 DEF Sent
    <3>2. received \in Seq(0..MaxData)
      BY DEF TypeOK
    <3>3. Append(received, pkt.data) \in Seq(0..MaxData)
      BY <3>1, <3>2
    <3> QED BY <2>1, <3>2, <3>3
  <2> QED BY <2>1, <2>2, <2>3, <2>4, <2>5 DEF TypeOK, sending, Sent, Numbers
<1>8. CASE UNCHANGED vars
  BY <1>8 DEF vars, sending, sent, receiving, TypeOK, Numbers
<1> QED BY <1>1, <1>2, <1>3, <1>4, <1>5, <1>6, <1>7, <1>8 DEF Next

---------------------------------------------------------------------------
\* The DATA packets on the wire are numbered upwards from last.
Ordered(w, last) ==
    /\ \A i, j \in 1..Len(w) :
          i < j /\ w[i].type = "DATA" /\ w[j].type = "DATA" => w[i].seq < w[j].seq
    /\ \A i \in 1..Len(w) : w[i].type = "DATA" => w[i].seq > last

Below(w, n) == \A i \in 1..Len(w) : w[i].type = "DATA" => w[i].seq < n

Numbered(t) == task[t].pc = "numbered"
Used(t) == IF Numbered(t) THEN 1 ELSE 0

\* With one goroutine that numbers data, and as long as anything can still be sent,
\* the last number is above all that are on their way. A number is taken for one
\* message each, so that numbers wrap no sooner than the key is used up.
NumberInv ==
    /\ \A t \in Tasks \ {"loop", "idle"} : task[t].pc = "free"
    /\ task["idle"].pc # "shaped"
    /\ setting.tasks \cap {"relay", "loop", "direct", "idle"} = {}
         => task["loop"].pc = "free" /\ task["idle"].pc = "free"
    /\ "relay" \in setting.tasks => Len(queue) <= given
    /\ sendCount <= MsgLimit => seq <= sendCount + Used("loop") + Used("idle")
    /\ Ordered(wire, lastRecvSeq)
    /\ sendCount < MsgLimit =>
          /\ Below(wire, seq + 1) /\ lastRecvSeq <= seq
          /\ Numbered("loop") =>
                /\ task["loop"].seq <= seq
                /\ Below(wire, task["loop"].seq) /\ lastRecvSeq < task["loop"].seq
    /\ link # "replay"

\* A packet that is numbered above all others, or not checked, goes last.
LEMMA AppendKeeps ==
    ASSUME NEW w \in Seq(Sent), NEW last \in Nat, NEW p \in Sent, Ordered(w, last),
           p.type = "DATA" => Below(w, p.seq) /\ last < p.seq
    PROVE  /\ Ordered(Append(w, p), last)
           /\ \A n \in Nat : Below(w, n) /\ (p.type = "DATA" => p.seq < n) => Below(Append(w, p), n)
<1>1. Len(Append(w, p)) = Len(w) + 1 /\ Len(w) \in Nat
  OBVIOUS
<1>2. \A i \in 1..Len(w) : Append(w, p)[i] = w[i]
  OBVIOUS
<1>3. Append(w, p)[Len(w) + 1] = p
  OBVIOUS
<1> DEFINE v == Append(w, p)
<1>4. /\ Len(v) = Len(w) + 1 /\ v[Len(w) + 1] = p
      /\ \A i \in 1..Len(w) : v[i] = w[i]
  BY <1>1, <1>2, <1>3
<1> HIDE DEF v
<1>5. ASSUME NEW i \in 1..Len(v), NEW j \in 1..Len(v), i < j, v[i].type = "DATA", v[j].type = "DATA"
      PROVE  v[i].seq < v[j].seq
  <2>1. i \in 1..Len(w) /\ v[i] = w[i]
    BY <1>1, <1>4, <1>5
  <2>2. CASE j = Len(w) + 1
    BY <1>4, <1>5, <2>1, <2>2 DEF Below
  <2>3. CASE j # Len(w) + 1
    <3>1. j \in 1..Len(w) /\ v[j] = w[j]
      BY <1>1, <1>4, <2>3
    <3> QED BY <1>5, <2>1, <3>1 DEF Ordered
  <2> QED BY <2>2, <2>3
<1>6. ASSUME NEW i \in 1..Len(v), v[i].type = "DATA"
      PROVE  v[i].seq > last /\ \A n \in Nat : Below(w, n) /\ (p.type = "DATA" => p.seq < n)
                                                  => v[i].seq < n
  <2>0. p.seq \in Nat
    BY ConstantsOK DEF Sent, Numbers
  <2>1. CASE i = Len(w) + 1
    BY <1>4, <1>6, <2>0, <2>1
  <2>2. CASE i # Len(w) + 1
    <3>1. i \in 1..Len(w) /\ v[i] = w[i]
      BY <1>1, <1>4, <2>2
    <3> QED BY <1>6, <3>1 DEF Ordered, Below
  <2> QED BY <2>1, <2>2
<1>7. Ordered(v, last)
  BY <1>5, <1>6 DEF Ordered
<1>8. \A n \in Nat : Below(w, n) /\ (p.type = "DATA" => p.seq < n) => Below(v, n)
  BY <1>6 DEF Below
<1> QED BY <1>7, <1>8 DEF v

LEMMA BelowMore ==
    ASSUME NEW w \in Seq(Sent), NEW n \in Nat, NEW m \in Nat, n <= m, Below(w, n)
    PROVE  Below(w, m)
<1> SUFFICES ASSUME NEW i \in 1..Len(w), w[i].type = "DATA"
             PROVE  w[i].seq < m
  BY DEF Below
<1>1. w[i] \in Sent
  OBVIOUS
<1>2. w[i].seq \in Int
  BY <1>1, ConstantsOK DEF Sent, Numbers
<1> QED BY <1>2 DEF Below

\* The rest of the wire is in order above what is taken from it.
LEMMA TailKeeps ==
    ASSUME NEW w \in Seq(Sent), NEW last \in Nat, w # <<>>, Ordered(w, last)
    PROVE  /\ Head(w) \in Sent
           /\ Ordered(Tail(w), last)
           /\ Head(w).type = "DATA" => Head(w).seq > last /\ Ordered(Tail(w), Head(w).seq)
           /\ \A n \in Nat : Below(w, n) => /\ Below(Tail(w), n)
                                            /\ Head(w).type = "DATA" => Head(w).seq < n
<1>1. /\ Len(w) \in Nat \ {0} /\ Len(Tail(w)) = Len(w) - 1
      /\ Head(w) = w[1] /\ Head(w) \in Sent
  BY Taken
<1>2. \A i \in 1..Len(Tail(w)) : Tail(w)[i] = w[i + 1]
  OBVIOUS
<1> DEFINE v == Tail(w)
<1>3. \A i \in 1..Len(v) : v[i] = w[i + 1] /\ i + 1 \in 1..Len(w) /\ 1 < i + 1
  BY <1>1, <1>2
<1>4. Len(v) = Len(w) - 1 /\ 1 \in 1..Len(w)
  BY <1>1
<1> HIDE DEF v
<1>5. ASSUME NEW i \in 1..Len(v), NEW j \in 1..Len(v), i < j, v[i].type = "DATA", v[j].type = "DATA"
      PROVE  v[i].seq < v[j].seq
  <2>1. i + 1 < j + 1
    BY <1>1, <1>4, <1>5
  <2> QED BY <1>3, <1>5, <2>1 DEF Ordered
<1>6. ASSUME NEW i \in 1..Len(v), v[i].type = "DATA"
      PROVE  /\ v[i].seq > last
             /\ w[1].type = "DATA" => v[i].seq > w[1].seq
             /\ \A n \in Nat : Below(w, n) => v[i].seq < n
  <2>1. w[i + 1].seq > last /\ \A n \in Nat : Below(w, n) => w[i + 1].seq < n
    BY <1>3, <1>6 DEF Ordered, Below
  <2>2. w[1].type = "DATA" => w[1].seq < w[i + 1].seq
    BY <1>3, <1>4, <1>6 DEF Ordered
  <2>3. w[1].seq \in Int /\ w[i + 1].seq \in Int
    <3>1. w[1] \in Sent /\ w[i + 1] \in Sent
      BY <1>3, <1>4
    <3>2. \A p \in Sent : p.seq \in Numbers
      BY DEF Sent
    <3>3. w[1].seq \in Numbers /\ w[i + 1].seq \in Numbers
      BY <3>1, <3>2
    <3> HIDE DEF Ordered, Below
    <3> QED BY <3>3 DEF Numbers
  <2> QED BY <1>3, <2>1, <2>2, <2>3
<1>7. /\ Ordered(v, last)
      /\ w[1].type = "DATA" => Ordered(v, w[1].seq)
      /\ \A n \in Nat : Below(w, n) => Below(v, n)
  BY <1>5, <1>6 DEF Ordered, Below
<1>8. /\ w[1].type = "DATA" => w[1].seq > last
      /\ \A n \in Nat : Below(w, n) /\ w[1].type = "DATA" => w[1].seq < n
  BY <1>4 DEF Ordered, Below
<1> QED BY <1>1, <1>7, <1>8 DEF v

\* Each step keeps it, as long as one goroutine numbers data.
LEMMA NumberStep ==
    ASSUME TypeOK, CountInv, NumberInv, Alone, [Next]_vars
    PROVE  NumberInv'
<1>0. /\ seq \in Nat /\ seq < SeqMod /\ sendCount \in Nat /\ lastRecvSeq \in Nat
      /\ wire \in Seq(Sent) /\ MsgLimit \in Nat /\ SeqMod \in Nat /\ MsgLimit + 1 < SeqMod
      /\ \A t \in Tasks : task[t].seq \in Nat
      /\ task \in [Tasks -> [pc : {"free", "shaped", "numbered"}, data : 0..MaxData, seq : Numbers]]
      /\ "loop" \in Tasks /\ "idle" \in Tasks
      /\ Used("loop") \in {0, 1} /\ Used("idle") \in {0, 1}
  <2>1. /\ task \in [Tasks -> [pc : {"free", "shaped", "numbered"}, data : 0..MaxData, seq : Numbers]]
        /\ "loop" \in Tasks /\ "idle" \in Tasks
    BY DEF TypeOK, Tasks
  <2>2. \A t \in Tasks : task[t].seq \in Nat
    BY <2>1 DEF Numbers
  <2>3. /\ MsgLimit \in Nat /\ SeqMod \in Nat /\ MsgLimit + 1 < SeqMod
        /\ sendCount \in Nat /\ wire \in Seq(Sent) /\ seq \in Numbers /\ lastRecvSeq \in Numbers
    BY ConstantsOK DEF TypeOK, Sent
  <2>4. seq \in Nat /\ seq < SeqMod /\ lastRecvSeq \in Nat
    BY <2>3 DEF Numbers
  <2>5. Used("loop") \in {0, 1} /\ Used("idle") \in {0, 1}
    BY DEF Used
  <2> QED BY <2>1, <2>2, <2>3, <2>4, <2>5
<1>1. CASE Send
  <2>1. /\ SendRaw("DATA", NextSeq, given') /\ seq' = NextSeq
        /\ UNCHANGED <<setting, queue, task, lastRecvSeq, link>> /\ given' = given + 1
        /\ given' \in 0..MaxData /\ "frame" \in setting.tasks
    BY <1>1, ConstantsOK DEF Send, TypeOK, receiving
  <2>2. task["loop"].pc = "free" /\ task["idle"].pc = "free" /\ "relay" \notin setting.tasks
    BY <2>1 DEF Alone, NumberInv
  <2>3. NextSeq \in Numbers /\ NextSeq <= seq + 1 /\ (seq + 1 < SeqMod => NextSeq = seq + 1)
    BY <1>0, NextIsNumber DEF TypeOK
  <2>4. sendCount' = sendCount + 1
    BY <2>1, <2>3, RawSends
  <2>5. sendCount' <= MsgLimit => seq' <= sendCount' + Used("loop")' + Used("idle")'
    BY <1>0, <2>1, <2>2, <2>3, <2>4 DEF NumberInv, Used, Numbered, Numbers
  <2>6. sendCount < MsgLimit => seq' = seq + 1
    <3>1. sendCount < MsgLimit => seq <= sendCount
      BY <1>0, <2>2 DEF NumberInv, Used, Numbered
    <3> QED BY <1>0, <2>1, <2>3, <3>1
  <2>7. Ordered(wire', lastRecvSeq) /\ (sendCount < MsgLimit => Below(wire', seq' + 1))
    <3>1. CASE wire' = wire
      BY <1>0, <2>6, <3>1, BelowMore DEF NumberInv
    <3>2. ASSUME sendCount < MsgLimit, NEW p \in Sent, p.type = "DATA", p.seq = NextSeq,
                 wire' = Append(wire, p)
          PROVE  Ordered(wire', lastRecvSeq) /\ Below(wire', seq' + 1)
      <4>1. /\ Ordered(wire, lastRecvSeq) /\ Below(wire, p.seq) /\ lastRecvSeq < p.seq
            /\ p.seq = seq + 1 /\ seq' + 1 \in Nat /\ p.seq < seq' + 1
        BY <1>0, <2>1, <2>6, <3>2 DEF NumberInv
      <4>2. Below(wire, seq' + 1)
        BY <1>0, <4>1, BelowMore
      <4> QED BY <1>0, <3>2, <4>1, <4>2, AppendKeeps
    <3> QED BY <2>1, <2>3, <3>1, <3>2, RawSends
  <2>8. sendCount' < MsgLimit => Below(wire', seq' + 1) /\ lastRecvSeq' <= seq'
    BY <1>0, <2>1, <2>4, <2>6, <2>7 DEF NumberInv
  <2> QED BY <2>1, <2>2, <2>5, <2>7, <2>8 DEF NumberInv, Numbered
<1>2. CASE SendPadding
  <2>1. /\ SendRaw("PADDING", 0, 0) /\ UNCHANGED <<setting, seq, given, queue, task, lastRecvSeq, link>>
        /\ 0 \in Numbers /\ 0 \in 0..MaxData
    BY <1>2, ConstantsOK DEF SendPadding, receiving, None, Numbers
  <2>2. sendCount' = sendCount + 1
    BY <2>1, RawSends
  <2>3. Ordered(wire', lastRecvSeq) /\ \A n \in Nat : Below(wire, n) => Below(wire', n)
    <3>1. CASE wire' = wire
      BY <3>1 DEF NumberInv
    <3>2. ASSUME NEW p \in Sent, p.type = "PADDING", wire' = Append(wire, p)
          PROVE  Ordered(wire', lastRecvSeq) /\ \A n \in Nat : Below(wire, n) => Below(wire', n)
      <4>1. Ordered(wire, lastRecvSeq)
        BY DEF NumberInv
      <4> QED BY <1>0, <3>2, <4>1, AppendKeeps
    <3> QED BY <2>1, <3>1, <3>2, RawSends
  <2>4. Used("loop")' = Used("loop") /\ Used("idle")' = Used("idle")
    BY <2>1 DEF Used, Numbered
  <2> QED BY <1>0, <2>1, <2>2, <2>3, <2>4 DEF NumberInv, Numbered
<1>3. CASE RelaySend
  <2>1. "relay" \in setting.tasks /\ given < MaxData /\ setting.queueCap >= MaxData
    BY <1>3 DEF RelaySend, Alone
  <2>2. queue \in Seq(1..MaxData) /\ given \in Nat /\ setting.queueCap \in Nat /\ MaxData \in Nat
    BY ConstantsOK DEF TypeOK
  <2>3. Len(queue) < setting.queueCap
    BY <2>1, <2>2 DEF NumberInv
  <2>4. /\ given' = given + 1 /\ queue' = Append(queue, given')
        /\ UNCHANGED <<setting, seq, task, sendCount, wire, lastRecvSeq, link>>
    BY <1>3, <2>2, <2>3 DEF RelaySend, sent, receiving
  <2>5. Len(queue') <= given'
    BY <2>1, <2>2, <2>4 DEF NumberInv
  <2> QED BY <2>4, <2>5 DEF NumberInv, Used, Numbered
<1>4. CASE LoopTake
  <2>1. /\ "loop" \in setting.tasks /\ task["loop"] = Free /\ queue # <<>> /\ queue' = Tail(queue)
        /\ task' = [task EXCEPT !["loop"] = [pc |-> "shaped", data |-> Head(queue), seq |-> 0]]
        /\ UNCHANGED <<setting, seq, given, sendCount, wire, lastRecvSeq, link>>
    BY <1>4 DEF LoopTake, Goto, sent, receiving
  <2>2. "relay" \in setting.tasks => Len(queue') <= given
    <3>1. queue \in Seq(1..MaxData) /\ given \in Nat
      BY ConstantsOK DEF TypeOK
    <3> QED BY <2>1, <3>1 DEF NumberInv
  <2>3. \A t \in Tasks \ {"loop"} : task'[t] = task[t]
    BY <1>0, <2>1
  <2>4. task'["loop"].pc = "shaped" /\ task["loop"].pc = "free"
    BY <1>0, <2>1 DEF Free
  <2>5. Used("loop")' = Used("loop") /\ Used("idle")' = Used("idle") /\ ~Numbered("loop")'
    BY <1>0, <2>3, <2>4 DEF Used, Numbered
  <2> QED BY <1>0, <2>1, <2>2, <2>3, <2>4, <2>5 DEF NumberInv
<1>5. ASSUME NEW t \in Tasks, Number(t)
      PROVE  NumberInv'
  <2>1. /\ seq' = NextSeq /\ given' \in {given, given + 1} /\ t \in setting.tasks
        /\ UNCHANGED <<setting, queue, sendCount, wire, lastRecvSeq, link>>
        /\ \/ task[t].pc = "shaped" /\ given' = given
           \/ t = "direct"
           \/ t = "idle" /\ task[t] = Free
        /\ \E data \in {task[t].data, given', 0} :
              task' = [task EXCEPT ![t] = [pc |-> "numbered", data |-> data, seq |-> NextSeq]]
    BY <1>5 DEF Number, Goto, sent, receiving, None
  <2>2. t \in {"loop", "idle"} /\ task[t].pc # "numbered"
    <3>1. "direct" \notin setting.tasks
      BY DEF Alone
    <3> QED BY <2>1, <3>1 DEF NumberInv, Free
  <2>3. /\ \A u \in Tasks \ {t} : task'[u] = task[u]
        /\ task'[t].pc = "numbered" /\ task'[t].seq = NextSeq
    BY <1>0, <2>1
  <2>4. Used("loop")' + Used("idle")' = Used("loop") + Used("idle") + 1
    BY <1>0, <2>2, <2>3 DEF Used, Numbered
  <2>5. NextSeq \in Numbers /\ NextSeq <= seq + 1 /\ (seq + 1 < SeqMod => NextSeq = seq + 1)
    BY <1>0, NextIsNumber DEF TypeOK
  <2>6. sendCount' <= MsgLimit => seq' <= sendCount' + Used("loop")' + Used("idle")'
    <3>1. NextSeq \in Nat
      BY <2>5, ConstantsOK DEF Numbers
    <3>2. Used("loop")' \in {0, 1} /\ Used("idle")' \in {0, 1}
      BY DEF Used
    <3>3. sendCount <= MsgLimit => seq <= sendCount + Used("loop") + Used("idle")
      BY DEF NumberInv
    <3>4. seq' = NextSeq /\ sendCount' = sendCount
      BY <2>1
    <3>5. sendCount \in Nat /\ seq \in Nat /\ Used("loop") \in {0, 1} /\ Used("idle") \in {0, 1}
      BY <1>0
    <3>6. sendCount <= MsgLimit => NextSeq <= sendCount + (Used("loop") + Used("idle") + 1)
      BY <2>5, <3>1, <3>3, <3>5
    <3> QED BY <2>4, <3>2, <3>4, <3>5, <3>6
  <2>7. sendCount < MsgLimit => seq' = seq + 1
    <3>1. Used("loop") + Used("idle") <= 1
      BY <1>0, <2>2 DEF Used, Numbered
    <3>2. sendCount <= MsgLimit => seq <= sendCount + Used("loop") + Used("idle")
      BY DEF NumberInv
    <3>3. sendCount < MsgLimit => seq + 1 < SeqMod
      BY <1>0, <3>1, <3>2
    <3> QED BY <2>1, <2>5, <3>3
  <2>8. ASSUME sendCount' < MsgLimit
        PROVE  /\ Below(wire', seq' + 1) /\ lastRecvSeq' <= seq'
               /\ Numbered("loop")' =>
                     /\ task'["loop"].seq <= seq'
                     /\ Below(wire', task'["loop"].seq) /\ lastRecvSeq' < task'["loop"].seq
    <3>1. Below(wire, seq + 1) /\ lastRecvSeq <= seq /\ seq' = seq + 1
      BY <2>1, <2>7, <2>8 DEF NumberInv
    <3>2. Below(wire', seq' + 1) /\ lastRecvSeq' <= seq'
      BY <1>0, <2>1, <3>1, BelowMore
    <3>3. CASE t = "loop"
      BY <1>0, <2>1, <2>3, <3>1, <3>2, <3>3
    <3>4. CASE t = "idle"
      <4>1. task'["loop"] = task["loop"] /\ task["loop"].seq \in Nat
        BY <1>0, <2>3, <3>4
      <4> QED BY <1>0, <2>1, <2>8, <3>1, <3>2, <4>1 DEF NumberInv, Numbered
    <3> QED BY <2>2, <3>2, <3>3, <3>4
  <2>9. "relay" \in setting.tasks => Len(queue') <= given'
    <3>1. given \in Nat /\ Len(queue) \in Nat
      BY ConstantsOK DEF TypeOK
    <3> QED BY <2>1, <3>1 DEF NumberInv
  <2>10. /\ \A u \in Tasks \ {"loop", "idle"} : task'[u].pc = "free"
         /\ task'["idle"].pc # "shaped"
         /\ ~(setting.tasks \cap {"relay", "loop", "direct", "idle"} = {})
    BY <1>0, <2>1, <2>2, <2>3 DEF NumberInv
  <2> QED BY <2>1, <2>6, <2>8, <2>9, <2>10 DEF NumberInv
<1>6. ASSUME NEW t \in Tasks, SendPacket(t)
      PROVE  NumberInv'
  <2> DEFINE type == IF t = "idle" THEN "PADDING" ELSE "DATA"
  <2>1. /\ task[t].pc = "numbered" /\ SendRaw(type, task[t].seq, task[t].data)
        /\ task' = [task EXCEPT ![t] = Free]
        /\ UNCHANGED <<setting, seq, given, queue, lastRecvSeq, link>>
        /\ type \in {"DATA", "PADDING"} /\ task[t].seq \in Numbers /\ task[t].data \in 0..MaxData
    BY <1>0, <1>6 DEF SendPacket, receiving
  <2>2. t \in {"loop", "idle"}
    BY <2>1 DEF NumberInv
  <2>3. /\ \A u \in Tasks \ {t} : task'[u] = task[u]
        /\ task'[t].pc = "free"
    BY <1>0, <2>1 DEF Free
  <2>4. Used("loop")' + Used("idle")' + 1 = Used("loop") + Used("idle")
    BY <1>0, <2>1, <2>2, <2>3 DEF Used, Numbered
  <2>5. sendCount' = sendCount + 1
    BY <2>1, RawSends
  <2>6. sendCount' <= MsgLimit => seq' <= sendCount' + Used("loop")' + Used("idle")'
    BY <1>0, <2>1, <2>4, <2>5 DEF NumberInv, Used, Numbered
  <2>7. /\ Ordered(wire', lastRecvSeq)
        /\ sendCount < MsgLimit => Below(wire', seq + 1)
        /\ t = "idle" => \A n \in Nat : Below(wire, n) => Below(wire', n)
    <3>1. CASE wire' = wire
      BY <3>1 DEF NumberInv
    <3>2. ASSUME sendCount < MsgLimit, NEW p \in Sent, p.type = type, p.seq = task[t].seq,
                 wire' = Append(wire, p)
          PROVE  /\ Ordered(wire', lastRecvSeq) /\ Below(wire', seq + 1)
                 /\ t = "idle" => \A n \in Nat : Below(wire, n) => Below(wire', n)
      <4>1. Ordered(wire, lastRecvSeq) /\ Below(wire, seq + 1) /\ seq + 1 \in Nat
        BY <1>0, <3>2 DEF NumberInv
      <4>2. p.type = "DATA" => Below(wire, p.seq) /\ lastRecvSeq < p.seq /\ p.seq < seq + 1
        BY <1>0, <2>1, <2>2, <3>2, SMTT(30) DEF NumberInv, Numbered
      <4> QED BY <1>0, <3>2, <4>1, <4>2, AppendKeeps
    <3> HIDE DEF type
    <3> QED BY <2>1, <3>1, <3>2, RawSends
  <2>8. ASSUME sendCount' < MsgLimit
        PROVE  /\ Below(wire', seq' + 1) /\ lastRecvSeq' <= seq'
               /\ Numbered("loop")' =>
                     /\ task'["loop"].seq <= seq'
                     /\ Below(wire', task'["loop"].seq) /\ lastRecvSeq' < task'["loop"].seq
    <3>1. sendCount < MsgLimit
      BY <1>0, <2>5, <2>8
    <3>2. CASE t = "loop"
      BY <1>0, <2>1, <2>3, <2>7, <3>1, <3>2 DEF NumberInv, Numbered
    <3>3. CASE t = "idle"
      <4>1. task'["loop"] = task["loop"] /\ task["loop"].seq \in Nat
        BY <1>0, <2>3, <3>3
      <4> QED BY <2>1, <2>7, <3>1, <3>3, <4>1 DEF NumberInv, Numbered
    <3> QED BY <2>2, <3>2, <3>3
  <2>9. /\ \A u \in Tasks \ {"loop", "idle"} : task'[u].pc = "free"
        /\ task'["idle"].pc # "shaped"
        /\ setting.tasks \cap {"relay", "loop", "direct", "idle"} = {}
              => task'["loop"].pc = "free" /\ task'["idle"].pc = "free"
    BY <1>0, <2>2, <2>3 DEF NumberInv
  <2> QED BY <2>1, <2>6, <2>7, <2>8, <2>9 DEF NumberInv
<1>7. CASE RecvPacket
  <2> DEFINE pkt == Head(wire)
             checked == pkt.type = "DATA" /\ pkt.seq > 0
  <2>1. /\ wire # <<>> /\ wire' = Tail(wire) /\ UNCHANGED <<setting, seq, given, queue, task, sendCount>>
        /\ link' \in {"up", "exhausted"} \/ (checked /\ pkt.seq <= lastRecvSeq)
        /\ lastRecvSeq' = lastRecvSeq \/ (checked /\ lastRecvSeq' = pkt.seq)
    BY <1>7 DEF RecvPacket, sending
  <2>2. /\ pkt \in Sent /\ pkt.seq \in Nat
        /\ Ordered(Tail(wire), lastRecvSeq)
        /\ pkt.type = "DATA" => pkt.seq > lastRecvSeq /\ Ordered(Tail(wire), pkt.seq)
        /\ \A n \in Nat : Below(wire, n) => /\ Below(Tail(wire), n)
                                            /\ pkt.type = "DATA" => pkt.seq < n
    <3>1. Ordered(wire, lastRecvSeq) /\ pkt \in Sent
      BY <1>0, <2>1, Taken DEF NumberInv
    <3>2. pkt.seq \in Nat
      BY <3>1, ConstantsOK DEF Sent, Numbers
    <3> QED BY <1>0, <2>1, <3>1, <3>2, TailKeeps
  <2>3. link' # "replay"
    BY <1>0, <2>1, <2>2
  <2>4. Ordered(wire', lastRecvSeq')
    BY <2>1, <2>2
  <2>5. Used("loop")' = Used("loop") /\ Used("idle")' = Used("idle")
        /\ (Numbered("loop")' <=> Numbered("loop"))
    BY <2>1 DEF Used, Numbered
  <2>6. \A n \in Nat : Below(wire, n) /\ lastRecvSeq < n => Below(wire', n) /\ lastRecvSeq' < n
    BY <2>1, <2>2
  <2>7. sendCount' < MsgLimit =>
          /\ Below(wire', seq' + 1) /\ lastRecvSeq' <= seq'
          /\ Numbered("loop")' =>
                /\ task'["loop"].seq <= seq'
                /\ Below(wire', task'["loop"].seq) /\ lastRecvSeq' < task'["loop"].seq
    <3>1. lastRecvSeq' \in Nat
      BY <1>0, <2>1, <2>2
    <3>2. sendCount < MsgLimit => Below(wire', seq + 1) /\ lastRecvSeq' < seq + 1
      BY <1>0, <2>6 DEF NumberInv
    <3> QED BY <1>0, <2>1, <2>5, <2>6, <3>1, <3>2 DEF NumberInv
  <2> QED BY <2>1, <2>3, <2>4, <2>5, <2>7 DEF NumberInv
<1>8. CASE UNCHANGED vars
  BY <1>8 DEF vars, sending, sent, receiving, NumberInv, Used, Numbered
<1> QED BY <1>1, <1>2, <1>3, <1>4, <1>5, <1>6, <1>7, <1>8 DEF Next

---------------------------------------------------------------------------
\* The DATA packets on the wire carry the pieces of data above last, each once, in
\* order and without a gap ...
Carries(p, n) == p.type = "DATA" /\ p.data = n

Gapless(w, last) ==
    /\ \A i \in 1..Len(w) : w[i].type = "DATA" => w[i].data > last
    /\ \A i, j \in 1..Len(w) :
          i < j /\ w[i].type = "DATA" /\ w[j].type = "DATA" => w[i].data < w[j].data
    /\ \A j \in 1..Len(w) : w[j].type = "DATA" =>
          \A n \in (last + 1)..w[j].data : \E i \in 1..j : Carries(w[i], n)

\* ... up to top.
Reaches(w, last, top) ==
    /\ last <= top
    /\ \A n \in (last + 1)..top : \E i \in 1..Len(w) : Carries(w[i], n)
    /\ \A i \in 1..Len(w) : w[i].type = "DATA" => w[i].data <= top

\* The data handed to sendRaw so far: what was given, without what waits in sendCh
\* and what sendLoop holds.
Busy    == IF task["loop"].pc = "free" THEN 0 ELSE 1
Written == given - Len(queue) - Busy

UsedUp == KeyUsedUp(sendCount, sendBytes)

\* What is received, on its way, held by sendLoop and queued are the pieces of data
\* in order.  Once the key is used up nothing is written any more, so that there is
\* no piece behind one that was refused.
DataInv ==
    /\ \A i \in 1..Len(received) : received[i] = i
    /\ "relay" \notin setting.tasks => queue = <<>> /\ Busy = 0
    /\ Written >= 0
    /\ \A i \in 1..Len(queue) : queue[i] = Written + Busy + i
    /\ Busy = 1 => task["loop"].data = Written + 1
    /\ link = "up" => Gapless(wire, Len(received))
    /\ link = "up" /\ ~UsedUp => Reaches(wire, Len(received), Written)

\* A key that is used up stays used up, and nothing is written with it.
LEMMA RawWrites ==
    ASSUME TypeOK, NEW type \in {"DATA", "PADDING"}, NEW n \in Numbers, NEW data \in 0..MaxData,
           SendRaw(type, n, data)
    PROVE  \/ UsedUp' /\ wire' = wire
           \/ /\ ~UsedUp /\ ~UsedUp'
              /\ \E p \in Sent : p.type = type /\ p.data = data /\ wire' = Append(wire, p)
<1>1. PICK size \in Sizes :
        /\ sendCount' = sendCount + 1 /\ sendBytes' = sendBytes + size
        /\ IF KeyUsedUp(sendCount', sendBytes')
           THEN UNCHANGED wire
           ELSE /\ Len(wire) < WireCap
                /\ wire' = Append(wire, [type |-> type, seq |-> n, data |-> data, size |-> size])
  BY DEF SendRaw
<1>2. sendBytes \in Nat /\ sendCount \in Nat /\ size \in Nat /\ MsgLimit \in Nat /\ ByteLimit \in Nat
  BY ConstantsOK DEF TypeOK
<1>3. UsedUp => UsedUp'
  BY <1>1, <1>2 DEF UsedUp, KeyUsedUp
<1>4. UsedUp' <=> KeyUsedUp(sendCount', sendBytes')
  BY DEF UsedUp, KeyUsedUp
<1>5. CASE UsedUp'
  BY <1>1, <1>4, <1>5
<1>6. CASE ~UsedUp'
  <2> DEFINE p == [type |-> type, seq |-> n, data |-> data, size |-> size]
  <2>1. p \in Sent /\ p.type = type /\ p.data = data
    BY DEF Sent
  <2>2. wire' = Append(wire, p)
    BY <1>1, <1>4, <1>6
  <2> QED BY <1>3, <1>6, <2>1, <2>2
<1> QED BY <1>5, <1>6

\* What Append and Tail make of a wire.
LEMMA AppendedWire ==
    ASSUME NEW w \in Seq(Sent), NEW p \in Sent
    PROVE  /\ Len(w) \in Nat /\ Len(Append(w, p)) = Len(w) + 1
           /\ Append(w, p)[Len(w) + 1] = p
           /\ \A i \in 1..Len(w) : Append(w, p)[i] = w[i]
  OBVIOUS

LEMMA PacketHasData ==
    ASSUME NEW p \in Sent
    PROVE  p.data \in Nat
<1>1. p.data \in 0..MaxData
  BY DEF Sent
<1> QED BY <1>1, ConstantsOK

\* The next piece of data goes last.
LEMMA AppendNext ==
    ASSUME NEW w \in Seq(Sent), NEW last \in Nat, NEW top \in Nat, NEW p \in Sent,
           Gapless(w, last), Reaches(w, last, top), p.type = "DATA", p.data = top + 1
    PROVE  Gapless(Append(w, p), last) /\ Reaches(Append(w, p), last, top + 1)
<1> DEFINE v == Append(w, p)
<1>1. /\ Len(w) \in Nat /\ Len(v) = Len(w) + 1 /\ v[Len(w) + 1] = p
      /\ \A i \in 1..Len(w) : v[i] = w[i] /\ w[i] \in Sent
  BY AppendedWire
<1> HIDE DEF v
<1>2. /\ \A i \in 1..Len(w) : v[i] = w[i] /\ w[i].data \in Nat
      /\ \A i \in 1..Len(v) : i \in 1..Len(w) \/ (i = Len(w) + 1 /\ v[i] = p)
      /\ 1..Len(w) \subseteq 1..Len(v) /\ Len(v) \in 1..Len(v)
  BY <1>1, PacketHasData
<1>3. \A n \in (last + 1)..(top + 1) : \E i \in 1..Len(v) : Carries(v[i], n)
  <2> SUFFICES ASSUME NEW n \in (last + 1)..(top + 1)
               PROVE  \E i \in 1..Len(v) : Carries(v[i], n)
    OBVIOUS
  <2>1. CASE n = top + 1
    BY <1>1, <1>2, <2>1 DEF Carries
  <2>2. CASE n # top + 1
    <3>1. n \in (last + 1)..top
      BY <2>2
    <3>2. PICK i \in 1..Len(w) : Carries(w[i], n)
      BY <3>1 DEF Reaches
    <3> QED BY <1>2, <3>2
  <2> QED BY <2>1, <2>2
<1>4. \A i \in 1..Len(v) : v[i].type = "DATA" => v[i].data > last /\ v[i].data <= top + 1
  BY <1>2, <1>1 DEF Gapless, Reaches
<1>5. \A i, j \in 1..Len(v) :
          i < j /\ v[i].type = "DATA" /\ v[j].type = "DATA" => v[i].data < v[j].data
  <2> SUFFICES ASSUME NEW i \in 1..Len(v), NEW j \in 1..Len(v), i < j,
                      v[i].type = "DATA", v[j].type = "DATA"
               PROVE  v[i].data < v[j].data
    OBVIOUS
  <2>1. i \in 1..Len(w)
    BY <1>1
  <2>2. CASE j \in 1..Len(w)
    BY <1>2, <2>1, <2>2 DEF Gapless
  <2>3. CASE v[j] = p
    BY <1>2, <2>1, <2>3 DEF Reaches
  <2> QED BY <1>2, <2>2, <2>3
<1>6. ASSUME NEW j \in 1..Len(v), v[j].type = "DATA", NEW n \in (last + 1)..v[j].data
      PROVE  \E i \in 1..j : Carries(v[i], n)
  <2>1. CASE j \in 1..Len(w)
    <3>1. v[j] = w[j] /\ w[j].type = "DATA" /\ n \in (last + 1)..w[j].data
      BY <1>2, <1>6, <2>1
    <3>2. PICK i \in 1..j : Carries(w[i], n)
      BY <2>1, <3>1 DEF Gapless
    <3>3. v[i] = w[i]
      BY <1>1, <1>2, <2>1
    <3> QED BY <3>2, <3>3
  <2>2. CASE j = Len(v) /\ v[j] = p
    BY <1>3, <1>6, <2>2
  <2> QED BY <1>1, <1>2, <2>1, <2>2
<1>7. Gapless(v, last)
  BY <1>4, <1>5, <1>6 DEF Gapless
<1>8. Reaches(v, last, top + 1)
  BY <1>3, <1>4 DEF Reaches
<1> QED BY <1>7, <1>8 DEF v

\* Padding makes no difference.
LEMMA AppendPadding ==
    ASSUME NEW w \in Seq(Sent), NEW last \in Nat, NEW p \in Sent, p.type = "PADDING"
    PROVE  /\ Gapless(w, last) => Gapless(Append(w, p), last)
           /\ \A top \in Nat : Reaches(w, last, top) => Reaches(Append(w, p), last, top)
<1> DEFINE v == Append(w, p)
<1>1. /\ Len(w) \in Nat /\ Len(v) = Len(w) + 1 /\ v[Len(w) + 1] = p
      /\ \A i \in 1..Len(w) : v[i] = w[i]
  BY AppendedWire
<1> HIDE DEF v
<1>2. /\ \A i \in 1..Len(v) : v[i].type = "DATA" => i \in 1..Len(w) /\ v[i] = w[i]
      /\ 1..Len(w) \subseteq 1..Len(v)
  <2> SUFFICES ASSUME NEW i \in 1..Len(v), v[i].type = "DATA"
               PROVE  i \in 1..Len(w) /\ v[i] = w[i]
    BY <1>1
  <2>1. i # Len(w) + 1
    BY <1>1
  <2> QED BY <1>1, <2>1
<1>3. ASSUME Gapless(w, last) PROVE Gapless(v, last)
  <2>1. ASSUME NEW j \in 1..Len(v), v[j].type = "DATA", NEW n \in (last + 1)..v[j].data
        PROVE  \E i \in 1..j : Carries(v[i], n)
    <3>1. j \in 1..Len(w) /\ v[j] = w[j]
      BY <1>2, <2>1
    <3>2. PICK i \in 1..j : Carries(w[i], n)
      BY <1>3, <2>1, <3>1 DEF Gapless
    <3>3. v[i] = w[i]
      BY <1>1, <3>1
    <3> QED BY <3>2, <3>3
  <2> QED BY <1>2, <1>3, <2>1 DEF Gapless
<1>4. ASSUME NEW top \in Nat, Reaches(w, last, top) PROVE Reaches(v, last, top)
  <2>1. \A i \in 1..Len(v) : v[i].type = "DATA" => v[i].data <= top
    BY <1>2, <1>4, Zenon DEF Reaches
  <2>2. ASSUME NEW n \in (last + 1)..top
        PROVE  \E i \in 1..Len(v) : Carries(v[i], n)
    <3>1. PICK i \in 1..Len(w) : Carries(w[i], n)
      BY <1>4 DEF Reaches
    <3>2. i \in 1..Len(v) /\ v[i] = w[i]
      BY <1>1, <1>2
    <3> QED BY <3>1, <3>2, Zenon
  <2>3. last <= top
    BY <1>4 DEF Reaches
  <2> QED BY <2>1, <2>2, <2>3, Zenon DEF Reaches
<1> QED BY <1>3, <1>4 DEF v

\* The first piece of data on the wire is the next one to be received.
LEMMA TakeNext ==
    ASSUME NEW w \in Seq(Sent), NEW last \in Nat, w # <<>>, Gapless(w, last)
    PROVE  /\ Head(w).type = "DATA" =>
                /\ Head(w).data = last + 1
                /\ Gapless(Tail(w), last + 1)
                /\ \A top \in Nat : Reaches(w, last, top) => Reaches(Tail(w), last + 1, top)
           /\ Head(w).type # "DATA" =>
                /\ Gapless(Tail(w), last)
                /\ \A top \in Nat : Reaches(w, last, top) => Reaches(Tail(w), last, top)
<1> DEFINE v == Tail(w)
           base == IF w[1].type = "DATA" THEN last + 1 ELSE last
<1>1. Len(w) \in Nat \ {0} /\ Len(v) = Len(w) - 1 /\ Head(w) = w[1]
  OBVIOUS
<1>2. \A i \in 1..Len(v) : v[i] = w[i + 1]
  OBVIOUS
<1>3. \A i \in 1..Len(w) : w[i].data \in Nat
  BY PacketHasData
<1> HIDE DEF v
<1>4. /\ 1 \in 1..Len(w)
      /\ \A i \in 1..Len(v) : i + 1 \in 1..Len(w) /\ 1 < i + 1
      /\ \A i \in 1..Len(w) : i # 1 => i - 1 \in 1..Len(v) /\ v[i - 1] = w[i]
  <2>1. \A i \in 1..Len(w) : i # 1 => i - 1 \in 1..Len(v) /\ (i - 1) + 1 = i
    BY <1>1
  <2>2. \A i \in 1..Len(w) : i # 1 => v[i - 1] = w[(i - 1) + 1]
    BY <1>2, <2>1
  <2> QED BY <1>1, <2>1, <2>2
<1>5. w[1].type = "DATA" => w[1].data = last + 1
  <2> SUFFICES ASSUME w[1].type = "DATA" PROVE w[1].data = last + 1
    OBVIOUS
  <2>1. w[1].data > last
    BY <1>4 DEF Gapless
  <2>2. last + 1 \in (last + 1)..w[1].data
    BY <1>3, <1>4, <2>1
  <2>3. PICK i \in 1..1 : Carries(w[i], last + 1)
    BY <1>4, <2>2 DEF Gapless
  <2> QED BY <2>3 DEF Carries
<1>6. ASSUME NEW i \in 1..Len(v), v[i].type = "DATA"
      PROVE  v[i].data > base
  <2>1. w[i + 1].data > last /\ (w[1].type = "DATA" => w[1].data < w[i + 1].data)
    BY <1>2, <1>4, <1>6 DEF Gapless
  <2> QED BY <1>2, <1>3, <1>4, <1>5, <2>1
<1>7. ASSUME NEW i \in 1..Len(v), NEW j \in 1..Len(v), i < j, v[i].type = "DATA", v[j].type = "DATA"
      PROVE  v[i].data < v[j].data
  <2>1. i + 1 < j + 1
    BY <1>1, <1>7
  <2>2. v[i] = w[i + 1] /\ v[j] = w[j + 1] /\ i + 1 \in 1..Len(w) /\ j + 1 \in 1..Len(w)
    BY <1>2, <1>4
  <2>3. w[i + 1].data < w[j + 1].data
    BY <1>7, <2>1, <2>2, Zenon DEF Gapless
  <2> QED BY <2>2, <2>3
<1>8. ASSUME NEW i \in 1..Len(w), NEW n \in Nat, n > base, Carries(w[i], n)
      PROVE  i - 1 \in 1..Len(v) /\ Carries(v[i - 1], n)
  <2>1. i # 1
    BY <1>5, <1>8 DEF Carries
  <2> QED BY <1>4, <1>8, <2>1
<1>9. ASSUME NEW j \in 1..Len(v), v[j].type = "DATA", NEW n \in (base + 1)..v[j].data
      PROVE  \E i \in 1..j : Carries(v[i], n)
  <2>1. n \in (last + 1)..w[j + 1].data /\ n \in Nat /\ n > base
    BY <1>2, <1>3, <1>4, <1>9
  <2>2. PICK i \in 1..(j + 1) : Carries(w[i], n)
    BY <1>2, <1>4, <1>9, <2>1 DEF Gapless
  <2>3. i \in 1..Len(w)
    BY <1>1, <1>4
  <2>4. i - 1 \in 1..Len(v) /\ Carries(v[i - 1], n)
    BY <1>8, <2>1, <2>2, <2>3
  <2>5. i - 1 \in 1..j
    BY <1>1, <2>4
  <2> QED BY <2>4, <2>5
<1>10. Gapless(v, base)
  BY <1>6, <1>7, <1>9 DEF Gapless
<1>11. ASSUME NEW top \in Nat, Reaches(w, last, top)
       PROVE  Reaches(v, base, top)
  <2>1. base <= top
    BY <1>4, <1>5, <1>11 DEF Reaches
  <2>2. ASSUME NEW n \in (base + 1)..top PROVE \E i \in 1..Len(v) : Carries(v[i], n)
    <3>1. n \in (last + 1)..top /\ n \in Nat /\ n > base
      OBVIOUS
    <3>2. PICK i \in 1..Len(w) : Carries(w[i], n)
      BY <1>11, <3>1 DEF Reaches
    <3> QED BY <1>8, <3>1, <3>2
  <2>3. \A i \in 1..Len(v) : v[i].type = "DATA" => v[i].data <= top
    BY <1>2, <1>4, <1>11 DEF Reaches
  <2> QED BY <2>1, <2>2, <2>3 DEF Reaches
<1> QED BY <1>1, <1>5, <1>10, <1>11 DEF v

\* What sendRaw does to what is on the wire: it goes on to the next piece of data,
\* or gets padding, or stays as it is when the key is used up.
LEMMA RawKeepsData ==
    ASSUME TypeOK, DataInv, UNCHANGED <<received, link>>,
           NEW type \in {"DATA", "PADDING"}, NEW n \in Numbers, NEW data \in 0..MaxData,
           SendRaw(type, n, data),
           type = "DATA" => data = Written + 1 /\ Written' = Written + 1,
           type = "PADDING" => Written' = Written
    PROVE  /\ link' = "up" => Gapless(wire', Len(received'))
           /\ link' = "up" /\ ~UsedUp' => Reaches(wire', Len(received'), Written')
<1>1. wire \in Seq(Sent) /\ Len(received) \in Nat /\ Written \in Nat
  <2>1. Busy \in {0, 1} /\ given \in Nat /\ queue \in Seq(1..MaxData) /\ Written >= 0
    BY ConstantsOK DEF Busy, TypeOK, DataInv
  <2>2. Written \in Int
    BY <2>1 DEF Written
  <2> QED BY <2>1, <2>2 DEF TypeOK, Sent
<1>2. CASE UsedUp' /\ wire' = wire
  BY <1>2 DEF DataInv
<1>3. ASSUME ~UsedUp, NEW p \in Sent, p.type = type, p.data = data, wire' = Append(wire, p),
             link = "up"
      PROVE  Gapless(wire', Len(received)) /\ Reaches(wire', Len(received), Written')
  <2>1. Gapless(wire, Len(received)) /\ Reaches(wire, Len(received), Written)
    BY <1>3 DEF DataInv
  <2>2. CASE type = "DATA"
    BY <1>1, <1>3, <2>1, <2>2, AppendNext
  <2>3. CASE type = "PADDING"
    BY <1>1, <1>3, <2>1, <2>3, AppendPadding
  <2> QED BY <2>2, <2>3
<1> QED BY <1>2, <1>3, RawWrites

\* Each step keeps the data in order, as long as one goroutine numbers them.
LEMMA DataStep ==
    ASSUME TypeOK, NumberInv, DataInv, Alone, [Next]_vars
    PROVE  DataInv'
<1>0. /\ given \in Nat /\ MaxData \in Nat /\ queue \in Seq(1..MaxData) /\ Len(queue) \in Nat
      /\ task \in [Tasks -> [pc : {"free", "shaped", "numbered"}, data : 0..MaxData, seq : Numbers]]
      /\ "loop" \in Tasks /\ Busy \in {0, 1} /\ Written \in Nat /\ setting.queueCap \in Nat
      /\ received \in Seq(0..MaxData) /\ Len(received) \in Nat
  <2>1. /\ given \in Nat /\ MaxData \in Nat /\ queue \in Seq(1..MaxData) /\ Len(queue) \in Nat
        /\ Busy \in {0, 1} /\ setting.queueCap \in Nat /\ Written >= 0
    BY ConstantsOK DEF TypeOK, Busy, DataInv
  <2>2. Written \in Nat
    BY <2>1 DEF Written
  <2> QED BY <2>1, <2>2 DEF TypeOK, Tasks
<1>1. CASE Send
  <2>1. /\ given' = given + 1 /\ given' \in 0..MaxData /\ "frame" \in setting.tasks
        /\ SendRaw("DATA", NextSeq, given') /\ UNCHANGED <<setting, queue, task, received, link>>
    BY <1>0, <1>1 DEF Send, receiving
  <2>2. "relay" \notin setting.tasks /\ queue = <<>> /\ Busy = 0
    BY <2>1 DEF Alone, DataInv
  <2>3. Busy' = Busy /\ Written = given /\ Written' = Written + 1
    BY <1>0, <2>1, <2>2 DEF Busy, Written
  <2>4. NextSeq \in Numbers
    BY NextIsNumber DEF TypeOK
  <2>5. /\ link' = "up" => Gapless(wire', Len(received'))
        /\ link' = "up" /\ ~UsedUp' => Reaches(wire', Len(received'), Written')
    BY <2>1, <2>3, <2>4, RawKeepsData
  <2> QED BY <1>0, <2>1, <2>2, <2>3, <2>5 DEF DataInv
<1>2. CASE SendPadding
  <2>1. /\ SendRaw("PADDING", 0, 0) /\ 0 \in Numbers /\ 0 \in 0..MaxData
        /\ UNCHANGED <<setting, given, queue, task, received, link>>
    BY <1>2, ConstantsOK DEF SendPadding, receiving, None, Numbers
  <2>2. Busy' = Busy /\ Written' = Written
    BY <2>1 DEF Busy, Written
  <2>3. /\ link' = "up" => Gapless(wire', Len(received'))
        /\ link' = "up" /\ ~UsedUp' => Reaches(wire', Len(received'), Written')
    BY <2>1, <2>2, RawKeepsData
  <2> QED BY <2>1, <2>2, <2>3 DEF DataInv
<1>3. CASE RelaySend
  <2>1. "relay" \in setting.tasks /\ given < MaxData /\ setting.queueCap >= MaxData
    BY <1>3 DEF RelaySend, Alone
  <2>2. Len(queue) < setting.queueCap
    BY <1>0, <2>1 DEF NumberInv
  <2>3. /\ given' = given + 1 /\ queue' = Append(queue, given')
        /\ UNCHANGED <<setting, task, sendCount, sendBytes, wire, received, link>>
    BY <1>0, <1>3, <2>2 DEF RelaySend, sent, receiving
  <2>4. /\ Len(queue') = Len(queue) + 1 /\ queue'[Len(queue) + 1] = given'
        /\ \A i \in 1..Len(queue) : queue'[i] = queue[i]
    BY <1>0, <2>3
  <2>5. Busy' = Busy /\ Written' = Written /\ (UsedUp' <=> UsedUp)
    BY <1>0, <2>3, <2>4 DEF Busy, Written, UsedUp, KeyUsedUp
  <2>6. \A i \in 1..Len(queue') : queue'[i] = Written' + Busy' + i
    <3>1. given' = Written + Busy + (Len(queue) + 1)
      BY <1>0, <2>3 DEF Written
    <3>2. \A i \in 1..Len(queue) : queue'[i] = Written + Busy + i
      BY <2>4 DEF DataInv
    <3>3. \A i \in 1..Len(queue') : i \in 1..Len(queue) \/ i = Len(queue) + 1
      BY <1>0, <2>4
    <3> QED BY <2>4, <2>5, <3>1, <3>2, <3>3
  <2> QED BY <2>1, <2>3, <2>5, <2>6 DEF DataInv
<1>4. CASE LoopTake
  <2>1. /\ task["loop"] = Free /\ queue # <<>> /\ queue' = Tail(queue)
        /\ task' = [task EXCEPT !["loop"] = [pc |-> "shaped", data |-> Head(queue), seq |-> 0]]
        /\ UNCHANGED <<setting, given, sendCount, sendBytes, wire, received, link>>
    BY <1>4 DEF LoopTake, Goto, sent, receiving
  <2>2. "relay" \in setting.tasks
    BY <2>1 DEF DataInv
  <2>3. Busy = 0 /\ Busy' = 1 /\ task'["loop"].data = Head(queue)
    BY <1>0, <2>1 DEF Busy, Free
  <2>4. /\ Len(queue) \in Nat \ {0} /\ Len(queue') = Len(queue) - 1 /\ Head(queue) = queue[1]
        /\ \A i \in 1..Len(queue') : queue'[i] = queue[i + 1]
    BY <1>0, <2>1
  <2>5. Written' = Written /\ (UsedUp' <=> UsedUp)
    BY <1>0, <2>1, <2>3, <2>4 DEF Written, UsedUp, KeyUsedUp
  <2>6. \A i \in 1..Len(queue) : queue[i] = Written + i
    BY <1>0, <2>3 DEF DataInv
  <2>7. \A i \in 1..Len(queue') : queue'[i] = Written' + Busy' + i
    <3>1. \A i \in 1..Len(queue') : i + 1 \in 1..Len(queue)
      BY <2>4
    <3>2. \A i \in 1..Len(queue') : queue'[i] = Written + (i + 1)
      BY <2>4, <2>6, <3>1
    <3> QED BY <1>0, <2>3, <2>4, <2>5, <3>2
  <2>8. task'["loop"].data = Written' + 1
    BY <2>3, <2>4, <2>5, <2>6
  <2> QED BY <1>0, <2>1, <2>2, <2>5, <2>7, <2>8 DEF DataInv
<1>5. ASSUME NEW t \in Tasks, Number(t)
      PROVE  DataInv'
  <2>1. t \in setting.tasks /\ "direct" \notin setting.tasks
    BY <1>5 DEF Number, Alone
  <2>2. /\ given' = given
        /\ UNCHANGED <<setting, queue, sendCount, sendBytes, wire, received, link>>
        /\ \/ /\ task[t].pc = "shaped"
              /\ task' = [task EXCEPT ![t] = [pc |-> "numbered", data |-> task[t].data, seq |-> NextSeq]]
           \/ /\ t = "idle"
              /\ task' = [task EXCEPT ![t] = [pc |-> "numbered", data |-> None, seq |-> NextSeq]]
    BY <1>5, <2>1 DEF Number, Goto, sent, receiving
  <2>3. task'["loop"].data = task["loop"].data /\ (task'["loop"].pc = "free" <=> task["loop"].pc = "free")
    <3>1. CASE t = "loop"
      BY <1>0, <2>2, <3>1
    <3>2. CASE t # "loop"
      BY <1>0, <2>2, <3>2
    <3> QED BY <3>1, <3>2
  <2>4. Busy' = Busy /\ Written' = Written /\ (UsedUp' <=> UsedUp)
    BY <2>2, <2>3 DEF Busy, Written, UsedUp, KeyUsedUp
  <2> QED BY <2>2, <2>3, <2>4 DEF DataInv
<1>6. ASSUME NEW t \in Tasks, SendPacket(t)
      PROVE  DataInv'
  <2>1. /\ task[t].pc = "numbered" /\ task' = [task EXCEPT ![t] = Free]
        /\ UNCHANGED <<setting, given, queue, received, link>>
        /\ task[t].seq \in Numbers /\ task[t].data \in 0..MaxData
    BY <1>0, <1>6 DEF SendPacket, receiving
  <2>2. t \in {"loop", "idle"}
    BY <2>1 DEF NumberInv
  <2>3. CASE t = "loop"
    <3>1. Busy = 1 /\ Busy' = 0
      BY <1>0, <2>1, <2>3 DEF Busy, Free
    <3>2. Written' = Written + 1
      BY <1>0, <2>1, <3>1 DEF Written
    <3>3. task["loop"].data = Written + 1 /\ "relay" \in setting.tasks
      BY <3>1 DEF DataInv
    <3>4. SendRaw("DATA", task[t].seq, task[t].data)
      BY <1>6, <2>3 DEF SendPacket
    <3>5. /\ link' = "up" => Gapless(wire', Len(received'))
          /\ link' = "up" /\ ~UsedUp' => Reaches(wire', Len(received'), Written')
      BY <2>1, <2>3, <3>2, <3>3, <3>4, RawKeepsData
    <3>6. \A i \in 1..Len(queue') : queue'[i] = Written' + Busy' + i
      BY <1>0, <2>1, <3>1, <3>2 DEF DataInv
    <3> QED BY <1>0, <2>1, <3>1, <3>2, <3>3, <3>5, <3>6 DEF DataInv
  <2>4. CASE t = "idle"
    <3>1. task'["loop"] = task["loop"]
      BY <1>0, <2>1, <2>4
    <3>2. Busy' = Busy /\ Written' = Written
      BY <2>1, <3>1 DEF Busy, Written
    <3>3. SendRaw("PADDING", task[t].seq, task[t].data)
      BY <1>6, <2>4 DEF SendPacket
    <3>4. /\ link' = "up" => Gapless(wire', Len(received'))
          /\ link' = "up" /\ ~UsedUp' => Reaches(wire', Len(received'), Written')
      BY <2>1, <3>2, <3>3, RawKeepsData
    <3> QED BY <2>1, <3>1, <3>2, <3>4 DEF DataInv
  <2> QED BY <2>2, <2>3, <2>4
<1>7. CASE RecvPacket
  <2> DEFINE pkt == Head(wire)
  <2>1. /\ link = "up" /\ wire # <<>> /\ wire' = Tail(wire)
        /\ received' = IF pkt.type = "DATA" /\ link' = "up" THEN Append(received, pkt.data)
                                                             ELSE received
        /\ UNCHANGED <<setting, given, queue, task, sendCount, sendBytes>>
    BY <1>7 DEF RecvPacket, sending
  <2>2. Busy' = Busy /\ Written' = Written /\ (UsedUp' <=> UsedUp)
    BY <2>1 DEF Busy, Written, UsedUp, KeyUsedUp
  <2>3. wire \in Seq(Sent) /\ Gapless(wire, Len(received)) /\ (~UsedUp => Reaches(wire, Len(received), Written))
    BY <2>1 DEF TypeOK, Sent, DataInv
  <2>4. CASE received' = Append(received, pkt.data) /\ pkt.type = "DATA" /\ link' = "up"
    <3>1. pkt.data = Len(received) + 1
      BY <1>0, <2>1, <2>3, <2>4, TakeNext
    <3>2. /\ Len(received') = Len(received) + 1 /\ received'[Len(received) + 1] = pkt.data
          /\ \A i \in 1..Len(received) : received'[i] = received[i]
      <4>0. pkt \in Sent
        BY <2>1, <2>3, Taken
      <4>1. pkt.data \in 0..MaxData
        BY <4>0 DEF Sent
      <4> HIDE DEF pkt
      <4> QED BY <1>0, <2>4, <4>1
    <3>3. \A i \in 1..Len(received') : received'[i] = i
      <4>1. \A i \in 1..Len(received) : received'[i] = i
        BY <3>2 DEF DataInv
      <4>2. \A i \in 1..(Len(received) + 1) : i \in 1..Len(received) \/ i = Len(received) + 1
        BY <1>0
      <4>3. \A i \in 1..Len(received') : i \in 1..Len(received) \/ i = Len(received) + 1
        BY <3>2, <4>2
      <4> QED BY <3>1, <3>2, <4>1, <4>3
    <3>4. /\ Gapless(wire', Len(received'))
          /\ ~UsedUp' => Reaches(wire', Len(received'), Written')
      BY <1>0, <2>1, <2>2, <2>3, <2>4, <3>2, TakeNext
    <3> QED BY <2>1, <2>2, <3>3, <3>4 DEF DataInv
  <2>5. CASE received' = received /\ (pkt.type # "DATA" \/ link' # "up")
    <3>1. link' = "up" => /\ Gapless(wire', Len(received'))
                          /\ ~UsedUp' => Reaches(wire', Len(received'), Written')
      BY <1>0, <2>1, <2>2, <2>3, <2>5, TakeNext
    <3> QED BY <2>1, <2>2, <2>5, <3>1 DEF DataInv
  <2> QED BY <2>1, <2>4, <2>5
<1>8. CASE UNCHANGED vars
  <2>1. /\ Busy' = Busy /\ Written' = Written /\ (UsedUp' <=> UsedUp)
        /\ UNCHANGED <<setting, queue, task, wire, received, link>>
    BY <1>8 DEF vars, sending, sent, receiving, Busy, Written, UsedUp, KeyUsedUp
  <2> QED BY <2>1 DEF DataInv
<1> QED BY <1>1, <1>2, <1>3, <1>4, <1>5, <1>6, <1>7, <1>8 DEF Next

---------------------------------------------------------------------------
IInv == TypeOK /\ CountInv /\ (Alone => NumberInv /\ DataInv)

LEMMA Inductive ==
    /\ Init => IInv
    /\ IInv /\ [Next]_vars => IInv'
<1>1. ASSUME Init PROVE IInv
  <2>1. /\ 0 \in Numbers /\ 1 \in Numbers /\ MsgLimit >= 1 /\ 0 \in 0..MaxData
        /\ MaxData \in Nat /\ WireCap \in Nat /\ MsgLimit \in Nat
    BY ConstantsOK DEF Numbers
  <2>2. setting \in Settings /\ setting.queueCap \in Nat
    BY <1>1, ConstantsOK DEF Init
  <2>3. wire = <<>> /\ queue = <<>> /\ received = <<>>
    BY <1>1 DEF Init
  <2>4. TypeOK
    BY <1>1, <2>1, <2>2, <2>3 DEF Init, TypeOK, Free, None
  <2>5. CountInv
    BY <1>1, <2>1, <2>3 DEF Init, CountInv
  <2>6. Ordered(wire, lastRecvSeq) /\ \A n : Below(wire, n)
    BY <2>3 DEF Ordered, Below
  <2>7. \A t \in Tasks : task[t].pc = "free"
    BY <1>1 DEF Init, Free
  <2>8. NumberInv
    BY <1>1, <2>1, <2>3, <2>6, <2>7 DEF Init, NumberInv, Used, Numbered, Tasks
  <2>9. DataInv
    <3>0. Len(queue) = 0 /\ Len(wire) = 0 /\ Len(received) = 0 /\ given = 0
      BY <1>1, <2>3 DEF Init
    <3>1. Busy = 0 /\ Written = 0
      <4>1. Busy = 0
        BY <2>7 DEF Busy, Tasks
      <4> QED BY <3>0, <4>1 DEF Written
    <3>2. Gapless(wire, 0) /\ Reaches(wire, 0, 0)
      BY <3>0 DEF Gapless, Reaches
    <3> QED BY <2>3, <3>0, <3>1, <3>2 DEF DataInv
  <2> QED BY <2>4, <2>5, <2>8, <2>9 DEF IInv
<1>2. ASSUME IInv, [Next]_vars PROVE IInv'
  <2>1. TypeOK' /\ CountInv'
    BY <1>2, TypeStep, CountStep DEF IInv
  <2>2. Alone' <=> Alone
    <3>1. setting' = setting
      BY <1>2 DEF Next, Send, SendPadding, RelaySend, LoopTake, Number, SendPacket,
         RecvPacket, vars
    <3> QED BY <3>1 DEF Alone
  <2>3. Alone => NumberInv' /\ DataInv'
    BY <1>2, NumberStep, DataStep DEF IInv
  <2> QED BY <2>1, <2>2, <2>3 DEF IInv
<1> QED BY <1>1, <1>2

\* The types, and the capacities of the connection and of sendCh, whoever sends.
THEOREM TypeCorrect == Spec => []TypeOK
<1>1. IInv => TypeOK
  BY DEF IInv
<1> QED BY Inductive, <1>1, PTL DEF Spec

\* The receiver's message count never ends a session before the sender's does;
\* its byte count may, because it counts what encryption adds.
THEOREM LimitsHold == Spec => []LimitsAgree
<1>1. IInv => LimitsAgree
  <2> SUFFICES ASSUME TypeOK, CountInv, link = "exhausted"
               PROVE  recvCount <= MsgLimit /\ recvBytes > ByteLimit
    BY DEF IInv, LimitsAgree
  <2>1. recvCount \in Nat /\ Len(wire) \in Nat /\ MsgLimit \in Nat
    BY ConstantsOK DEF TypeOK
  <2> QED BY <2>1 DEF CountInv
<1> QED BY Inductive, <1>1, PTL DEF Spec

\* An honest peer's packets are never taken for replays while one goroutine
\* numbers data, up to the last packet that the key allows.
THEOREM NoReplayReported == Spec => []NoFalseReplay
<1>1. IInv => NoFalseReplay
  BY DEF IInv, NumberInv, NoFalseReplay
<1> QED BY Inductive, <1>1, PTL DEF Spec

\* What the receiving program gets is what was sent, in order and without gaps, also
\* when the key is used up while data are queued and on their way.
THEOREM DataInOrder == Spec => []ReceivedInOrder
<1>1. IInv => ReceivedInOrder
  BY DEF IInv, DataInv, ReceivedInOrder
<1> QED BY Inductive, <1>1, PTL DEF Spec
=============================================================================
