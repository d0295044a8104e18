----------------------------- MODULE SecureConn -----------------------------
(***************************************************************************)
(* One direction of a SecureConn (pkg/transport/conn.go) and the two ways  *)
(* the repository numbers the packets sent on it:                          *)
(*                                                                         *)
(*   "frame", "padding"   the Mux: Send numbers a packet under sendMu;     *)
(*                        padding carries number 0                         *)
(*   "relay", "loop",     the Interleaver (pkg/interleave): Send, sendLoop,*)
(*   "idle", "direct"     idleLoop and SendDirect take a number from il.seq*)
(*                        and then call SendPacket                         *)
(*                                                                         *)
(* The receiver takes a DATA packet whose number is not above the last one *)
(* for a replay and gives up the connection.  The connection is a FIFO; a  *)
(* piece of data is named by its place in what the program sends.          *)
(***************************************************************************)
EXTENDS Integers, Sequences

CONSTANTS
    SeqMod,       \* sequence numbers are uint32: 2^32 of them
    MsgLimit,     \* keyRotationMsgThreshold, 2^30
    ByteLimit,    \* keyRotationByteThreshold, 64 GB
    Sizes,        \* sizes of a marshalled packet
    Overhead,     \* EncryptOverhead: nonce and tag
    MaxData,      \* bound: pieces of data the program sends
    WireCap,      \* packets the connection buffers
    Settings      \* the goroutines that send, and the capacity of sendCh (128)

Tasks == {"frame", "padding", "relay", "loop", "idle", "direct"}

ASSUME ConstantsOK ==
    /\ SeqMod \in Nat /\ MsgLimit \in Nat \ {0} /\ MsgLimit + 1 < SeqMod
    /\ ByteLimit \in Nat /\ Sizes \subseteq Nat /\ Overhead \in Nat
    /\ MaxData \in Nat /\ WireCap \in Nat \ {0}
    /\ Settings \subseteq [tasks : SUBSET Tasks, queueCap : Nat]

VARIABLES
    setting,      \* of this behaviour
    seq,          \* sc.sendSeq, or the interleaver's seq
    given,        \* pieces of data the program has sent
    queue,        \* sendCh
    task,         \* task[t]: a goroutine with a packet: [pc, data, seq]
    sendCount,    \* sendMsgCount
    sendBytes,    \* sendByteCount
    wire,         \* packets on their way
    recvCount,    \* recvMsgCount
    recvBytes,    \* recvByteCount
    lastRecvSeq,
    received,     \* data handed to the receiving program
    link          \* "up", or why RecvPacket has failed

sent      == <<sendCount, sendBytes, wire>>
sending   == <<seq, given, queue, task>>
receiving == <<recvCount, recvBytes, lastRecvSeq, received, link>>
vars      == <<setting, sending, sent, receiving>>

None == 0
Free == [pc |-> "free", data |-> None, seq |-> 0]

\* The handshake has used number 1, and one message, in each direction; its few
\* bytes are left out.
Init ==
    /\ setting \in Settings
    /\ seq = 1 /\ given = 0 /\ queue = <<>>
    /\ task = [t \in Tasks |-> Free]
    /\ sendCount = 1 /\ sendBytes = 0
    /\ wire = <<>>
    /\ recvCount = 1 /\ recvBytes = 0 /\ lastRecvSeq = 1
    /\ received = <<>> /\ link = "up"

\* seqNum.Add(1), with its width.
NextSeq == (seq + 1) % SeqMod

\* The key limits of checkSendKeyUsage and checkRecvKeyUsage.
KeyUsedUp(count, bytes) == count > MsgLimit \/ bytes > ByteLimit

\* Mutant: a refused packet is sent all the same.
SendRawUnchecked(type, n, data) ==
    \E size \in Sizes :
        /\ sendCount' = sendCount + 1 /\ sendBytes' = sendBytes + size
        /\ Len(wire) < WireCap
        /\ wire' = Append(wire, [type |-> type, seq |-> n, data |-> data, size |-> size])

\* sendRaw: a packet is counted, refused when the key is used up, and otherwise
\* written when the connection takes it.
SendRaw(type, n, data) ==
    \E size \in Sizes :
        /\ sendCount' = sendCount + 1 /\ sendBytes' = sendBytes + size
        /\ IF KeyUsedUp(sendCount', sendBytes')
           THEN UNCHANGED wire
           ELSE /\ Len(wire) < WireCap
                /\ wire' = Append(wire, [type |-> type, seq |-> n, data |-> data, size |-> size])

---------------------------------------------------------------------------
(* The Mux. *)

\* SecureConn.Send, all of it under sendMu.
Send ==
    /\ "frame" \in setting.tasks /\ given < MaxData
    /\ given' = given + 1
    /\ seq' = NextSeq
    /\ SendRaw("DATA", seq', given')
    /\ UNCHANGED <<setting, queue, task, receiving>>

\* PaddedMux.sendPaddingPacket; a PONG is sent the same way.
SendPadding ==
    /\ "padding" \in setting.tasks /\ sendCount <= MsgLimit
    /\ SendRaw("PADDING", 0, None)
    /\ UNCHANGED <<setting, seq, given, queue, task, receiving>>

---------------------------------------------------------------------------
(* The Interleaver. *)

Goto(t, pc, data, n) == task' = [task EXCEPT ![t] = [pc |-> pc, data |-> data, seq |-> n]]

\* Interleaver.Send, called by Relay: queued, or shaped here when sendCh is full.
RelaySend ==
    /\ "relay" \in setting.tasks /\ given < MaxData /\ task["relay"] = Free
    /\ given' = given + 1
    /\ \/ /\ Len(queue) < setting.queueCap
          /\ queue' = Append(queue, given')
          /\ UNCHANGED task
       \/ /\ Len(queue) >= setting.queueCap
          /\ Goto("relay", "shaped", given', 0)
          /\ UNCHANGED queue
    /\ UNCHANGED <<setting, seq, sent, receiving>>

\* Mutant: the newest piece of data is taken.
LoopTakeNewest ==
    /\ "loop" \in setting.tasks /\ task["loop"] = Free /\ queue # <<>>
    /\ queue' = SubSeq(queue, 1, Len(queue) - 1)
    /\ Goto("loop", "shaped", queue[Len(queue)], 0)
    /\ UNCHANGED <<setting, seq, given, sent, receiving>>

\* sendLoop takes the oldest piece of data.
LoopTake ==
    /\ "loop" \in setting.tasks /\ task["loop"] = Free /\ queue # <<>>
    /\ queue' = Tail(queue)
    /\ Goto("loop", "shaped", Head(queue), 0)
    /\ UNCHANGED <<setting, seq, given, sent, receiving>>

\* SendDirect, idleLoop's sendPadding, and sendShaped after its delay: a number
\* is taken from il.seq ...
Number(t) ==
    /\ t \in setting.tasks
    /\ \/ /\ task[t].pc = "shaped"
          /\ Goto(t, "numbered", task[t].data, NextSeq)
          /\ UNCHANGED given
       \/ /\ t = "direct" /\ task[t] = Free /\ given < MaxData
          /\ given' = given + 1
          /\ Goto(t, "numbered", given', NextSeq)
       \/ /\ t = "idle" /\ task[t] = Free /\ sendCount <= MsgLimit
          /\ Goto(t, "numbered", None, NextSeq)
          /\ UNCHANGED given
    /\ seq' = NextSeq
    /\ UNCHANGED <<setting, queue, sent, receiving>>

\* ... and the packet is sent when sendMu is free.
SendPacket(t) ==
    /\ task[t].pc = "numbered"
    /\ SendRaw(IF t = "idle" THEN "PADDING" ELSE "DATA", task[t].seq, task[t].data)
    /\ task' = [task EXCEPT ![t] = Free]
    /\ UNCHANGED <<setting, seq, given, queue, receiving>>

---------------------------------------------------------------------------
(* RecvPacket and the loops around it. *)

\* Mutant: the numbers of padding are checked too.
RecvPacketAll ==
    /\ link = "up" /\ wire # <<>>
    /\ LET pkt == Head(wire)
       IN /\ recvCount' = recvCount + 1
          /\ recvBytes' = recvBytes + pkt.size + Overhead
          /\ link' = IF KeyUsedUp(recvCount', recvBytes') THEN "exhausted"
                     ELSE IF pkt.seq <= lastRecvSeq THEN "replay" ELSE "up"
          /\ lastRecvSeq' = IF link' = "up" THEN pkt.seq ELSE lastRecvSeq
          /\ received' = IF pkt.type = "DATA" /\ link' = "up" THEN Append(received, pkt.data)
                                                              ELSE received
    /\ wire' = Tail(wire)
    /\ UNCHANGED <<setting, sending, sendCount, sendBytes>>

\* A packet is counted as it is on the wire; padding and control packets are
\* not checked for their number.
RecvPacket ==
    /\ link = "up" /\ wire # <<>>
    /\ LET pkt == Head(wire)
           checked == pkt.type = "DATA" /\ pkt.seq > 0
       IN /\ recvCount' = recvCount + 1
          /\ recvBytes' = recvBytes + pkt.size + Overhead
          /\ link' = IF KeyUsedUp(recvCount', recvBytes') THEN "exhausted"
                     ELSE IF checked /\ pkt.seq <= lastRecvSeq THEN "replay" ELSE "up"
          /\ lastRecvSeq' = IF checked /\ link' = "up" THEN pkt.seq ELSE lastRecvSeq
          /\ received' = IF pkt.type = "DATA" /\ link' = "up" THEN Append(received, pkt.data)
                                                              ELSE received
    /\ wire' = Tail(wire)
    /\ UNCHANGED <<setting, sending, sendCount, sendBytes>>

---------------------------------------------------------------------------
Next ==
    \/ Send \/ SendPadding \/ RelaySend \/ LoopTake
    \/ \E t \in Tasks : Number(t) \/ SendPacket(t)
    \/ RecvPacket

Spec == Init /\ [][Next]_vars

---------------------------------------------------------------------------
(* Properties. *)

Numbers == 0..(SeqMod - 1)

\* The type invariant: the receiver counts at most one message past its limit,
\* and sendCh keeps its capacity.
TypeOK ==
    /\ setting \in Settings
    /\ seq \in Numbers /\ given \in 0..MaxData
    /\ queue \in Seq(1..MaxData) /\ Len(queue) <= setting.queueCap
    /\ task \in [Tasks -> [pc : {"free", "shaped", "numbered"}, data : 0..MaxData, seq : Numbers]]
    /\ sendCount \in Nat /\ recvCount \in 0..(MsgLimit + 1)
    /\ sendBytes \in Nat /\ recvBytes \in Nat
    /\ wire \in Seq([type : {"DATA", "PADDING"}, seq : Numbers, data : 0..MaxData, size : Sizes])
    /\ Len(wire) <= WireCap
    /\ lastRecvSeq \in Numbers
    /\ received \in Seq(0..MaxData)
    /\ link \in {"up", "replay", "exhausted"}

\* One goroutine at a time numbers DATA packets: the Mux, or an interleaver
\* whose sendCh is never full and whose SendDirect is not used.
Alone ==
    \/ setting.tasks \cap {"relay", "loop", "direct", "idle"} = {}
    \/ setting.tasks \cap {"frame", "direct"} = {} /\ setting.queueCap >= MaxData

\* The replay check never hits a packet of an honest peer, also when the key is
\* nearly used up: the key limits end a session before its numbers wrap.
NoFalseReplay == Alone => link # "replay"

\* The receiver gives up before the sender only for the bytes that encryption
\* adds, which it counts and the sender does not; messages it never counts
\* further than the sender does.
LimitsAgree ==
    link = "exhausted" => recvCount <= MsgLimit /\ recvBytes > ByteLimit

\* What arrives is what was sent, in order and without gaps.
ReceivedInOrder == Alone => \A i \in 1..Len(received) : received[i] = i
=============================================================================
