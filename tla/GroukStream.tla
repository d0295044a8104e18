---------------------------- MODULE GroukStream ----------------------------
(***************************************************************************)
(* One direction of one Grouk stream (pkg/transport/grouk.go): a sending   *)
(* GroukStream, the UDP network, and the receiving GroukStream, with the   *)
(* goroutines that touch them.                                             *)
(*                                                                         *)
(*   sender    Write (any number of writers), handleAck on the session's   *)
(*             read loop, retransmitLoop, Close                            *)
(*   receiver  handleData/handleRecv on the session's read loop and the    *)
(*             stream's own retransmitLoop, which BOTH run deliverOrdered; *)
(*             Read, Close                                                 *)
(*                                                                         *)
(* A chunk is named by its sequence number.  The packet that carries it    *)
(* may be lost, overtaken and, when the network is not timely, duplicated. *)
(***************************************************************************)
EXTENDS Integers, Sequences, FiniteSets

CONSTANTS
    Writers,          \* goroutines that call Write on the sending stream
    MaxSeq,           \* bound: no new chunk once sendSeq reaches it
    ReadCap,          \* capacity of readCh (groukRecvBufferSize, 256)
    WindowSize,       \* groukWindowSize, 128
    InitialCwnd,      \* groukInitialCwnd, 16
    MinCwnd,          \* groukMinCwnd, 4
    MaxRetransmit,    \* groukMaxRetransmit, 10
    MaxLoss,          \* bound: packets the network may lose
    MaxDup,           \* bound: data packets the network may duplicate
    Settings          \* the directions and networks considered, see setting

ASSUME ConstantsOK ==
    /\ IsFiniteSet(Writers)
    /\ MaxSeq \in Nat \ {0} /\ MaxLoss \in Nat /\ MaxDup \in Nat
    /\ ReadCap \in Nat \ {0}
    /\ WindowSize \in Nat /\ InitialCwnd \in Nat /\ MinCwnd \in Nat \ {0}
    /\ MinCwnd <= InitialCwnd /\ InitialCwnd <= WindowSize
    /\ MaxRetransmit \in Nat \ {0}
    /\ Settings \subseteq SUBSET {"senderOpened", "timely"}

Ends == {"sender", "receiver"}

\* The two goroutines that run deliverOrdered on the receiving stream.
Deliverers == {"readLoop", "retransmitLoop"}

\* Close takes one sequence number more (GroukStream.Close).
Seqs == 1..(MaxSeq + 1)

VARIABLES
    setting,      \* of this behaviour, see SenderOpened and Timely
    done,         \* ends whose stream is closed (closed, doneCh)
    known,        \* ends whose session has the stream in its streams map
    \* --- sending stream
    sendSeq,      \* last sequence number used
    sendBuf,      \* sequence numbers sent and not acknowledged
    retries,      \* retries[s]: how often s was retransmitted
    sendWin,      \* the window counter
    cwnd,         \* congestion window
    wpc,          \* wpc[w]: where writer w is in Write
    rtx,          \* the sender's retransmitLoop: [pc, seq, cur]
    \* --- network
    dataNet,      \* DATA packets in flight
    ackNet,       \* ACK packets in flight
    ctrlNet,      \* OPEN in flight, and CLOSE by the end it is going to
    losses, dups, \* what the network has lost and duplicated
    \* --- receiving stream
    recvBuf,      \* sequence numbers buffered and not delivered
    recvNext,     \* next sequence number to deliver
    dpc, nxt,     \* dpc[t], nxt[t]: where deliverer t is, and its local next
    acking,       \* the sequence number readLoop acknowledges when it is done
    delivered,    \* everything ever sent to readCh
    nread,        \* how much of it Read has returned
    reader,       \* "stopped" once Read has returned io.EOF
    got           \* every sequence number handleRecv ever stored

ends     == <<setting, done, known>>
sender   == <<sendSeq, sendBuf, retries, sendWin, cwnd, wpc, rtx>>
network  == <<dataNet, ackNet, ctrlNet, losses, dups>>
receiver == <<recvBuf, recvNext, dpc, nxt, acking, delivered, nread, reader, got>>
vars     == <<ends, sender, network, receiver>>

\* Did the sending end call OpenStream (else it called AcceptStream)?
SenderOpened == "senderOpened" \in setting

\* A timely network duplicates nothing, delivers every ACK, and no packet is
\* so late that its sender takes it for lost: no chunk arrives twice.
Timely == "timely" \in setting

\* The sequence number of the first DATA packet: OpenStream has spent 1 on OPEN.
FirstData == IF SenderOpened THEN 2 ELSE 1

\* retransmitLoop outside the halving, whose locals it then holds no more.
Running == [pc |-> "run", seq |-> 1, cur |-> 0]
Stopped == [pc |-> "stopped", seq |-> 1, cur |-> 0]

\* Both ends as newGroukStream makes them.
Init ==
    /\ setting \in Settings
    /\ done = {} /\ known = IF SenderOpened THEN {"sender"} ELSE Ends
    /\ sendSeq = FirstData - 1
    /\ sendBuf = {} /\ retries = [s \in Seqs |-> 0]
    /\ sendWin = 0 /\ cwnd = InitialCwnd
    /\ wpc = [w \in Writers |-> "idle"]
    /\ rtx = Running
    /\ dataNet = {} /\ ackNet = {}
    /\ ctrlNet = IF SenderOpened THEN {"OPEN"} ELSE {}
    /\ losses = 0 /\ dups = 0
    /\ recvBuf = {} /\ recvNext = 1
    /\ dpc = [t \in Deliverers |->
                IF t = "retransmitLoop" /\ SenderOpened THEN "stopped" ELSE "idle"]
    /\ nxt = [t \in Deliverers |-> 1]
    /\ acking = 1
    /\ delivered = <<>> /\ nread = 0 /\ reader = "reading"
    /\ got = {}

---------------------------------------------------------------------------
(* The sending stream. *)

\* Write is called: a closed stream refuses at once.
WriteCall(w) ==
    /\ wpc[w] = "idle" /\ "sender" \notin done
    /\ wpc' = [wpc EXCEPT ![w] = "wait"]
    /\ UNCHANGED <<ends, sendSeq, sendBuf, retries, sendWin, cwnd, rtx>>
    /\ UNCHANGED <<network, receiver>>

\* The window is open: the wait loop ends (it does not look at closed).
WriteAdmit(w) ==
    /\ wpc[w] = "wait" /\ sendWin < cwnd
    /\ wpc' = [wpc EXCEPT ![w] = "admitted"]
    /\ UNCHANGED <<ends, sendSeq, sendBuf, retries, sendWin, cwnd, rtx>>
    /\ UNCHANGED <<network, receiver>>

\* The window is shut and the stream is done: Write returns ErrClosedPipe.
WriteAbort(w) ==
    /\ wpc[w] = "wait" /\ sendWin >= cwnd /\ "sender" \in done
    /\ wpc' = [wpc EXCEPT ![w] = "idle"]
    /\ UNCHANGED <<ends, sendSeq, sendBuf, retries, sendWin, cwnd, rtx>>
    /\ UNCHANGED <<network, receiver>>

\* One chunk is numbered, buffered, counted and sent; there may be more to write.
WriteChunk(w) ==
    /\ wpc[w] = "admitted" /\ sendSeq < MaxSeq
    /\ sendSeq' = sendSeq + 1
    /\ sendBuf' = sendBuf \cup {sendSeq + 1}
    /\ sendWin' = sendWin + 1
    /\ dataNet' = dataNet \cup {sendSeq + 1}
    /\ \E after \in {"idle", "wait"} : wpc' = [wpc EXCEPT ![w] = after]
    /\ UNCHANGED <<ends, retries, cwnd, rtx, receiver>>
    /\ UNCHANGED <<ackNet, ctrlNet, losses, dups>>

\* Mutant: the window counter goes down for every ACK, loaded or not.
HandleAckUnchecked(s) ==
    /\ s \in ackNet
    /\ ackNet' = ackNet \ {s}
    /\ sendBuf' = sendBuf \ {s}
    /\ sendWin' = sendWin - 1
    /\ UNCHANGED <<ends, sendSeq, retries, cwnd, wpc, rtx, receiver>>
    /\ UNCHANGED <<dataNet, ctrlNet, losses, dups>>

\* Mutant: an ACK clears the buffer and leaves the window counter.
HandleAckKeepsWindow(s) ==
    /\ s \in ackNet
    /\ ackNet' = ackNet \ {s}
    /\ sendBuf' = sendBuf \ {s}
    /\ UNCHANGED <<ends, sendSeq, retries, sendWin, cwnd, wpc, rtx, receiver>>
    /\ UNCHANGED <<dataNet, ctrlNet, losses, dups>>

\* The session's read loop hands an ACK to the stream, if it still knows it.
HandleAck(s) ==
    /\ s \in ackNet
    /\ ackNet' = ackNet \ {s}
    /\ IF "sender" \in known /\ s \in sendBuf
         THEN /\ sendBuf' = sendBuf \ {s}
              /\ retries' = [retries EXCEPT ![s] = 0]
              /\ sendWin' = sendWin - 1
              /\ cwnd' = IF cwnd < WindowSize THEN cwnd + 1 ELSE cwnd
         ELSE UNCHANGED <<sendBuf, retries, sendWin, cwnd>>
    /\ UNCHANGED <<ends, sendSeq, wpc, rtx, receiver>>
    /\ UNCHANGED <<dataNet, ctrlNet, losses, dups>>

\* The retransmission timer of s: on a timely network it fires only when the
\* packet is gone and its chunk has not been stored.
TimedOut(s) ==
    /\ s \in sendBuf
    /\ Timely => s \notin dataNet \cup got

\* retransmitLoop finds s overdue.  The first retry reads cwnd (and stores the
\* half in the next step), one retry too many closes the stream.
Retransmit(s) ==
    /\ rtx.pc = "run" /\ TimedOut(s)
    /\ retries' = [retries EXCEPT ![s] = @ + 1]
    /\ IF retries[s] = 0 THEN
            /\ rtx' = [pc |-> "halve", seq |-> s, cur |-> cwnd]
            /\ UNCHANGED <<done, dataNet>>
       ELSE IF retries[s] >= MaxRetransmit THEN
            /\ done' = done \cup {"sender"}
            /\ rtx' = Stopped
            /\ UNCHANGED dataNet
       ELSE /\ dataNet' = dataNet \cup {s}
            /\ UNCHANGED <<done, rtx>>
    /\ UNCHANGED <<setting, known, sendSeq, sendBuf, sendWin, cwnd, wpc, receiver>>
    /\ UNCHANGED <<ackNet, ctrlNet, losses, dups>>

\* The multiplicative decrease, and the first retransmission.
HalveWindow ==
    /\ rtx.pc = "halve"
    /\ cwnd' = IF rtx.cur \div 2 < MinCwnd THEN MinCwnd ELSE rtx.cur \div 2
    /\ dataNet' = dataNet \cup {rtx.seq}
    /\ rtx' = Running
    /\ UNCHANGED <<ends, sendSeq, sendBuf, retries, sendWin, wpc, receiver>>
    /\ UNCHANGED <<ackNet, ctrlNet, losses, dups>>

\* retransmitLoop sees doneCh.
RetransmitStop ==
    /\ rtx.pc = "run" /\ "sender" \in done
    /\ rtx' = Stopped
    /\ UNCHANGED <<ends, sendSeq, sendBuf, retries, sendWin, cwnd, wpc>>
    /\ UNCHANGED <<network, receiver>>

\* Close by the sending program: what is unacknowledged is forgotten.
SenderClose ==
    /\ "sender" \notin done
    /\ done' = done \cup {"sender"} /\ known' = known \ {"sender"}
    /\ sendSeq' = sendSeq + 1
    /\ ctrlNet' = ctrlNet \cup {"CLOSE_receiver"}
    /\ UNCHANGED <<setting, sendBuf, retries, sendWin, cwnd, wpc, rtx, receiver>>
    /\ UNCHANGED <<dataNet, ackNet, losses, dups>>

\* A CLOSE from the peer: a known stream is done and forgotten.
HandleClose(e, packet) ==
    /\ packet \in ctrlNet
    /\ ctrlNet' = ctrlNet \ {packet}
    /\ done' = IF e \in known THEN done \cup {e} ELSE done
    /\ known' = known \ {e}
    /\ UNCHANGED <<setting, sender, dataNet, ackNet, losses, dups, receiver>>

\* The sender's session handles the other end's CLOSE.
SenderHandleClose == HandleClose("sender", "CLOSE_sender")

---------------------------------------------------------------------------
(* The network. *)

\* The network loses a packet.
Lose ==
    /\ losses < MaxLoss
    /\ losses' = losses + 1
    /\ \/ /\ \E s \in dataNet : dataNet' = dataNet \ {s}
          /\ UNCHANGED <<ackNet, ctrlNet>>
       \/ /\ ~Timely
          /\ \E s \in ackNet : ackNet' = ackNet \ {s}
          /\ UNCHANGED <<dataNet, ctrlNet>>
       \/ /\ \E c \in ctrlNet : ctrlNet' = ctrlNet \ {c}
          /\ UNCHANGED <<dataNet, ackNet>>
    /\ UNCHANGED <<ends, sender, dups, receiver>>

\* A copy of a chunk that was already sent arrives late.
Duplicate(s) ==
    /\ ~Timely /\ dups < MaxDup
    /\ s \in got \ dataNet
    /\ dataNet' = dataNet \cup {s} /\ dups' = dups + 1
    /\ UNCHANGED <<ends, sender, ackNet, ctrlNet, losses, receiver>>

---------------------------------------------------------------------------
(* The receiving session's read loop. *)

\* OPEN: the stream is created and starts to deliver at 1.
HandleOpen ==
    /\ "OPEN" \in ctrlNet /\ dpc["readLoop"] = "idle"
    /\ ctrlNet' = ctrlNet \ {"OPEN"}
    /\ known' = known \cup {"receiver"}
    /\ dpc' = [dpc EXCEPT !["retransmitLoop"] = "idle"]
    /\ ackNet' = ackNet \cup {1}
    /\ UNCHANGED <<setting, done, sender, dataNet, losses, dups>>
    /\ UNCHANGED <<recvBuf, recvNext, nxt, acking, delivered, nread, reader, got>>

\* DATA for a stream the session does not know: dropped, not acknowledged.
HandleDataUnknown(s) ==
    /\ s \in dataNet /\ dpc["readLoop"] = "idle" /\ "receiver" \notin known
    /\ dataNet' = dataNet \ {s}
    /\ UNCHANGED <<ends, sender, ackNet, ctrlNet, losses, dups, receiver>>

\* DATA for a stream that is done but still in the map: acknowledged, not stored.
HandleDataClosed(s) ==
    /\ s \in dataNet /\ dpc["readLoop"] = "idle"
    /\ "receiver" \in known \cap done
    /\ dataNet' = dataNet \ {s}
    /\ ackNet' = ackNet \cup {s}
    /\ UNCHANGED <<ends, sender, ctrlNet, losses, dups, receiver>>

\* DATA: handleRecv stores the chunk, whatever its number, and starts to deliver.
HandleData(s) ==
    /\ s \in dataNet /\ dpc["readLoop"] = "idle"
    /\ "receiver" \in known \ done
    /\ dataNet' = dataNet \ {s}
    /\ recvBuf' = recvBuf \cup {s}
    /\ got' = got \cup {s}
    /\ acking' = s
    /\ dpc' = [dpc EXCEPT !["readLoop"] = "load"]
    /\ UNCHANGED <<ends, sender, ackNet, ctrlNet, losses, dups>>
    /\ UNCHANGED <<recvNext, nxt, delivered, nread, reader>>

\* CLOSE: a known stream is done and forgotten, whatever is still to come.
ReceiverHandleClose ==
    /\ dpc["readLoop"] = "idle"
    /\ HandleClose("receiver", "CLOSE_receiver")

---------------------------------------------------------------------------
(* deliverOrdered, run by deliverer t, one access to shared state at a time. *)

\* Mutant: the tick retransmits and does not call deliverOrdered.
TickRetransmitsOnly ==
    /\ dpc["retransmitLoop"] = "idle"
    /\ UNCHANGED vars

\* The receiving stream's own retransmitLoop ticks.
Tick ==
    /\ dpc["retransmitLoop"] = "idle"
    /\ dpc' = [dpc EXCEPT !["retransmitLoop"] = "load"]
    /\ UNCHANGED <<ends, sender, network>>
    /\ UNCHANGED <<recvBuf, recvNext, nxt, acking, delivered, nread, reader, got>>

\* retransmitLoop sees doneCh.
TickStop ==
    /\ dpc["retransmitLoop"] = "idle" /\ "receiver" \in done
    /\ dpc' = [dpc EXCEPT !["retransmitLoop"] = "stopped"]
    /\ UNCHANGED <<ends, sender, network>>
    /\ UNCHANGED <<recvBuf, recvNext, nxt, acking, delivered, nread, reader, got>>

\* deliverOrdered returns (its locals are gone); readLoop then acknowledges the
\* packet it was handling.
Return(t) ==
    /\ dpc' = [dpc EXCEPT ![t] = "idle"]
    /\ nxt' = [nxt EXCEPT ![t] = 1]
    /\ IF t = "readLoop" THEN ackNet' = ackNet \cup {acking} /\ acking' = 1
                         ELSE UNCHANGED <<ackNet, acking>>

\* deliverOrdered loads recvNext.
DeliverLoad(t) ==
    /\ dpc[t] = "load"
    /\ nxt' = [nxt EXCEPT ![t] = recvNext]
    /\ dpc' = [dpc EXCEPT ![t] = "take"]
    /\ UNCHANGED <<ends, sender, network>>
    /\ UNCHANGED <<recvBuf, recvNext, acking, delivered, nread, reader, got>>

\* Mutant: Load without Delete.
DeliverTakeLeaves(t) ==
    /\ dpc[t] = "take"
    /\ IF nxt[t] \in recvBuf
         THEN /\ dpc' = [dpc EXCEPT ![t] = "push"]
              /\ UNCHANGED <<ackNet, nxt, acking>>
         ELSE Return(t)
    /\ UNCHANGED <<ends, sender, dataNet, ctrlNet, losses, dups>>
    /\ UNCHANGED <<recvBuf, recvNext, delivered, nread, reader, got>>

\* LoadAndDelete(next).
DeliverTake(t) ==
    /\ dpc[t] = "take"
    /\ IF nxt[t] \in recvBuf
         THEN /\ dpc' = [dpc EXCEPT ![t] = "push"]
              /\ recvBuf' = recvBuf \ {nxt[t]}
              /\ UNCHANGED <<ackNet, nxt, acking>>
         ELSE Return(t) /\ UNCHANGED recvBuf
    /\ UNCHANGED <<ends, sender, dataNet, ctrlNet, losses, dups>>
    /\ UNCHANGED <<recvNext, delivered, nread, reader, got>>

\* readCh has room for a chunk.
HasRoom == Len(delivered) - nread < ReadCap

\* Mutant: a chunk that finds readCh full is dropped, not put back.
DeliverPushDrops(t) ==
    /\ dpc[t] = "push"
    /\ \/ /\ HasRoom
          /\ delivered' = Append(delivered, nxt[t])
          /\ dpc' = [dpc EXCEPT ![t] = "add"]
          /\ UNCHANGED <<ackNet, nxt, acking>>
       \/ /\ ~HasRoom \/ "receiver" \in done
          /\ Return(t)
          /\ UNCHANGED delivered
    /\ UNCHANGED <<ends, sender, dataNet, ctrlNet, losses, dups>>
    /\ UNCHANGED <<recvBuf, recvNext, nread, reader, got>>

\* The select: send to readCh, or give up because the stream is done, or put
\* the chunk back because readCh is full.
DeliverPush(t) ==
    /\ dpc[t] = "push"
    /\ \/ /\ HasRoom
          /\ delivered' = Append(delivered, nxt[t])
          /\ dpc' = [dpc EXCEPT ![t] = "add"]
          /\ UNCHANGED <<recvBuf, ackNet, nxt, acking>>
       \/ /\ "receiver" \in done
          /\ Return(t)
          /\ UNCHANGED <<recvBuf, delivered>>
       \/ /\ ~HasRoom /\ "receiver" \notin done
          /\ recvBuf' = recvBuf \cup {nxt[t]}
          /\ Return(t)
          /\ UNCHANGED delivered
    /\ UNCHANGED <<ends, sender, dataNet, ctrlNet, losses, dups>>
    /\ UNCHANGED <<recvNext, nread, reader, got>>

\* recvNext.Add(1), and once more round the loop.
DeliverAdd(t) ==
    /\ dpc[t] = "add"
    /\ recvNext' = recvNext + 1
    /\ dpc' = [dpc EXCEPT ![t] = "load"]
    /\ nxt' = [nxt EXCEPT ![t] = 1]
    /\ UNCHANGED <<ends, sender, network>>
    /\ UNCHANGED <<recvBuf, acking, delivered, nread, reader, got>>

---------------------------------------------------------------------------
(* The receiving program. *)

\* The program reads the next chunk handed over by deliverOrdered.
Read ==
    /\ reader = "reading"
    /\ \/ nread < Len(delivered) /\ nread' = nread + 1 /\ UNCHANGED reader
       \/ "receiver" \in done /\ reader' = "stopped" /\ UNCHANGED nread
    /\ UNCHANGED <<ends, sender, network>>
    /\ UNCHANGED <<recvBuf, recvNext, dpc, nxt, acking, delivered, got>>

\* The receiving program closes its end.
ReceiverClose ==
    /\ "receiver" \in known \ done
    /\ done' = done \cup {"receiver"} /\ known' = known \ {"receiver"}
    /\ ctrlNet' = ctrlNet \cup {"CLOSE_sender"}
    /\ UNCHANGED <<setting, sender, dataNet, ackNet, losses, dups, receiver>>

\* The other direction of the stream ran out of retransmissions: the stream is
\* done, stays in the map, and its Close will do nothing (closed is already set).
ReceiverGaveUp ==
    /\ "receiver" \in known \ done
    /\ done' = done \cup {"receiver"}
    /\ UNCHANGED <<setting, known, sender, network, receiver>>

---------------------------------------------------------------------------
Sender ==
    \/ \E w \in Writers : WriteCall(w) \/ WriteAdmit(w) \/ WriteAbort(w) \/ WriteChunk(w)
    \/ \E s \in Seqs : HandleAck(s) \/ Retransmit(s)
    \/ HalveWindow \/ RetransmitStop \/ SenderClose \/ SenderHandleClose

Network == Lose \/ \E s \in Seqs : Duplicate(s)

Receiver ==
    \/ HandleOpen \/ ReceiverHandleClose \/ Tick \/ TickStop
    \/ \E s \in Seqs : HandleDataUnknown(s) \/ HandleDataClosed(s) \/ HandleData(s)
    \/ \E t \in Deliverers :
          DeliverLoad(t) \/ DeliverTake(t) \/ DeliverPush(t) \/ DeliverAdd(t)
    \/ Read \/ ReceiverClose \/ ReceiverGaveUp

Next == Sender \/ Network \/ Receiver

Spec == Init /\ [][Next]_vars

\* Every goroutine runs, packets that are not lost arrive, the reader reads.
Fairness ==
    /\ \A s \in Seqs :
          /\ WF_vars(HandleAck(s))
          /\ WF_vars(Retransmit(s))
          /\ WF_vars(HandleDataUnknown(s) \/ HandleDataClosed(s) \/ HandleData(s))
    /\ WF_vars(HalveWindow) /\ WF_vars(HandleOpen) /\ WF_vars(Tick)
    /\ \A t \in Deliverers :
          WF_vars(DeliverLoad(t) \/ DeliverTake(t) \/ DeliverPush(t) \/ DeliverAdd(t))
    /\ \A w \in Writers : WF_vars(WriteAdmit(w) \/ WriteAbort(w))
    /\ WF_vars(Read)

FairSpec == Spec /\ Fairness

---------------------------------------------------------------------------
(* Properties. *)

SenderTypeOK ==
    /\ sendSeq \in 0..(IF "sender" \in done THEN MaxSeq + 1 ELSE MaxSeq)
    /\ sendBuf \subseteq Seqs
    /\ retries \in [Seqs -> Nat]
    /\ sendWin \in Int
    /\ cwnd \in MinCwnd..WindowSize
    /\ wpc \in [Writers -> {"idle", "wait", "admitted"}]
    /\ rtx \in [pc : {"run", "halve", "stopped"}, seq : Seqs, cur : 0..WindowSize]

NetworkTypeOK ==
    /\ setting \in Settings
    /\ done \subseteq Ends /\ known \subseteq Ends
    /\ dataNet \subseteq Seqs /\ ackNet \subseteq Seqs
    /\ ctrlNet \subseteq {"OPEN", "CLOSE_receiver", "CLOSE_sender"}
    /\ losses \in 0..MaxLoss /\ dups \in 0..MaxDup

ReceiverTypeOK ==
    /\ recvBuf \subseteq Seqs /\ recvNext \in Nat
    /\ dpc \in [Deliverers -> {"idle", "load", "take", "push", "add", "stopped"}]
    /\ nxt \in [Deliverers -> Nat]
    /\ \A t \in Deliverers : dpc[t] = "push" => nxt[t] \in Seqs
    /\ acking \in Seqs
    /\ delivered \in Seq(Nat) /\ nread \in 0..Len(delivered)
    /\ reader \in {"reading", "stopped"}
    /\ got \subseteq Seqs

\* The type invariant: every variable keeps its type, counters and windows their
\* bounds.
TypeOK == SenderTypeOK /\ NetworkTypeOK /\ ReceiverTypeOK

\* The writers that have seen the window open and not yet sent.
Admitted == {w \in Writers : wpc[w] = "admitted"}

\* The congestion window stays between its floor and its ceiling although
\* handleAck and retransmitLoop update it without a lock, the window counter
\* counts the unacknowledged chunks exactly, and concurrent writers overshoot
\* the window by at most one chunk each (Write checks, then adds).
WindowAccounting ==
    /\ cwnd \in MinCwnd..WindowSize
    /\ sendWin = Cardinality(sendBuf)
    /\ sendWin + Cardinality(Admitted) < WindowSize + Cardinality(Writers)

\* The receiver has chunk s: buffered, in a deliverer's hands, or handed over.
Held(s) ==
    \/ s \in recvBuf
    \/ \E t \in Deliverers : dpc[t] = "push" /\ nxt[t] = s
    \/ \E i \in 1..Len(delivered) : delivered[i] = s

\* While both ends are open no chunk disappears between the acknowledgement,
\* the reorder buffer, the two deliverers that carry chunks and readCh: what
\* the sender may forget, the receiver still holds or has handed over.
NothingLost == done = {} => \A s \in FirstData..sendSeq : s \in sendBuf \/ Held(s)

\* What README.md promises of Grouk ("custom reliable UDP"), on any network:
\* chunks reach readCh in the order written, each once.
ReliableDelivery == \A i \in 1..Len(delivered) : delivered[i] = FirstData + i - 1

Abs == INSTANCE ReliableStream
         WITH written <- sendSeq - (FirstData - 1),
              delivered <- [i \in 1..Len(delivered) |-> delivered[i] - (FirstData - 1)]

\* On a timely network the stream implements ReliableStream although two
\* goroutines deliver concurrently, readCh fills up and packets are lost and
\* overtake each other.
RefinesReliableStream ==
    /\ Timely => Abs!Init
    /\ [][Timely => (Abs!Next \/ UNCHANGED Abs!vars)]_vars

\* A chunk written to an accepted stream is read at the other end unless an
\* end is closed: losses are repaired, and no chunk waits for a tick forever.
WrittenIsRead ==
    \A s \in 1..MaxSeq :
        (Timely /\ ~SenderOpened /\ s \in sendBuf) ~> (nread >= s \/ done # {})

\* The same of a stream that was opened at this end: README.md's packet flow
\* shows DATA follow OPEN and be acknowledged on a "reliable stream".
OpenedIsRead ==
    \A s \in 2..MaxSeq :
        (Timely /\ SenderOpened /\ s \in sendBuf)
            ~> (nread >= s - 1 \/ done # {} \/ losses > 0)

\* A Write that waits for the window goes on or returns: acknowledgements open
\* the window, or the retransmission limit closes the stream.
WriterNotStuck == \A w \in Writers : wpc[w] = "wait" ~> wpc[w] # "wait"
=============================================================================
