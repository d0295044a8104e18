------------------------- MODULE GroukStreamProofs -------------------------
(***************************************************************************)
(* Proofs about GroukStream, for every number of writers, every capacity   *)
(* and window, every bound on sequence numbers, losses and duplicates.     *)
(***************************************************************************)
EXTENDS GroukStream, FiniteSetTheorems, TLAPS

\* Every variable keeps to its type; in particular the congestion window stays
\* between groukMinCwnd and groukWindowSize.
THEOREM TypeCorrect == Spec => []TypeOK
<1>1. Init => TypeOK
  <2> SUFFICES ASSUME Init PROVE TypeOK
    OBVIOUS
  <2>1. SenderTypeOK
    BY ConstantsOK, SMTT(30) DEF Init, SenderTypeOK, FirstData, Running, Seqs
  <2>2. NetworkTypeOK
    BY ConstantsOK DEF Init, NetworkTypeOK, Seqs, Ends
  <2>3. ReceiverTypeOK
    <3>1. delivered \in Seq(Nat) /\ nread \in 0..Len(delivered)
      <4> delivered = <<>> /\ nread = 0
        BY DEF Init
      <4> QED
        OBVIOUS
    <3>2. dpc \in [Deliverers -> {"idle", "load", "take", "push", "add", "stopped"}]
      BY DEF Init
    <3>3. acking \in Seqs
      BY ConstantsOK DEF Init, Seqs
    <3> QED
      BY <3>1, <3>2, <3>3 DEF Init, ReceiverTypeOK
  <2> QED
    BY <2>1, <2>2, <2>3 DEF TypeOK
<1>2. ASSUME TypeOK, [Next]_vars
      PROVE  TypeOK'
  <2> USE <1>2 DEF TypeOK
  <2>1. ASSUME NEW w \in Writers, WriteCall(w)
        PROVE  TypeOK'
    <3>1. SenderTypeOK'
      BY <2>1, ConstantsOK, SMTT(30) DEF SenderTypeOK, Seqs, Ends, Deliverers, WriteCall,
         sender, ends
    <3>2. NetworkTypeOK'
      BY <2>1 DEF NetworkTypeOK, WriteCall, network, ends
    <3>3. ReceiverTypeOK'
      BY <2>1 DEF ReceiverTypeOK, WriteCall, receiver
    <3> QED
      BY <3>1, <3>2, <3>3
  <2>2. ASSUME NEW w \in Writers, WriteAdmit(w)
        PROVE  TypeOK'
    <3>1. SenderTypeOK'
      BY <2>2, ConstantsOK, SMTT(30) DEF SenderTypeOK, Seqs, Ends, Deliverers, WriteAdmit,
         sender, ends
    <3>2. NetworkTypeOK'
      BY <2>2 DEF NetworkTypeOK, WriteAdmit, network, ends
    <3>3. ReceiverTypeOK'
      BY <2>2 DEF ReceiverTypeOK, WriteAdmit, receiver
    <3> QED
      BY <3>1, <3>2, <3>3
  <2>3. ASSUME NEW w \in Writers, WriteAbort(w)
        PROVE  TypeOK'
    <3>1. SenderTypeOK'
      BY <2>3, ConstantsOK, SMTT(30) DEF SenderTypeOK, Seqs, Ends, Deliverers, WriteAbort,
         sender, ends
    <3>2. NetworkTypeOK'
      BY <2>3 DEF NetworkTypeOK, WriteAbort, network, ends
    <3>3. ReceiverTypeOK'
      BY <2>3 DEF ReceiverTypeOK, WriteAbort, receiver
    <3> QED
      BY <3>1, <3>2, <3>3
  <2>4. ASSUME NEW w \in Writers, WriteChunk(w)
        PROVE  TypeOK'
    <3>1. SenderTypeOK'
      BY <2>4, ConstantsOK, SMTT(30) DEF SenderTypeOK, Seqs, Ends, Deliverers, WriteChunk,
         sender, ends
    <3>2. NetworkTypeOK'
      <4>1. dataNet' \subseteq Seqs
        BY <2>4, ConstantsOK DEF NetworkTypeOK, WriteChunk, SenderTypeOK, Seqs
      <4>2. UNCHANGED <<setting, done, known, ackNet, ctrlNet, losses, dups>>
        BY <2>4 DEF WriteChunk, ends
      <4> QED
        BY <4>1, <4>2 DEF NetworkTypeOK
    <3>3. ReceiverTypeOK'
      BY <2>4 DEF ReceiverTypeOK, WriteChunk, receiver
    <3> QED
      BY <3>1, <3>2, <3>3
  <2>5. ASSUME NEW s \in Seqs, HandleAck(s)
        PROVE  TypeOK'
    <3>1. SenderTypeOK'
      <4>1. CASE "sender" \in known /\ s \in sendBuf
        BY <2>5, <4>1, ConstantsOK, SMTT(30) DEF SenderTypeOK, HandleAck, ends
      <4>2. CASE ~("sender" \in known /\ s \in sendBuf)
        BY <2>5, <4>2, SMTT(30) DEF SenderTypeOK, HandleAck, ends
      <4> QED
        BY <4>1, <4>2
    <3>2. NetworkTypeOK'
      <4>1. ackNet' \subseteq Seqs
        BY <2>5 DEF NetworkTypeOK, HandleAck
      <4>2. UNCHANGED <<setting, done, known, dataNet, ctrlNet, losses, dups>>
        BY <2>5 DEF HandleAck, ends
      <4> QED
        BY <4>1, <4>2 DEF NetworkTypeOK
    <3>3. ReceiverTypeOK'
      BY <2>5 DEF ReceiverTypeOK, HandleAck, receiver
    <3> QED
      BY <3>1, <3>2, <3>3
  <2>6. ASSUME NEW s \in Seqs, Retransmit(s)
        PROVE  TypeOK'
    <3>1. SenderTypeOK'
      <4>1. retries' \in [Seqs -> Nat]
        BY <2>6 DEF SenderTypeOK, Retransmit
      <4>2. rtx' \in [pc : {"run", "halve", "stopped"}, seq : Seqs, cur : 0..WindowSize]
        <5>1. cwnd \in 0..WindowSize /\ 1 \in Seqs /\ 0 \in 0..WindowSize
          BY ConstantsOK DEF SenderTypeOK, Seqs
        <5>2. rtx \in [pc : {"run", "halve", "stopped"}, seq : Seqs, cur : 0..WindowSize]
          BY DEF SenderTypeOK
        <5>3. rtx' \in {rtx, Stopped, [pc |-> "halve", seq |-> s, cur |-> cwnd]}
          BY <2>6 DEF Retransmit
        <5> QED
          BY <2>6, <5>1, <5>2, <5>3 DEF Stopped
      <4>3. sendSeq' \in 0..(IF "sender" \in done' THEN MaxSeq + 1 ELSE MaxSeq)
        <5>1. sendSeq' = sendSeq /\ done \subseteq done'
          BY <2>6 DEF Retransmit
        <5> QED
          BY <5>1, ConstantsOK DEF SenderTypeOK
      <4>4. UNCHANGED <<sendBuf, sendWin, cwnd, wpc>>
        BY <2>6 DEF Retransmit
      <4> QED
        BY <4>1, <4>2, <4>3, <4>4 DEF SenderTypeOK
    <3>2. NetworkTypeOK'
      <4>1. done' \subseteq Ends /\ dataNet' \subseteq Seqs
        BY <2>6 DEF NetworkTypeOK, Retransmit, Ends
      <4> QED
        BY <2>6, <4>1 DEF NetworkTypeOK, Retransmit
    <3>3. ReceiverTypeOK'
      BY <2>6 DEF ReceiverTypeOK, Retransmit, Stopped, receiver
    <3> QED
      BY <3>1, <3>2, <3>3
  <2>7. CASE HalveWindow
    <3>1. SenderTypeOK'
      <4>1. cwnd' \in MinCwnd..WindowSize
        <5>1. rtx.cur \in 0..WindowSize
          BY DEF SenderTypeOK
        <5> QED
          BY <2>7, <5>1, ConstantsOK DEF HalveWindow
      <4>2. rtx' \in [pc : {"run", "halve", "stopped"}, seq : Seqs, cur : 0..WindowSize]
        BY <2>7, ConstantsOK DEF HalveWindow, Running, Seqs
      <4>3. UNCHANGED <<done, sendSeq, sendBuf, retries, sendWin, wpc>>
        BY <2>7 DEF HalveWindow, ends
      <4> QED
        BY <4>1, <4>2, <4>3 DEF SenderTypeOK
    <3>2. NetworkTypeOK'
      <4>1. rtx.seq \in Seqs
        BY DEF SenderTypeOK
      <4> QED
        BY <2>7, <4>1 DEF NetworkTypeOK, HalveWindow, ends
    <3>3. ReceiverTypeOK'
      BY <2>7 DEF ReceiverTypeOK, HalveWindow, Running, receiver
    <3> QED
      BY <3>1, <3>2, <3>3
  <2>8. CASE RetransmitStop
    <3>1. SenderTypeOK'
      BY <2>8, ConstantsOK, SMTT(30) DEF SenderTypeOK, Seqs, Ends, Deliverers,
         RetransmitStop, Stopped, sender, ends
    <3>2. NetworkTypeOK'
      BY <2>8 DEF NetworkTypeOK, RetransmitStop, Stopped, network, ends
    <3>3. ReceiverTypeOK'
      BY <2>8 DEF ReceiverTypeOK, RetransmitStop, Stopped, receiver
    <3> QED
      BY <3>1, <3>2, <3>3
  <2>9. CASE SenderClose
    <3>1. SenderTypeOK'
      BY <2>9, ConstantsOK, SMTT(30) DEF SenderTypeOK, Seqs, Ends, Deliverers, SenderClose,
         sender, ends
    <3>2. NetworkTypeOK'
      <4>1. /\ done' \subseteq Ends /\ known' \subseteq Ends
            /\ ctrlNet' \subseteq {"OPEN", "CLOSE_receiver", "CLOSE_sender"}
        BY <2>9 DEF NetworkTypeOK, SenderClose, Ends
      <4>2. UNCHANGED <<setting, dataNet, ackNet, losses, dups>>
        BY <2>9 DEF SenderClose, ends
      <4> QED
        BY <4>1, <4>2 DEF NetworkTypeOK
    <3>3. ReceiverTypeOK'
      BY <2>9 DEF ReceiverTypeOK, SenderClose, receiver
    <3> QED
      BY <3>1, <3>2, <3>3
  <2>10. CASE SenderHandleClose
    <3>1. SenderTypeOK'
      BY <2>10, ConstantsOK, SMTT(30) DEF SenderTypeOK, Seqs, Ends, Deliverers,
         SenderHandleClose, HandleClose, sender, ends
    <3>2. NetworkTypeOK'
      <4>1. /\ done' \subseteq Ends /\ known' \subseteq Ends
            /\ ctrlNet' \subseteq {"OPEN", "CLOSE_receiver", "CLOSE_sender"}
        BY <2>10 DEF NetworkTypeOK, SenderHandleClose, HandleClose, Ends
      <4>2. UNCHANGED <<setting, dataNet, ackNet, losses, dups>>
        BY <2>10 DEF SenderHandleClose, HandleClose
      <4> QED
        BY <4>1, <4>2 DEF NetworkTypeOK
    <3>3. ReceiverTypeOK'
      BY <2>10 DEF ReceiverTypeOK, SenderHandleClose, HandleClose, receiver
    <3> QED
      BY <3>1, <3>2, <3>3
  <2>11. CASE Lose
    <3>1. SenderTypeOK'
      BY <2>11 DEF SenderTypeOK, Lose, sender, ends
    <3>2. NetworkTypeOK'
      <4>1. losses' \in 0..MaxLoss
        BY <2>11, ConstantsOK DEF NetworkTypeOK, Lose
      <4>2. dataNet' \subseteq dataNet /\ ackNet' \subseteq ackNet /\ ctrlNet' \subseteq ctrlNet
        BY <2>11 DEF Lose
      <4> QED
        BY <2>11, <4>1, <4>2 DEF NetworkTypeOK, Lose, ends
    <3>3. ReceiverTypeOK'
      BY <2>11 DEF ReceiverTypeOK, Lose, receiver
    <3> QED
      BY <3>1, <3>2, <3>3
  <2>12. ASSUME NEW s \in Seqs, Duplicate(s)
        PROVE  TypeOK'
    <3>1. SenderTypeOK'
      BY <2>12 DEF SenderTypeOK, Duplicate, sender, ends
    <3>2. NetworkTypeOK'
      <4>1. dataNet' \subseteq Seqs /\ dups' \in 0..MaxDup
        BY <2>12, ConstantsOK DEF NetworkTypeOK, Duplicate
      <4>2. UNCHANGED <<setting, done, known, ackNet, ctrlNet, losses>>
        BY <2>12 DEF Duplicate, ends
      <4> QED
        BY <4>1, <4>2 DEF NetworkTypeOK
    <3>3. ReceiverTypeOK'
      BY <2>12 DEF ReceiverTypeOK, Duplicate, receiver
    <3> QED
      BY <3>1, <3>2, <3>3
  <2>13. CASE HandleOpen
    <3>1. SenderTypeOK'
      BY <2>13, ConstantsOK, SMTT(30) DEF SenderTypeOK, Seqs, Ends, Deliverers, HandleOpen,
         sender, ends
    <3>2. NetworkTypeOK'
      <4>1. /\ known' \subseteq Ends /\ ackNet' \subseteq Seqs
            /\ ctrlNet' \subseteq {"OPEN", "CLOSE_receiver", "CLOSE_sender"}
        BY <2>13, ConstantsOK DEF NetworkTypeOK, HandleOpen, Seqs, Ends
      <4>2. UNCHANGED <<setting, done, dataNet, losses, dups>>
        BY <2>13 DEF HandleOpen, ends
      <4> QED
        BY <4>1, <4>2 DEF NetworkTypeOK
    <3>3. ReceiverTypeOK'
      BY <2>13, ConstantsOK, SMTT(30) DEF ReceiverTypeOK, NetworkTypeOK, Seqs, Ends,
         Deliverers, HandleOpen, receiver
    <3> QED
      BY <3>1, <3>2, <3>3
  <2>14. CASE ReceiverHandleClose
    <3>1. SenderTypeOK'
      BY <2>14, ConstantsOK, SMTT(30) DEF SenderTypeOK, Seqs, Ends, Deliverers,
         ReceiverHandleClose, HandleClose, sender, ends
    <3>2. NetworkTypeOK'
      <4>1. /\ done' \subseteq Ends /\ known' \subseteq Ends
            /\ ctrlNet' \subseteq {"OPEN", "CLOSE_receiver", "CLOSE_sender"}
        BY <2>14 DEF NetworkTypeOK, ReceiverHandleClose, HandleClose, Ends
      <4>2. UNCHANGED <<setting, dataNet, ackNet, losses, dups>>
        BY <2>14 DEF ReceiverHandleClose, HandleClose
      <4> QED
        BY <4>1, <4>2 DEF NetworkTypeOK
    <3>3. ReceiverTypeOK'
      BY <2>14, ConstantsOK, SMTT(30) DEF ReceiverTypeOK, NetworkTypeOK, Seqs, Ends,
         Deliverers, ReceiverHandleClose, HandleClose, receiver
    <3> QED
      BY <3>1, <3>2, <3>3
  <2>15. CASE Tick \/ TickStop
    <3>1. SenderTypeOK'
      BY <2>15 DEF SenderTypeOK, Tick, TickStop, sender, ends
    <3>2. NetworkTypeOK'
      BY <2>15 DEF NetworkTypeOK, Tick, TickStop, network, ends
    <3>3. ReceiverTypeOK'
      <4>1. CASE Tick
        <5>1. /\ dpc' \in [Deliverers -> {"idle", "load", "take", "push", "add", "stopped"}]
              /\ \A u \in Deliverers : dpc'[u] = "push" => nxt[u] \in Seqs
          BY <4>1 DEF ReceiverTypeOK, Tick, Deliverers
        <5> QED
          BY <4>1, <5>1 DEF ReceiverTypeOK, Tick
      <4>2. CASE TickStop
        <5>1. /\ dpc' \in [Deliverers -> {"idle", "load", "take", "push", "add", "stopped"}]
              /\ \A u \in Deliverers : dpc'[u] = "push" => nxt[u] \in Seqs
          BY <4>2 DEF ReceiverTypeOK, TickStop, Deliverers
        <5> QED
          BY <4>2, <5>1 DEF ReceiverTypeOK, TickStop
      <4> QED
        BY <2>15, <4>1, <4>2
    <3> QED
      BY <3>1, <3>2, <3>3
  <2>16. ASSUME NEW s \in Seqs, HandleDataUnknown(s) \/ HandleDataClosed(s)
        PROVE  TypeOK'
    <3>1. SenderTypeOK'
      BY <2>16 DEF SenderTypeOK, HandleDataUnknown, HandleDataClosed, sender, ends
    <3>2. NetworkTypeOK'
      <4>1. CASE HandleDataUnknown(s)
        BY <4>1 DEF NetworkTypeOK, HandleDataUnknown, ends
      <4>2. CASE HandleDataClosed(s)
        BY <4>2 DEF NetworkTypeOK, HandleDataClosed, ends
      <4> QED
        BY <2>16, <4>1, <4>2
    <3>3. ReceiverTypeOK'
      BY <2>16 DEF ReceiverTypeOK, HandleDataUnknown, HandleDataClosed, receiver
    <3> QED
      BY <3>1, <3>2, <3>3
  <2>17. ASSUME NEW s \in Seqs, HandleData(s)
        PROVE  TypeOK'
    <3>1. SenderTypeOK'
      BY <2>17 DEF SenderTypeOK, HandleData, sender, ends
    <3>2. NetworkTypeOK'
      <4>1. dataNet' \subseteq Seqs
        BY <2>17 DEF NetworkTypeOK, HandleData
      <4>2. UNCHANGED <<setting, done, known, ackNet, ctrlNet, losses, dups>>
        BY <2>17 DEF HandleData, ends
      <4> QED
        BY <4>1, <4>2 DEF NetworkTypeOK
    <3>3. ReceiverTypeOK'
      BY <2>17, ConstantsOK, SMTT(30) DEF ReceiverTypeOK, NetworkTypeOK, Seqs, Ends,
         Deliverers, HandleData, receiver
    <3> QED
      BY <3>1, <3>2, <3>3
  <2>18. ASSUME NEW t \in Deliverers, DeliverLoad(t)
        PROVE  TypeOK'
    <3>1. SenderTypeOK'
      BY <2>18 DEF SenderTypeOK, DeliverLoad, sender, ends
    <3>2. NetworkTypeOK'
      BY <2>18 DEF NetworkTypeOK, DeliverLoad, network, ends
    <3>3. ReceiverTypeOK'
      BY <2>18, ConstantsOK, SMTT(30) DEF ReceiverTypeOK, NetworkTypeOK, Seqs, Ends,
         Deliverers, DeliverLoad, receiver
    <3> QED
      BY <3>1, <3>2, <3>3
  <2>19. ASSUME NEW t \in Deliverers, DeliverTake(t)
        PROVE  TypeOK'
    <3>1. SenderTypeOK'
      BY <2>19 DEF SenderTypeOK, DeliverTake, Return, sender, ends
    <3>2. NetworkTypeOK'
      <4>1. ackNet' \subseteq Seqs
        BY <2>19 DEF NetworkTypeOK, ReceiverTypeOK, DeliverTake, Return
      <4> QED
        BY <2>19, <4>1 DEF NetworkTypeOK, DeliverTake, ends
    <3>3. ReceiverTypeOK'
      <4>1. CASE nxt[t] \in recvBuf
        <5>1. /\ dpc' = [dpc EXCEPT ![t] = "push"] /\ nxt' = nxt
              /\ recvBuf' \subseteq recvBuf
          BY <2>19, <4>1 DEF DeliverTake
        <5>2. UNCHANGED <<recvNext, acking, delivered, nread, reader, got>>
          BY <2>19, <4>1 DEF DeliverTake
        <5>3. nxt[t] \in Seqs
          BY <4>1 DEF ReceiverTypeOK
        <5>4. \A u \in Deliverers : dpc'[u] = "push" => nxt[u] \in Seqs
          BY <5>1, <5>3 DEF ReceiverTypeOK
        <5> QED
          BY <5>1, <5>2, <5>4 DEF ReceiverTypeOK
      <4>2. CASE nxt[t] \notin recvBuf
        <5>1. acking' \in Seqs
          BY <2>19, <4>2, ConstantsOK DEF ReceiverTypeOK, DeliverTake, Return, Seqs
        <5>2. dpc' = [dpc EXCEPT ![t] = "idle"] /\ nxt' = [nxt EXCEPT ![t] = 1]
          BY <2>19, <4>2 DEF DeliverTake, Return
        <5>3. /\ dpc' \in [Deliverers -> {"idle", "load", "take", "push", "add", "stopped"}]
              /\ nxt' \in [Deliverers -> Nat]
          BY <5>2 DEF ReceiverTypeOK
        <5>4. \A u \in Deliverers : dpc'[u] = "push" => nxt'[u] \in Seqs
          BY <5>2 DEF ReceiverTypeOK
        <5>5. UNCHANGED <<recvBuf, recvNext, delivered, nread, reader, got>>
          BY <2>19, <4>2 DEF DeliverTake
        <5> QED
          BY <5>1, <5>3, <5>4, <5>5 DEF ReceiverTypeOK
      <4> QED
        BY <4>1, <4>2
    <3> QED
      BY <3>1, <3>2, <3>3
  <2>20. ASSUME NEW t \in Deliverers, DeliverPush(t)
        PROVE  TypeOK'
    <3>1. SenderTypeOK'
      BY <2>20 DEF SenderTypeOK, DeliverPush, Return, sender, ends
    <3>2. NetworkTypeOK'
      <4>1. ackNet' \subseteq Seqs
        BY <2>20 DEF NetworkTypeOK, ReceiverTypeOK, DeliverPush, Return
      <4> QED
        BY <2>20, <4>1 DEF NetworkTypeOK, DeliverPush, ends
    <3>3. ReceiverTypeOK'
      <4>1. nxt[t] \in Nat
        BY DEF ReceiverTypeOK
      <4>2. delivered' \in Seq(Nat) /\ nread' \in 0..Len(delivered')
        <5>1. delivered \in Seq(Nat) /\ nread \in 0..Len(delivered)
          BY DEF ReceiverTypeOK
        <5>2. nread' = nread /\ (delivered' = delivered \/ delivered' = Append(delivered, nxt[t]))
          BY <2>20 DEF DeliverPush
        <5>3. /\ Append(delivered, nxt[t]) \in Seq(Nat)
              /\ Len(Append(delivered, nxt[t])) = Len(delivered) + 1 /\ Len(delivered) \in Nat
          BY <4>1, <5>1
        <5>4. CASE delivered' = Append(delivered, nxt[t])
          <6>1. nread' \in 0..(Len(delivered) + 1)
            BY <5>1, <5>2, <5>3
          <6> QED
            BY <5>3, <5>4, <6>1
        <5>5. CASE delivered' = delivered
          BY <5>1, <5>2, <5>5
        <5> QED
          BY <5>2, <5>4, <5>5
      <4>3. recvBuf' \subseteq Seqs
        BY <2>20 DEF ReceiverTypeOK, DeliverPush
      <4>6. \A u \in Deliverers : dpc'[u] = "push" => nxt'[u] \in Seqs
        BY <2>20 DEF ReceiverTypeOK, DeliverPush, Return
      <4>4. acking' \in Seqs
        BY <2>20, ConstantsOK DEF ReceiverTypeOK, DeliverPush, Return, Seqs
      <4>5. /\ dpc' \in [Deliverers -> {"idle", "load", "take", "push", "add", "stopped"}]
            /\ nxt' \in [Deliverers -> Nat]
        <5>1. dpc' = [dpc EXCEPT ![t] = "add"] \/ dpc' = [dpc EXCEPT ![t] = "idle"]
          BY <2>20 DEF DeliverPush, Return
        <5>2. nxt' = nxt \/ nxt' = [nxt EXCEPT ![t] = 1]
          BY <2>20 DEF DeliverPush, Return
        <5>3. dpc' \in [Deliverers -> {"idle", "load", "take", "push", "add", "stopped"}]
          BY <5>1 DEF ReceiverTypeOK
        <5>4. nxt' \in [Deliverers -> Nat]
          BY <5>2 DEF ReceiverTypeOK
        <5> QED
          BY <5>3, <5>4
      <4> QED
        BY <2>20, <4>2, <4>3, <4>4, <4>5, <4>6 DEF ReceiverTypeOK, DeliverPush
    <3> QED
      BY <3>1, <3>2, <3>3
  <2>21. ASSUME NEW t \in Deliverers, DeliverAdd(t)
        PROVE  TypeOK'
    <3>1. SenderTypeOK'
      BY <2>21 DEF SenderTypeOK, DeliverAdd, sender, ends
    <3>2. NetworkTypeOK'
      BY <2>21 DEF NetworkTypeOK, DeliverAdd, network, ends
    <3>3. ReceiverTypeOK'
      BY <2>21, ConstantsOK, SMTT(30) DEF ReceiverTypeOK, NetworkTypeOK, Seqs, Ends,
         Deliverers, DeliverAdd, receiver
    <3> QED
      BY <3>1, <3>2, <3>3
  <2>22. CASE Read
    <3>1. SenderTypeOK'
      BY <2>22 DEF SenderTypeOK, Read, sender, ends
    <3>2. NetworkTypeOK'
      BY <2>22 DEF NetworkTypeOK, Read, network, ends
    <3>3. ReceiverTypeOK'
      BY <2>22, ConstantsOK, SMTT(30) DEF ReceiverTypeOK, NetworkTypeOK, Seqs, Ends,
         Deliverers, Read, receiver
    <3> QED
      BY <3>1, <3>2, <3>3
  <2>23. CASE ReceiverClose \/ ReceiverGaveUp
    <3>1. SenderTypeOK'
      <4>1. ("sender" \in done)' <=> ("sender" \in done)
        BY <2>23 DEF ReceiverClose, ReceiverGaveUp
      <4> QED
        BY <2>23, <4>1 DEF SenderTypeOK, ReceiverClose, ReceiverGaveUp, sender
    <3>2. NetworkTypeOK'
      <4>1. CASE ReceiverClose
        BY <4>1 DEF NetworkTypeOK, ReceiverClose, Ends
      <4>2. CASE ReceiverGaveUp
        BY <4>2 DEF NetworkTypeOK, ReceiverGaveUp, Ends, network
      <4> QED
        BY <2>23, <4>1, <4>2
    <3>3. ReceiverTypeOK'
      BY <2>23 DEF ReceiverTypeOK, ReceiverClose, ReceiverGaveUp, receiver
    <3> QED
      BY <3>1, <3>2, <3>3
  <2>24. CASE UNCHANGED vars
    <3>1. SenderTypeOK'
      BY <2>24 DEF SenderTypeOK, vars, sender, ends
    <3>2. NetworkTypeOK'
      BY <2>24 DEF NetworkTypeOK, vars, network, ends
    <3>3. ReceiverTypeOK'
      BY <2>24 DEF ReceiverTypeOK, vars, receiver
    <3> QED
      BY <3>1, <3>2, <3>3
  <2> QED
    BY <2>1, <2>2, <2>3, <2>4, <2>5, <2>6, <2>7, <2>8, <2>9, <2>10, <2>11, <2>12, <2>13,
       <2>14, <2>15, <2>16, <2>17, <2>18, <2>19, <2>20, <2>21, <2>22, <2>23, <2>24
       DEF Next, Sender, Network, Receiver
<1> QED
  BY <1>1, <1>2, PTL DEF Spec
---------------------------------------------------------------------------
(* The send window.  The counter is exact because a chunk is counted under *)
(* a fresh number and uncounted only by the ACK that removes it; it can    *)
(* overshoot because any number of writers may pass the check before one   *)
(* of them adds.                                                           *)

WindowInv ==
    /\ sendWin = Cardinality(sendBuf)
    /\ \A s \in sendBuf : s <= sendSeq
    /\ sendWin + Cardinality(Admitted) < WindowSize + Cardinality(Writers)

\* recvBuf never holds an infinite number of packets.
LEMMA FiniteBuffers ==
    ASSUME TypeOK
    PROVE  IsFiniteSet(sendBuf) /\ Cardinality(sendBuf) \in Nat
<1>1. IsFiniteSet(Seqs)
  BY ConstantsOK, FS_Interval DEF Seqs
<1>2. IsFiniteSet(sendBuf)
  BY <1>1, FS_Subset DEF TypeOK, SenderTypeOK
<1> QED
  BY <1>2, FS_CardinalityType

\* Finitely many writers are inside Write.
LEMMA FiniteWriters ==
    /\ IsFiniteSet(Writers) /\ Cardinality(Writers) \in Nat
    /\ IsFiniteSet(Admitted) /\ Cardinality(Admitted) \in Nat
    /\ Cardinality(Admitted) <= Cardinality(Writers)
<1>1. IsFiniteSet(Writers) /\ Admitted \subseteq Writers
  BY ConstantsOK DEF Admitted
<1> QED
  BY <1>1, FS_Subset, FS_CardinalityType

\* Write never lets the window counter drift from the chunks in flight, and
\* the congestion window stays between groukMinCwnd and groukWindowSize.
THEOREM WindowAccounted == Spec => []WindowAccounting
<1>1. Init => WindowInv
  <2> SUFFICES ASSUME Init PROVE WindowInv
    OBVIOUS
  <2>1. sendBuf = {} /\ sendWin = 0
    BY DEF Init
  <2>2. Admitted = {}
    BY DEF Init, Admitted
  <2> QED
    BY <2>1, <2>2, FS_EmptySet, FiniteWriters, ConstantsOK DEF WindowInv
<1>2. ASSUME TypeOK, TypeOK', WindowInv, [Next]_vars
      PROVE  WindowInv'
  <2> USE <1>2
  <2>1. ASSUME NEW w \in Writers, WriteCall(w) \/ WriteAbort(w)
        PROVE  WindowInv'
    <3>1. Admitted' = Admitted
      BY <2>1 DEF WriteCall, WriteAbort, Admitted, TypeOK, SenderTypeOK
    <3> QED
      BY <2>1, <3>1 DEF WriteCall, WriteAbort, WindowInv
  <2>2. ASSUME NEW w \in Writers, WriteAdmit(w)
        PROVE  WindowInv'
    <3>1. Admitted' = Admitted \cup {w} /\ w \notin Admitted
      BY <2>2 DEF WriteAdmit, Admitted, TypeOK, SenderTypeOK
    <3>2. Admitted' \subseteq Writers
      BY DEF Admitted
    <3>3. Cardinality(Admitted') <= Cardinality(Writers) /\ Cardinality(Admitted') \in Nat
      BY <3>2, FiniteWriters, FS_Subset, FS_CardinalityType
    <3>4. sendWin < WindowSize /\ sendWin' = sendWin
      BY <2>2, ConstantsOK DEF WriteAdmit, TypeOK, SenderTypeOK
    <3> QED
      BY <2>2, <3>3, <3>4, FiniteWriters, ConstantsOK
         DEF WriteAdmit, WindowInv, TypeOK, SenderTypeOK
  <2>3. ASSUME NEW w \in Writers, WriteChunk(w)
        PROVE  WindowInv'
    <3>1. Admitted' = Admitted \ {w} /\ w \in Admitted
      BY <2>3 DEF WriteChunk, Admitted, TypeOK, SenderTypeOK
    <3>2. Cardinality(Admitted') = Cardinality(Admitted) - 1
      BY <3>1, FiniteWriters, FS_RemoveElement
    <3>3. sendBuf' = sendBuf \cup {sendSeq + 1} /\ sendSeq + 1 \notin sendBuf
      BY <2>3 DEF WriteChunk, WindowInv, TypeOK, SenderTypeOK, Seqs
    <3>4. Cardinality(sendBuf') = Cardinality(sendBuf) + 1
      BY <3>3, FiniteBuffers, FS_AddElement
    <3>5. \A s \in sendBuf' : s <= sendSeq'
      BY <2>3, <3>3, ConstantsOK DEF WriteChunk, WindowInv, TypeOK, SenderTypeOK, Seqs
    <3> QED
      BY <2>3, <3>2, <3>4, <3>5, FiniteWriters, FiniteBuffers
         DEF WriteChunk, WindowInv
  <2>4. ASSUME NEW s \in Seqs, HandleAck(s)
        PROVE  WindowInv'
    <3>1. Admitted' = Admitted
      BY <2>4 DEF HandleAck, Admitted
    <3>2. CASE "sender" \in known /\ s \in sendBuf
      <4>1. sendBuf' = sendBuf \ {s} /\ sendWin' = sendWin - 1
        BY <2>4, <3>2 DEF HandleAck
      <4>2. Cardinality(sendBuf') = Cardinality(sendBuf) - 1
        BY <3>2, <4>1, FiniteBuffers, FS_RemoveElement
      <4> QED
        BY <2>4, <3>1, <4>1, <4>2, FiniteWriters, FiniteBuffers, ConstantsOK
           DEF HandleAck, WindowInv
    <3>3. CASE ~("sender" \in known /\ s \in sendBuf)
      BY <2>4, <3>1, <3>3 DEF HandleAck, WindowInv
    <3> QED
      BY <3>2, <3>3
  <2>5. ASSUME UNCHANGED <<sendBuf, sendWin, wpc>>, sendSeq' >= sendSeq
        PROVE  WindowInv'
    <3>1. Admitted' = Admitted
      BY <2>5 DEF Admitted
    <3>2. \A s \in sendBuf' : s <= sendSeq'
      BY <2>5, ConstantsOK DEF WindowInv, TypeOK, SenderTypeOK, Seqs
    <3> QED
      BY <2>5, <3>1, <3>2 DEF WindowInv
  <2>6. sendSeq \in Int
    BY ConstantsOK DEF TypeOK, SenderTypeOK
  <2>7. CASE Network \/ Receiver \/ UNCHANGED vars
    <3>1. UNCHANGED sender
      BY <2>7 DEF Network, Lose, Duplicate, Receiver, HandleOpen, ReceiverHandleClose,
           HandleClose, Tick, TickStop, HandleDataUnknown, HandleDataClosed, HandleData,
           DeliverLoad, DeliverTake, DeliverPush, DeliverAdd, Read, ReceiverClose,
           ReceiverGaveUp, vars
    <3> QED
      BY <2>5, <2>6, <3>1 DEF sender
  <2>8. ASSUME NEW s \in Seqs, Retransmit(s)
        PROVE  WindowInv'
    BY <2>5, <2>6, <2>8 DEF Retransmit
  <2>9. CASE HalveWindow \/ RetransmitStop \/ SenderClose \/ SenderHandleClose
    <3>1. UNCHANGED <<sendBuf, sendWin, wpc>> /\ sendSeq' >= sendSeq
      BY <2>6, <2>9 DEF HalveWindow, RetransmitStop, SenderClose, SenderHandleClose,
           HandleClose, sender
    <3> QED
      BY <2>5, <3>1
  <2> QED
    BY <2>1, <2>2, <2>3, <2>4, <2>7, <2>8, <2>9 DEF Next, Sender
<1>3. TypeOK /\ WindowInv => WindowAccounting
  BY DEF TypeOK, SenderTypeOK, WindowInv, WindowAccounting
<1> QED
  BY <1>1, <1>2, <1>3, TypeCorrect, PTL DEF Spec
---------------------------------------------------------------------------
(* Nothing is lost between the two ends, on any network.  An ACK in flight *)
(* is a promise that the receiver holds the chunk, and so is the number    *)
(* that readLoop is about to acknowledge.                                  *)

Busy == {"load", "take", "push", "add"}

LossInv ==
    /\ "OPEN" \in ctrlNet => SenderOpened /\ dpc["retransmitLoop"] = "stopped"
    /\ "receiver" \notin done =>
          /\ \A s \in ackNet : s >= FirstData => Held(s)
          /\ dpc["readLoop"] \in Busy => Held(acking)
          /\ "sender" \notin done =>
                \A s \in FirstData..sendSeq : s \in sendBuf \/ Held(s)

\* A behaviour keeps its direction and its network.
LEMMA SettingKept ==
    ASSUME [Next]_vars
    PROVE  /\ UNCHANGED setting
           /\ FirstData' = FirstData /\ FirstData \in {1, 2}
           /\ Timely' <=> Timely
<1>1. UNCHANGED setting
  BY DEF Next, Sender, WriteCall, WriteAdmit, WriteAbort, WriteChunk, HandleAck, Retransmit,
       HalveWindow, RetransmitStop, SenderClose, SenderHandleClose, HandleClose, Network,
       Lose, Duplicate, Receiver, HandleOpen, ReceiverHandleClose, Tick, TickStop,
       HandleDataUnknown, HandleDataClosed, HandleData, DeliverLoad, DeliverTake,
       DeliverPush, DeliverAdd, Read, ReceiverClose, ReceiverGaveUp, vars, ends
<1> QED
  BY <1>1 DEF FirstData, SenderOpened, Timely

\* No step of an open receiver drops a chunk it holds.
LEMMA HeldStays ==
    ASSUME TypeOK, LossInv, [Next]_vars, "receiver" \notin done, NEW s, Held(s)
    PROVE  Held(s)'
<1> USE DEF Held
<1>1. ASSUME UNCHANGED <<recvBuf, dpc, nxt, delivered>>
      PROVE  Held(s)'
  BY <1>1
<1>2. CASE Sender \/ Network \/ UNCHANGED vars
  <2>1. UNCHANGED receiver
    BY <1>2 DEF Sender, WriteCall, WriteAdmit, WriteAbort, WriteChunk, HandleAck, Retransmit,
         HalveWindow, RetransmitStop, SenderClose, SenderHandleClose, HandleClose, Network,
         Lose, Duplicate, vars
  <2> QED
    BY <1>1, <2>1 DEF receiver
<1>3. CASE HandleOpen \/ Tick \/ TickStop
  <2>1. /\ UNCHANGED <<recvBuf, nxt, delivered>>
        /\ \A t \in Deliverers : dpc[t] = "push" => dpc'[t] = "push"
    BY <1>3 DEF HandleOpen, Tick, TickStop, TypeOK, ReceiverTypeOK, LossInv, Deliverers
  <2> QED
    BY <2>1
<1>4. CASE ReceiverHandleClose \/ Read \/ ReceiverClose \/ ReceiverGaveUp
  BY <1>1, <1>4 DEF ReceiverHandleClose, HandleClose, Read, ReceiverClose, ReceiverGaveUp,
     receiver
<1>5. ASSUME NEW c \in Seqs, HandleDataUnknown(c) \/ HandleDataClosed(c)
      PROVE  Held(s)'
  BY <1>1, <1>5 DEF HandleDataUnknown, HandleDataClosed, receiver
<1>6. ASSUME NEW c \in Seqs, HandleData(c)
      PROVE  Held(s)'
  <2>1. /\ UNCHANGED <<nxt, delivered>> /\ recvBuf \subseteq recvBuf'
        /\ \A t \in Deliverers : dpc[t] = "push" => dpc'[t] = "push"
    BY <1>6 DEF HandleData, TypeOK, ReceiverTypeOK
  <2> QED
    BY <2>1
<1>7. ASSUME NEW t \in Deliverers, DeliverLoad(t) \/ DeliverAdd(t)
      PROVE  Held(s)'
  <2>1. /\ UNCHANGED <<recvBuf, delivered>>
        /\ \A u \in Deliverers : dpc[u] = "push" => dpc'[u] = "push" /\ nxt'[u] = nxt[u]
    BY <1>7 DEF DeliverLoad, DeliverAdd, TypeOK, ReceiverTypeOK
  <2> QED
    BY <2>1
<1>8. ASSUME NEW t \in Deliverers, DeliverTake(t)
      PROVE  Held(s)'
  <2>1. \A u \in Deliverers : dpc[u] = "push" => dpc'[u] = "push" /\ nxt'[u] = nxt[u]
    BY <1>8 DEF DeliverTake, Return, TypeOK, ReceiverTypeOK
  <2>2. s \in recvBuf => s \in recvBuf' \/ (dpc'[t] = "push" /\ nxt'[t] = s)
    BY <1>8 DEF DeliverTake, Return, TypeOK, ReceiverTypeOK
  <2>3. delivered' = delivered
    BY <1>8 DEF DeliverTake
  <2> QED
    BY <2>1, <2>2, <2>3
<1>9. ASSUME NEW t \in Deliverers, DeliverPush(t)
      PROVE  Held(s)'
  <2>1. \A u \in Deliverers \ {t} : dpc[u] = "push" => dpc'[u] = "push" /\ nxt'[u] = nxt[u]
    BY <1>9 DEF DeliverPush, Return, TypeOK, ReceiverTypeOK
  <2>2. recvBuf \subseteq recvBuf'
    BY <1>9 DEF DeliverPush
  <2>3. \/ delivered' = delivered /\ nxt[t] \in recvBuf'
        \/ delivered' = Append(delivered, nxt[t])
    BY <1>9 DEF DeliverPush
  <2>4. delivered \in Seq(Nat) /\ nxt[t] \in Nat
    BY DEF TypeOK, ReceiverTypeOK
  <2>5. \A i \in 1..Len(delivered) : i \in 1..Len(delivered') /\ delivered'[i] = delivered[i]
    BY <2>3, <2>4, SMTT(30)
  <2>6. nxt[t] \in recvBuf' \/ \E i \in 1..Len(delivered') : delivered'[i] = nxt[t]
    <3>1. CASE nxt[t] \in recvBuf'
      BY <3>1
    <3>2. CASE delivered' = Append(delivered, nxt[t])
      <4>1. /\ Len(delivered) + 1 \in 1..Len(delivered')
            /\ delivered'[Len(delivered) + 1] = nxt[t]
        BY <2>4, <3>2
      <4> QED
        BY <4>1
    <3> QED
      BY <2>3, <3>1, <3>2
  <2> QED
    BY <2>1, <2>2, <2>5, <2>6
<1> QED
  BY <1>2, <1>3, <1>4, <1>5, <1>6, <1>7, <1>8, <1>9 DEF Next, Receiver

\* No step breaks the promise that an ACK, or one about to be sent, makes.
LEMMA LossStep ==
    ASSUME TypeOK, TypeOK', LossInv, [Next]_vars
    PROVE  LossInv'
<1>1. UNCHANGED setting /\ FirstData' = FirstData /\ FirstData \in {1, 2}
  BY SettingKept
<1>2. done \subseteq done'
  BY DEF Next, Sender, WriteCall, WriteAdmit, WriteAbort, WriteChunk, HandleAck, Retransmit,
       HalveWindow, RetransmitStop, SenderClose, SenderHandleClose, HandleClose, Network,
       Lose, Duplicate, Receiver, HandleOpen, ReceiverHandleClose, Tick, TickStop,
       HandleDataUnknown, HandleDataClosed, HandleData, DeliverLoad, DeliverTake,
       DeliverPush, DeliverAdd, Read, ReceiverClose, ReceiverGaveUp, vars, ends
<1>3. ("OPEN" \in ctrlNet => SenderOpened /\ dpc["retransmitLoop"] = "stopped")'
  <2>1. "OPEN" \in ctrlNet' => "OPEN" \in ctrlNet
    BY DEF Next, Sender, WriteCall, WriteAdmit, WriteAbort, WriteChunk, HandleAck, Retransmit,
         HalveWindow, RetransmitStop, SenderClose, SenderHandleClose, HandleClose, Network,
         Lose, Duplicate, Receiver, HandleOpen, ReceiverHandleClose, Tick, TickStop,
         HandleDataUnknown, HandleDataClosed, HandleData, DeliverLoad, DeliverTake,
         DeliverPush, DeliverAdd, Read, ReceiverClose, ReceiverGaveUp, vars, network
  <2>2. CASE HandleOpen
    BY <2>2 DEF HandleOpen
  <2>3. CASE ~HandleOpen
    <3> USE DEF TypeOK, ReceiverTypeOK
    <3> SUFFICES ASSUME dpc["retransmitLoop"] = "stopped"
                 PROVE  dpc'["retransmitLoop"] = "stopped"
      BY <1>1, <2>1 DEF LossInv, SenderOpened
    <3>1. CASE Sender \/ Network \/ UNCHANGED vars
      BY <3>1 DEF Sender, WriteCall, WriteAdmit, WriteAbort, WriteChunk, HandleAck, Retransmit,
           HalveWindow, RetransmitStop, SenderClose, SenderHandleClose, HandleClose, Network,
           Lose, Duplicate, vars, receiver
    <3>2. ASSUME NEW t \in Deliverers,
                 DeliverLoad(t) \/ DeliverTake(t) \/ DeliverPush(t) \/ DeliverAdd(t)
          PROVE  dpc'["retransmitLoop"] = "stopped"
      <4>1. t # "retransmitLoop"
        BY <3>2 DEF DeliverLoad, DeliverTake, DeliverPush, DeliverAdd
      <4>2. \E v : dpc' = [dpc EXCEPT ![t] = v]
        BY <3>2 DEF DeliverLoad, DeliverTake, DeliverPush, DeliverAdd, Return
      <4> QED
        BY <4>1, <4>2
    <3>3. ASSUME NEW c \in Seqs, HandleDataUnknown(c) \/ HandleDataClosed(c) \/ HandleData(c)
          PROVE  dpc'["retransmitLoop"] = "stopped"
      <4>1. dpc' = dpc \/ dpc' = [dpc EXCEPT !["readLoop"] = "load"]
        BY <3>3 DEF HandleDataUnknown, HandleDataClosed, HandleData, receiver
      <4> QED
        BY <4>1 DEF Deliverers
    <3>4. CASE Tick \/ TickStop
      BY <3>4 DEF Tick, TickStop
    <3>5. CASE ReceiverHandleClose \/ Read \/ ReceiverClose \/ ReceiverGaveUp
      BY <3>5 DEF ReceiverHandleClose, HandleClose, Read, ReceiverClose, ReceiverGaveUp,
         receiver
    <3> QED
      BY <2>3, <3>1, <3>2, <3>3, <3>4, <3>5 DEF Next, Receiver
  <2> QED
    BY <2>2, <2>3
<1> SUFFICES ASSUME "receiver" \notin done'
             PROVE  /\ \A s \in ackNet' : s >= FirstData => Held(s)'
                    /\ dpc'["readLoop"] \in Busy => Held(acking)'
                    /\ "sender" \notin done' =>
                          \A s \in FirstData..sendSeq' : s \in sendBuf' \/ Held(s)'
  BY <1>1, <1>3 DEF LossInv, Busy, Held
<1>4. /\ "receiver" \notin done
      /\ \A s \in ackNet : s >= FirstData => Held(s)
      /\ dpc["readLoop"] \in Busy => Held(acking)
      /\ "sender" \notin done => \A s \in FirstData..sendSeq : s \in sendBuf \/ Held(s)
  BY <1>2 DEF LossInv
<1>5. \A s : Held(s) => Held(s)'
  BY <1>4, HeldStays
<1>6. \A s \in ackNet' : s >= FirstData => Held(s)'
  <2>1. CASE HandleOpen
    <3>1. ackNet' = ackNet \cup {1} /\ FirstData = 2
      BY <2>1 DEF HandleOpen, LossInv, FirstData
    <3> QED
      BY <1>4, <1>5, <3>1
  <2>2. ASSUME NEW t \in Deliverers, DeliverTake(t) \/ DeliverPush(t)
        PROVE  \A s \in ackNet' : s >= FirstData => Held(s)'
    <3>1. ackNet' \subseteq ackNet \/ (t = "readLoop" /\ ackNet' = ackNet \cup {acking})
      BY <2>2 DEF DeliverTake, DeliverPush, Return
    <3>2. dpc[t] \in Busy
      BY <2>2 DEF DeliverTake, DeliverPush, Busy
    <3> QED
      BY <1>4, <1>5, <3>1, <3>2
  <2>3. ASSUME NEW c \in Seqs, HandleDataClosed(c)
        PROVE  FALSE
    BY <1>4, <2>3 DEF HandleDataClosed
  <2>4. ASSUME ackNet' \subseteq ackNet
        PROVE  \A s \in ackNet' : s >= FirstData => Held(s)'
    BY <1>4, <1>5, <2>4
  <2>5. \/ ackNet' \subseteq ackNet
        \/ HandleOpen
        \/ \E t \in Deliverers : DeliverTake(t) \/ DeliverPush(t)
        \/ \E c \in Seqs : HandleDataClosed(c)
    BY DEF Next, Sender, WriteCall, WriteAdmit, WriteAbort, WriteChunk, HandleAck,
       Retransmit, HalveWindow, RetransmitStop, SenderClose, SenderHandleClose, HandleClose,
       Network, Lose, Duplicate, Receiver, ReceiverHandleClose, Tick, TickStop,
       HandleDataUnknown, HandleData, DeliverLoad, DeliverAdd, Read, ReceiverClose,
       ReceiverGaveUp, vars, network
  <2> QED
    BY <2>1, <2>2, <2>3, <2>4, <2>5
<1>7. dpc'["readLoop"] \in Busy => Held(acking)'
  <2>1. ASSUME NEW c \in Seqs, HandleData(c)
        PROVE  Held(acking)'
    BY <2>1 DEF HandleData, Held
  <2>2. \/ \E c \in Seqs : HandleData(c)
        \/ dpc'["readLoop"] \notin Busy
        \/ dpc["readLoop"] \in Busy /\ acking' = acking
    <3> USE DEF TypeOK, ReceiverTypeOK, Deliverers, Busy
    <3>1. CASE Sender \/ Network \/ UNCHANGED vars
      <4>1. UNCHANGED receiver
        BY <3>1 DEF Sender, WriteCall, WriteAdmit, WriteAbort, WriteChunk, HandleAck,
           Retransmit, HalveWindow, RetransmitStop, SenderClose, SenderHandleClose,
           HandleClose, Network, Lose, Duplicate, vars
      <4> QED
        BY <4>1 DEF receiver
    <3>2. CASE HandleOpen \/ Tick \/ TickStop
      BY <3>2 DEF HandleOpen, Tick, TickStop
    <3>3. CASE ReceiverHandleClose \/ Read \/ ReceiverClose \/ ReceiverGaveUp
      BY <3>3 DEF ReceiverHandleClose, HandleClose, Read, ReceiverClose, ReceiverGaveUp,
         receiver
    <3>4. ASSUME NEW c \in Seqs, HandleDataUnknown(c) \/ HandleDataClosed(c)
          PROVE  dpc'["readLoop"] = dpc["readLoop"] /\ acking' = acking
      BY <3>4 DEF HandleDataUnknown, HandleDataClosed, receiver
    <3>5. ASSUME NEW t \in Deliverers, DeliverLoad(t) \/ DeliverAdd(t)
          PROVE  /\ dpc["readLoop"] \in Busy <=> dpc'["readLoop"] \in Busy
                 /\ acking' = acking
      BY <3>5 DEF DeliverLoad, DeliverAdd
    <3>6. ASSUME NEW t \in Deliverers, DeliverTake(t) \/ DeliverPush(t)
          PROVE  \/ dpc'["readLoop"] \notin Busy
                 \/ dpc["readLoop"] \in Busy /\ acking' = acking
      BY <3>6 DEF DeliverTake, DeliverPush, Return
    <3> QED
      BY <3>1, <3>2, <3>3, <3>4, <3>5, <3>6 DEF Next, Receiver
  <2> QED
    BY <1>4, <1>5, <2>1, <2>2
<1>8. "sender" \notin done' => \A s \in FirstData..sendSeq' : s \in sendBuf' \/ Held(s)'
  <2> SUFFICES ASSUME "sender" \notin done', NEW s \in FirstData..sendSeq'
               PROVE  s \in sendBuf' \/ Held(s)'
    OBVIOUS
  <2>0. /\ "sender" \notin done
        /\ sendSeq \in Int /\ sendSeq' \in Int
    BY <1>2, ConstantsOK DEF TypeOK, SenderTypeOK
  <2>1. ASSUME sendSeq' = sendSeq, sendBuf \subseteq sendBuf'
        PROVE  s \in sendBuf' \/ Held(s)'
    BY <1>4, <1>5, <2>0, <2>1
  <2>2. ASSUME NEW w \in Writers, WriteChunk(w)
        PROVE  s \in sendBuf' \/ Held(s)'
    BY <1>1, <1>4, <1>5, <2>0, <2>2 DEF WriteChunk
  <2>3. ASSUME NEW c \in Seqs, HandleAck(c)
        PROVE  s \in sendBuf' \/ Held(s)'
    <3>1. sendSeq' = sendSeq /\ sendBuf \subseteq sendBuf' \cup {c} /\ c \in ackNet
      BY <2>3 DEF HandleAck
    <3>2. s \in sendBuf \/ Held(s)
      BY <1>4, <2>0, <3>1
    <3> QED
      BY <1>1, <1>4, <1>5, <3>1, <3>2
  <2>4. CASE SenderClose
    BY <2>4 DEF SenderClose
  <2>5. \/ sendSeq' = sendSeq /\ sendBuf \subseteq sendBuf'
        \/ SenderClose
        \/ \E w \in Writers : WriteChunk(w)
        \/ \E c \in Seqs : HandleAck(c)
    BY DEF Next, Sender, WriteCall, WriteAdmit, WriteAbort, Retransmit,
         HalveWindow, RetransmitStop, SenderHandleClose, HandleClose, Network,
         Lose, Duplicate, Receiver, HandleOpen, ReceiverHandleClose, Tick, TickStop,
         HandleDataUnknown, HandleDataClosed, HandleData, DeliverLoad, DeliverTake,
         DeliverPush, DeliverAdd, Read, ReceiverClose, ReceiverGaveUp, vars, sender
  <2> QED
    BY <2>1, <2>2, <2>3, <2>4, <2>5
<1> QED
  BY <1>6, <1>7, <1>8

\* While both ends are open, every chunk written is in the send buffer or in
\* the receiver's hands, on a network that loses, reorders and duplicates.
THEOREM NoChunkLost == Spec => []NothingLost
<1>1. Init => LossInv
  BY ConstantsOK DEF Init, LossInv, FirstData, SenderOpened, Busy, Deliverers
<1>2. TypeOK /\ TypeOK' /\ LossInv /\ [Next]_vars => LossInv'
  BY LossStep
<1>3. LossInv => NothingLost
  BY DEF LossInv, NothingLost
<1> QED
  BY <1>1, <1>2, <1>3, TypeCorrect, PTL DEF Spec
---------------------------------------------------------------------------
(* The stream implements ReliableStream on a timely network.  Two facts     *)
(* about the places a chunk can be in carry the proof: it is never on the   *)
(* network once it was stored, and of the chunks stored only the next one   *)
(* can be in a deliverer's hands, and in those of one deliverer.            *)

\* A chunk is numbered before it is anywhere, and what is stored is not on the
\* network, nor about to be sent again.
OnceInv ==
    Timely =>
        /\ sendSeq >= FirstData - 1
        /\ dataNet \cap got = {}
        /\ sendBuf \cup dataNet \cup got \subseteq FirstData..sendSeq
        /\ rtx.pc = "halve" => rtx.seq \in (FirstData..sendSeq) \ (dataNet \cup got)

\* readCh was given 1, 2, ... in order; recvNext lags behind while a deliverer
\* is between its send and its Add, and then no other deliverer holds a chunk.
OrderInv ==
    Timely =>
        /\ recvBuf \subseteq got
        /\ \A i \in 1..Len(delivered) : delivered[i] = i /\ i \in got
        /\ \A s \in recvBuf : s > Len(delivered)
        /\ recvNext >= 1
        /\ recvNext = IF \E t \in Deliverers : dpc[t] = "add"
                        THEN Len(delivered) ELSE Len(delivered) + 1
        /\ \A t \in Deliverers :
              /\ dpc[t] = "take" => nxt[t] \in 1..recvNext
              /\ dpc[t] = "push" => nxt[t] = Len(delivered) + 1 /\ nxt[t] \in got \ recvBuf
              /\ dpc[t] \in {"push", "add"} =>
                    \A u \in Deliverers \ {t} : dpc[u] \notin {"push", "add"}

\* Only a chunk that is new, or lost and not stored, is put on the network.
LEMMA OnceStep ==
    ASSUME TypeOK, TypeOK', OnceInv, [Next]_vars
    PROVE  OnceInv'
<1> SUFFICES ASSUME Timely
             PROVE  /\ sendSeq' >= FirstData - 1
                    /\ dataNet' \cap got' = {}
                    /\ sendBuf' \cup dataNet' \cup got' \subseteq FirstData..sendSeq'
                    /\ rtx'.pc = "halve" =>
                          rtx'.seq \in (FirstData..sendSeq') \ (dataNet' \cup got')
  BY SettingKept DEF OnceInv
<1>1. /\ sendSeq >= FirstData - 1
      /\ dataNet \cap got = {}
      /\ sendBuf \cup dataNet \cup got \subseteq FirstData..sendSeq
      /\ rtx.pc = "halve" => rtx.seq \in (FirstData..sendSeq) \ (dataNet \cup got)
  BY DEF OnceInv
<1>2. /\ FirstData \in {1, 2}
      /\ sendSeq \in Int /\ sendSeq' \in Int
  BY SettingKept, ConstantsOK DEF TypeOK, SenderTypeOK
<1>3. ASSUME NEW w \in Writers, WriteChunk(w)
      PROVE  /\ sendSeq' >= FirstData - 1
             /\ dataNet' \cap got' = {}
             /\ sendBuf' \cup dataNet' \cup got' \subseteq FirstData..sendSeq'
             /\ rtx'.pc = "halve" =>
                   rtx'.seq \in (FirstData..sendSeq') \ (dataNet' \cup got')
  <2>1. /\ sendSeq' = sendSeq + 1 /\ got' = got /\ rtx' = rtx
        /\ sendBuf' = sendBuf \cup {sendSeq'} /\ dataNet' = dataNet \cup {sendSeq'}
    BY <1>3 DEF WriteChunk, receiver
  <2>2. sendSeq' \notin FirstData..sendSeq /\ FirstData..sendSeq \subseteq FirstData..sendSeq'
    BY <1>2, <2>1
  <2> QED
    BY <1>1, <1>2, <2>1, <2>2
<1>4. ASSUME NEW s \in Seqs, Retransmit(s)
      PROVE  /\ sendSeq' >= FirstData - 1
             /\ dataNet' \cap got' = {}
             /\ sendBuf' \cup dataNet' \cup got' \subseteq FirstData..sendSeq'
             /\ rtx'.pc = "halve" =>
                   rtx'.seq \in (FirstData..sendSeq') \ (dataNet' \cup got')
  <2>1. /\ s \in sendBuf /\ s \notin dataNet \cup got
        /\ sendSeq' = sendSeq /\ sendBuf' = sendBuf /\ got' = got
    BY <1>4 DEF Retransmit, TimedOut, receiver
  <2>2. \/ dataNet' = dataNet /\ (rtx'.pc = "halve" => rtx'.seq = s)
        \/ dataNet' = dataNet \cup {s} /\ rtx'.pc = "run"
    BY <1>4 DEF Retransmit, Stopped
  <2> QED
    BY <1>1, <2>1, <2>2
<1>5. CASE HalveWindow
  BY <1>1, <1>5 DEF HalveWindow, Running, receiver
<1>6. ASSUME NEW s \in Seqs, HandleData(s)
      PROVE  /\ sendSeq' >= FirstData - 1
             /\ dataNet' \cap got' = {}
             /\ sendBuf' \cup dataNet' \cup got' \subseteq FirstData..sendSeq'
             /\ rtx'.pc = "halve" =>
                   rtx'.seq \in (FirstData..sendSeq') \ (dataNet' \cup got')
  BY <1>1, <1>6 DEF HandleData, sender
<1>7. ASSUME NEW s \in Seqs, Duplicate(s)
      PROVE  FALSE
  BY <1>7 DEF Duplicate
<1>8. ASSUME dataNet' \subseteq dataNet, got' = got, sendBuf' \subseteq sendBuf,
             sendSeq' >= sendSeq, rtx' = rtx \/ rtx'.pc # "halve"
      PROVE  /\ sendSeq' >= FirstData - 1
             /\ dataNet' \cap got' = {}
             /\ sendBuf' \cup dataNet' \cup got' \subseteq FirstData..sendSeq'
             /\ rtx'.pc = "halve" =>
                   rtx'.seq \in (FirstData..sendSeq') \ (dataNet' \cup got')
  <2>1. FirstData..sendSeq \subseteq FirstData..sendSeq'
    BY <1>2, <1>8
  <2> QED
    BY <1>1, <1>2, <1>8, <2>1
<1>9. \/ \E w \in Writers : WriteChunk(w)
      \/ \E s \in Seqs : Retransmit(s) \/ HandleData(s) \/ Duplicate(s)
      \/ HalveWindow
      \/ /\ dataNet' \subseteq dataNet /\ got' = got /\ sendBuf' \subseteq sendBuf
         /\ sendSeq' >= sendSeq /\ (rtx' = rtx \/ rtx'.pc # "halve")
  BY <1>2 DEF Next, Sender, WriteCall, WriteAdmit, WriteAbort, HandleAck,
       RetransmitStop, Stopped, SenderClose, SenderHandleClose, HandleClose, Network,
       Lose, Receiver, HandleOpen, ReceiverHandleClose, Tick, TickStop,
       HandleDataUnknown, HandleDataClosed, DeliverLoad, DeliverTake,
       DeliverPush, DeliverAdd, Read, ReceiverClose, ReceiverGaveUp, vars, sender, network, receiver
<1> QED
  BY <1>3, <1>4, <1>5, <1>6, <1>7, <1>8, <1>9

\* Only the next chunk can be taken from the buffer, and by one deliverer.
LEMMA OrderStep ==
    ASSUME TypeOK, TypeOK', LossInv, OnceInv, OrderInv, [Next]_vars
    PROVE  OrderInv'
<1> DEFINE Places(buf, next, pc, n, chunks, stored) ==
      /\ buf \subseteq stored
      /\ \A i \in 1..Len(chunks) : chunks[i] = i /\ i \in stored
      /\ \A s \in buf : s > Len(chunks)
      /\ next >= 1
      /\ next = IF \E t \in Deliverers : pc[t] = "add" THEN Len(chunks) ELSE Len(chunks) + 1
      /\ \A t \in Deliverers :
            /\ pc[t] = "take" => n[t] \in 1..next
            /\ pc[t] = "push" => n[t] = Len(chunks) + 1 /\ n[t] \in stored \ buf
            /\ pc[t] \in {"push", "add"} =>
                  \A u \in Deliverers \ {t} : pc[u] \notin {"push", "add"}
<1> DEFINE Inv == Places(recvBuf, recvNext, dpc, nxt, delivered, got)
<1> DEFINE After == Places(recvBuf', recvNext', dpc', nxt', delivered', got')
<1> SUFFICES ASSUME Timely PROVE After
  BY SettingKept DEF OrderInv
<1>1. Inv
  BY DEF OrderInv
<1>2. /\ dpc \in [Deliverers -> {"idle", "load", "take", "push", "add", "stopped"}]
      /\ nxt \in [Deliverers -> Nat] /\ recvNext \in Nat
      /\ recvBuf \subseteq Int /\ got \subseteq Int /\ delivered \in Seq(Nat)
      /\ Len(delivered) \in Nat
  BY DEF TypeOK, ReceiverTypeOK, Seqs
<1>3. /\ dataNet \cap got = {}
      /\ dataNet \subseteq FirstData..sendSeq
      /\ FirstData \in {1, 2} /\ sendSeq \in Int
  BY SettingKept, ConstantsOK DEF OnceInv, TypeOK, SenderTypeOK
<1>4. ASSUME UNCHANGED <<recvBuf, recvNext, nxt, delivered, got>>,
             \A t \in Deliverers :
                dpc'[t] = dpc[t] \/ (dpc[t] \in {"idle", "stopped"}
                                     /\ dpc'[t] \in {"idle", "load", "stopped"})
      PROVE  After
  <2>1. \A t \in Deliverers :
            /\ dpc'[t] = "add" <=> dpc[t] = "add"
            /\ dpc'[t] = "push" <=> dpc[t] = "push"
            /\ dpc'[t] = "take" <=> dpc[t] = "take"
    BY <1>4
  <2> QED
    BY <1>1, <1>4, <2>1
<1>5. ASSUME NEW s \in Seqs, HandleData(s)
      PROVE  After
  <2>1. /\ s \in dataNet /\ recvBuf' = recvBuf \cup {s} /\ got' = got \cup {s}
        /\ UNCHANGED <<recvNext, nxt, delivered>>
        /\ dpc' = [dpc EXCEPT !["readLoop"] = "load"] /\ dpc["readLoop"] = "idle"
    BY <1>5 DEF HandleData
  <2>2. s \notin got /\ s >= 1 /\ s \in Int
    BY <1>3, <2>1 DEF Seqs
  <2>3. s > Len(delivered)
    BY <1>1, <1>2, <2>2
  <2>4. \A t \in Deliverers :
            /\ dpc'[t] = "add" <=> dpc[t] = "add"
            /\ dpc'[t] = "push" <=> dpc[t] = "push"
            /\ dpc'[t] = "take" <=> dpc[t] = "take"
    BY <1>2, <2>1 DEF Deliverers
  <2> QED
    BY <1>1, <1>2, <2>1, <2>2, <2>3, <2>4
<1>6. ASSUME NEW t \in Deliverers, DeliverLoad(t)
      PROVE  After
  <2>1. /\ dpc[t] = "load" /\ nxt' = [nxt EXCEPT ![t] = recvNext]
        /\ dpc' = [dpc EXCEPT ![t] = "take"]
        /\ UNCHANGED <<recvBuf, recvNext, delivered, got>>
    BY <1>6 DEF DeliverLoad
  <2> QED
    BY <1>1, <1>2, <2>1
<1>7. ASSUME NEW t \in Deliverers, DeliverTake(t)
      PROVE  After
  <2>1. dpc[t] = "take" /\ UNCHANGED <<recvNext, delivered, got>>
    BY <1>7 DEF DeliverTake
  <2>2. nxt[t] \in 1..recvNext
    BY <1>1, <2>1
  <2>3. CASE nxt[t] \in recvBuf
    <3>1. /\ dpc' = [dpc EXCEPT ![t] = "push"] /\ recvBuf' = recvBuf \ {nxt[t]} /\ nxt' = nxt
      BY <1>7, <2>3 DEF DeliverTake
    \* Only the next chunk can be taken, so nobody holds it or one before it.
    <3>2. nxt[t] = Len(delivered) + 1 /\ nxt[t] \in got /\ recvNext = Len(delivered) + 1
      BY <1>1, <1>2, <2>2, <2>3
    <3>3. \A u \in Deliverers : dpc[u] \notin {"push", "add"}
      BY <1>1, <1>2, <2>3, <3>2
    <3> QED
      BY <1>1, <1>2, <2>1, <3>1, <3>2, <3>3
  <2>4. CASE nxt[t] \notin recvBuf
    <3>1. /\ dpc' = [dpc EXCEPT ![t] = "idle"] /\ nxt' = [nxt EXCEPT ![t] = 1]
          /\ recvBuf' = recvBuf
      BY <1>7, <2>4 DEF DeliverTake, Return
    <3> QED
      BY <1>1, <1>2, <2>1, <3>1
  <2> QED
    BY <2>3, <2>4
<1>8. ASSUME NEW t \in Deliverers, DeliverPush(t)
      PROVE  After
  <2>1. dpc[t] = "push" /\ UNCHANGED <<recvNext, got>>
    BY <1>8 DEF DeliverPush
  <2>2. /\ nxt[t] = Len(delivered) + 1 /\ nxt[t] \in got \ recvBuf
        /\ \A u \in Deliverers \ {t} : dpc[u] \notin {"push", "add"}
        /\ recvNext = Len(delivered) + 1
    BY <1>1, <2>1
  <2>3. CASE delivered' = Append(delivered, nxt[t]) /\ dpc' = [dpc EXCEPT ![t] = "add"]
             /\ UNCHANGED <<recvBuf, nxt>>
    <3>1. /\ Len(delivered') = Len(delivered) + 1
          /\ \A i \in 1..Len(delivered') : delivered'[i] = i /\ i \in got
      BY <1>1, <1>2, <2>2, <2>3
    <3>2. \A s \in recvBuf : s > Len(delivered')
      BY <1>1, <1>2, <2>2, <3>1
    <3>3. /\ dpc'[t] = "add"
          /\ \A u \in Deliverers \ {t} : dpc'[u] = dpc[u]
      BY <1>2, <2>3
    <3> QED
      BY <1>1, <1>2, <2>1, <2>2, <2>3, <3>1, <3>2, <3>3
  <2>4. CASE /\ recvBuf' = recvBuf \/ recvBuf' = recvBuf \cup {nxt[t]}
             /\ dpc' = [dpc EXCEPT ![t] = "idle"] /\ nxt' = [nxt EXCEPT ![t] = 1]
             /\ UNCHANGED delivered
    <3>1. /\ dpc'[t] = "idle"
          /\ \A u \in Deliverers \ {t} : dpc'[u] = dpc[u] /\ nxt'[u] = nxt[u]
      BY <1>2, <2>4
    <3>2. recvBuf' \subseteq got /\ \A s \in recvBuf' : s > Len(delivered)
      <4>1. nxt[t] > Len(delivered)
        BY <1>2, <2>2
      <4> QED
        BY <1>1, <2>2, <2>4, <4>1
    <3> QED
      BY <1>1, <1>2, <2>1, <2>2, <2>4, <3>1, <3>2
  <2> QED
    BY <1>8, <2>3, <2>4 DEF DeliverPush, Return
<1>9. ASSUME NEW t \in Deliverers, DeliverAdd(t)
      PROVE  After
  <2>1. /\ dpc[t] = "add" /\ recvNext' = recvNext + 1
        /\ dpc' = [dpc EXCEPT ![t] = "load"] /\ nxt' = [nxt EXCEPT ![t] = 1]
        /\ UNCHANGED <<recvBuf, delivered, got>>
    BY <1>9 DEF DeliverAdd
  <2>2. /\ dpc'[t] = "load"
        /\ \A u \in Deliverers \ {t} :
              dpc'[u] = dpc[u] /\ nxt'[u] = nxt[u] /\ dpc[u] \notin {"push", "add"}
    BY <1>1, <1>2, <2>1
  <2>3. recvNext = Len(delivered)
    BY <1>1, <2>1
  <2> QED
    BY <1>1, <1>2, <2>1, <2>2, <2>3
<1>10. CASE Sender \/ Network \/ UNCHANGED vars
  <2>1. UNCHANGED receiver
    BY <1>10 DEF Sender, WriteCall, WriteAdmit, WriteAbort, WriteChunk, HandleAck, Retransmit,
         HalveWindow, RetransmitStop, SenderClose, SenderHandleClose, HandleClose, Network,
         Lose, Duplicate, vars
  <2> QED
    BY <1>4, <2>1 DEF receiver
<1>11. CASE HandleOpen
  BY <1>2, <1>4, <1>11 DEF HandleOpen, LossInv
<1>12. CASE Tick \/ TickStop
  BY <1>2, <1>4, <1>12 DEF Tick, TickStop
<1>13. CASE ReceiverHandleClose \/ Read \/ ReceiverClose \/ ReceiverGaveUp
  BY <1>4, <1>13 DEF ReceiverHandleClose, HandleClose, Read, ReceiverClose, ReceiverGaveUp,
     receiver
<1>14. ASSUME NEW s \in Seqs, HandleDataUnknown(s) \/ HandleDataClosed(s)
       PROVE  After
  BY <1>4, <1>14 DEF HandleDataUnknown, HandleDataClosed, receiver
<1> HIDE DEF After
<1> QED
  BY <1>5, <1>6, <1>7, <1>8, <1>9, <1>10, <1>11, <1>12, <1>13, <1>14 DEF Next, Receiver

\* On a timely network every step of the stream is a step of ReliableStream or
\* leaves what that module speaks of alone: chunks are handed over in the order
\* written and each once, although two goroutines deliver, readCh fills up and
\* packets are lost and overtake each other.
THEOREM StreamRefinesReliableStream == Spec => RefinesReliableStream
<1>1. Init => LossInv /\ OnceInv /\ OrderInv /\ (Timely => Abs!Init)
  <2> SUFFICES ASSUME Init PROVE LossInv /\ OnceInv /\ OrderInv /\ Abs!Init
    OBVIOUS
  <2>1. LossInv
    BY ConstantsOK DEF Init, LossInv, FirstData, SenderOpened, Busy, Deliverers
  <2>2. OnceInv
    BY DEF Init, OnceInv, FirstData, Running
  <2>3. delivered = <<>> /\ Len(delivered) = 0
    BY DEF Init
  <2>4. OrderInv
    BY <2>3 DEF Init, OrderInv, Deliverers
  <2>5. Abs!Init
    <3>1. sendSeq - (FirstData - 1) = 0
      BY DEF Init, FirstData
    <3>2. [i \in 1..Len(delivered) |-> delivered[i] - (FirstData - 1)] = <<>>
      BY <2>3
    <3> QED
      BY <3>1, <3>2 DEF Abs!Init
  <2> QED
    BY <2>1, <2>2, <2>4, <2>5
<1>2. ASSUME TypeOK, TypeOK', LossInv, OnceInv, OrderInv, [Next]_vars
      PROVE  Timely => (Abs!Next \/ UNCHANGED Abs!vars)
  <2> USE <1>2
  <2> SUFFICES ASSUME Timely PROVE Abs!Next \/ UNCHANGED Abs!vars
    OBVIOUS
  <2>1. UNCHANGED FirstData /\ FirstData \in {1, 2} /\ sendSeq \in Int /\ delivered \in Seq(Nat)
    BY SettingKept, ConstantsOK DEF TypeOK, SenderTypeOK, ReceiverTypeOK
  <2>2. ASSUME UNCHANGED <<sendSeq, delivered>>
        PROVE  UNCHANGED Abs!vars
    BY <2>1, <2>2 DEF Abs!vars
  <2>3. ASSUME sendSeq' = sendSeq + 1, UNCHANGED delivered
        PROVE  Abs!Write
    BY <2>1, <2>3 DEF Abs!Write
  <2>4. ASSUME NEW t \in Deliverers, DeliverPush(t)
        PROVE  Abs!Deliver \/ UNCHANGED Abs!vars
    <3>1. sendSeq' = sendSeq
      BY <2>4 DEF DeliverPush, sender
    <3>2. CASE delivered' = delivered
      BY <2>2, <3>1, <3>2
    <3>3. CASE delivered' = Append(delivered, nxt[t])
      <4>1. /\ nxt[t] = Len(delivered) + 1 /\ nxt[t] \in got
            /\ \A i \in 1..Len(delivered) : delivered[i] = i /\ i \in got
        BY <2>4 DEF DeliverPush, OrderInv
      \* The first chunk of a stream towards its opener is chunk 1.
      <4>2. FirstData = 1 /\ Len(delivered) + 1 <= sendSeq
        <5>1. \A i \in got : i \in FirstData..sendSeq
          BY DEF OnceInv
        <5>2. 1 \in got
          BY <2>1, <4>1
        <5> QED
          BY <2>1, <4>1, <5>1, <5>2
      <4> DEFINE abs == [i \in 1..Len(delivered) |-> delivered[i] - (FirstData - 1)]
      <4>3. abs \in Seq(Int) /\ Len(abs) = Len(delivered)
        BY <2>1
      <4>4. Len(delivered') = Len(delivered) + 1 /\ \A i \in 1..Len(delivered') : delivered'[i] = i
        BY <2>1, <3>3, <4>1
      <4>5. abs' = Append(abs, Len(abs) + 1)
        <5>1. abs' = [i \in 1..(Len(delivered) + 1) |-> i]
          BY <2>1, <4>2, <4>4
        <5>2. abs = [i \in 1..Len(delivered) |-> i]
          BY <2>1, <4>1, <4>2
        <5> HIDE DEF abs
        <5> QED
          BY <2>1, <4>3, <5>1, <5>2
      <4>6. sendSeq' - (FirstData' - 1) = sendSeq - (FirstData - 1)
        BY <2>1, <3>1
      <4>7. Len(abs) < sendSeq - (FirstData - 1)
        BY <2>1, <4>2, <4>3
      <4> QED
        BY <4>5, <4>6, <4>7 DEF Abs!Deliver
    <3> QED
      BY <2>4, <3>2, <3>3 DEF DeliverPush
  <2>5. \/ UNCHANGED <<sendSeq, delivered>>
        \/ sendSeq' = sendSeq + 1 /\ UNCHANGED delivered
        \/ \E t \in Deliverers : DeliverPush(t)
    BY DEF Next, Sender, WriteCall, WriteAdmit, WriteAbort, WriteChunk, HandleAck, Retransmit,
         HalveWindow, RetransmitStop, SenderClose, SenderHandleClose, HandleClose, Network,
         Lose, Duplicate, Receiver, HandleOpen, ReceiverHandleClose, Tick, TickStop,
         HandleDataUnknown, HandleDataClosed, HandleData, DeliverLoad, DeliverTake,
         DeliverAdd, Read, ReceiverClose, ReceiverGaveUp, vars, sender, receiver
  <2> QED
    BY <2>2, <2>3, <2>4, <2>5 DEF Abs!Next
<1>3. TypeOK /\ TypeOK' /\ LossInv /\ OnceInv /\ OrderInv /\ [Next]_vars
        => LossInv' /\ OnceInv' /\ OrderInv'
  BY LossStep, OnceStep, OrderStep
<1> QED
  BY <1>1, <1>2, <1>3, TypeCorrect, PTL DEF Spec, RefinesReliableStream
=============================================================================
