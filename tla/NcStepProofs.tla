---------------------------- MODULE NcStepProofs ----------------------------
(***************************************************************************)
(* Every step of NcChannel but the receipt of a DATA frame preserves the   *)
(* inductive invariant.                                                    *)
(***************************************************************************)
EXTENDS NcChannelLemmas

-----------------------------------------------------------------------------
(* The initial state. *)

LEMMA InitIInv == Init => IInv
<1> SUFFICES ASSUME Init PROVE IInv
  OBVIOUS
<1>1. SenderTypeOK
  BY ConstantsAssumption DEF Init, SenderTypeOK
<1>2. ReceiverTypeOK
  <2>1. /\ DOMAIN frags = {} /\ Cardinality(DOMAIN frags) = 0
    BY FS_EmptySet DEF Init
  <2>2. 0 \in 0..SeqMod-1 /\ 0 \in 0..MaxMsgs /\ PoolBufs \in 0..PoolBufs
    BY ConstantsAssumption
  <2>3. reorder \in [0..ReorderSlots-1 ->
                        [valid : BOOLEAN, seq : 0..SeqMod-1, msg : Nat]]
    BY <2>2 DEF Init, EmptySlot
  <2>4. /\ recv_queue = << >> /\ r_events = << >> /\ accepted = << >>
        /\ Len(recv_queue) = 0 /\ Len(r_events) = 0
        /\ 0 < RecvQueueSlots /\ 0 < EventQueue /\ 0 <= FragSlots
    BY ConstantsAssumption DEF Init
  <2>5. /\ DOMAIN frags \subseteq Msgs
        /\ \A i \in DOMAIN frags : frags[i] \subseteq 0..FragTotal(i)-1
    BY <2>1
  <2>6. /\ recv_queue \in Seq(Msgs) /\ accepted \in Seq(Msgs)
        /\ r_events \in Seq({"CHAN_OPEN", "CHAN_CLOSE", "DATA"})
    BY <2>4
  <2>7. /\ r_state \in 0..3 /\ r_ctrl \in SUBSET {"WINDOW", "CLOSE"}
        /\ recv_seq \in 0..MaxMsgs /\ recv_buffered \in Nat
        /\ ack_seq \in 0..SeqMod-1 /\ r_pool \in 0..PoolBufs
    BY <2>2 DEF Init
  <2>8. need_ack = FALSE /\ need_window_update = FALSE /\ reading = FALSE
    BY DEF Init
  <2> QED
    BY <2>1, <2>3, <2>4, <2>5, <2>6, <2>7, <2>8, Zenon DEF ReceiverTypeOK
<1>3. NetTypeOK
  BY DEF Init, NetTypeOK
<1>4. Unopened /\ DataInFlight /\ NeverStranded
  BY DEF Init, Unopened, DataInFlight, NeverStranded
<1>5. Active = {}
  BY DEF Init, Active
<1>6. NoHoles
  BY <1>5 DEF Init, NoHoles
<1>7. AckInFlight /\ HeadFollowsReceiver
  <2>1. Wire(0) = 0
    BY ConstantsAssumption DEF Wire
  <2> QED
    BY <2>1 DEF Init, AckInFlight, AckSeq, HeadFollowsReceiver
<1>8. ReorderConsistent /\ AcceptedInOrder /\ QueueInOrder
  BY DEF Init, ReorderConsistent, AcceptedInOrder, QueueInOrder, EmptySlot
<1>9. PoolConserved
  <2>1. {k \in DOMAIN reorder : reorder[k].valid} = {} /\ DOMAIN frags = {}
    BY DEF Init, EmptySlot
  <2>2. Len(recv_queue) = 0 /\ s_pool = PoolBufs /\ r_pool = PoolBufs
    BY DEF Init
  <2> QED
    BY <1>5, <2>1, <2>2, FS_EmptySet, ConstantsAssumption DEF PoolConserved
<1>10. AccountingExact
  <2>1. {recv_queue[k] : k \in DOMAIN recv_queue} = {}
    BY DEF Init
  <2> QED
    BY <1>5, <2>1, BytesEmpty, Zenon DEF Init, AccountingExact
<1> QED
  BY <1>1, <1>2, <1>3, <1>4, <1>6, <1>7, <1>8, <1>9, <1>10 DEF IInv, TypeOK

-----------------------------------------------------------------------------
(* Steps of the sending endpoint. *)

LEMMA ChanWriteIInv ==
    ASSUME SenderInv, ReceiverInv, LinkInv, ChanWrite
    PROVE  SenderInv' /\ ReceiverInv' /\ LinkInv'
<1> USE DEF SenderInv
<1>1. /\ send_seq \in Msgs /\ send_seq \in Nat /\ out_head \in 0..send_seq
      /\ Size[send_seq] \in Nat /\ bytes_in_flight \in Nat
      /\ Active = out_head..send_seq-1
  BY ConstantsAssumption DEF ChanWrite, SenderTypeOK, Msgs, NoHoles
<1>2. outgoing' \in [out_head..send_seq -> Entry]
  BY <1>1, ConstantsAssumption DEF ChanWrite, SenderTypeOK, Entry
<1>3. SenderTypeOK'
  BY <1>1, <1>2, ConstantsAssumption
  DEF ChanWrite, SenderTypeOK, InFlightWith, Msgs
<1>4. Active' = out_head..send_seq
  BY <1>1 DEF ChanWrite, SenderTypeOK, Active
<1>5. NoHoles'
  BY <1>1, <1>4 DEF ChanWrite, NoHoles
<1>6. Active' = Active \cup {send_seq} /\ send_seq \notin Active
  BY <1>1, <1>4
<1>7. Active \in SUBSET Msgs
  BY <1>1, ConstantsAssumption DEF Msgs
<1>8. SenderAccounts'
  <2>1. Cardinality(Active') = Cardinality(Active) + 1
        /\ Cardinality(Active) \in Nat
    BY <1>6, <1>7, BytesType, FS_AddElement, FS_CardinalityType, Zenon
  <2>2. Bytes(Active') = Bytes(Active) + Size[send_seq]
    <3>1. {send_seq} \in SUBSET Msgs /\ Active \cap {send_seq} = {}
      BY <1>1, <1>6
    <3> QED
      BY <1>1, <1>6, <1>7, <3>1, BytesUnion, BytesSingleton, ZenonT(30)
  <2> QED
    BY <1>1, <2>1, <2>2, ConstantsAssumption, SMTT(30)
    DEF ChanWrite, SenderAccounts, InFlightWith, SenderTypeOK
<1>9. ReceiverInv'
  BY ReceiverUntouched DEF ChanWrite
<1>10. LinkInv'
  <2> USE DEF LinkInv, receiverVars, dataVars, ackVars
  <2>1. NetTypeOK' /\ Unopened' /\ AckInFlight'
    BY DEF ChanWrite, NetTypeOK, Unopened, AckInFlight
  <2>2. DataInFlight'
    <3> SUFFICES ASSUME NEW p \in s2r, p.type = "DATA"
                 PROVE  /\ p.seq = Wire(p.msg) /\ p.msg < send_seq + 1
                        /\ p.frag < FragTotal(p.msg)
      BY DEF ChanWrite, DataInFlight
    <3>1. p.msg \in Int
      BY DEF NetTypeOK, CtrlPacket, DataPacket, Msgs
    <3> QED
      BY <1>1, <3>1 DEF DataInFlight
  <2>3. HeadFollowsReceiver'
    BY <1>1 DEF ChanWrite, HeadFollowsReceiver, ReceiverInv, ReceiverTypeOK
  <2>4. ReorderConsistent'
    <3> SUFFICES ASSUME NEW k \in DOMAIN reorder, reorder[k].valid
                 PROVE  /\ reorder[k].seq = Wire(reorder[k].msg)
                        /\ k = Slot(reorder[k].seq)
                        /\ reorder[k].msg \in
                             recv_seq+1..Lesser(send_seq+1, recv_seq+ReorderSlots)-1
      BY DEF ChanWrite, ReorderConsistent
    <3>1. recv_seq \in Nat /\ reorder[k].msg \in Nat /\ ReorderSlots \in Nat
      BY ConstantsAssumption DEF ReceiverInv, ReceiverTypeOK
    <3> QED
      BY <1>1, <3>1 DEF ReorderConsistent, Lesser
  <2> QED
    BY <2>1, <2>2, <2>3, <2>4
<1> QED
  BY <1>3, <1>5, <1>8, <1>9, <1>10

LEMMA ChanCloseSenderIInv ==
    ASSUME SenderInv, ReceiverInv, LinkInv, ChanCloseSender
    PROVE  SenderInv' /\ ReceiverInv' /\ LinkInv'
<1>1. SenderInv'
  <2>1. SenderTypeOK'
    BY DEF SenderInv, SenderTypeOK, ChanCloseSender
  <2>2. Active' = Active
    BY DEF Active, ChanCloseSender
  <2> QED
    BY <2>1, <2>2 DEF SenderInv, NoHoles, SenderAccounts, ChanCloseSender
<1>2. ReceiverInv'
  BY ReceiverUntouched DEF ChanCloseSender
<1>3. LinkInv'
  <2>1. Unopened'
    BY DEF ChanCloseSender, LinkInv, Unopened, receiverVars, dataVars, ackVars
  <2>2. UNCHANGED <<send_seq, out_head, recv_seq, reorder, ack_seq, s2r, r2s>>
    BY DEF ChanCloseSender, receiverVars, dataVars, ackVars
  <2> QED
    BY <2>1, <2>2, CountersFrame DEF LinkInv
<1> QED
  BY <1>1, <1>2, <1>3

LEMMA SendCtrlIInv ==
    ASSUME SenderInv, ReceiverInv, LinkInv, SendCtrl
    PROVE  SenderInv' /\ ReceiverInv' /\ LinkInv'
<1>1. SenderInv'
  <2>1. SenderTypeOK'
    BY DEF SenderInv, SenderTypeOK, SendCtrl
  <2>2. Active' = Active
    BY DEF Active, SendCtrl
  <2> QED
    BY <2>1, <2>2 DEF SenderInv, NoHoles, SenderAccounts, SendCtrl
<1>2. ReceiverInv'
  BY ReceiverUntouched DEF SendCtrl
<1>3. LinkInv'
  <2> DEFINE q == [type |-> "CTRL", frames |-> s_ctrl]
  <2>1. Unopened'
    BY DEF SendCtrl, LinkInv, Unopened
  <2>2. UNCHANGED <<send_seq, out_head, recv_seq, reorder, ack_seq, r2s>>
    BY DEF SendCtrl, receiverVars, dataVars, ackVars
  <2>3. s2r' \subseteq s2r \cup {q}
    BY TransmitAdds DEF SendCtrl
  <2>4. q \in CtrlPacket
    BY DEF CtrlPacket, SenderInv, SenderTypeOK
  <2>5. NetTypeOK'
    BY <2>2, <2>3, <2>4 DEF LinkInv, NetTypeOK
  <2>6. DataInFlight'
    BY <2>2, <2>3 DEF LinkInv, DataInFlight
  <2> QED
    BY <2>1, <2>2, <2>5, <2>6, CountersFrame DEF LinkInv
<1> QED
  BY <1>1, <1>2, <1>3

LEMMA PollSenderIInv ==
    ASSUME SenderInv, ReceiverInv, LinkInv, PollSender
    PROVE  SenderInv' /\ ReceiverInv' /\ LinkInv'
<1>1. SenderInv'
  <2>1. SenderTypeOK'
    <3>1. /\ s_events \in Seq({"CHAN_CLOSE"}) /\ Len(s_events) < EventQueue
          /\ s_events # << >> /\ EventQueue \in Nat
      BY ConstantsAssumption DEF SenderInv, SenderTypeOK, PollSender
    <3>2. /\ Tail(s_events) \in Seq({"CHAN_CLOSE"})
          /\ Len(Tail(s_events)) < EventQueue
      BY <3>1, HeadTailProperties
    <3> QED
      BY <3>2 DEF SenderInv, SenderTypeOK, PollSender
  <2>2. Active' = Active
    BY DEF Active, PollSender
  <2> QED
    BY <2>1, <2>2 DEF SenderInv, NoHoles, SenderAccounts, PollSender
<1>2. ReceiverInv'
  BY ReceiverUntouched DEF PollSender
<1>3. LinkInv'
  <2>1. Unopened'
    BY DEF PollSender, LinkInv, Unopened, receiverVars, dataVars, ackVars
  <2>2. UNCHANGED <<send_seq, out_head, recv_seq, reorder, ack_seq, s2r, r2s>>
    BY DEF PollSender, receiverVars, dataVars, ackVars
  <2> QED
    BY <2>1, <2>2, CountersFrame DEF LinkInv
<1> QED
  BY <1>1, <1>2, <1>3

LEMMA SendDataIInv ==
    ASSUME SenderInv, ReceiverInv, LinkInv, SendData
    PROVE  SenderInv' /\ ReceiverInv' /\ LinkInv'
<1>1. PICK i \in Sendable :
        /\ s2r' \in Transmit(s2r, [type |-> "DATA", seq |-> Wire(i),
                                   msg |-> i, frag |-> outgoing[i].frag_sent])
        /\ outgoing' = [outgoing EXCEPT ![i] =
                          [active |-> TRUE, sent |-> TRUE,
                           attempts |-> Attempt(@.attempts),
                           frag_sent |-> @.frag_sent + 1]]
  BY Zenon DEF SendData
<1>2. /\ i \in Active /\ Active = out_head..send_seq-1
      /\ outgoing[i].frag_sent < FragTotal(i)
  BY DEF Sendable, SenderInv, NoHoles
<1>3. /\ i \in Msgs /\ i < send_seq /\ i \in Int
      /\ outgoing \in [out_head..send_seq-1 -> Entry] /\ outgoing[i] \in Entry
  BY <1>2, ConstantsAssumption DEF SenderInv, SenderTypeOK, Msgs
<1>4. SenderInv'
  <2>1. outgoing' \in [out_head..send_seq-1 -> Entry]
    BY <1>1, <1>2, <1>3, ConstantsAssumption, SMTT(30) DEF Entry, Attempt
  <2>2. SenderTypeOK'
    BY <2>1 DEF SenderInv, SenderTypeOK, SendData
  <2>3. Active' = Active
    BY <1>1, <1>2, <1>3 DEF Active, Entry
  <2> QED
    BY <2>2, <2>3 DEF SenderInv, NoHoles, SenderAccounts, SendData
<1>5. ReceiverInv'
  BY ReceiverUntouched DEF SendData
<1>6. LinkInv'
  <2> DEFINE q == [type |-> "DATA", seq |-> Wire(i), msg |-> i,
                   frag |-> outgoing[i].frag_sent]
  <2>1. Unopened'
    BY DEF SendData, Unopened
  <2>2. UNCHANGED <<send_seq, out_head, recv_seq, reorder, ack_seq, r2s>>
    BY DEF SendData, receiverVars, dataVars, ackVars
  <2>3. s2r' \subseteq s2r \cup {q}
    BY <1>1, TransmitAdds
  <2>4. q \in DataPacket
    BY <1>3, WireDivision, ZenonT(30) DEF DataPacket, Entry
  <2>5. NetTypeOK'
    BY <2>2, <2>3, <2>4 DEF LinkInv, NetTypeOK
  <2>6. DataInFlight'
    BY <1>2, <1>3, <2>2, <2>3 DEF LinkInv, DataInFlight
  <2> QED
    BY <2>1, <2>2, <2>5, <2>6, CountersFrame, SMTT(30) DEF LinkInv
<1> QED
  BY <1>4, <1>5, <1>6

LEMMA RetransmitIInv ==
    ASSUME SenderInv, ReceiverInv, LinkInv, Retransmit
    PROVE  SenderInv' /\ ReceiverInv' /\ LinkInv'
<1>1. PICK expired \in SUBSET {i \in Active : outgoing[i].sent} :
        LET slot(i) == i % OutgoingSlots
            spent == {i \in expired : outgoing[i].attempts >= MaxAttempts}
            rearmed == {i \in expired \ spent : \A d \in spent : slot(i) < slot(d)}
        IN  /\ outgoing' = [i \in DOMAIN outgoing |->
                              IF i \in rearmed
                              THEN [active |-> TRUE, sent |-> TRUE, frag_sent |-> 0,
                                    attempts |-> outgoing[i].attempts + 1]
                              ELSE outgoing[i]]
            /\ s_state' = IF spent = {} THEN s_state ELSE 3
            /\ s_events' = IF spent = {} THEN s_events
                                         ELSE EvPush(s_events, "CHAN_CLOSE")
  BY DEF Retransmit
<1> DEFINE spent == {i \in expired : outgoing[i].attempts >= MaxAttempts}
           rearmed == {i \in expired \ spent :
                         \A d \in spent : i % OutgoingSlots < d % OutgoingSlots}
<1>2. \A i \in rearmed : i \in Active /\ ~(outgoing[i].attempts >= MaxAttempts)
  OBVIOUS
<1>3. outgoing' = [i \in DOMAIN outgoing |->
                     IF i \in rearmed
                     THEN [active |-> TRUE, sent |-> TRUE, frag_sent |-> 0,
                           attempts |-> outgoing[i].attempts + 1]
                     ELSE outgoing[i]]
  BY <1>1
<1>4. s_state' \in {s_state, 3}
      /\ s_events' \in {s_events, EvPush(s_events, "CHAN_CLOSE")}
  BY <1>1
<1> HIDE DEF spent, rearmed
<1>5. UNCHANGED <<s_ctrl, send_seq, send_window, bytes_in_flight, out_head,
                  s_pool, receiverVars, s2r, r2s>>
  BY DEF Retransmit
<1>6. outgoing \in [out_head..send_seq-1 -> Entry]
  BY DEF SenderInv, SenderTypeOK
<1>7. SenderInv'
  <2>1. outgoing' \in [out_head..send_seq-1 -> Entry]
    <3>1. SUFFICES ASSUME NEW i \in out_head..send_seq-1
                   PROVE  outgoing'[i] \in Entry
      BY <1>3, <1>6
    <3>2. outgoing[i] \in Entry /\ i \in DOMAIN outgoing
      BY <1>6
    <3>3. CASE i \in rearmed
      <4>1. outgoing[i].attempts \in 0..MaxAttempts-1
        BY <1>2, <3>2, <3>3, ConstantsAssumption DEF Entry
      <4> QED
        BY <1>3, <3>2, <3>3, <4>1, ConstantsAssumption DEF Entry
    <3>4. CASE i \notin rearmed
      BY <1>3, <3>2, <3>4
    <3> QED
      BY <3>3, <3>4
  <2>2. s_events' \in Seq({"CHAN_CLOSE"}) /\ Len(s_events') < EventQueue
    BY <1>4, EvPushType DEF SenderInv, SenderTypeOK
  <2>3. s_state' \in 0..3
    BY <1>4 DEF SenderInv, SenderTypeOK
  <2>4. SenderTypeOK'
    BY <1>5, <2>1, <2>2, <2>3 DEF SenderInv, SenderTypeOK
  <2>5. Active' = Active
    BY <1>2, <1>3, <1>6 DEF Active, Entry
  <2> QED
    BY <1>5, <2>4, <2>5 DEF SenderInv, NoHoles, SenderAccounts
<1>8. ReceiverInv'
  BY <1>5, ReceiverUntouched
<1>9. LinkInv'
  <2>1. Unopened'
    BY <1>4, <1>5 DEF LinkInv, Unopened, receiverVars, dataVars, ackVars
  <2>2. UNCHANGED <<send_seq, out_head, recv_seq, reorder, ack_seq, s2r, r2s>>
    BY <1>5 DEF receiverVars, dataVars, ackVars
  <2> QED
    BY <2>1, <2>2, CountersFrame DEF LinkInv
<1> QED
  BY <1>7, <1>8, <1>9, SMTT(30)

\* The ACK number of a receiver at u is the wire number of the message before
\* u, or of u itself when the counter shows zero.
LEMMA AckNames ==
    ASSUME NEW u \in Nat
    PROVE  \E v \in {u - 1, u} : /\ AckSeq(Wire(u)) = Wire(v)
                                 /\ v = u => Wire(u) = 0
<1>1. CASE Wire(u) = 0
  BY <1>1 DEF AckSeq
<1>2. CASE Wire(u) > 0
  <2> DEFINE a == u \div SeqMod  b == (u - 1) \div SeqMod
  <2>1. /\ a \in Int /\ b \in Int
        /\ u = SeqMod * a + Wire(u) /\ u - 1 = SeqMod * b + Wire(u - 1)
        /\ Wire(u) \in 0..SeqMod-1 /\ Wire(u - 1) \in 0..SeqMod-1
    BY WireDivision
  <2> HIDE DEF a, b
  <2>2. Wire(u) - 1 = Wire(u - 1) + SeqMod * (b - a)
    BY <2>1, ConstantsAssumption
  <2>3. /\ Wire(u) - 1 \in Int /\ Wire(u - 1) \in Int /\ b - a \in Int
        /\ Wire(u) - 1 - Wire(u - 1) < SeqMod
        /\ Wire(u - 1) - (Wire(u) - 1) < SeqMod
    BY <1>2, <2>1, ConstantsAssumption
  <2>4. Wire(u) - 1 = Wire(u - 1)
    BY <2>2, <2>3, CongruentEqual
  <2> QED
    BY <1>2, <2>1, <2>4 DEF AckSeq
<1> QED
  BY <1>1, <1>2, WireDivision

\* An ACK frees a prefix of the ring, and nothing past the message expected by
\* the receiver, which it frees only if its wire number is zero.
LEMMA FreedPrefix ==
    ASSUME SenderInv, ReceiverInv, LinkInv, NEW p \in r2s, TimelyAck(p)
    PROVE  \E v \in Int :
             /\ (IF p.ack = None THEN {} ELSE Freed(p.ack))
                  = {i \in Active : i <= v}
             /\ v <= recv_seq
             /\ v = recv_seq => Wire(recv_seq) = 0
<1>1. /\ recv_seq \in Nat /\ send_seq \in Nat /\ out_head \in 0..send_seq
      /\ send_seq - out_head < OutgoingSlots
      /\ Active = out_head..send_seq-1
      /\ p.upto \in Nat /\ p.upto <= recv_seq /\ recv_seq <= send_seq
      /\ OutgoingSlots \in Nat /\ ReorderSlots \in Nat /\ SeqMod \in Nat
      /\ 2 * (OutgoingSlots + ReorderSlots) <= SeqMod
  <2>1. /\ send_seq \in Nat /\ out_head \in 0..send_seq
        /\ send_seq - out_head < OutgoingSlots
        /\ Active = out_head..send_seq-1
    BY DEF SenderInv, SenderTypeOK, NoHoles
  <2>2. recv_seq \in Nat /\ recv_seq <= send_seq
    BY DEF ReceiverInv, ReceiverTypeOK, LinkInv, HeadFollowsReceiver
  <2>3. p.upto \in Nat /\ p.upto <= recv_seq
    BY DEF LinkInv, NetTypeOK, AckPacket, AckInFlight
  <2>4. /\ OutgoingSlots \in Nat /\ ReorderSlots \in Nat /\ SeqMod \in Nat
        /\ 2 * (OutgoingSlots + ReorderSlots) <= SeqMod
    BY ConstantsAssumption, WindowAssumption
  <2> QED
    BY <2>1, <2>2, <2>3, <2>4, Zenon
<1>2. CASE p.ack = None
  <2>1. {i \in Active : i <= out_head - 1} = {}
    BY <1>1
  <2>2. /\ out_head - 1 \in Int /\ out_head - 1 <= recv_seq
        /\ out_head - 1 = recv_seq => Wire(recv_seq) = 0
    BY <1>1 DEF LinkInv, HeadFollowsReceiver
  <2> QED
    BY <1>2, <2>1, <2>2
<1>3. CASE p.ack # None
  <2>1. PICK v \in {p.upto - 1, p.upto} :
          p.ack = Wire(v) /\ (v = p.upto => Wire(p.upto) = 0)
    BY <1>1, <1>3, AckNames DEF LinkInv, AckInFlight
  <2>2. \A i \in Active : SeqDiff(Wire(i), Wire(v)) = i - v
    <3> SUFFICES ASSUME NEW i \in out_head..send_seq-1
                 PROVE  SeqDiff(Wire(i), Wire(v)) = i - v
      BY <1>1
    <3>1. /\ i \in Int /\ v \in Int
          /\ 2 * (i - v) < SeqMod /\ -SeqMod <= 2 * (i - v)
      BY <1>1, <2>1, SMTT(30) DEF TimelyAck
    <3> QED
      BY <3>1, SeqDiffExact
  <2>3. Freed(p.ack) = {i \in Active : i <= v}
    BY <1>1, <2>1, <2>2 DEF Freed
  <2> QED
    BY <1>1, <1>3, <2>1, <2>3
<1> QED
  BY <1>2, <1>3, SMTT(30)

LEMMA SenderFeedIInv ==
    ASSUME SenderInv, ReceiverInv, LinkInv, NEW p \in r2s, ReceiveAtSender(p)
    PROVE  SenderInv' /\ ReceiverInv' /\ LinkInv'
<1> DEFINE freed == IF p.ack = None THEN {} ELSE Freed(p.ack)
<1>1. PICK v \in Int : /\ freed = {i \in Active : i <= v}
                       /\ v <= recv_seq
                       /\ v = recv_seq => Wire(recv_seq) = 0
  BY FreedPrefix DEF ReceiveAtSender
<1>2. /\ r2s' \in Deliver(r2s, p)
      /\ s_pool' = s_pool + Cardinality(freed)
      /\ bytes_in_flight' = bytes_in_flight - Bytes(freed)
      /\ out_head' \in out_head..send_seq
      /\ \A i \in out_head..out_head'-1 : i \notin Active \ freed
      /\ out_head' # send_seq => out_head' \in Active \ freed
      /\ outgoing' = [i \in out_head'..send_seq-1 |->
                        [outgoing[i] EXCEPT !.active = @ /\ i \notin freed]]
      /\ UNCHANGED <<s_ctrl, send_seq, receiverVars, s2r>>
  BY DEF ReceiveAtSender
<1>3. /\ s_state' \in {s_state, 1, 3}
      /\ s_state' = 1 => s_state = 1 \/ s_state = 0
      /\ s_events' \in {s_events, EvPush(s_events, "CHAN_CLOSE")}
      /\ send_window' \in {p.window, RecvWindow, send_window}
      /\ send_window' = p.window => p.window # None \/ send_window' = send_window
                                    \/ send_window' = RecvWindow
  BY DEF ReceiveAtSender
<1> HIDE DEF freed
<1>4. /\ recv_seq \in Nat /\ send_seq \in Nat /\ out_head \in 0..send_seq
      /\ send_seq - out_head < OutgoingSlots /\ OutgoingSlots \in Nat
      /\ Active = out_head..send_seq-1
      /\ outgoing \in [out_head..send_seq-1 -> Entry]
      /\ send_seq \in 0..MaxMsgs /\ s_pool \in 0..PoolBufs
      /\ MaxMsgs \in Nat /\ PoolBufs \in Nat /\ bytes_in_flight \in Nat
  BY ConstantsAssumption
  DEF SenderInv, SenderTypeOK, NoHoles, ReceiverInv, ReceiverTypeOK
<1>5. \A i \in out_head'..send_seq-1 : i \in Active \ freed
  BY <1>1, <1>2, <1>4
<1>6. Active \ freed = out_head'..send_seq-1
  BY <1>1, <1>2, <1>4, <1>5
<1>7. outgoing' \in [out_head'..send_seq-1 -> Entry]
      /\ \A i \in out_head'..send_seq-1 : outgoing'[i].active
  <2>1. \A i \in Active : outgoing[i].active = TRUE
    BY <1>4 DEF Active, Entry
  <2>2. SUFFICES ASSUME NEW i \in out_head'..send_seq-1
                 PROVE  outgoing'[i] \in Entry /\ outgoing'[i].active
    BY <1>2, Zenon
  <2>3. outgoing'[i] = [outgoing[i] EXCEPT !.active = TRUE]
    BY <1>2, <1>5, <2>1, Zenon
  <2> QED
    BY <1>4, <1>5, <2>3, Zenon DEF Entry
<1>8. Active' = Active \ freed
  BY <1>6, <1>7 DEF Active
<1>9. /\ freed \in SUBSET Msgs /\ Active \in SUBSET Msgs
      /\ Active' \in SUBSET Msgs /\ freed \subseteq Active
  BY <1>1, <1>4, <1>8 DEF Msgs
<1>10. SenderAccounts'
  <2>1. Active = freed \cup Active' /\ freed \cap Active' = {}
    BY <1>8, <1>9
  <2>2. /\ Bytes(Active) = Bytes(freed) + Bytes(Active')
        /\ Bytes(freed) \in Nat /\ Bytes(Active') \in Nat
    BY <1>9, <2>1, BytesUnion, BytesType, Zenon
  <2>3. /\ Cardinality(Active) = Cardinality(freed) + Cardinality(Active')
        /\ Cardinality(freed) \in Nat /\ Cardinality(Active') \in Nat
    <3>1. IsFiniteSet(freed) /\ IsFiniteSet(Active')
      BY <1>9, BytesType, Zenon
    <3>2. Cardinality(freed \cup Active') = Cardinality(freed) + Cardinality(Active')
      BY <2>1, <3>1, DisjointUnion
    <3> QED
      BY <2>1, <3>1, <3>2, FS_CardinalityType
  <2>4. s_pool + Cardinality(Active) = PoolBufs /\ bytes_in_flight = Bytes(Active)
    BY DEF SenderInv, SenderAccounts
  <2>5. s_pool' + Cardinality(Active') = PoolBufs
    BY <1>2, <1>4, <2>3, <2>4
  <2>6. bytes_in_flight' = Bytes(Active')
    BY <1>2, <1>4, <2>2, <2>4
  <2> QED
    BY <2>5, <2>6 DEF SenderAccounts
<1>11. SenderTypeOK'
  <2>1. s_pool' \in 0..PoolBufs /\ bytes_in_flight' \in Nat
    <3>1. Cardinality(Active') \in Nat /\ Bytes(Active') \in Nat
      BY <1>9, BytesType, FS_CardinalityType, Zenon
    <3>2. Cardinality(freed) \in Nat
      BY <1>9, BytesType, FS_CardinalityType, ZenonT(30)
    <3> QED
      BY <1>2, <1>4, <1>10, <3>1, <3>2, SMTT(30) DEF SenderAccounts
  <2>2. s_events' \in Seq({"CHAN_CLOSE"}) /\ Len(s_events') < EventQueue
    BY <1>3, EvPushType DEF SenderInv, SenderTypeOK
  <2>3. send_window' \in Nat
    BY <1>3, ConstantsAssumption
    DEF SenderInv, SenderTypeOK, LinkInv, NetTypeOK, AckPacket, None
  <2>4. s_state' \in 0..3
    BY <1>3 DEF SenderInv, SenderTypeOK
  <2>5. /\ s_ctrl' \in SUBSET {"OPEN", "CLOSE"} /\ send_seq' \in 0..MaxMsgs
        /\ out_head' \in 0..send_seq' /\ send_seq' - out_head' < OutgoingSlots
    BY <1>2, <1>4, SMTT(30) DEF SenderInv, SenderTypeOK
  <2> QED
    BY <1>2, <1>7, <2>1, <2>2, <2>3, <2>4, <2>5, Zenon DEF SenderTypeOK
<1>12. SenderInv'
  BY <1>2, <1>6, <1>8, <1>10, <1>11 DEF SenderInv, NoHoles
<1>13. ReceiverInv'
  BY <1>2, ReceiverUntouched
<1>14. LinkInv'
  <2> USE DEF LinkInv
  <2>1. UNCHANGED <<s_ctrl, send_seq, s2r, recv_seq, reorder, ack_seq>>
    BY <1>2 DEF receiverVars, dataVars, ackVars
  <2>2. r2s' \subseteq r2s
    BY <1>2, DeliverShrinks, SMTT(30)
  <2>3. NetTypeOK' /\ DataInFlight' /\ AckInFlight' /\ ReorderConsistent'
    BY <2>1, <2>2 DEF NetTypeOK, DataInFlight, AckInFlight, ReorderConsistent
  <2>4. HeadFollowsReceiver'
    <3>1. CASE out_head' = out_head
      BY <2>1, <3>1 DEF HeadFollowsReceiver
    <3>2. CASE out_head' # out_head
      <4>1. PICK h \in out_head..send_seq : h = out_head'
        BY <1>2
      <4>2. h - 1 \in out_head..send_seq-1 /\ h - 1 \in out_head..h-1
        <5>1. h # out_head
          BY <3>2, <4>1
        <5>2. out_head \in Int /\ send_seq \in Int
          BY <1>4
        <5> QED
          BY <5>1, <5>2
      <4>3. h - 1 \in freed
        BY <1>2, <1>4, <4>1, <4>2
      <4>4. h <= v + 1
        BY <1>1, <1>4, <4>3
      <4> QED
        BY <1>1, <1>4, <2>1, <4>1, <4>4 DEF HeadFollowsReceiver
    <3> QED
      BY <3>1, <3>2
  <2>5. Unopened'
    <3>1. "OPEN" \notin s_ctrl
      BY DEF Unopened
    <3> QED
      BY <1>3, <2>1, <3>1 DEF Unopened
  <2> QED
    BY <2>3, <2>4, <2>5
<1> QED
  BY <1>12, <1>13, <1>14

-----------------------------------------------------------------------------
(* Steps of the receiving endpoint. *)

LEMMA ReceiveCtrlIInv ==
    ASSUME SenderInv, ReceiverInv, LinkInv,
           NEW p \in s2r, p.type = "CTRL", ReceiveCtrl(p)
    PROVE  SenderInv' /\ ReceiverInv' /\ LinkInv'
<1> DEFINE Evs == Seq({"CHAN_OPEN", "CHAN_CLOSE", "DATA"})
<1>1. /\ s2r' \in Deliver(s2r, p) /\ r_state' \in {r_state, 1, 3}
      /\ r_ctrl' \in {r_ctrl, r_ctrl \cup {"WINDOW"}, r_ctrl \cup {"CLOSE"}}
      /\ UNCHANGED <<senderVars, dataVars, ackVars, reading, r2s>>
  BY DEF ReceiveCtrl
<1>2. /\ r_events' \in Evs /\ Len(r_events') < EventQueue
      /\ r_events # << >> => r_events' # << >>
  <2> DEFINE opened == IF "OPEN" \in p.frames /\ r_state = 0
                       THEN EvPush(r_events, "CHAN_OPEN") ELSE r_events
  <2>1. r_events \in Evs /\ Len(r_events) < EventQueue
    BY Zenon DEF ReceiverInv, ReceiverTypeOK
  <2>2. /\ opened \in Evs /\ Len(opened) < EventQueue
        /\ r_events # << >> => opened # << >>
    BY <2>1, EvPushType, ZenonT(30)
  <2>3. r_events' \in {opened, EvPush(opened, "CHAN_CLOSE")}
    BY Zenon DEF ReceiveCtrl
  <2> HIDE DEF opened
  <2> QED
    BY <2>2, <2>3, EvPushType, ZenonT(30)
<1>3. SenderInv'
  BY <1>1, SenderFrame
<1>4. ReceiverInv'
  <2>1. ReceiverTypeOK'
    BY <1>1, <1>2 DEF ReceiverInv, ReceiverTypeOK, dataVars, ackVars
  <2>2. NeverStranded'
    BY <1>1, <1>2 DEF ReceiverInv, NeverStranded, dataVars
  <2> QED
    BY <1>1, <2>1, <2>2, DataFrame, SMTT(30) DEF ReceiverInv
<1>5. LinkInv'
  <2>1. "OPEN" \notin s_ctrl
    BY DEF LinkInv, Unopened
  <2>2. Unopened'
    BY <1>1, <2>1 DEF LinkInv, Unopened, senderVars
  <2>3. UNCHANGED <<send_seq, out_head, recv_seq, reorder, ack_seq, r2s>>
    BY <1>1 DEF senderVars, dataVars, ackVars
  <2>4. s2r' \subseteq s2r
    BY <1>1, DeliverShrinks
  <2> QED
    BY <2>2, <2>3, <2>4, CountersFrame DEF LinkInv
<1> QED
  BY <1>3, <1>4, <1>5, SMTT(30)

LEMMA ChanCloseReceiverIInv ==
    ASSUME SenderInv, ReceiverInv, LinkInv, ChanCloseReceiver
    PROVE  SenderInv' /\ ReceiverInv' /\ LinkInv'
<1>1. SenderInv'
  BY SenderFrame DEF ChanCloseReceiver
<1>2. ReceiverInv'
  <2>1. ReceiverTypeOK'
    BY DEF ChanCloseReceiver, ReceiverInv, ReceiverTypeOK, dataVars, ackVars
  <2>2. NeverStranded'
    BY DEF ChanCloseReceiver, ReceiverInv, NeverStranded, dataVars
  <2> QED
    BY <2>1, <2>2, DataFrame, SMTT(30) DEF ChanCloseReceiver, ReceiverInv
<1>3. LinkInv'
  <2>1. Unopened'
    BY DEF ChanCloseReceiver, LinkInv, Unopened, senderVars
  <2>2. UNCHANGED <<send_seq, out_head, recv_seq, reorder, ack_seq, s2r, r2s>>
    BY DEF ChanCloseReceiver, senderVars, dataVars, ackVars
  <2> QED
    BY <2>1, <2>2, CountersFrame DEF LinkInv
<1> QED
  BY <1>1, <1>2, <1>3

LEMMA PollReceiverIInv ==
    ASSUME SenderInv, ReceiverInv, LinkInv, PollReceiver
    PROVE  SenderInv' /\ ReceiverInv' /\ LinkInv'
<1>1. SenderInv'
  BY SenderFrame DEF PollReceiver
<1>2. ReceiverInv'
  <2> DEFINE E == {"CHAN_OPEN", "CHAN_CLOSE", "DATA"}
  <2>1. /\ r_events \in Seq(E) /\ Len(r_events) < EventQueue
        /\ r_events # << >> /\ EventQueue \in Nat
    BY ConstantsAssumption DEF PollReceiver, ReceiverInv, ReceiverTypeOK
  <2>2. Tail(r_events) \in Seq(E) /\ Len(Tail(r_events)) < EventQueue
    BY <2>1, HeadTailProperties, SMTT(30)
  <2>3. ReceiverTypeOK'
    BY <2>2 DEF PollReceiver, ReceiverInv, ReceiverTypeOK, dataVars, ackVars
  <2>4. NeverStranded'
    BY DEF PollReceiver, NeverStranded
  <2> QED
    BY <2>3, <2>4, DataFrame, SMTT(30) DEF PollReceiver, ReceiverInv
<1>3. LinkInv'
  <2>1. Unopened'
    BY DEF PollReceiver, LinkInv, Unopened, senderVars
  <2>2. UNCHANGED <<send_seq, out_head, recv_seq, reorder, ack_seq, s2r, r2s>>
    BY DEF PollReceiver, senderVars, dataVars, ackVars
  <2> QED
    BY <2>1, <2>2, CountersFrame DEF LinkInv
<1> QED
  BY <1>1, <1>2, <1>3

LEMMA SendReceiverIInv ==
    ASSUME SenderInv, ReceiverInv, LinkInv, SendReceiver
    PROVE  SenderInv' /\ ReceiverInv' /\ LinkInv'
<1>1. SenderInv'
  BY SenderFrame DEF SendReceiver
<1>2. ReceiverInv'
  <2>1. ReceiverTypeOK'
    BY ZenonT(30) DEF SendReceiver, ReceiverInv, ReceiverTypeOK, dataVars
  <2>2. NeverStranded'
    BY DEF SendReceiver, ReceiverInv, NeverStranded, dataVars
  <2> QED
    BY <2>1, <2>2, DataFrame, SMTT(30) DEF SendReceiver, ReceiverInv
<1>3. LinkInv'
  <2> DEFINE q == [frames |-> r_ctrl,
                   ack    |-> IF need_ack THEN ack_seq ELSE None,
                   upto   |-> recv_seq,
                   window |-> IF ~need_window_update THEN None
                              ELSE IF RecvWindow > recv_buffered
                              THEN RecvWindow - recv_buffered ELSE 0]
  <2>1. Unopened'
    BY DEF SendReceiver, LinkInv, Unopened, senderVars
  <2>2. UNCHANGED <<send_seq, out_head, recv_seq, reorder, ack_seq, s2r>>
    BY DEF SendReceiver, senderVars, dataVars
  <2>3. r2s' \subseteq r2s \cup {q}
    BY TransmitAdds, SMTT(30) DEF SendReceiver
  <2>4. q \in AckPacket
    BY ConstantsAssumption DEF AckPacket, ReceiverInv, ReceiverTypeOK, None
  <2>5. NetTypeOK'
    BY <2>2, <2>3, <2>4 DEF LinkInv, NetTypeOK
  <2>6. AckInFlight'
    <3>1. /\ recv_seq \in Nat /\ ack_seq = AckSeq(Wire(recv_seq))
          /\ q.upto = recv_seq /\ (q.ack = ack_seq \/ q.ack = None)
      BY DEF ReceiverInv, ReceiverTypeOK, LinkInv, AckInFlight
    <3> HIDE DEF q
    <3>2. \A x \in r2s' : x \in r2s \/ x = q
      BY <2>2, <2>3
    <3> QED
      BY <2>2, <2>3, <3>1, <3>2, SMTT(30) DEF LinkInv, AckInFlight
  <2> QED
    BY <2>1, <2>2, <2>5, <2>6, CountersFrame, SMTT(30) DEF LinkInv
<1> QED
  BY <1>1, <1>2, <1>3

\* netchan_chan_read takes the oldest message off the queue, its bytes off
\* recv_buffered and returns its buffer.
LEMMA ChanReadIInv ==
    ASSUME SenderInv, ReceiverInv, LinkInv, ChanRead
    PROVE  SenderInv' /\ ReceiverInv' /\ LinkInv'
<1>1. /\ reading
      /\ UNCHANGED <<senderVars, r_state, r_ctrl, recv_seq, reorder, frags,
                     need_ack, ack_seq, r_events, accepted, s2r, r2s>>
  BY DEF ChanRead
<1>2. SenderInv'
  BY <1>1, SenderFrame, SMTT(30)
<1>3. LinkInv'
  <2>1. Unopened'
    BY <1>1 DEF LinkInv, Unopened, senderVars
  <2>2. UNCHANGED <<send_seq, out_head, recv_seq, reorder, ack_seq, s2r, r2s>>
    BY <1>1 DEF senderVars
  <2> QED
    BY <2>1, <2>2, CountersFrame DEF LinkInv
<1>4. CASE recv_queue = << >>
  <2>1. UNCHANGED <<recv_queue, r_pool, recv_buffered, need_window_update>>
        /\ reading' = FALSE
    BY <1>4, SMTT(30) DEF ChanRead
  <2>2. ReceiverTypeOK'
    BY <1>1, <2>1, ZenonT(30) DEF ReceiverInv, ReceiverTypeOK
  <2>3. NeverStranded'
    BY <1>4, <2>1 DEF NeverStranded
  <2>4. UNCHANGED dataVars
    BY <1>1, <2>1 DEF dataVars
  <2> QED
    BY <1>2, <1>3, <2>2, <2>3, <2>4, DataFrame, SMTT(30) DEF ReceiverInv
<1>5. CASE recv_queue # << >>
  <2> DEFINE q == recv_queue  t == Tail(recv_queue)
  <2>1. /\ recv_queue' = t /\ r_pool' = r_pool + 1
        /\ recv_buffered' = recv_buffered - Size[Head(q)]
        /\ need_window_update' = TRUE /\ reading' = reading
    BY <1>5, SMTT(30) DEF ChanRead
  <2>2. /\ q \in Seq(Msgs) /\ Len(q) < RecvQueueSlots /\ RecvQueueSlots \in Nat
        /\ \A j, k \in DOMAIN q : j < k => q[j] < q[k]
        /\ \A k \in DOMAIN q : q[k] < recv_seq
        /\ r_pool \in Nat /\ recv_buffered \in Nat /\ PoolBufs \in Nat
    BY ConstantsAssumption
    DEF ReceiverInv, ReceiverTypeOK, QueueInOrder
  <2>3. /\ t \in Seq(Msgs) /\ Len(t) = Len(q) - 1 /\ Len(q) \in Nat \ {0}
        /\ \A i \in 1..Len(t) : t[i] = q[i+1]
        /\ Head(q) = q[1] /\ Head(q) \in Msgs
    BY <1>5, <2>2, HeadTailProperties, EmptySeq
  <2>4. DOMAIN q = 1..Len(q) /\ DOMAIN t = 1..Len(t)
    BY <2>2, <2>3, LenProperties
  <2> HIDE DEF q, t
  <2>5. QueueInOrder'
    <3>1. \A k \in 1..Len(t) : t[k] = q[k+1] /\ k+1 \in 1..Len(q)
      BY <2>3
    <3>2. \A j, k \in 1..Len(t) : j < k => t[j] < t[k]
      <4> SUFFICES ASSUME NEW j \in 1..Len(t), NEW k \in 1..Len(t), j < k
                   PROVE  t[j] < t[k]
        OBVIOUS
      <4>1. j+1 \in DOMAIN q /\ k+1 \in DOMAIN q /\ j+1 < k+1
        BY <2>4, <3>1
      <4> QED
        BY <2>2, <3>1, <4>1
    <3>3. \A k \in 1..Len(t) : t[k] < recv_seq
      BY <2>2, <2>4, <3>1
    <3> QED
      BY <1>1, <2>1, <2>4, <3>2, <3>3, SMTT(30) DEF QueueInOrder
  <2>6. Range(q) = {q[1]} \cup Range(t) /\ q[1] \notin Range(t)
    <3>1. \A k \in 1..Len(t) : t[k] = q[k+1] /\ k+1 \in 1..Len(q) /\ 1 < k+1
      BY <2>3
    <3>2. \A k \in 1..Len(q) : k # 1 => k-1 \in 1..Len(t) /\ t[k-1] = q[k]
      BY <2>3
    <3>3. 1 \in 1..Len(q)
      BY <2>3
    <3>4. q[1] \notin Range(t)
      <4>1. \A k \in 1..Len(t) : q[1] < t[k]
        BY <2>2, <2>4, <3>1, <3>3, SMTT(30)
      <4>2. q[1] \in Int
        BY <2>3, ConstantsAssumption DEF Msgs
      <4> QED
        BY <2>4, <4>1, <4>2 DEF Range
    <3>5. \A x \in Range(q) : x \in {q[1]} \cup Range(t)
      BY <2>4, <3>2 DEF Range
    <3>6. \A x \in {q[1]} \cup Range(t) : x \in Range(q)
      BY <2>4, <3>1, <3>3 DEF Range
    <3> QED
      BY <3>4, <3>5, <3>6
  <2>7. Range(t) \in SUBSET Msgs
    BY <2>3, <2>4, ElementOfSeq, SMTT(30) DEF Range
  <2>8. Bytes(Range(q)) = Size[q[1]] + Bytes(Range(t)) /\ Bytes(Range(t)) \in Nat
        /\ Size[q[1]] \in Nat
    <3>1. {q[1]} \in SUBSET Msgs /\ {q[1]} \cap Range(t) = {}
      BY <2>3, <2>6, SMTT(30)
    <3> QED
      BY <2>3, <2>6, <2>7, <3>1, BytesUnion, BytesSingleton, BytesType, Zenon,
         ConstantsAssumption
  <2>9. recv_buffered' = Bytes(Range(t)) /\ recv_buffered' \in Nat
    BY <2>1, <2>2, <2>3, <2>8, SMTT(30) DEF ReceiverInv, ReceiverAccounts, Range, q
  <2>10. ReceiverAccounts' /\ r_pool' \in 0..PoolBufs
    <3>1. /\ r_pool + Len(q) + Cardinality(DOMAIN frags)
             + Cardinality({k \in DOMAIN reorder : reorder[k].valid}) = PoolBufs
          /\ Cardinality(DOMAIN frags) \in Nat
          /\ Cardinality({k \in DOMAIN reorder : reorder[k].valid}) \in Nat
      BY FragsFinite DEF ReceiverInv, ReceiverAccounts, q
    <3> DEFINE a == Cardinality(DOMAIN frags)
               b == Cardinality({k \in DOMAIN reorder : reorder[k].valid})
    <3>2. r_pool + 1 + Len(t) + a + b = PoolBufs /\ r_pool + 1 \in 0..PoolBufs
      <4> HIDE DEF a, b
      <4>1. r_pool + Len(q) + a + b = PoolBufs /\ a \in Nat /\ b \in Nat
        BY <3>1, Zenon DEF a, b
      <4>2. PICK m \in Nat : m = Len(t) /\ m + 1 = Len(q)
        BY <2>3
      <4>3. r_pool \in Nat
        BY <2>2
      <4> QED
        BY <4>1, <4>2, <4>3
    <3> QED
      BY <1>1, <2>1, <2>9, <3>2, SMTT(30) DEF ReceiverAccounts, Range
  <2>11. ReceiverTypeOK'
    <3>1. Len(t) < RecvQueueSlots
      BY <2>2, <2>3
    <3> QED
      BY <1>1, <2>1, <2>3, <2>9, <2>10, <3>1, ZenonT(30) DEF ReceiverInv, ReceiverTypeOK
  <2>12. AcceptedInOrder' /\ NeverStranded'
    BY <1>1, <2>1 DEF ReceiverInv, AcceptedInOrder, NeverStranded
  <2> QED
    BY <1>2, <1>3, <2>5, <2>10, <2>11, <2>12, Zenon DEF ReceiverInv
<1> QED
  BY <1>4, <1>5
=============================================================================
