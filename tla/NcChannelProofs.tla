-------------------------- MODULE NcChannelProofs --------------------------
(***************************************************************************)
(* Theorems about NcChannel, for every value of its constants: any number  *)
(* of messages of any size, any width of the sequence fields and any size  *)
(* of the rings, pools and queues that meet the assumptions of NcChannel.  *)
(***************************************************************************)
EXTENDS NcStepProofs

-----------------------------------------------------------------------------
(* The receipt of a DATA frame: in order, ahead, behind, whole or in         *)
(* fragments, with room or without.                                          *)

\* The signed 16-bit difference of process_data is the true distance of the
\* message from the one expected.
LEMMA DataNumber ==
    ASSUME SenderInv, ReceiverInv, LinkInv,
           NEW p \in s2r, p.type = "DATA", TimelyData(p)
    PROVE  /\ p.msg \in Msgs /\ p.msg \in Nat /\ p.msg < send_seq
           /\ p.seq = Wire(p.msg) /\ p.seq \in 0..SeqMod-1
           /\ p.frag \in 0..FragTotal(p.msg)-1
           /\ SeqDiff(p.seq, Wire(recv_seq)) = p.msg - recv_seq
           /\ p.seq = Wire(recv_seq) => p.msg = recv_seq
<1>1. p \in DataPacket
  BY DEF LinkInv, NetTypeOK, CtrlPacket
<1>2. /\ p.msg \in Msgs /\ p.msg \in Nat /\ p.seq \in 0..SeqMod-1 /\ p.frag \in Nat
  BY <1>1, ConstantsAssumption DEF DataPacket, Msgs
<1>3. p.msg < send_seq /\ p.seq = Wire(p.msg) /\ p.frag < FragTotal(p.msg)
  BY DEF LinkInv, DataInFlight
<1>4. PICK m \in Nat : m = p.msg
  BY <1>2
<1>5. /\ recv_seq \in Nat /\ send_seq \in Nat /\ out_head \in Nat
      /\ send_seq - out_head < OutgoingSlots /\ out_head <= recv_seq + 1
      /\ OutgoingSlots \in Nat /\ ReorderSlots \in Nat /\ SeqMod \in Nat
      /\ 2 * (OutgoingSlots + ReorderSlots) <= SeqMod
  <2>1. /\ recv_seq \in Nat /\ send_seq \in Nat /\ out_head \in Nat
        /\ send_seq - out_head < OutgoingSlots
    BY ConstantsAssumption DEF ReceiverInv, ReceiverTypeOK, SenderInv, SenderTypeOK
  <2>2. out_head <= recv_seq + 1
    BY <2>1 DEF LinkInv, HeadFollowsReceiver
  <2> QED
    BY <2>1, <2>2, ConstantsAssumption, WindowAssumption, SMTT(30)
<1>6. 2 * (recv_seq - m) < SeqMod /\ m < send_seq
  BY <1>3, <1>4 DEF TimelyData
<1>7. /\ 2 * (m - recv_seq) < SeqMod /\ -SeqMod <= 2 * (m - recv_seq)
      /\ m - recv_seq < SeqMod /\ recv_seq - m < SeqMod
  BY <1>5, <1>6
<1>8. SeqDiff(Wire(m), Wire(recv_seq)) = m - recv_seq
  BY <1>5, <1>7, SeqDiffExact
<1>9. Wire(m) = Wire(recv_seq) => m = recv_seq
  BY <1>5, <1>7, WireInjective
<1>10. p.frag \in 0..FragTotal(p.msg)-1
  BY <1>2, <1>3, FragTotalPositive
<1> QED
  BY <1>2, <1>3, <1>4, <1>8, <1>9, <1>10

\* A message that is not the one expected changes nothing but the reorder
\* buffer and the pool.
LEMMA HoldStep ==
    ASSUME SenderInv, ReceiverInv, LinkInv, NEW refund \in Nat,
           NEW p \in s2r, p.type = "DATA", TimelyData(p), HoldOrDiscard(p, refund),
           UNCHANGED <<send_seq, reading>>
    PROVE  DataStep(refund)
<1> DEFINE k == Slot(p.seq)
           SlotRec == [valid : BOOLEAN, seq : 0..SeqMod-1, msg : Nat]
           hold == /\ InReorderWindow(SeqDiff(p.seq, Wire(recv_seq)))
                   /\ ~reorder[k].valid
                   /\ r_pool > 0
           entry == [valid |-> TRUE, seq |-> p.seq, msg |-> p.msg]
<1>1. /\ reorder' = IF hold THEN [reorder EXCEPT ![k] = entry] ELSE reorder
      /\ r_pool' = (IF hold THEN r_pool - 1 ELSE r_pool) + refund
      /\ UNCHANGED <<recv_seq, recv_queue, accepted, recv_buffered, r_events>>
  BY DEF HoldOrDiscard
<1>2. /\ p.msg \in Nat /\ p.msg < send_seq
      /\ p.seq = Wire(p.msg) /\ p.seq \in 0..SeqMod-1
      /\ SeqDiff(p.seq, Wire(recv_seq)) = p.msg - recv_seq
  BY DataNumber
<1>3. k \in 0..ReorderSlots-1
  BY <1>2, SlotType, SMTT(30)
<1>4. /\ reorder \in [0..ReorderSlots-1 -> SlotRec] /\ DOMAIN reorder = 0..ReorderSlots-1
      /\ r_pool \in Nat /\ recv_seq \in Nat /\ send_seq \in Nat
      /\ Len(recv_queue) \in Nat /\ ReorderSlots \in Nat
  <2>1. /\ reorder \in [0..ReorderSlots-1 -> SlotRec]
        /\ r_pool \in 0..PoolBufs /\ recv_seq \in 0..MaxMsgs
        /\ recv_queue \in Seq(Msgs)
    BY Zenon DEF ReceiverInv, ReceiverTypeOK
  <2>2. r_pool \in Nat /\ recv_seq \in Nat /\ send_seq \in Nat
    BY <2>1 DEF SenderInv, SenderTypeOK
  <2>3. Len(recv_queue) \in Nat
    BY <2>1, LenProperties
  <2>4. ReorderSlots \in Nat
    BY ConstantsAssumption
  <2> QED
    BY <2>1, <2>2, <2>3, <2>4, Zenon
<1> HIDE DEF k
<1>5. /\ recv_seq' \in recv_seq..send_seq
      /\ recv_queue' \in Seq(Msgs) /\ Len(recv_queue') < RecvQueueSlots
      /\ accepted' \in Seq(Msgs)
      /\ r_events' \in Seq({"CHAN_OPEN", "CHAN_CLOSE", "DATA"})
      /\ Len(r_events') < EventQueue
  <2>1. recv_seq <= send_seq
    BY DEF LinkInv, HeadFollowsReceiver
  <2>2. recv_seq \in recv_seq..send_seq
    BY <1>4, <2>1
  <2>3. recv_seq' = recv_seq
    BY <1>1, Zenon
  <2>4. recv_seq' \in recv_seq..send_seq
    BY <2>2, <2>3, Zenon
  <2> QED
    BY <1>1, <2>4, Zenon DEF ReceiverInv, ReceiverTypeOK
<1>6. InOrder(accepted', recv_seq') /\ InOrder(recv_queue', recv_seq')
  BY <1>1 DEF ReceiverInv, AcceptedInOrder, QueueInOrder, InOrder
<1>7. recv_buffered' = Bytes(Range(recv_queue'))
  BY <1>1, Zenon DEF ReceiverInv, ReceiverAccounts, Range
<1>8. recv_queue' # << >> => reading \/ r_events' # << >>
  BY <1>1 DEF ReceiverInv, NeverStranded
<1>9. IsFiniteSet(ValidSlots) /\ Cardinality(ValidSlots) \in Nat
  BY FragsFinite DEF ReceiverInv, ValidSlots
<1>10. Passes
  BY <1>1 DEF Passes
<1>11. CASE hold
  <2>1. reorder' = [reorder EXCEPT ![k] = entry] /\ r_pool' = r_pool - 1 + refund
    BY <1>1, <1>11
  <2>2. r_pool > 0 /\ ~reorder[k].valid
    BY <1>11
  <2>3. p.msg - recv_seq > 0 /\ p.msg - recv_seq < ReorderSlots
    BY <1>2, <1>11 DEF InReorderWindow
  <2>4. entry \in SlotRec
    BY <1>2
  <2>5. reorder' \in [0..ReorderSlots-1 -> SlotRec]
    BY <1>3, <1>4, <2>1, <2>4
  <2>6. \A j \in 0..ReorderSlots-1 : reorder'[j] = IF j = k THEN entry ELSE reorder[j]
    BY <1>4, <2>1
  <2>7. p.msg \in recv_seq+1..Lesser(send_seq, recv_seq+ReorderSlots)-1
    <3>1. PICK m \in Nat : m = p.msg
      BY <1>2
    <3>2. m < send_seq /\ m - recv_seq > 0 /\ m - recv_seq < ReorderSlots
      BY <1>2, <2>3, <3>1
    <3>3. m \in recv_seq+1..Lesser(send_seq, recv_seq+ReorderSlots)-1
      BY <1>4, <3>2 DEF Lesser
    <3> QED
      BY <3>1, <3>3
  <2>8. DOMAIN reorder' = 0..ReorderSlots-1
    BY <2>5
  <2>9. ReorderConsistent'
    <3> SUFFICES ASSUME NEW j \in 0..ReorderSlots-1, reorder'[j].valid
                 PROVE  /\ reorder'[j].seq = Wire(reorder'[j].msg)
                        /\ j = Slot(reorder'[j].seq)
                        /\ reorder'[j].msg
                             \in recv_seq+1..Lesser(send_seq, recv_seq+ReorderSlots)-1
      BY <1>1, <2>8, SMTT(30) DEF ReorderConsistent
    <3>1. CASE j = k
      <4>1. reorder'[j].seq = p.seq /\ reorder'[j].msg = p.msg
        BY <2>6, <3>1, SMTT(30)
      <4> QED
        BY <1>2, <2>7, <3>1, <4>1, SMTT(30) DEF k
    <3>2. CASE j # k
      BY <1>4, <2>6, <3>2, SMTT(30) DEF LinkInv, ReorderConsistent
    <3> QED
      BY <3>1, <3>2, SMTT(30)
  <2>10. ValidSlots' = ValidSlots \cup {k} /\ k \notin ValidSlots
    BY <1>3, <1>4, <2>2, <2>6, <2>8, SMTT(30) DEF ValidSlots
  <2>11. Cardinality(ValidSlots \cup {k}) = Cardinality(ValidSlots) + 1
    BY <1>9, <2>10, FS_AddElement
  <2>12. Cardinality(ValidSlots') = Cardinality(ValidSlots) + 1
    BY <2>10, <2>11, SMTT(30)
  <2>13. /\ r_pool' \in Nat
         /\ r_pool' + Len(recv_queue') + Cardinality(ValidSlots')
              = r_pool + Len(recv_queue) + Cardinality(ValidSlots) + refund
    <3>1. Len(recv_queue') = Len(recv_queue)
      BY <1>1
    <3> QED
      BY <1>4, <1>9, <2>1, <2>2, <2>12, <3>1, SMTT(30)
  <2> QED
    BY <1>5, <1>6, <1>7, <1>8, <1>10, <2>5, <2>9, <2>13, SMTT(30) DEF DataStep
<1>12. CASE ~hold
  <2>1. reorder' = reorder /\ r_pool' = r_pool + refund
    BY <1>1, <1>12, SMTT(30)
  <2>2. ReorderConsistent'
    BY <1>1, <2>1 DEF LinkInv, ReorderConsistent
  <2>3. Cardinality(ValidSlots') = Cardinality(ValidSlots)
    BY <2>1 DEF ValidSlots
  <2>4. /\ r_pool' \in Nat
        /\ r_pool' + Len(recv_queue') + Cardinality(ValidSlots')
             = r_pool + Len(recv_queue) + Cardinality(ValidSlots) + refund
    <3>1. Len(recv_queue') = Len(recv_queue)
      BY <1>1
    <3> QED
      BY <1>4, <1>9, <2>1, <2>3, <3>1, SMTT(30)
  <2> QED
    BY <1>4, <1>5, <1>6, <1>7, <1>8, <1>10, <2>1, <2>2, <2>4, SMTT(30) DEF DataStep
<1> QED
  BY <1>11, <1>12

LEMMA TakeStep ==
    ASSUME SenderInv, ReceiverInv, LinkInv, NEW refund \in Nat,
           NEW p \in s2r, p.type = "DATA", TimelyData(p), TakeMessage(p, refund),
           UNCHANGED <<send_seq, reading>>
    PROVE  DataStep(refund)
<1>1. /\ p.msg < send_seq
      /\ p.seq = Wire(recv_seq) => p.msg = recv_seq
  BY DataNumber
<1>2. CASE p.seq = Wire(recv_seq)
  <2>1. DeliverInOrder(recv_seq, refund) /\ recv_seq < send_seq
    BY <1>1, <1>2 DEF TakeMessage
  <2> QED
    BY <2>1, DeliverStep
<1>3. CASE p.seq # Wire(recv_seq)
  <2>1. HoldOrDiscard(p, refund)
    BY <1>3 DEF TakeMessage
  <2> QED
    BY <2>1, HoldStep
<1> QED
  BY <1>2, <1>3

\* The effect of a DATA frame on the reassembly slots: c is the number of
\* buffers they give back.
FragStep(c) ==
    /\ DOMAIN frags' \subseteq Msgs
    /\ \A i \in DOMAIN frags' : frags'[i] \subseteq 0..FragTotal(i)-1
    /\ Cardinality(DOMAIN frags') <= FragSlots
    /\ Cardinality(DOMAIN frags') + c = Cardinality(DOMAIN frags)

\* Buffers that move between the pool and the reassembly slots only.
LEMMA StillStep ==
    ASSUME SenderInv, ReceiverInv, LinkInv, NEW c \in Int,
           UNCHANGED <<send_seq, reading, recv_seq, recv_queue, accepted,
                       recv_buffered, reorder, r_events>>,
           r_pool' = r_pool + c, r_pool' \in Nat
    PROVE  DataStep(c)
<1>1. recv_seq' \in recv_seq..send_seq
  BY DEF LinkInv, HeadFollowsReceiver, ReceiverInv, ReceiverTypeOK, SenderInv,
         SenderTypeOK
<1>2. /\ recv_queue' \in Seq(Msgs) /\ Len(recv_queue') < RecvQueueSlots
      /\ accepted' \in Seq(Msgs)
      /\ reorder' \in [0..ReorderSlots-1 ->
                        [valid : BOOLEAN, seq : 0..SeqMod-1, msg : Nat]]
      /\ r_events' \in Seq({"CHAN_OPEN", "CHAN_CLOSE", "DATA"})
      /\ Len(r_events') < EventQueue
  BY DEF ReceiverInv, ReceiverTypeOK
<1>3. InOrder(accepted', recv_seq') /\ InOrder(recv_queue', recv_seq')
  BY SMTT(30) DEF ReceiverInv, AcceptedInOrder, QueueInOrder, InOrder
<1>4. recv_buffered' = Bytes(Range(recv_queue'))
  BY DEF ReceiverInv, ReceiverAccounts, Range
<1>5. recv_queue' # << >> => reading \/ r_events' # << >>
  BY DEF ReceiverInv, NeverStranded
<1>6. ReorderConsistent'
  BY DEF LinkInv, ReorderConsistent
<1>7. /\ Cardinality(ValidSlots') = Cardinality(ValidSlots)
      /\ Len(recv_queue') = Len(recv_queue)
  BY DEF ValidSlots
<1>8. Cardinality(ValidSlots) \in Nat
  BY FragsFinite DEF ReceiverInv, ValidSlots
<1>9. Len(recv_queue) \in Nat /\ r_pool \in Nat
  BY DEF ReceiverInv, ReceiverTypeOK
<1>10. r_pool' + Len(recv_queue') + Cardinality(ValidSlots')
         = r_pool + Len(recv_queue) + Cardinality(ValidSlots) + c
  BY <1>7, <1>8, <1>9
<1>11. Passes
  BY SMTT(30) DEF Passes
<1> QED
  BY <1>1, <1>2, <1>3, <1>4, <1>5, <1>6, <1>10, <1>11, SMTT(30) DEF DataStep

LEMMA FragmentStep ==
    ASSUME SenderInv, ReceiverInv, LinkInv,
           NEW p \in s2r, p.type = "DATA", TimelyData(p),
           FragTotal(p.msg) # 1, TakeFragment(p),
           UNCHANGED <<send_seq, reading>>
    PROVE  \E c \in Int : DataStep(c) /\ FragStep(c)
<1> DEFINE i == p.msg
           found == i \in DOMAIN frags
           usable == found \/ (Cardinality(DOMAIN frags) < FragSlots /\ r_pool > 0)
           have == (IF found THEN frags[i] ELSE {}) \cup {p.frag}
<1>1. i \in Msgs /\ p.frag \in 0..FragTotal(i)-1
  BY DataNumber, SMTT(30)
<1>2. /\ DOMAIN frags \subseteq Msgs
      /\ \A j \in DOMAIN frags : frags[j] \subseteq 0..FragTotal(j)-1
      /\ Cardinality(DOMAIN frags) <= FragSlots
  BY SMTT(30) DEF ReceiverInv, ReceiverTypeOK
<1>3. IsFiniteSet(DOMAIN frags) /\ Cardinality(DOMAIN frags) \in Nat
  BY FragsFinite, ZenonT(30) DEF ReceiverInv
<1>4. r_pool \in Nat /\ FragSlots \in Nat
  BY ConstantsAssumption, SMTT(30) DEF ReceiverInv, ReceiverTypeOK
<1>5. have \subseteq 0..FragTotal(i)-1
  BY <1>1, <1>2
<1>6. CASE ~usable \/ (found /\ p.frag \in frags[i])
  <2>1. UNCHANGED <<dataVars, r_events>>
    BY <1>6 DEF TakeFragment
  <2>2. r_pool' = r_pool + 0 /\ r_pool' \in Nat
    BY <1>4, <2>1 DEF dataVars
  <2>3. DataStep(0)
    BY <2>1, <2>2, StillStep, SMTT(30) DEF dataVars
  <2>4. FragStep(0)
    BY <1>2, <1>3, <2>1 DEF FragStep, dataVars
  <2> QED
    BY <2>3, <2>4, SMTT(30)
<1>7. CASE /\ usable /\ ~(found /\ p.frag \in frags[i])
           /\ Cardinality(have) < FragTotal(i)
  <2>1. /\ frags' = With(frags, i, have)
        /\ r_pool' = IF found THEN r_pool ELSE r_pool - 1
        /\ UNCHANGED <<recv_seq, recv_buffered, recv_queue, reorder, accepted,
                       r_events>>
    BY <1>7, SMTT(30) DEF TakeFragment
  <2>still. UNCHANGED <<send_seq, reading, recv_seq, recv_queue, accepted,
                        recv_buffered, reorder, r_events>>
    BY <2>1, Zenon
  <2>2. /\ DOMAIN frags' = DOMAIN frags \cup {i}
        /\ \A j \in DOMAIN frags' : frags'[j] = IF j = i THEN have ELSE frags[j]
    BY <2>1, SMTT(30) DEF With
  <2>3. /\ DOMAIN frags' \subseteq Msgs
        /\ \A j \in DOMAIN frags' : frags'[j] \subseteq 0..FragTotal(j)-1
    BY <1>1, <1>2, <1>5, <2>2
  <2>4. CASE found
    <3>1. DOMAIN frags' = DOMAIN frags
      BY <2>2, <2>4, SMTT(30)
    <3>2. FragStep(0)
      BY <1>2, <1>3, <2>3, <3>1, SMTT(30) DEF FragStep
    <3>3. r_pool' = r_pool
      BY <2>1, <2>4, Zenon
    <3>4. r_pool' = r_pool + 0 /\ r_pool' \in Nat
      BY <1>4, <3>3
    <3>5. DataStep(0)
      <4>1. 0 \in Int
        OBVIOUS
      <4> QED
        BY <2>still, <3>4, <4>1, StillStep, Zenon
    <3> QED
      BY <3>2, <3>5, SMTT(30)
  <2>5. CASE ~found
    <3>1. Cardinality(DOMAIN frags) < FragSlots /\ r_pool > 0
      BY <1>7, <2>5
    <3>2. Cardinality(DOMAIN frags \cup {i}) = Cardinality(DOMAIN frags) + 1
      BY <1>3, <2>5, FS_AddElement, ZenonT(30)
    <3>3. Cardinality(DOMAIN frags') = Cardinality(DOMAIN frags) + 1
      BY <2>2, <3>2
    <3>4. /\ Cardinality(DOMAIN frags') <= FragSlots
          /\ Cardinality(DOMAIN frags') + (-1) = Cardinality(DOMAIN frags)
      BY <1>3, <1>4, <3>1, <3>3
    <3>5. FragStep(-1)
      BY <2>3, <3>4, SMTT(30) DEF FragStep
    <3>6. r_pool' = r_pool + (-1) /\ r_pool' \in Nat
      BY <1>4, <2>1, <2>5, <3>1, SMTT(30)
    <3>7. DataStep(-1)
      <4>1. -1 \in Int
        OBVIOUS
      <4> QED
        BY <2>still, <3>6, <4>1, StillStep, Zenon
    <3> QED
      BY <3>5, <3>7, SMTT(30)
  <2> QED
    BY <2>4, <2>5, SMTT(30)
<1>8. CASE /\ usable /\ ~(found /\ p.frag \in frags[i])
           /\ ~(Cardinality(have) < FragTotal(i))
  <2>1. frags' = Without(frags, i) /\ TakeMessage(p, 1)
    BY <1>8, ZenonT(30) DEF TakeFragment
  <2>2. found
    <3> SUFFICES ASSUME ~found PROVE FALSE
      OBVIOUS
    <3>1. have = {p.frag}
      OBVIOUS
    <3>2. Cardinality(have) = 1
      BY <3>1, FS_Singleton, ZenonT(30)
    <3>3. FragTotal(i) \in Nat \ {0} /\ FragTotal(i) # 1
      BY <1>1, FragTotalPositive
    <3> QED
      BY <1>8, <3>2, <3>3
  <2>3. /\ DOMAIN frags' = DOMAIN frags \ {i}
        /\ \A j \in DOMAIN frags' : frags'[j] = frags[j]
    BY <2>1 DEF Without
  <2>4. Cardinality(DOMAIN frags \ {i}) = Cardinality(DOMAIN frags) - 1
    BY <1>3, <2>2, FS_RemoveElement, ZenonT(30)
  <2>5. /\ Cardinality(DOMAIN frags') <= FragSlots
        /\ Cardinality(DOMAIN frags') + 1 = Cardinality(DOMAIN frags)
    BY <1>2, <1>3, <1>4, <2>3, <2>4
  <2>6. FragStep(1)
    BY <1>2, <2>3, <2>5 DEF FragStep
  <2>7. DataStep(1)
    BY <2>1, TakeStep
  <2> QED
    BY <2>6, <2>7, SMTT(30)
<1> QED
  BY <1>6, <1>7, <1>8

\* What process_data does to the receiver, whichever branch it takes.
LEMMA DataEffect ==
    ASSUME SenderInv, ReceiverInv, LinkInv,
           NEW p \in s2r, p.type = "DATA", ReceiveData(p)
    PROVE  \E c \in Int : DataStep(c) /\ FragStep(c)
<1>1. TimelyData(p) /\ UNCHANGED <<send_seq, reading>>
  BY SMTT(30) DEF ReceiveData, senderVars
<1>2. /\ DOMAIN frags \subseteq Msgs
      /\ \A j \in DOMAIN frags : frags[j] \subseteq 0..FragTotal(j)-1
      /\ Cardinality(DOMAIN frags) <= FragSlots
      /\ Cardinality(DOMAIN frags) \in Nat
  BY FragsFinite, SMTT(30) DEF ReceiverInv, ReceiverTypeOK
<1>3. frags' = frags => FragStep(0)
  BY <1>2 DEF FragStep
<1>4. CASE r_state = 0
  <2>1. UNCHANGED <<dataVars, r_events>>
    BY <1>4 DEF ReceiveData
  <2>2. r_pool' = r_pool + 0 /\ r_pool' \in Nat
    BY <2>1, ConstantsAssumption DEF dataVars, ReceiverInv, ReceiverTypeOK
  <2>3. DataStep(0)
    BY <1>1, <2>1, <2>2, StillStep DEF dataVars
  <2> QED
    BY <1>3, <2>1, <2>3 DEF dataVars
<1>5. CASE r_state # 0 /\ FragTotal(p.msg) = 1
  <2>1. TakeMessage(p, 0) /\ frags' = frags
    BY <1>5 DEF ReceiveData
  <2> QED
    BY <1>1, <1>3, <2>1, TakeStep, SMTT(30)
<1>6. CASE r_state # 0 /\ FragTotal(p.msg) # 1
  <2>1. TakeFragment(p)
    BY <1>6 DEF ReceiveData
  <2> QED
    BY <1>1, <1>6, <2>1, FragmentStep
<1> QED
  BY <1>4, <1>5, <1>6

LEMMA ReceiveDataIInv ==
    ASSUME SenderInv, ReceiverInv, LinkInv,
           NEW p \in s2r, p.type = "DATA", ReceiveData(p)
    PROVE  SenderInv' /\ ReceiverInv' /\ LinkInv'
<1>1. PICK c \in Int : DataStep(c) /\ FragStep(c)
  BY DataEffect
<1>2. /\ s2r' \in Deliver(s2r, p)
      /\ UNCHANGED <<senderVars, r_state, r_ctrl, reading, r2s, need_window_update>>
      /\ need_ack' \in {need_ack, TRUE}
  BY Zenon DEF ReceiveData, ackVars
<1>3. recv_seq' \in recv_seq..send_seq /\ recv_seq \in Nat /\ send_seq \in Nat
      /\ send_seq <= MaxMsgs /\ MaxMsgs \in Nat
  <2>1. recv_seq' \in recv_seq..send_seq
    BY <1>1 DEF DataStep
  <2> QED
    BY <2>1, ConstantsAssumption DEF ReceiverInv, ReceiverTypeOK, SenderInv, SenderTypeOK
<1>4. PICK r : r = recv_seq'
  OBVIOUS
<1>5. r \in Nat /\ recv_seq <= r /\ r <= send_seq /\ r \in 0..MaxMsgs
  BY <1>3, <1>4
<1>6. ack_seq' = AckSeq(Wire(recv_seq'))
  <2>1. CASE r_state = 0
    BY <2>1 DEF ReceiveData, dataVars, ackVars, LinkInv, AckInFlight
  <2>2. CASE r_state # 0
    BY <2>2 DEF ReceiveData
  <2> QED
    BY <2>1, <2>2, SMTT(30)
<1>7. ack_seq' \in 0..SeqMod-1
  <2>1. Wire(r) \in 0..SeqMod-1
    BY <1>5, WireDivision
  <2>2. SeqMod \in Nat
    BY ConstantsAssumption
  <2>3. AckSeq(Wire(r)) \in 0..SeqMod-1
    BY <2>1, <2>2 DEF AckSeq
  <2> QED
    BY <1>4, <1>6, <2>3
<1>8. SenderInv'
  BY <1>2, SenderFrame, SMTT(30)
<1>9. ReceiverAccounts' /\ r_pool' \in 0..PoolBufs /\ recv_buffered' \in Nat
  <2>1. recv_buffered' = Bytes(Range(recv_queue')) /\ recv_queue' \in Seq(Msgs)
    BY <1>1 DEF DataStep
  <2>2. PICK q \in Seq(Msgs) : q = recv_queue'
    BY <2>1
  <2>3. Range(q) \in SUBSET Msgs
    BY <2>2 DEF Range
  <2>4. Bytes(Range(q)) \in Nat
    BY <2>3, BytesType, ZenonT(30)
  <2>5. recv_buffered' \in Nat
    BY <2>1, <2>2, <2>4
  <2>6. /\ r_pool' \in Nat
        /\ r_pool' + Len(recv_queue') + Cardinality(ValidSlots')
             = r_pool + Len(recv_queue) + Cardinality(ValidSlots) + c
    BY <1>1 DEF DataStep
  <2>7. Cardinality(DOMAIN frags') + c = Cardinality(DOMAIN frags)
        /\ DOMAIN frags' \subseteq Msgs
    BY <1>1 DEF FragStep
  <2>8. r_pool + Len(recv_queue) + Cardinality(DOMAIN frags)
          + Cardinality(ValidSlots) = PoolBufs
    BY SMTT(30) DEF ReceiverInv, ReceiverAccounts, ValidSlots
  <2>9. /\ Cardinality(DOMAIN frags) \in Nat /\ Cardinality(ValidSlots) \in Nat
        /\ r_pool \in Nat /\ Len(recv_queue) \in Nat /\ PoolBufs \in Nat
    BY FragsFinite, ConstantsAssumption DEF ReceiverInv, ReceiverTypeOK, ValidSlots
  <2>10. PICK f : f = Cardinality(DOMAIN frags')
    OBVIOUS
  <2>11. f \in Nat
    <3>1. PICK D \in SUBSET Msgs : D = DOMAIN frags'
      BY <2>7
    <3>2. IsFiniteSet(D)
      BY <3>1, BytesType, Zenon
    <3> QED
      BY <2>10, <3>1, <3>2, FS_CardinalityType
  <2>12. PICK v : v = Cardinality(ValidSlots')
    OBVIOUS
  <2>13. v \in Nat
    <3>1. ValidSlots' \subseteq 0..ReorderSlots-1
      BY <1>1 DEF DataStep, ValidSlots
    <3>2. PICK V : V = ValidSlots'
      OBVIOUS
    <3>3. IsFiniteSet(0..ReorderSlots-1)
      BY FS_Interval, ConstantsAssumption
    <3>4. V \subseteq 0..ReorderSlots-1
      BY <3>1, <3>2
    <3>5. IsFiniteSet(V)
      BY <3>3, <3>4, FS_Subset, Zenon
    <3>6. v = Cardinality(V)
      BY <2>12, <3>2
    <3> QED
      BY <3>5, <3>6, FS_CardinalityType
  <2>14. PICK b : b = r_pool'
    OBVIOUS
  <2>15. PICK l : l = Len(recv_queue')
    BY ZenonT(30)
  <2>16. l \in Nat
    BY <2>2, <2>15
  <2>17. /\ b \in Nat /\ f + c = Cardinality(DOMAIN frags)
         /\ b + l + v = r_pool + Len(recv_queue) + Cardinality(ValidSlots) + c
    BY <2>6, <2>7, <2>10, <2>12, <2>14, <2>15
  <2>18. b + l + f + v = PoolBufs /\ b \in 0..PoolBufs
    BY <2>8, <2>9, <2>11, <2>13, <2>16, <2>17, SMTT(30)
  <2>19. r_pool' + Len(recv_queue') + Cardinality(DOMAIN frags')
           + Cardinality(ValidSlots') = PoolBufs
    BY <2>10, <2>12, <2>14, <2>15, <2>18, SMTT(30)
  <2> QED
    BY <2>1, <2>5, <2>14, <2>18, <2>19, SMTT(30) DEF ReceiverAccounts, ValidSlots, Range
<1>10. ReceiverTypeOK'
  <2>1. r_state' \in 0..3 /\ r_ctrl' \in SUBSET {"WINDOW", "CLOSE"}
    BY <1>2, ZenonT(30) DEF ReceiverInv, ReceiverTypeOK
  <2>3. recv_seq' \in 0..MaxMsgs
    BY <1>4, <1>5, Zenon
  <2>2. need_ack' \in BOOLEAN /\ need_window_update' \in BOOLEAN /\ reading' \in BOOLEAN
    BY <1>2, ZenonT(30) DEF ReceiverInv, ReceiverTypeOK
  <2> QED
    BY <1>1, <1>7, <1>9, <2>1, <2>2, <2>3, ZenonT(30) DEF ReceiverTypeOK, DataStep, FragStep
<1>11. AcceptedInOrder' /\ QueueInOrder'
  BY <1>1 DEF DataStep, InOrder, AcceptedInOrder, QueueInOrder
<1>12. NeverStranded'
  BY <1>1, <1>2 DEF DataStep, NeverStranded
<1>13. LinkInv'
  <2>1. s2r' \subseteq s2r
    BY <1>2, DeliverShrinks
  <2>2. "OPEN" \notin s_ctrl
    BY DEF LinkInv, Unopened
  <2>3. Unopened'
    BY <1>2, <2>2 DEF LinkInv, Unopened, senderVars
  <2>4. NetTypeOK' /\ DataInFlight'
    BY <1>2, <2>1 DEF LinkInv, NetTypeOK, DataInFlight, senderVars
  <2>5. ReorderConsistent'
    BY <1>1 DEF DataStep
  <2>6. HeadFollowsReceiver'
    <3>1. out_head \in Nat /\ out_head <= send_seq
      BY DEF SenderInv, SenderTypeOK
    <3>2. CASE r = recv_seq
      BY <1>2, <1>4, <1>5, <3>2, SMTT(30) DEF LinkInv, HeadFollowsReceiver, senderVars
    <3>3. CASE r > recv_seq
      <4>1. out_head <= recv_seq + 1
        BY <1>3, <3>1 DEF LinkInv, HeadFollowsReceiver
      <4>2. out_head <= r
        BY <1>3, <1>5, <3>1, <3>3, <4>1, SMTT(30)
      <4> QED
        BY <1>2, <1>4, <1>5, <4>2 DEF HeadFollowsReceiver, senderVars
    <3> QED
      BY <1>3, <1>5, <3>2, <3>3
  <2>7. AckInFlight'
    <3>1. \A q \in r2s : q.upto \in Nat
      BY ConstantsAssumption DEF LinkInv, NetTypeOK, AckPacket
    <3>2. \A q \in r2s : q.upto <= recv_seq /\ (q.ack # None => q.ack = AckSeq(Wire(q.upto)))
      BY DEF LinkInv, AckInFlight
    <3>3. \A q \in r2s : q.upto <= r
      BY <1>3, <1>5, <3>1, <3>2
    <3> QED
      BY <1>2, <1>4, <1>6, <3>2, <3>3, SMTT(30) DEF AckInFlight
  <2> QED
    BY <2>3, <2>4, <2>5, <2>6, <2>7, SMTT(30) DEF LinkInv
<1> QED
  BY <1>8, <1>9, <1>10, <1>11, <1>12, <1>13, SMTT(30) DEF ReceiverInv

-----------------------------------------------------------------------------
(* The inductive invariant and what follows from it. *)

LEMMA NextIInv == IInv /\ [Next]_vars => IInv'
<1> SUFFICES ASSUME SenderInv, ReceiverInv, LinkInv, [Next]_vars
             PROVE  SenderInv' /\ ReceiverInv' /\ LinkInv'
  <2>1. IInv <=> SenderInv /\ ReceiverInv /\ LinkInv
    BY IInvSplit
  <2>2. IInv' <=> SenderInv' /\ ReceiverInv' /\ LinkInv'
    BY IInvSplit, PTL
  <2> QED
    BY <2>1, <2>2
<1>1. CASE ChanWrite
  BY <1>1, ChanWriteIInv
<1>2. CASE ChanCloseSender
  BY <1>2, ChanCloseSenderIInv, SMTT(30)
<1>3. CASE SendCtrl
  BY <1>3, SendCtrlIInv
<1>4. CASE SendData
  BY <1>4, SendDataIInv
<1>5. CASE Retransmit
  BY <1>5, RetransmitIInv
<1>6. CASE SenderFeed
  BY <1>6, SenderFeedIInv DEF SenderFeed
<1>7. CASE PollSender
  BY <1>7, PollSenderIInv
<1>8. CASE ReceiverFeed
  BY <1>8, ReceiveCtrlIInv, ReceiveDataIInv, SMTT(30) DEF ReceiverFeed
<1>9. CASE SendReceiver
  BY <1>9, SendReceiverIInv
<1>10. CASE ChanCloseReceiver
  BY <1>10, ChanCloseReceiverIInv
<1>11. CASE PollReceiver
  BY <1>11, PollReceiverIInv
<1>12. CASE ChanRead
  BY <1>12, ChanReadIInv
<1>13. CASE UNCHANGED vars
  <2>1. UNCHANGED senderVars /\ UNCHANGED receiverVars /\ UNCHANGED <<s2r, r2s>>
    BY <1>13 DEF vars
  <2>2. SenderInv' /\ ReceiverInv'
    BY <2>1, SenderFrame, ReceiverUntouched
  <2>3. UNCHANGED <<send_seq, out_head, recv_seq, reorder, ack_seq>>
    BY <2>1 DEF senderVars, receiverVars, dataVars, ackVars
  <2>4. Unopened'
    BY <2>1 DEF LinkInv, Unopened, senderVars, receiverVars, ackVars
  <2>5. LinkInv'
    BY <2>1, <2>3, <2>4, CountersFrame DEF LinkInv
  <2> QED
    BY <2>2, <2>5
<1> QED
  BY <1>1, <1>2, <1>3, <1>4, <1>5, <1>6, <1>7, <1>8, <1>9, <1>10, <1>11, <1>12, SMTT(30),
     <1>13 DEF Next

\* The inductive invariant holds in every reachable state, for every number of
\* messages, ring, pool and window size of netchan.c and every network: it ties
\* the sender's ring, the datagrams in flight and the receiver's counters.
THEOREM Inductive == Spec => []IInv
  BY InitIInv, NextIInv, PTL DEF Spec

\* Every field of the channel and both pools keep their ranges: no ring of
\* netchan.c is over-full and no unsigned counter wraps below zero.
THEOREM TypeCorrect == Spec => []TypeOK
<1>1. IInv => TypeOK
  BY DEF IInv
<1> QED
  BY <1>1, Inductive, PTL

\* pool_alloc and pool_free balance on every path: no buffer is leaked or
\* returned twice.
THEOREM PoolsConserved == Spec => []PoolConserved
<1>1. IInv => PoolConserved
  BY DEF IInv
<1> QED
  BY <1>1, Inductive, PTL

\* bytes_in_flight and recv_buffered always equal the bytes they count.
THEOREM AccountsExact == Spec => []AccountingExact
<1>1. IInv => AccountingExact
  BY DEF IInv
<1> QED
  BY <1>1, Inductive, PTL

\* process_ack never leaves a hole in the sender's ring.
THEOREM RingHasNoHoles == Spec => []NoHoles
<1>1. IInv => NoHoles
  BY DEF IInv
<1> QED
  BY <1>1, Inductive, PTL

\* In-order, at-most-once delivery over a network that loses, reorders and
\* duplicates datagrams, with sequence numbers of any size that wrap.
THEOREM DeliveredInOrder == Spec => []AcceptedInOrder
<1>1. IInv => AcceptedInOrder
  BY DEF IInv
<1> QED
  BY <1>1, Inductive, PTL

\* A message that process_ack drops from the sender's ring was passed by the
\* receiver, except the one the ACK of a zero counter names.
THEOREM FreedReceived == Spec => []FreedWasReceived
<1>1. IInv => FreedWasReceived
  <2> SUFFICES ASSUME IInv, NEW i \in 0..send_seq-1, i \notin Active
               PROVE  i < recv_seq \/ (i = recv_seq /\ Wire(i) = 0)
    BY DEF FreedWasReceived
  <2>1. /\ send_seq \in Nat /\ out_head \in Nat /\ recv_seq \in Nat
    BY ConstantsAssumption DEF IInv, TypeOK, SenderTypeOK, ReceiverTypeOK
  <2>2. i < out_head
    BY <2>1 DEF IInv, NoHoles
  <2>3. out_head <= recv_seq \/ (out_head = recv_seq + 1 /\ Wire(recv_seq) = 0)
    BY DEF IInv, HeadFollowsReceiver
  <2>4. i < recv_seq \/ (i = recv_seq /\ Wire(recv_seq) = 0)
    BY <2>1, <2>2, <2>3, SMTT(30)
  <2> QED
    BY <2>4
<1> QED
  BY <1>1, Inductive, PTL

\* Every message held by the reorder buffer is one still expected, in the slot
\* of its number: two messages of the window never compete for a slot.
THEOREM HeldConsistent == Spec => []ReorderConsistent
<1>1. IInv => ReorderConsistent
  BY DEF IInv
<1> QED
  BY <1>1, Inductive, PTL

\* An unread message is never stranded, although ev_push drops events when its
\* ring is full.
THEOREM NoMessageStranded == Spec => []NeverStranded
<1>1. IInv => NeverStranded
  BY DEF IInv
<1> QED
  BY <1>1, Inductive, PTL

-----------------------------------------------------------------------------
(* The refinement of NcFifo. *)

LEMMA PassesIsPass ==
    ASSUME recv_seq \in Nat, accepted \in Seq(Msgs), recv_seq' \in recv_seq..send_seq,
           send_seq \in Nat, send_seq' = send_seq, Passes
    PROVE  [Fifo!FifoNext]_Fifo!fifoVars
<1>1. CASE UNCHANGED <<recv_seq, accepted>>
  BY <1>1 DEF Fifo!fifoVars
<1>2. CASE /\ recv_seq' > recv_seq
           /\ \E new \in Seq(Msgs) :
                /\ accepted' = accepted \o new
                /\ InOrder(new, recv_seq')
                /\ \A k \in DOMAIN new : new[k] >= recv_seq
  <2>1. PICK new \in Seq(Msgs) :
          /\ accepted' = accepted \o new
          /\ InOrder(new, recv_seq')
          /\ \A k \in DOMAIN new : new[k] >= recv_seq
    BY <1>2
  <2>2. PICK n : n = recv_seq'
    OBVIOUS
  <2>3. n \in recv_seq+1..send_seq /\ n \in Int
    BY <1>2, <2>2
  <2> DEFINE old == Len(accepted)
             all == accepted \o new
  <2>4. /\ old \in Nat /\ Len(new) \in Nat /\ Len(all) = old + Len(new)
        /\ DOMAIN new = 1..Len(new) /\ DOMAIN all = 1..Len(all)
        /\ \A k \in 1..old : all[k] = accepted[k]
        /\ \A k \in 1..Len(new) : all[old + k] = new[k]
        /\ all \in Seq(Msgs)
    OBVIOUS
  <2>5. \A k \in 1..Len(new) : new[k] \in Int
    <3>1. \A k \in 1..Len(new) : new[k] \in Msgs
      OBVIOUS
    <3> QED
      BY <3>1, ConstantsAssumption DEF Msgs
  <2>6. /\ \A k \in 1..Len(new) : new[k] \in recv_seq..n-1
        /\ \A j, k \in 1..Len(new) : j < k => new[j] < new[k]
    <3>1. /\ \A j, k \in 1..Len(new) : j < k => new[j] < new[k]
          /\ \A k \in 1..Len(new) : new[k] < n /\ new[k] >= recv_seq
      BY <2>1, <2>2, <2>4, Zenon DEF InOrder
    <3> QED
      BY <2>3, <2>5, <3>1
  <2> HIDE DEF old, all
  <2>7. \A k \in old+1..Len(all) : all[k] \in recv_seq..n-1
    <3> SUFFICES ASSUME NEW k \in old+1..Len(all) PROVE all[k] \in recv_seq..n-1
      OBVIOUS
    <3>1. k - old \in 1..Len(new) /\ old + (k - old) = k
      BY <2>4
    <3>2. all[k] = new[k - old]
      BY <2>4, <3>1
    <3> QED
      BY <2>6, <3>1, <3>2
  <2>8. \A k \in old+1..Len(all) : k > old + 1 => all[k-1] < all[k]
    <3> SUFFICES ASSUME NEW k \in old+1..Len(all), k > old + 1
                 PROVE  all[k-1] < all[k]
      OBVIOUS
    <3>1. /\ k - old \in 1..Len(new) /\ old + (k - old) = k
          /\ k - 1 - old \in 1..Len(new) /\ old + (k - 1 - old) = k - 1
          /\ k - 1 - old < k - old
      BY <2>4
    <3>2. all[k] = new[k - old] /\ all[k-1] = new[k - 1 - old]
      BY <2>4, <3>1
    <3>3. new[k - 1 - old] < new[k - old]
      BY <2>6, <3>1
    <3> QED
      BY <3>2, <3>3
  <2>9. SubSeq(all, 1, old) = accepted
    BY DEF all, old
  <2>10. Len(all) >= old
    BY <2>4
  <2>11. Fifo!Pass(n)
    <3>1. accepted' = all
      BY <2>1 DEF all
    <3>2. UNCHANGED send_seq
      OBVIOUS
    <3> QED
      BY <2>2, <2>7, <2>8, <2>9, <2>10, <3>1, <3>2, SMTT(30) DEF Fifo!Pass, old
  <2> QED
    BY <2>3, <2>11 DEF Fifo!FifoNext
<1> QED
  BY <1>1, <1>2, Zenon DEF Passes

\* Any step that leaves the three mapped variables alone is a stutter.
LEMMA FifoStutter ==
    ASSUME UNCHANGED <<send_seq, recv_seq, accepted>>
    PROVE  [Fifo!FifoNext]_Fifo!fifoVars
  BY DEF Fifo!fifoVars

\* The reliable channel of netchan.c implements the ordered, at-most-once
\* channel of NcFifo: a write appends a message, a DATA frame passes a run of
\* written ones, and nothing else is visible.
THEOREM Refinement == Spec => ImplementsFifo
<1>1. Init => Fifo!FifoInit
  BY DEF Init, Fifo!FifoInit
<1>2. IInv /\ [Next]_vars => [Fifo!FifoNext]_Fifo!fifoVars
  <2> SUFFICES ASSUME SenderInv, ReceiverInv, LinkInv, [Next]_vars
               PROVE  [Fifo!FifoNext]_Fifo!fifoVars
    BY IInvSplit
  <2>1. CASE ChanWrite
    <3>1. /\ UNCHANGED <<recv_seq, accepted>>
          /\ send_seq' = send_seq + 1
      BY <2>1 DEF ChanWrite, receiverVars, dataVars
    <3> QED
      BY <3>1 DEF Fifo!FifoNext, Fifo!Write
  <2>2. CASE ChanCloseSender
    BY <2>2, FifoStutter DEF ChanCloseSender, receiverVars, dataVars
  <2>3. CASE SendCtrl
    BY <2>3, FifoStutter DEF SendCtrl, receiverVars, dataVars
  <2>4. CASE SendData
    BY <2>4, FifoStutter DEF SendData, receiverVars, dataVars
  <2>5. CASE Retransmit
    BY <2>5, FifoStutter DEF Retransmit, receiverVars, dataVars
  <2>6. CASE SenderFeed
    BY <2>6, FifoStutter DEF SenderFeed, ReceiveAtSender, receiverVars, dataVars
  <2>7. CASE PollSender
    BY <2>7, FifoStutter DEF PollSender, receiverVars, dataVars
  <2>8. CASE ReceiverFeed
    <3>1. PICK p \in s2r : \/ p.type = "CTRL" /\ ReceiveCtrl(p)
                           \/ p.type = "DATA" /\ ReceiveData(p)
      BY <2>8 DEF ReceiverFeed
    <3>2. CASE p.type = "CTRL" /\ ReceiveCtrl(p)
      BY <3>2, FifoStutter DEF ReceiveCtrl, senderVars, dataVars
    <3>3. CASE p.type = "DATA" /\ ReceiveData(p)
      <4>1. PICK c \in Int : DataStep(c) /\ FragStep(c)
        BY <3>3, DataEffect
      <4>2. recv_seq' \in recv_seq..send_seq /\ Passes
        BY <4>1 DEF DataStep
      <4>3. send_seq' = send_seq
        BY <3>3 DEF ReceiveData, senderVars
      <4>4. recv_seq \in Nat /\ accepted \in Seq(Msgs) /\ send_seq \in Nat
        BY DEF ReceiverInv, ReceiverTypeOK, SenderInv, SenderTypeOK
      <4> QED
        BY <4>2, <4>3, <4>4, PassesIsPass, SMTT(30)
    <3> QED
      BY <3>1, <3>2, <3>3
  <2>9. CASE SendReceiver
    BY <2>9, FifoStutter DEF SendReceiver, senderVars, dataVars
  <2>10. CASE ChanCloseReceiver
    BY <2>10, FifoStutter DEF ChanCloseReceiver, senderVars, dataVars
  <2>11. CASE PollReceiver
    BY <2>11, FifoStutter DEF PollReceiver, senderVars, dataVars
  <2>12. CASE ChanRead
    BY <2>12, FifoStutter DEF ChanRead, senderVars
  <2>13. CASE UNCHANGED vars
    BY <2>13, FifoStutter DEF vars, senderVars, receiverVars, dataVars
  <2> QED
    BY <2>1, <2>2, <2>3, <2>4, <2>5, <2>6, <2>7, <2>8, <2>9, <2>10, <2>11, <2>12, SMTT(30),
       <2>13 DEF Next
<1> QED
  BY <1>1, <1>2, Inductive, PTL DEF Spec, ImplementsFifo, Fifo!FifoSpec
============================================================================
