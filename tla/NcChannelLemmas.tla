-------------------------- MODULE NcChannelLemmas --------------------------
(***************************************************************************)
(* Facts about the operators of NcChannel, the shape of its inductive      *)
(* invariant and what delivering a run of messages does to it, on which    *)
(* the proofs about the actions rest.                                      *)
(***************************************************************************)
EXTENDS NcChannel, TLAPS, FiniteSetTheorems, SequenceTheorems

-----------------------------------------------------------------------------
(* Sequence arithmetic. *)

\* Division with remainder by the modulus of the sequence fields.
LEMMA WireDivision ==
    ASSUME NEW x \in Int
    PROVE  /\ Wire(x) \in 0..SeqMod-1
           /\ x \div SeqMod \in Int
           /\ x = SeqMod * (x \div SeqMod) + Wire(x)
  BY ConstantsAssumption DEF Wire

\* Multiples of k are k apart.
LEMMA MultiplesApart ==
    ASSUME NEW a \in Int, NEW b \in Int, NEW k \in Nat, k > 1, a > b
    PROVE  k * a >= k * b + k
  OBVIOUS

\* Numbers that differ by a multiple of the modulus, and by less than it, are
\* equal.
LEMMA CongruentEqual ==
    ASSUME NEW x \in Int, NEW y \in Int, NEW k \in Int,
           x = y + SeqMod * k, x - y < SeqMod, y - x < SeqMod
    PROVE  x = y
<1>1. k <= 0
  BY MultiplesApart, ConstantsAssumption
<1>2. k >= 0
  BY MultiplesApart, ConstantsAssumption
<1> QED
  BY <1>1, <1>2, ConstantsAssumption

\* Within one cycle of the sequence fields a wire number names one message:
\* the test seq == recv_seq of process_data is exact.
LEMMA WireInjective ==
    ASSUME NEW x \in Int, NEW y \in Int, Wire(x) = Wire(y),
           x - y < SeqMod, y - x < SeqMod
    PROVE  x = y
<1> DEFINE a == x \div SeqMod  b == y \div SeqMod
<1>1. /\ a \in Int /\ b \in Int /\ Wire(x) \in Int
      /\ x = SeqMod * a + Wire(x) /\ y = SeqMod * b + Wire(x)
  BY WireDivision
<1> HIDE DEF a, b
<1>2. x = y + SeqMod * (a - b)
  BY <1>1, ConstantsAssumption
<1> QED
  BY <1>1, <1>2, CongruentEqual

\* Within half a cycle the cast to int16_t gives the true distance.
LEMMA SeqDiffExact ==
    ASSUME NEW x \in Int, NEW y \in Int,
           2 * (x - y) < SeqMod, -SeqMod <= 2 * (x - y)
    PROVE  SeqDiff(Wire(x), Wire(y)) = x - y
<1> DEFINE a == x \div SeqMod  b == y \div SeqMod
           w == Wire(x) - Wire(y)  c == w \div SeqMod  d == w % SeqMod
<1>1. /\ a \in Int /\ b \in Int /\ w \in Int
      /\ x = SeqMod * a + Wire(x) /\ y = SeqMod * b + Wire(y)
      /\ Wire(x) \in Int /\ Wire(y) \in Int
  BY WireDivision
<1>2. c \in Int /\ d \in 0..SeqMod-1 /\ w = SeqMod * c + d
  BY <1>1, WireDivision DEF Wire
<1>3. SeqDiff(Wire(x), Wire(y)) = IF 2 * d >= SeqMod THEN d - SeqMod ELSE d
  BY DEF SeqDiff
<1>4. w = Wire(x) - Wire(y)
  OBVIOUS
<1> HIDE DEF a, b, w, c, d
<1>5. x - y = d + SeqMod * (a - b + c)
  BY <1>1, <1>2, <1>4, ConstantsAssumption
<1>6. ASSUME x >= y PROVE d = x - y
  <2>1. x - y - d < SeqMod /\ d - (x - y) < SeqMod
    BY <1>2, <1>6, ConstantsAssumption
  <2> QED
    BY <1>1, <1>2, <1>5, <2>1, CongruentEqual, ConstantsAssumption
<1>7. ASSUME x < y PROVE d - SeqMod = x - y
  <2>1. x - y = (d - SeqMod) + SeqMod * (a - b + c + 1)
    BY <1>1, <1>2, <1>5, ConstantsAssumption
  <2>2. /\ x - y - (d - SeqMod) < SeqMod
        /\ (d - SeqMod) - (x - y) < SeqMod
    BY <1>2, <1>7, ConstantsAssumption
  <2> QED
    BY <1>1, <1>2, <2>1, <2>2, CongruentEqual, ConstantsAssumption
<1> QED
  BY <1>2, <1>3, <1>6, <1>7, ConstantsAssumption

\* A message has at least one fragment.
LEMMA FragTotalPositive ==
    ASSUME NEW i \in Msgs
    PROVE  FragTotal(i) \in Nat \ {0}
<1>1. \A x \in Nat, k \in Nat \ {0} : x >= k => x \div k \in Nat \ {0}
  OBVIOUS
<1>2. /\ Size[i] + FragPayload - 1 \in Nat /\ FragPayload \in Nat \ {0}
      /\ Size[i] + FragPayload - 1 >= FragPayload
  BY ConstantsAssumption
<1> QED
  BY <1>1, <1>2 DEF FragTotal

LEMMA SlotType ==
    ASSUME NEW x \in Int
    PROVE  Slot(Wire(x)) \in 0..ReorderSlots-1
<1>1. Wire(x) \in Int /\ ReorderSlots \in Nat \ {0}
  BY WireDivision, ConstantsAssumption
<1> QED
  BY <1>1 DEF Slot

-----------------------------------------------------------------------------
(* Sizes of sets of messages. *)

\* A set of messages is finite and has a number of bytes.
LEMMA BytesType ==
    ASSUME NEW S \in SUBSET Msgs
    PROVE  /\ IsFiniteSet(S)
           /\ IsFiniteSet(UNION {{i} \X (1..Size[i]) : i \in S})
           /\ Bytes(S) \in Nat
<1> DEFINE T == {{i} \X (1..Size[i]) : i \in S}
           f == [i \in S |-> {i} \X (1..Size[i])]
<1>1. IsFiniteSet(S)
  <2>1. 0 \in Int /\ MaxMsgs - 1 \in Int
    BY ConstantsAssumption
  <2>2. IsFiniteSet(Msgs)
    BY <2>1, FS_Interval DEF Msgs
  <2> QED
    BY <2>2, FS_Subset
<1>2. f \in Surjection(S, T)
  BY Zenon DEF Surjection
<1>3. IsFiniteSet(T)
  BY <1>1, <1>2, FS_Surjection
<1>4. \A t \in T : IsFiniteSet(t)
  <2> SUFFICES ASSUME NEW i \in S PROVE IsFiniteSet({i} \X (1..Size[i]))
    OBVIOUS
  <2>1. Size[i] \in Nat
    BY ConstantsAssumption
  <2>2. IsFiniteSet({i})
    BY FS_Singleton
  <2>3. IsFiniteSet(1..Size[i])
    BY <2>1, FS_Interval
  <2> QED
    BY <2>2, <2>3, FS_Product, Zenon
<1>5. IsFiniteSet(UNION T)
  BY <1>3, <1>4, FS_UNION, Zenon
<1> QED
  BY <1>1, <1>5, FS_CardinalityType DEF Bytes

LEMMA BytesEmpty == Bytes({}) = 0
<1>1. UNION {{i} \X (1..Size[i]) : i \in {}} = {}
  OBVIOUS
<1> QED
  BY <1>1, FS_EmptySet DEF Bytes

LEMMA BytesSingleton ==
    ASSUME NEW i \in Msgs
    PROVE  Bytes({i}) = Size[i]
<1>1. UNION {{j} \X (1..Size[j]) : j \in {i}} = {i} \X (1..Size[i])
  OBVIOUS
<1>2. Size[i] \in Nat \ {0}
  BY ConstantsAssumption
<1>3. IsFiniteSet({i}) /\ Cardinality({i}) = 1
  BY FS_Singleton
<1>4. IsFiniteSet(1..Size[i]) /\ Cardinality(1..Size[i]) = Size[i]
  <2> DEFINE z == Size[i]
  <2> HIDE DEF z
  <2>1. z \in Nat \ {0} => IsFiniteSet(1..z) /\ Cardinality(1..z) = z
    BY FS_Interval
  <2> QED
    BY <1>2, <2>1 DEF z
<1>5. Cardinality({i} \X (1..Size[i])) = 1 * Size[i]
  <2> DEFINE A == {i}  B == 1..Size[i]
  <2>1. IsFiniteSet(A) /\ IsFiniteSet(B) /\ Cardinality(A) = 1
        /\ Cardinality(B) = Size[i]
    BY <1>3, <1>4
  <2> HIDE DEF A, B
  <2>2. Cardinality(A \X B) = Cardinality(A) * Cardinality(B)
    BY <2>1, FS_Product
  <2> QED
    BY <2>1, <2>2 DEF A, B
<1> QED
  BY <1>1, <1>2, <1>5, SMTT(30) DEF Bytes

LEMMA DisjointUnion ==
    ASSUME NEW S, NEW T, IsFiniteSet(S), IsFiniteSet(T), S \cap T = {}
    PROVE  /\ Cardinality(S \cup T) = Cardinality(S) + Cardinality(T)
           /\ Cardinality(S) \in Nat /\ Cardinality(T) \in Nat
<1>1. Cardinality(S) \in Nat /\ Cardinality(T) \in Nat
  BY FS_CardinalityType
<1>2. Cardinality(S \cap T) = 0
  BY FS_EmptySet
<1>3. Cardinality(S \cup T)
        = Cardinality(S) + Cardinality(T) - Cardinality(S \cap T)
  BY FS_Union
<1> QED
  BY <1>1, <1>2, <1>3

\* The bytes of two disjoint sets add up.
LEMMA BytesUnion ==
    ASSUME NEW S \in SUBSET Msgs, NEW T \in SUBSET Msgs, S \cap T = {}
    PROVE  Bytes(S \cup T) = Bytes(S) + Bytes(T)
<1> DEFINE U(R) == UNION {{i} \X (1..Size[i]) : i \in R}
<1>1. U(S \cup T) = U(S) \cup U(T)
  OBVIOUS
<1>2. U(S) \cap U(T) = {}
  <2> SUFFICES ASSUME NEW x \in U(S), x \in U(T) PROVE FALSE
    OBVIOUS
  <2>1. PICK i \in S : x \in {i} \X (1..Size[i])
    OBVIOUS
  <2>2. PICK j \in T : x \in {j} \X (1..Size[j])
    OBVIOUS
  <2> QED
    BY <2>1, <2>2
<1>3. IsFiniteSet(U(S)) /\ IsFiniteSet(U(T))
  BY BytesType
<1> HIDE DEF U
<1>4. Cardinality(U(S) \cup U(T)) = Cardinality(U(S)) + Cardinality(U(T))
  BY <1>2, <1>3, DisjointUnion
<1> QED
  BY <1>1, <1>4, Zenon DEF Bytes, U

-----------------------------------------------------------------------------
(* Queues of messages in order. *)

\* A sequence of messages in order, all below hi.
InOrder(q, hi) ==
    /\ \A j, k \in DOMAIN q : j < k => q[j] < q[k]
    /\ \A k \in DOMAIN q : q[k] < hi

LEMMA ConcatInOrder ==
    ASSUME NEW q \in Seq(Msgs), NEW w \in Seq(Msgs), NEW lo \in Int, NEW hi \in Int,
           lo <= hi, InOrder(q, lo), InOrder(w, hi),
           \A k \in DOMAIN w : w[k] >= lo
    PROVE  /\ q \o w \in Seq(Msgs) /\ Len(q \o w) = Len(q) + Len(w)
           /\ InOrder(q \o w, hi)
           /\ Range(q \o w) = Range(q) \cup Range(w)
           /\ Range(q) \cap Range(w) = {}
           /\ Range(q) \in SUBSET Msgs /\ Range(w) \in SUBSET Msgs
<1> DEFINE qw == q \o w
<1>1. /\ qw \in Seq(Msgs) /\ Len(qw) = Len(q) + Len(w)
      /\ \A i \in 1..Len(q) + Len(w) :
           qw[i] = IF i <= Len(q) THEN q[i] ELSE w[i - Len(q)]
  BY ConcatProperties
<1>2. /\ DOMAIN q = 1..Len(q) /\ DOMAIN w = 1..Len(w) /\ DOMAIN qw = 1..Len(qw)
      /\ Len(q) \in Nat /\ Len(w) \in Nat
  BY <1>1, LenProperties
<1>3. /\ \A i \in 1..Len(q) : q[i] \in Int
      /\ \A i \in 1..Len(w) : w[i] \in Int
  <2>1. \A i \in Msgs : i \in Int
    BY ConstantsAssumption DEF Msgs
  <2>2. /\ \A i \in 1..Len(q) : q[i] \in Msgs
        /\ \A i \in 1..Len(w) : w[i] \in Msgs
    BY ElementOfSeq
  <2> QED
    BY <2>1, <2>2
<1>4. Range(qw) = Range(q) \cup Range(w)
  BY RangeConcatenation
<1>5. Range(q) \in SUBSET Msgs /\ Range(w) \in SUBSET Msgs
  BY RangeOfSeq
<1>6. Range(q) \cap Range(w) = {}
  <2> SUFFICES ASSUME NEW j \in 1..Len(q), NEW k \in 1..Len(w), q[j] = w[k]
               PROVE  FALSE
    BY <1>2 DEF Range
  <2>1. q[j] < lo /\ w[k] >= lo /\ q[j] \in Int /\ w[k] \in Int
    BY <1>2, <1>3, SMTT(30) DEF InOrder
  <2> QED
    BY <2>1
<1> HIDE DEF qw
<1>7. \A k \in 1..Len(qw) : qw[k] < hi
  <2> SUFFICES ASSUME NEW k \in 1..Len(qw) PROVE qw[k] < hi
    OBVIOUS
  <2>1. CASE k <= Len(q)
    <3>1. k \in 1..Len(q) /\ qw[k] = q[k]
      BY <1>1, <1>2, <2>1
    <3> QED
      BY <1>2, <1>3, <3>1 DEF InOrder
  <2>2. CASE k > Len(q)
    <3>1. k - Len(q) \in 1..Len(w) /\ qw[k] = w[k - Len(q)]
      BY <1>1, <1>2, <2>2
    <3> QED
      BY <1>2, <3>1 DEF InOrder
  <2> QED
    BY <1>2, <2>1, <2>2
<1>8. \A j, k \in 1..Len(qw) : j < k => qw[j] < qw[k]
  <2> SUFFICES ASSUME NEW j \in 1..Len(qw), NEW k \in 1..Len(qw), j < k
               PROVE  qw[j] < qw[k]
    OBVIOUS
  <2>1. CASE k <= Len(q)
    <3>1. j \in 1..Len(q) /\ k \in 1..Len(q) /\ qw[j] = q[j] /\ qw[k] = q[k]
      BY <1>1, <1>2, <2>1
    <3> QED
      BY <1>2, <3>1 DEF InOrder
  <2>2. CASE j <= Len(q) /\ k > Len(q)
    <3>1. /\ j \in 1..Len(q) /\ qw[j] = q[j]
          /\ k - Len(q) \in 1..Len(w) /\ qw[k] = w[k - Len(q)]
      BY <1>1, <1>2, <2>2
    <3>2. /\ q[j] < lo /\ w[k - Len(q)] >= lo
          /\ q[j] \in Int /\ w[k - Len(q)] \in Int
      BY <1>2, <1>3, <3>1, Zenon DEF InOrder
    <3> QED
      BY <3>1, <3>2, SMTT(30)
  <2>3. CASE j > Len(q)
    <3>1. /\ j - Len(q) \in 1..Len(w) /\ qw[j] = w[j - Len(q)]
          /\ k - Len(q) \in 1..Len(w) /\ qw[k] = w[k - Len(q)]
          /\ j - Len(q) < k - Len(q)
      BY <1>1, <1>2, <2>3, SMTT(30)
    <3> QED
      BY <1>2, <3>1, SMTT(30) DEF InOrder
  <2> QED
    BY <1>2, <2>1, <2>2, <2>3
<1>9. InOrder(qw, hi)
  BY <1>2, <1>7, <1>8 DEF InOrder
<1> QED
  BY <1>1, <1>4, <1>5, <1>6, <1>9 DEF qw

-----------------------------------------------------------------------------
(* The inductive invariant, divided so that a step of one endpoint can be left
   alone at the other. *)

\* The two halves of PoolConserved and of AccountingExact.
SenderAccounts ==
    /\ s_pool + Cardinality(Active) = PoolBufs
    /\ bytes_in_flight = Bytes(Active)

ReceiverAccounts ==
    /\ r_pool + Len(recv_queue) + Cardinality(DOMAIN frags)
         + Cardinality({k \in DOMAIN reorder : reorder[k].valid}) = PoolBufs
    /\ recv_buffered = Bytes({recv_queue[k] : k \in DOMAIN recv_queue})

LEMMA AccountsSplit ==
    PoolConserved /\ AccountingExact <=> SenderAccounts /\ ReceiverAccounts
  BY DEF PoolConserved, AccountingExact, SenderAccounts, ReceiverAccounts

SenderInv == SenderTypeOK /\ NoHoles /\ SenderAccounts

ReceiverInv ==
    /\ ReceiverTypeOK /\ AcceptedInOrder /\ QueueInOrder /\ NeverStranded
    /\ ReceiverAccounts

\* The conjuncts that relate the endpoints and the network.
LinkInv ==
    /\ NetTypeOK /\ Unopened
    /\ DataInFlight /\ AckInFlight /\ HeadFollowsReceiver /\ ReorderConsistent

LEMMA IInvSplit == IInv <=> SenderInv /\ ReceiverInv /\ LinkInv
  BY AccountsSplit DEF IInv, TypeOK, SenderInv, ReceiverInv, LinkInv

LEMMA SenderFrame ==
    ASSUME SenderInv, UNCHANGED senderVars
    PROVE  SenderInv'
<1> USE DEF senderVars
<1>1. SenderTypeOK'
  BY DEF SenderInv, SenderTypeOK
<1>2. Active' = Active
  BY DEF Active
<1> QED
  BY <1>1, <1>2 DEF SenderInv, NoHoles, SenderAccounts

LEMMA ReceiverFrame ==
    ASSUME ReceiverInv, UNCHANGED <<dataVars, ackVars, r_state, r_ctrl>>,
           UNCHANGED <<r_events, reading>>
    PROVE  ReceiverInv'
<1> USE DEF ReceiverInv, dataVars, ackVars
<1>1. ReceiverTypeOK'
  BY DEF ReceiverTypeOK
<1>2. AcceptedInOrder' /\ QueueInOrder' /\ NeverStranded'
  BY SMTT(30) DEF AcceptedInOrder, QueueInOrder, NeverStranded
<1>3. ReceiverAccounts'
  BY DEF ReceiverAccounts
<1> QED
  BY <1>1, <1>2, <1>3, SMTT(30)

LEMMA ReceiverUntouched ==
    ASSUME ReceiverInv, UNCHANGED receiverVars
    PROVE  ReceiverInv'
<1>1. UNCHANGED <<dataVars, ackVars, r_state, r_ctrl>>
      /\ UNCHANGED <<r_events, reading>>
  BY DEF receiverVars
<1> QED
  BY <1>1, ReceiverFrame

\* Steps that move no counter and touch no reorder slot.
LEMMA CountersFrame ==
    ASSUME LinkInv, UNCHANGED <<send_seq, out_head, recv_seq, reorder, ack_seq>>
    PROVE  /\ HeadFollowsReceiver' /\ ReorderConsistent'
           /\ s2r' \subseteq s2r => DataInFlight'
           /\ r2s' \subseteq r2s => AckInFlight'
           /\ s2r' \subseteq s2r /\ r2s' \subseteq r2s => NetTypeOK'
  BY DEF LinkInv, HeadFollowsReceiver, ReorderConsistent, DataInFlight,
         AckInFlight, NetTypeOK

\* A delivered or lost datagram leaves the network no larger.
LEMMA DeliverShrinks ==
    ASSUME NEW net, NEW p, NEW net2 \in Deliver(net, p)
    PROVE  net2 \subseteq net
  BY ConstantsAssumption DEF Deliver

LEMMA TransmitAdds ==
    ASSUME NEW net, NEW p, NEW net2 \in Transmit(net, p)
    PROVE  net2 \subseteq net \cup {p}
  BY DEF Transmit

LEMMA EvPushType ==
    ASSUME NEW S, NEW events \in Seq(S), NEW e \in S, Len(events) < EventQueue
    PROVE  /\ EvPush(events, e) \in Seq(S) /\ Len(EvPush(events, e)) < EventQueue
           /\ EvPush(events, e) # << >>
<1>1. EventQueue \in Nat \ {0, 1}
  BY ConstantsAssumption
<1>2. CASE Len(events) < EventQueue - 1
  BY <1>1, <1>2, AppendProperties DEF EvPush
<1>3. CASE ~(Len(events) < EventQueue - 1)
  BY <1>1, <1>3 DEF EvPush
<1> QED
  BY <1>2, <1>3

LEMMA DataFrame ==
    ASSUME ReceiverInv, UNCHANGED dataVars
    PROVE  AcceptedInOrder' /\ QueueInOrder' /\ ReceiverAccounts'
  BY DEF dataVars, ReceiverInv, AcceptedInOrder, QueueInOrder, ReceiverAccounts

LEMMA FragsFinite ==
    ASSUME ReceiverTypeOK
    PROVE  /\ IsFiniteSet(DOMAIN frags)
           /\ IsFiniteSet({k \in DOMAIN reorder : reorder[k].valid})
           /\ Cardinality(DOMAIN frags) \in Nat
           /\ Cardinality({k \in DOMAIN reorder : reorder[k].valid}) \in Nat
<1>1. IsFiniteSet(DOMAIN frags)
  BY BytesType, Zenon DEF ReceiverTypeOK
<1>2. IsFiniteSet(0..ReorderSlots-1)
  <2>1. 0 \in Int /\ ReorderSlots - 1 \in Int
    BY ConstantsAssumption
  <2> QED
    BY <2>1, FS_Interval
<1>3. {k \in DOMAIN reorder : reorder[k].valid} \in SUBSET (0..ReorderSlots-1)
  BY DEF ReceiverTypeOK
<1>4. IsFiniteSet({k \in DOMAIN reorder : reorder[k].valid})
  BY <1>2, <1>3, FS_Subset, Zenon
<1> QED
  BY <1>1, <1>4, FS_CardinalityType

-----------------------------------------------------------------------------
(* What a delivered run does to the receiver: drain_reorder empties the slots   *)
(* of the messages that follow, push_recv appends them in order, and every      *)
(* message that reaches the queue has its event.                                *)

\* What the reorder buffer holds under the number of m is m itself.
LEMMA HeldIsMessage ==
    ASSUME ReceiverInv, LinkInv, SenderInv,
           NEW m \in recv_seq+1..recv_seq+ReorderSlots, Held(m)
    PROVE  /\ reorder[Slot(Wire(m))].valid
           /\ reorder[Slot(Wire(m))].msg = m
           /\ m < send_seq
<1> DEFINE k == Slot(Wire(m))
<1>1. /\ recv_seq \in Nat /\ send_seq \in Nat /\ m \in Int
      /\ ReorderSlots \in Nat /\ OutgoingSlots \in Nat /\ SeqMod \in Nat
      /\ 2 * (OutgoingSlots + ReorderSlots) <= SeqMod /\ ReorderSlots > 0
  BY ConstantsAssumption, WindowAssumption
  DEF ReceiverInv, ReceiverTypeOK, SenderInv, SenderTypeOK
<1>2. /\ k \in DOMAIN reorder /\ reorder[k].valid /\ reorder[k].seq = Wire(m)
      /\ reorder[k].msg \in Int
  <2>1. k \in 0..ReorderSlots-1
    BY <1>1, SlotType
  <2>2. reorder[k].valid /\ reorder[k].seq = Wire(m)
    BY DEF Held
  <2> HIDE DEF k
  <2>3. k \in DOMAIN reorder /\ reorder[k].msg \in Int
    BY <2>1 DEF ReceiverInv, ReceiverTypeOK
  <2> QED
    BY <2>2, <2>3
<1>3. /\ Wire(reorder[k].msg) = Wire(m)
      /\ reorder[k].msg \in recv_seq+1..Lesser(send_seq, recv_seq+ReorderSlots)-1
  BY <1>2 DEF LinkInv, ReorderConsistent
<1> HIDE DEF k
<1>4. /\ reorder[k].msg - m < SeqMod /\ m - reorder[k].msg < SeqMod
      /\ reorder[k].msg < send_seq
  BY <1>1, <1>2, <1>3 DEF Lesser
<1>5. reorder[k].msg = m
  BY <1>1, <1>2, <1>3, <1>4, WireInjective
<1> QED
  BY <1>2, <1>4, <1>5 DEF k

\* The messages queued by one delivery, from r on: in order, none below r, and
\* no more than there is room for.
NewFits(r, n, skip, room, first) ==
    LET run == [k \in 1..n-r-1 |-> r + k]
        taken == SubSeq(run, 1 + skip, Lesser(Len(run), skip + room))
        new == first \o taken
    IN  /\ Len(run) = n - r - 1 /\ Len(taken) \in Nat
        /\ Len(taken) <= room /\ Len(taken) <= n - r - 1
        /\ new \in Seq(Msgs) /\ Len(new) = Len(first) + Len(taken)
        /\ InOrder(new, n) /\ \A k \in DOMAIN new : new[k] >= r

LEMMA NewInOrder ==
    ASSUME NEW r \in Nat, NEW n \in Nat, r < n, n <= MaxMsgs,
           NEW skip \in {0, 1}, NEW room \in Nat,
           NEW first \in {<<r>>, << >>}
    PROVE  NewFits(r, n, skip, room, first)
<1> DEFINE run == [k \in 1..n-r-1 |-> r + k]
           top == Lesser(Len(run), skip + room)
           taken == SubSeq(run, 1 + skip, top)
<1>1. MaxMsgs \in Nat /\ r \in Msgs /\ n - r - 1 \in Nat
  BY ConstantsAssumption DEF Msgs
<1>2. run \in Seq(Msgs) /\ Len(run) = n - r - 1
  <2>1. run \in [1..n-r-1 -> Msgs]
    BY <1>1 DEF Msgs
  <2> QED
    BY <1>1, <2>1
<1>3. /\ top \in Int /\ top <= n - r - 1 /\ top <= skip + room /\ 1 + skip \in Int
  BY <1>1, <1>2 DEF Lesser
<1>4. \A i \in 1+skip..top : i \in 1..n-r-1 /\ run[i] = r + i /\ run[i] \in Msgs
  BY <1>1, <1>3 DEF Msgs
<1> HIDE DEF top, run
<1>5. /\ taken \in Seq(Msgs)
      /\ Len(taken) = IF 1 + skip <= top THEN top - (1 + skip) + 1 ELSE 0
      /\ \A i \in 1..top-(1+skip)+1 : taken[i] = run[1 + skip + i - 1]
  BY <1>3, <1>4, SubSeqProperties
<1>6. /\ Len(taken) \in Nat /\ Len(taken) <= room /\ Len(taken) <= n - r - 1
      /\ DOMAIN taken = 1..Len(taken)
      /\ \A i \in 1..Len(taken) : taken[i] = r + skip + i /\ skip + i <= n - r - 1
  <2>1. /\ Len(taken) \in Nat /\ Len(taken) <= room /\ Len(taken) <= n - r - 1
        /\ DOMAIN taken = 1..Len(taken)
    BY <1>3, <1>5, LenProperties
  <2>2. ASSUME NEW i \in 1..Len(taken)
        PROVE  taken[i] = r + skip + i /\ skip + i <= n - r - 1
    <3>1. PICK len \in Nat : len = Len(taken)
      BY <2>1, Zenon
    <3>2. len = (IF 1 + skip <= top THEN top - (1 + skip) + 1 ELSE 0) /\ i \in 1..len
      BY <1>5, <2>2, <3>1
    <3>3. 1 + skip <= top /\ i \in 1..top-(1+skip)+1 /\ skip + i \in 1+skip..top
      BY <1>3, <3>2
    <3> QED
      BY <1>3, <1>4, <1>5, <3>3
  <2> QED
    BY <2>1, <2>2, Zenon
<1> HIDE DEF taken
<1>7. /\ first \in Seq(Msgs) /\ InOrder(first, r + 1)
      /\ Len(first) \in {0, 1} /\ (Len(first) = 1 <=> first = <<r>>)
      /\ DOMAIN first = 1..Len(first) /\ \A k \in DOMAIN first : first[k] = r
  <2>1. CASE first = <<r>>
    <3>1. /\ first \in Seq(Msgs) /\ Len(first) = 1 /\ DOMAIN first = {1}
          /\ first[1] = r /\ 1..1 = {1}
      BY <1>1, <2>1
    <3> QED
      BY <2>1, <3>1 DEF InOrder
  <2>2. CASE first = << >>
    <3>1. /\ first \in Seq(Msgs) /\ Len(first) = 0 /\ DOMAIN first = {}
          /\ 1..0 = {} /\ first # <<r>>
      BY <2>2
    <3> QED
      BY <3>1 DEF InOrder
  <2> QED
    BY <2>1, <2>2
<1>8. InOrder(taken, n) /\ \A k \in DOMAIN taken : taken[k] >= r + 1
  BY <1>6 DEF InOrder
<1>9. /\ first \o taken \in Seq(Msgs) /\ InOrder(first \o taken, n)
      /\ Len(first \o taken) = Len(first) + Len(taken)
      /\ Range(first \o taken) = Range(first) \cup Range(taken)
  <2>1. r + 1 \in Int /\ n \in Int /\ r + 1 <= n
    OBVIOUS
  <2> QED
    BY <1>5, <1>7, <1>8, <2>1, ConcatInOrder, SMTT(30)
<1>10. \A k \in DOMAIN (first \o taken) : (first \o taken)[k] >= r
  <2>1. \A x \in Range(first) \cup Range(taken) : x >= r
    BY <1>6, <1>7, <1>8, SMTT(30) DEF Range
  <2> QED
    BY <1>9, <2>1 DEF Range
<1> QED
  BY <1>2, <1>6, <1>9, <1>10, Zenon DEF NewFits, taken, top, run

ValidSlots == {k \in DOMAIN reorder : reorder[k].valid}

\* The messages handed over by a step: a run of numbers the receiver passes.
Passes ==
    \/ UNCHANGED <<recv_seq, accepted>>
    \/ /\ recv_seq' > recv_seq
       /\ \E new \in Seq(Msgs) :
            /\ accepted' = accepted \o new
            /\ InOrder(new, recv_seq') /\ \A k \in DOMAIN new : new[k] >= recv_seq

\* The effect of a DATA frame on the messages held and queued, with `refund`
\* reassembly buffers returned to the pool.
DataStep(refund) ==
    /\ recv_seq' \in recv_seq..send_seq
    /\ recv_queue' \in Seq(Msgs) /\ Len(recv_queue') < RecvQueueSlots
    /\ accepted' \in Seq(Msgs)
    /\ InOrder(accepted', recv_seq') /\ InOrder(recv_queue', recv_seq')
    /\ recv_buffered' = Bytes(Range(recv_queue'))
    /\ reorder' \in [0..ReorderSlots-1 ->
                       [valid : BOOLEAN, seq : 0..SeqMod-1, msg : Nat]]
    /\ ReorderConsistent'
    /\ r_pool' \in Nat
    /\ r_pool' + Len(recv_queue') + Cardinality(ValidSlots')
         = r_pool + Len(recv_queue) + Cardinality(ValidSlots) + refund
    /\ r_events' \in Seq({"CHAN_OPEN", "CHAN_CLOSE", "DATA"})
    /\ Len(r_events') < EventQueue
    /\ recv_queue' # << >> => reading \/ r_events' # << >>
    /\ Passes

\* Emptying the slots of the messages from r+1 to n-1, all held, frees one slot
\* for each.
LEMMA EmptiedSlots ==
    ASSUME SenderInv, ReceiverInv, LinkInv,
           NEW n \in recv_seq+1..recv_seq+ReorderSlots+1,
           \A m \in recv_seq+1..n-1 : Held(m),
           reorder' = [k \in DOMAIN reorder |->
                         IF k \in {Slot(Wire(m)) : m \in recv_seq+1..n-1}
                         THEN EmptySlot ELSE reorder[k]]
    PROVE  /\ Cardinality(ValidSlots) = Cardinality(ValidSlots') + (n - recv_seq - 1)
           /\ Cardinality(ValidSlots') \in Nat
<1> DEFINE ms == recv_seq+1..n-1
           emptied == {Slot(Wire(m)) : m \in ms}
           f == [m \in ms |-> Slot(Wire(m))]
<1>1. /\ recv_seq \in Nat /\ n \in Int /\ ReorderSlots \in Nat
      /\ \A m \in ms : m \in Int /\ m \in recv_seq+1..recv_seq+ReorderSlots
      /\ DOMAIN reorder = 0..ReorderSlots-1
  <2>1. recv_seq \in Nat /\ ReorderSlots \in Nat
    BY ConstantsAssumption DEF ReceiverInv, ReceiverTypeOK
  <2>2. n \in Int /\ n <= recv_seq + ReorderSlots + 1
    BY <2>1
  <2>3. \A m \in ms : m \in Int /\ m \in recv_seq+1..recv_seq+ReorderSlots
    BY <2>1, <2>2
  <2>4. DOMAIN reorder = 0..ReorderSlots-1
    BY DEF ReceiverInv, ReceiverTypeOK
  <2> QED
    BY <2>1, <2>2, <2>3, <2>4, SMTT(30)
<1>2. \A m \in ms : /\ Slot(Wire(m)) \in ValidSlots
                    /\ reorder[Slot(Wire(m))].msg = m
  BY <1>1, HeldIsMessage, SlotType, Zenon DEF ValidSlots
<1>3. f \in Bijection(ms, emptied)
  BY <1>2 DEF Bijection, Injection, Surjection, IsInjective
<1>4. IsFiniteSet(ms) /\ Cardinality(ms) = n - recv_seq - 1
  <2>1. recv_seq + 1 \in Int /\ n - 1 \in Int
    BY <1>1
  <2> HIDE DEF ms
  <2>2. IsFiniteSet(recv_seq+1..n-1)
        /\ Cardinality(recv_seq+1..n-1) =
             IF recv_seq + 1 > n - 1 THEN 0 ELSE (n - 1) - (recv_seq + 1) + 1
    BY <2>1, FS_Interval, SMTT(30)
  <2> QED
    BY <1>1, <2>2 DEF ms
<1>5. IsFiniteSet(emptied) /\ Cardinality(emptied) = n - recv_seq - 1
  <2>1. ExistsBijection(ms, emptied)
    BY <1>3 DEF ExistsBijection
  <2> QED
    BY <1>4, <2>1, FS_Bijection
<1>6. ValidSlots' = ValidSlots \ emptied
  BY DEF ValidSlots, EmptySlot
<1>7. emptied \subseteq ValidSlots
  BY <1>2
<1>8. IsFiniteSet(ValidSlots)
  BY FragsFinite DEF ReceiverInv, ValidSlots
<1>9. IsFiniteSet(ValidSlots')
  BY <1>6, <1>8, FS_Subset, SMTT(30)
<1>10. ValidSlots = emptied \cup ValidSlots' /\ emptied \cap ValidSlots' = {}
  BY <1>6, <1>7
<1> HIDE DEF emptied
<1>11. /\ Cardinality(emptied \cup ValidSlots')
            = Cardinality(emptied) + Cardinality(ValidSlots')
       /\ Cardinality(ValidSlots') \in Nat
  BY <1>5, <1>9, <1>10, DisjointUnion, SMTT(30)
<1> QED
  BY <1>1, <1>5, <1>10, <1>11, SMTT(30)

\* ev_push once for each message taken: the ring keeps its bound, and is not
\* empty afterwards.
LEMMA EventsPushed ==
    ASSUME NEW ev \in Seq({"CHAN_OPEN", "CHAN_CLOSE", "DATA"}),
           Len(ev) < EventQueue, NEW c \in Nat \ {0}
    PROVE  LET more == [k \in 1..Lesser(c, EventQueue - 1 - Len(ev)) |-> "DATA"]
           IN  /\ ev \o more \in Seq({"CHAN_OPEN", "CHAN_CLOSE", "DATA"})
               /\ Len(ev \o more) < EventQueue
               /\ ev \o more # << >>
<1> DEFINE h == Lesser(c, EventQueue - 1 - Len(ev))
           more == [k \in 1..h |-> "DATA"]
           Evs == {"CHAN_OPEN", "CHAN_CLOSE", "DATA"}
<1>1. EventQueue \in Nat /\ EventQueue > 1 /\ Len(ev) \in Nat
  BY ConstantsAssumption
<1>2. h \in Nat /\ h <= EventQueue - 1 - Len(ev) /\ (Len(ev) = 0 => h > 0)
  BY <1>1 DEF Lesser
<1> HIDE DEF h
<1>3. more \in Seq(Evs) /\ Len(more) = h
  <2>1. more \in [1..h -> Evs]
    OBVIOUS
  <2> QED
    BY <1>2, <2>1
<1> HIDE DEF more
<1>4. ev \o more \in Seq(Evs) /\ Len(ev \o more) = Len(ev) + Len(more)
  BY <1>3
<1>5. Len(ev \o more) < EventQueue /\ Len(ev \o more) > 0
  BY <1>1, <1>2, <1>3, <1>4
<1>6. ev \o more # << >>
  BY <1>5
<1> QED
  BY <1>4, <1>5, <1>6, Zenon DEF more, h

\* After a delivery up to n-1 what is still held lies beyond n.
LEMMA EmptiedConsistent ==
    ASSUME SenderInv, ReceiverInv, LinkInv, send_seq' = send_seq,
           NEW n \in recv_seq+1..recv_seq+ReorderSlots+1,
           ~Held(n), recv_seq' = n,
           reorder' = [k \in DOMAIN reorder |->
                         IF k \in {Slot(Wire(m)) : m \in recv_seq+1..n-1}
                         THEN EmptySlot ELSE reorder[k]]
    PROVE  /\ ReorderConsistent'
           /\ reorder' \in [0..ReorderSlots-1 ->
                             [valid : BOOLEAN, seq : 0..SeqMod-1, msg : Nat]]
<1> DEFINE emptied == {Slot(Wire(m)) : m \in recv_seq+1..n-1}
           SlotRec == [valid : BOOLEAN, seq : 0..SeqMod-1, msg : Nat]
<1>1. /\ recv_seq \in Nat /\ send_seq \in Nat /\ n \in Int /\ ReorderSlots \in Nat
      /\ n > recv_seq
  BY ConstantsAssumption DEF ReceiverInv, ReceiverTypeOK, SenderInv, SenderTypeOK
<1>2. reorder \in [0..ReorderSlots-1 -> SlotRec] /\ DOMAIN reorder' = DOMAIN reorder
  BY DEF ReceiverInv, ReceiverTypeOK
<1>3. EmptySlot \in SlotRec
  BY ConstantsAssumption DEF EmptySlot
<1>4. reorder' \in [0..ReorderSlots-1 -> SlotRec]
  BY <1>2, <1>3, SMTT(30)
<1>5. ASSUME NEW k \in DOMAIN reorder, reorder'[k].valid
      PROVE  /\ reorder'[k].seq = Wire(reorder'[k].msg)
             /\ k = Slot(reorder'[k].seq)
             /\ reorder'[k].msg \in n+1..Lesser(send_seq, n+ReorderSlots)-1
  <2>1. k \notin emptied /\ reorder'[k] = reorder[k]
    BY <1>5 DEF EmptySlot
  <2>2. /\ reorder[k].valid /\ reorder[k].seq = Wire(reorder[k].msg)
        /\ k = Slot(reorder[k].seq)
        /\ reorder[k].msg \in recv_seq+1..Lesser(send_seq, recv_seq+ReorderSlots)-1
    BY <1>5, <2>1, SMTT(30) DEF LinkInv, ReorderConsistent
  <2>3. PICK m \in Int : m = reorder[k].msg
    BY <2>2
  <2>4. k = Slot(Wire(m)) /\ reorder[k].seq = Wire(m) /\ reorder[k].valid
    BY <2>2, <2>3, SMTT(30)
  <2>5. m # n
    BY <2>4 DEF Held
  <2>6. m \notin recv_seq+1..n-1
    BY <2>1, <2>4
  <2>7. m \in recv_seq+1..Lesser(send_seq, recv_seq+ReorderSlots)-1
    BY <2>2, <2>3
  <2>8. m \in n+1..Lesser(send_seq, n+ReorderSlots)-1
    BY <1>1, <2>5, <2>6, <2>7, SMTT(30) DEF Lesser
  <2> QED
    BY <2>1, <2>2, <2>3, <2>8, SMTT(30)
<1> QED
  BY <1>2, <1>4, <1>5, SMTT(30) DEF ReorderConsistent

LEMMA DeliverStep ==
    ASSUME SenderInv, ReceiverInv, LinkInv, NEW refund \in Nat,
           recv_seq < send_seq, DeliverInOrder(recv_seq, refund),
           UNCHANGED <<send_seq, reading>>
    PROVE  DataStep(refund)
<1>1. PICK n \in recv_seq+1..recv_seq+ReorderSlots+1 :
        LET ok == Len(recv_queue) < RecvQueueSlots - 1 /\ r_pool > 0
            first == IF ok THEN <<recv_seq>> ELSE << >>
            pool == IF ok THEN r_pool - 1 ELSE r_pool
            run == [k \in 1..n-recv_seq-1 |->
                      reorder[Slot(Wire(recv_seq + k))].msg]
            room == RecvQueueSlots - 1 - Len(recv_queue) - Len(first)
            skip == IF pool = 0 THEN 1 ELSE 0
            taken == SubSeq(run, 1 + skip, Lesser(Len(run), skip + room))
            new == first \o taken
            emptied == {Slot(Wire(m)) : m \in recv_seq+1..n-1}
        IN  /\ \A m \in recv_seq+1..n-1 : Held(m)
            /\ ~Held(n)
            /\ recv_seq' = n
            /\ recv_queue' = recv_queue \o new
            /\ accepted' = accepted \o new
            /\ recv_buffered' = recv_buffered + Bytes({new[k] : k \in DOMAIN new})
            /\ reorder' = [k \in DOMAIN reorder |->
                             IF k \in emptied THEN EmptySlot ELSE reorder[k]]
            /\ r_pool' = PoolAfter(pool, run, taken, refund)
            /\ r_events' = r_events \o
                 [k \in 1..Lesser(n - recv_seq, EventQueue - 1 - Len(r_events))
                    |-> "DATA"]
  BY Zenon DEF DeliverInOrder
<1> DEFINE ok == Len(recv_queue) < RecvQueueSlots - 1 /\ r_pool > 0
           first == IF ok THEN <<recv_seq>> ELSE << >>
           pool == IF ok THEN r_pool - 1 ELSE r_pool
           held == [k \in 1..n-recv_seq-1 |-> reorder[Slot(Wire(recv_seq + k))].msg]
           run == [k \in 1..n-recv_seq-1 |-> recv_seq + k]
           room == RecvQueueSlots - 1 - Len(recv_queue) - Len(first)
           skip == IF pool = 0 THEN 1 ELSE 0
           part(h) == SubSeq(h, 1 + skip, Lesser(Len(h), skip + room))
           taken == part(run)
           new == first \o taken
<1>2. /\ recv_seq \in Nat /\ send_seq \in Nat /\ send_seq <= MaxMsgs
      /\ n \in Nat /\ n > recv_seq /\ n <= recv_seq + ReorderSlots + 1
      /\ ReorderSlots \in Nat /\ RecvQueueSlots \in Nat /\ MaxMsgs \in Nat
      /\ Len(recv_queue) \in Nat /\ Len(recv_queue) < RecvQueueSlots /\ r_pool \in Nat
  <2>1. /\ recv_seq \in Nat /\ send_seq \in Nat /\ send_seq <= MaxMsgs
        /\ ReorderSlots \in Nat /\ RecvQueueSlots \in Nat /\ MaxMsgs \in Nat
    BY ConstantsAssumption DEF ReceiverInv, ReceiverTypeOK, SenderInv, SenderTypeOK
  <2>2. Len(recv_queue) \in Nat /\ Len(recv_queue) < RecvQueueSlots /\ r_pool \in Nat
    BY ConstantsAssumption DEF ReceiverInv, ReceiverTypeOK
  <2>3. n \in Nat /\ n > recv_seq /\ n <= recv_seq + ReorderSlots + 1
    BY <2>1, SMTT(30)
  <2> QED
    BY <2>1, <2>2, <2>3, SMTT(30)
<1>3. \A m \in recv_seq+1..n-1 :
        m \in Int /\ reorder[Slot(Wire(m))].msg = m /\ m < send_seq
  <2> SUFFICES ASSUME NEW m \in recv_seq+1..n-1
               PROVE  m \in Int /\ reorder[Slot(Wire(m))].msg = m /\ m < send_seq
    OBVIOUS
  <2>1. m \in recv_seq+1..recv_seq+ReorderSlots /\ m \in Int
    BY <1>2, SMTT(30)
  <2>2. Held(m)
    BY <1>1, Zenon
  <2> QED
    BY <2>1, <2>2, HeldIsMessage, SMTT(30)
<1>4. n <= send_seq /\ n <= MaxMsgs
  <2>1. CASE n = recv_seq + 1
    BY <1>2, <2>1
  <2>2. CASE n > recv_seq + 1
    <3>1. n - 1 \in recv_seq+1..n-1
      BY <1>2, <2>2, SMTT(30)
    <3>2. n - 1 < send_seq
      BY <1>3, <3>1, SMTT(30)
    <3> QED
      BY <1>2, <3>2
  <2> QED
    BY <1>2, <2>1, <2>2, SMTT(30)
<1>5. held = run
  <2> SUFFICES ASSUME NEW k \in 1..n-recv_seq-1
               PROVE  reorder[Slot(Wire(recv_seq + k))].msg = recv_seq + k
    OBVIOUS
  <2>1. recv_seq + k \in recv_seq+1..n-1
    BY <1>2, SMTT(30)
  <2> QED
    BY <1>3, <2>1, SMTT(30)
<1>6. /\ recv_seq' = n
      /\ recv_queue' = recv_queue \o new
      /\ accepted' = accepted \o new
      /\ recv_buffered' = recv_buffered + Bytes({new[k] : k \in DOMAIN new})
      /\ r_pool' = pool + Len(run) - Len(taken) + refund
  <2>1. /\ recv_seq' = n
        /\ recv_queue' = recv_queue \o (first \o part(held))
        /\ accepted' = accepted \o (first \o part(held))
    BY <1>1, ZenonT(30)
  <2>2. recv_buffered' = recv_buffered
          + Bytes({(first \o part(held))[k] : k \in DOMAIN (first \o part(held))})
    BY <1>1, ZenonT(30)
  <2>3. r_pool' = pool + Len(held) - Len(part(held)) + refund
    BY <1>1, ZenonT(30) DEF PoolAfter
  <2> HIDE DEF held, run, first, part, pool
  <2> QED
    BY <1>5, <2>1, <2>2, <2>3, SMTT(30)
<1>7. /\ first \in {<<recv_seq>>, << >>} /\ skip \in {0, 1}
      /\ Len(first) = (IF ok THEN 1 ELSE 0) /\ room \in Nat
      /\ pool \in Nat /\ pool + Len(first) = r_pool
      /\ Len(first) + room <= RecvQueueSlots - 1 - Len(recv_queue)
  <2>1. first \in {<<recv_seq>>, << >>} /\ skip \in {0, 1}
    OBVIOUS
  <2>2. Len(first) = (IF ok THEN 1 ELSE 0)
    OBVIOUS
  <2>3. /\ pool \in Nat /\ pool + Len(first) = r_pool /\ room \in Nat
        /\ Len(first) + room <= RecvQueueSlots - 1 - Len(recv_queue)
    <3> HIDE DEF first
    <3> QED
      BY <1>2, <2>2, SMTT(30)
  <2> QED
    BY <2>1, <2>2, <2>3, SMTT(30)
<1> HIDE DEF first, skip, room, pool, held
<1>8. /\ Len(run) = n - recv_seq - 1 /\ Len(taken) \in Nat
      /\ Len(taken) <= room /\ Len(taken) <= n - recv_seq - 1
      /\ new \in Seq(Msgs) /\ Len(new) = Len(first) + Len(taken)
      /\ InOrder(new, n) /\ \A k \in DOMAIN new : new[k] >= recv_seq
  <2>1. recv_seq \in Nat /\ n \in Nat /\ recv_seq < n /\ n <= MaxMsgs
    BY <1>2, <1>4, SMTT(30)
  <2>2. first \in {<<recv_seq>>, << >>} /\ skip \in {0, 1} /\ room \in Nat
    BY <1>7
  <2>3. NewFits(recv_seq, n, skip, room, first)
    BY <2>1, <2>2, NewInOrder, Zenon
  <2> QED
    BY <2>3, Zenon DEF NewFits
<1> HIDE DEF taken, run, new
<1>9. /\ recv_queue \in Seq(Msgs) /\ accepted \in Seq(Msgs)
      /\ InOrder(recv_queue, recv_seq) /\ InOrder(accepted, recv_seq)
  BY DEF ReceiverInv, ReceiverTypeOK, QueueInOrder, AcceptedInOrder, InOrder
<1>10. recv_seq \in Int /\ n \in Int /\ recv_seq <= n
  BY <1>2
<1>11. accepted \o new \in Seq(Msgs) /\ InOrder(accepted \o new, n)
  BY <1>8, <1>9, <1>10, ConcatInOrder, Zenon
<1>12. /\ recv_queue \o new \in Seq(Msgs) /\ InOrder(recv_queue \o new, n)
       /\ Len(recv_queue \o new) = Len(recv_queue) + Len(new)
       /\ Range(recv_queue \o new) = Range(recv_queue) \cup Range(new)
       /\ Range(recv_queue) \cap Range(new) = {}
       /\ Range(recv_queue) \in SUBSET Msgs /\ Range(new) \in SUBSET Msgs
  BY <1>8, <1>9, <1>10, ConcatInOrder, ZenonT(30)
<1>13. recv_buffered' = Bytes(Range(recv_queue'))
  <2>1. recv_buffered = Bytes(Range(recv_queue))
    BY SMTT(30) DEF ReceiverInv, ReceiverAccounts, Range
  <2>2. recv_buffered' = recv_buffered + Bytes(Range(new))
    BY <1>6, SMTT(30) DEF Range
  <2>3. Bytes(Range(recv_queue) \cup Range(new))
          = Bytes(Range(recv_queue)) + Bytes(Range(new))
    BY <1>12, BytesUnion, SMTT(30)
  <2> QED
    BY <1>6, <1>12, <2>1, <2>2, <2>3, SMTT(30)
<1>14. Len(recv_queue') < RecvQueueSlots
  <2>1. Len(recv_queue') = Len(recv_queue) + Len(new)
    BY <1>6, <1>12, SMTT(30)
  <2> QED
    BY <1>2, <1>7, <1>8, <2>1, SMTT(30)
<1>15. /\ \A m \in recv_seq+1..n-1 : Held(m)
       /\ ~Held(n)
       /\ reorder' = [k \in DOMAIN reorder |->
                        IF k \in {Slot(Wire(m)) : m \in recv_seq+1..n-1}
                        THEN EmptySlot ELSE reorder[k]]
  BY <1>1, ZenonT(30)
<1>16. /\ ReorderConsistent'
       /\ reorder' \in [0..ReorderSlots-1 ->
                         [valid : BOOLEAN, seq : 0..SeqMod-1, msg : Nat]]
  BY <1>6, <1>15, EmptiedConsistent, SMTT(30)
<1>17. /\ Cardinality(ValidSlots) = Cardinality(ValidSlots') + (n - recv_seq - 1)
       /\ Cardinality(ValidSlots') \in Nat
  BY <1>15, EmptiedSlots, SMTT(30)
<1>18. /\ r_pool' \in Nat
       /\ r_pool' + Len(recv_queue') + Cardinality(ValidSlots')
            = r_pool + Len(recv_queue) + Cardinality(ValidSlots) + refund
  <2>1. PICK c : c = Cardinality(ValidSlots')
    OBVIOUS
  <2>2. PICK d : d = Cardinality(ValidSlots)
    OBVIOUS
  <2>3. PICK q : q = Len(recv_queue')
    BY ZenonT(30)
  <2>4. PICK b : b = r_pool'
    OBVIOUS
  <2>5. c \in Nat /\ d = c + (n - recv_seq - 1)
    BY <1>17, <2>1, <2>2, SMTT(30)
  <2>6. q = Len(recv_queue) + Len(first) + Len(taken)
    <3>1. q = Len(recv_queue) + Len(new)
      BY <1>6, <1>12, <2>3, ZenonT(30)
    <3>2. Len(new) = Len(first) + Len(taken) /\ Len(taken) \in Nat
      BY <1>8, ZenonT(30)
    <3>3. Len(recv_queue) \in Nat /\ Len(first) \in Nat
      BY <1>2, <1>7, SMTT(30)
    <3> QED
      BY <3>1, <3>2, <3>3, SMTT(30)
  <2>7. b = pool + (n - recv_seq - 1) - Len(taken) + refund
    BY <1>6, <1>8, <2>4, Zenon
  <2>8. /\ Len(first) \in Nat /\ Len(taken) \in Nat /\ n - recv_seq - 1 \in Nat
        /\ Len(taken) <= n - recv_seq - 1
        /\ pool \in Nat /\ pool + Len(first) = r_pool /\ Len(recv_queue) \in Nat
    BY <1>2, <1>7, <1>8, SMTT(30)
  <2>9. b \in Nat /\ b + q + c = r_pool + Len(recv_queue) + d + refund
    <3>1. recv_seq \in Int /\ n \in Int
      BY <1>2, SMTT(30)
    <3>2. b = pool + refund + (n - recv_seq - 1) - Len(taken) /\ b \in Int
      BY <2>7, <2>8, <3>1, SMTT(30)
    <3>3. b \in Nat
      BY <2>8, <3>1, <3>2, SMTT(30)
    <3> HIDE DEF taken
    <3> QED
      BY <2>5, <2>6, <2>8, <3>1, <3>2, <3>3, SMTT(30)
  <2> QED
    BY <2>1, <2>2, <2>3, <2>4, <2>9, SMTT(30)
<1>19. /\ r_events' \in Seq({"CHAN_OPEN", "CHAN_CLOSE", "DATA"})
       /\ Len(r_events') < EventQueue /\ r_events' # << >>
  <2>1. /\ r_events \in Seq({"CHAN_OPEN", "CHAN_CLOSE", "DATA"})
        /\ Len(r_events) < EventQueue
    BY DEF ReceiverInv, ReceiverTypeOK
  <2>2. n - recv_seq \in Nat \ {0}
    BY <1>2
  <2>3. r_events' = r_events \o
          [k \in 1..Lesser(n - recv_seq, EventQueue - 1 - Len(r_events)) |-> "DATA"]
    BY <1>1, Zenon
  <2> QED
    BY <2>1, <2>2, <2>3, EventsPushed, Zenon
<1>20. recv_seq' \in recv_seq..send_seq
  BY <1>2, <1>4, <1>6, SMTT(30)
<1>21. /\ recv_queue' \in Seq(Msgs) /\ accepted' \in Seq(Msgs)
       /\ InOrder(accepted', recv_seq') /\ InOrder(recv_queue', recv_seq')
  BY <1>6, <1>11, <1>12, SMTT(30)
<1>22. Passes
  BY <1>2, <1>6, <1>8, Zenon DEF Passes
<1> QED
  BY <1>13, <1>14, <1>16, <1>18, <1>19, <1>20, <1>21, <1>22, SMTT(30) DEF DataStep

=============================================================================
