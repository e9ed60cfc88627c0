----------------------------- MODULE NcChannel -----------------------------
(***************************************************************************)
(* One reliable netchan channel (netchan.c): the sending endpoint, the     *)
(* receiving endpoint, and the datagram network between them.              *)
(*                                                                         *)
(* Messages are numbered 0, 1, 2, ... in the order they are written.  The  *)
(* 16-bit fields send_seq and recv_seq are kept here as the unbounded      *)
(* counters they are truncations of; Wire gives the value in the field, and *)
(* every comparison the code makes is made on wire values.  A message is   *)
(* its number: the payload of a DATA frame is the number of the message it *)
(* was cut from.  Sizes are in abstract byte units.                        *)
(*                                                                         *)
(* outgoing[] is a ring whose tail advances with send_seq, so slot i %     *)
(* OutgoingSlots holds message i: the ring is the function `outgoing` on   *)
(* out_head..send_seq-1.  recv_queue[] is a ring used as a FIFO: a         *)
(* sequence.  The slots of frags[] are interchangeable: a function from    *)
(* the message being reassembled to the set of its fragments present.      *)
(* The buffer pool of each endpoint is its number of free buffers.         *)
(***************************************************************************)
EXTENDS Integers, Sequences, FiniteSets

CONSTANTS
    MaxMsgs,        \* messages the application writes (bound on the model)
    Size,           \* Size[i]: length of message i
    SeqMod,         \* 2^16: range of the sequence fields
    OutgoingSlots,  \* NC_OUTGOING_SLOTS
    RecvQueueSlots, \* NC_RECV_QUEUE
    ReorderSlots,   \* NC_REORDER_SLOTS
    FragSlots,      \* NC_FRAG_SLOTS
    PoolBufs,       \* NC_POOL_BUFS
    EventQueue,     \* NC_EVENT_QUEUE
    FragPayload,    \* max_frag_payload
    RecvWindow,     \* cfg.chan_window
    MaxAttempts,    \* NC_MAX_RT_ATTEMPTS
    Duplicates,     \* TRUE iff the network may deliver a datagram twice
    NetCap,         \* datagrams in flight each way (bound on the model)
    AppCloses       \* TRUE iff the applications may close the channel

Msgs == 0..MaxMsgs-1

ASSUME ConstantsAssumption ==
    /\ MaxMsgs \in Nat
    /\ SeqMod \in Nat \ {0, 1}
    /\ Size \in [Msgs -> Nat \ {0}]
    /\ OutgoingSlots \in Nat \ {0} /\ RecvQueueSlots \in Nat \ {0}
    /\ ReorderSlots \in Nat \ {0} /\ FragSlots \in Nat
    /\ PoolBufs \in Nat /\ EventQueue \in Nat \ {0, 1}
    /\ FragPayload \in Nat \ {0} /\ RecvWindow \in Nat
    /\ MaxAttempts \in Nat \ {0}
    /\ Duplicates \in BOOLEAN /\ AppCloses \in BOOLEAN /\ NetCap \in Nat

\* The window of sequence numbers in use is under half the sequence space.
ASSUME WindowAssumption ==
    2 * (OutgoingSlots + ReorderSlots) <= SeqMod

\* A reassembly slot is found by its 16-bit sequence number and may outlive
\* its message, so channels that fragment are followed up to the wrap only.
ASSUME FragAssumption ==
    (\E i \in Msgs : Size[i] > FragPayload) => MaxMsgs <= SeqMod

VARIABLES
    \* sending endpoint
    s_state,          \* 0 opening, 1 open, 2 closing, 3 closed
    s_ctrl,           \* kinds of control frames queued, in {"OPEN", "CLOSE"}
    send_seq,         \* number of the next message
    send_window,
    bytes_in_flight,
    outgoing,
    out_head,
    s_pool,
    s_events,
    \* receiving endpoint
    r_state,          \* 0 no such channel, else as s_state
    r_ctrl,           \* kinds of control frames queued, in {"WINDOW", "CLOSE"}
    recv_seq,         \* number of the next message expected
    recv_buffered,
    recv_queue,
    reorder,
    frags,
    need_ack,
    ack_seq,
    need_window_update,
    r_pool,
    r_events,
    reading,          \* the application is draining the channel
    \* network and history
    s2r,              \* datagrams in flight to the receiver
    r2s,              \* datagrams in flight to the sender
    accepted          \* messages put on recv_queue, oldest first

senderVars == <<s_state, s_ctrl, send_seq, send_window, bytes_in_flight,
                outgoing, out_head, s_pool, s_events>>
dataVars == <<recv_seq, recv_buffered, recv_queue, reorder, frags, r_pool,
              accepted>>
ackVars == <<need_ack, ack_seq, need_window_update>>
receiverVars == <<r_state, r_ctrl, dataVars, ackVars, r_events, reading>>
vars == <<senderVars, receiverVars, s2r, r2s>>

-----------------------------------------------------------------------------
(* Sequence arithmetic and sizes. *)

None == -1

Lesser(a, b) == IF a < b THEN a ELSE b

\* The 16-bit field that carries counter i.
Wire(i) == i % SeqMod

\* Mutant of SeqDiff: the cast to int16_t is missing.
SeqDiffUncast(a, b) == a - b

\* (int16_t)(a - b)
SeqDiff(a, b) ==
    LET d == (a - b) % SeqMod
    IN  IF 2 * d >= SeqMod THEN d - SeqMod ELSE d

\* Bytes of a set of messages.
Bytes(S) == Cardinality(UNION {{i} \X (1..Size[i]) : i \in S})

FragTotal(i) == (Size[i] + FragPayload - 1) \div FragPayload

\* Mutant of EvPush: no test for a full ring.
EvPushUnchecked(events, e) == Append(events, e)

\* ev_push: an event that finds the ring full is dropped.
EvPush(events, e) ==
    IF Len(events) < EventQueue - 1 THEN Append(events, e) ELSE events

-----------------------------------------------------------------------------
(* The network: a datagram is lost when it is sent, or stays in flight until *)
(* it is delivered; a delivered one may stay and be delivered again.         *)

Transmit(net, p) ==
    IF Cardinality(net) < NetCap THEN {net, net \cup {p}} ELSE {net}
Deliver(net, p) == IF Duplicates THEN {net, net \ {p}} ELSE {net \ {p}}

\* Datagrams live for less than half the sequence space: recv_seq has moved
\* less than that since a DATA frame was sent, send_seq less since an ACK was.
TimelyData(p) == 2 * (recv_seq - p.msg) < SeqMod
TimelyAck(p) == 2 * (send_seq - p.upto) < SeqMod

-----------------------------------------------------------------------------
EmptySlot == [valid |-> FALSE, seq |-> 0, msg |-> 0]

Init ==
    /\ s_state = 0 /\ s_ctrl = {"OPEN"}
    /\ send_seq = 0 /\ send_window = 0 /\ bytes_in_flight = 0
    /\ outgoing = [i \in {} |-> None] /\ out_head = 0
    /\ s_pool = PoolBufs /\ s_events = << >>
    /\ r_state = 0 /\ r_ctrl = {}
    /\ recv_seq = 0 /\ recv_buffered = 0 /\ recv_queue = << >>
    /\ reorder = [k \in 0..ReorderSlots-1 |-> EmptySlot]
    /\ frags = [i \in {} |-> {}]
    /\ need_ack = FALSE /\ ack_seq = 0 /\ need_window_update = FALSE
    /\ r_pool = PoolBufs /\ r_events = << >> /\ reading = FALSE
    /\ s2r = {} /\ r2s = {}
    /\ accepted = << >>

-----------------------------------------------------------------------------
(* Sending endpoint. *)

Active == {i \in DOMAIN outgoing : outgoing[i].active}

\* Mutant of InFlightWith: a message written before the channel opens is not
\* counted.
InFlightWhenOpen(i) ==
    IF s_state = 1 THEN bytes_in_flight + Size[i] ELSE bytes_in_flight

\* bytes_in_flight once message i is written.
InFlightWith(i) == bytes_in_flight + Size[i]

\* netchan_chan_write.  A write that returns an error changes nothing.
ChanWrite ==
    /\ send_seq < MaxMsgs
    /\ s_state # 3
    /\ s_state = 1 => InFlightWith(send_seq) <= send_window
    /\ send_seq - out_head < OutgoingSlots - 1
    /\ s_pool > 0
    /\ outgoing' = [i \in out_head..send_seq |->
                      IF i = send_seq
                      THEN [active |-> TRUE, sent |-> FALSE, attempts |-> 0,
                            frag_sent |-> 0]
                      ELSE outgoing[i]]
    /\ send_seq' = send_seq + 1
    /\ bytes_in_flight' = InFlightWith(send_seq)
    /\ s_pool' = s_pool - 1
    /\ UNCHANGED <<s_state, s_ctrl, send_window, out_head, s_events,
                   receiverVars, s2r, r2s>>

\* netchan_chan_close at the sender.
ChanCloseSender ==
    /\ AppCloses
    /\ s_state < 2
    /\ s_state' = 2
    /\ s_ctrl' = s_ctrl \cup {"CLOSE"}
    /\ UNCHANGED <<send_seq, send_window, bytes_in_flight, outgoing, out_head,
                   s_pool, s_events, receiverVars, s2r, r2s>>

\* chan_next_sendable picks the oldest of these.
Sendable ==
    {i \in Active : outgoing[i].frag_sent < FragTotal(i)}

\* netchan_send_next, control frames.  While one is queued the channel is
\* opening or closing, so the packet carries no DATA frame (Unopened, below).
SendCtrl ==
    /\ s_ctrl # {}
    /\ s2r' \in Transmit(s2r, [type |-> "CTRL", frames |-> s_ctrl])
    /\ s_ctrl' = {}
    /\ UNCHANGED <<s_state, send_seq, send_window, bytes_in_flight, outgoing,
                   out_head, s_pool, s_events, receiverVars, r2s>>


\* The attempts of an entry with n so far, once transmitted: the first
\* transmission counts, later ones are counted by Retransmit.
Attempt(n) == IF n = 0 THEN 1 ELSE n

\* netchan_send_next, one DATA frame of the oldest sendable message.
SendData ==
    /\ s_ctrl = {}
    /\ s_state = 1
    /\ \E i \in Sendable :
         /\ \A j \in Sendable : i <= j
         /\ s2r' \in Transmit(s2r, [type |-> "DATA", seq |-> Wire(i),
                                    msg |-> i, frag |-> outgoing[i].frag_sent])
         /\ outgoing' = [outgoing EXCEPT ![i] =
                           [active |-> TRUE, sent |-> TRUE,
                            attempts |-> Attempt(@.attempts),
                            frag_sent |-> @.frag_sent + 1]]
    /\ UNCHANGED <<s_state, s_ctrl, send_seq, send_window, bytes_in_flight,
                   out_head, s_pool, s_events, receiverVars, r2s>>

\* netchan_service, retransmission.  Any set of transmitted entries may have
\* timed out.  The scan goes by slot number and stops at the first entry that
\* has used up its attempts: the channel is then dead.
Retransmit ==
    \E expired \in SUBSET {i \in Active : outgoing[i].sent} :
      LET slot(i) == i % OutgoingSlots
          spent == {i \in expired : outgoing[i].attempts >= MaxAttempts}
          rearmed == {i \in expired \ spent : \A d \in spent : slot(i) < slot(d)}
      IN  /\ expired # {}
          /\ outgoing' = [i \in DOMAIN outgoing |->
                            IF i \in rearmed
                            THEN [active |-> TRUE, sent |-> TRUE, frag_sent |-> 0,
                                  attempts |-> outgoing[i].attempts + 1]
                            ELSE outgoing[i]]
          /\ s_state' = IF spent = {} THEN s_state ELSE 3
          /\ s_events' = IF spent = {} THEN s_events
                                       ELSE EvPush(s_events, "CHAN_CLOSE")
          /\ UNCHANGED <<s_ctrl, send_seq, send_window, bytes_in_flight,
                         out_head, s_pool, receiverVars, s2r, r2s>>

\* Mutant of Freed: an ACK names one message, not all up to it.
FreedOne(a) == {i \in Active : SeqDiff(Wire(i), a) = 0}

\* process_ack: the entries an ACK of wire number a frees.
Freed(a) == {i \in Active : SeqDiff(Wire(i), a) <= 0}

\* netchan_feed at the sender: the control frames of the packet, then its ACK,
\* then its WINDOW_UPDATE.
ReceiveAtSender(p) ==
    LET freed == IF p.ack = None THEN {} ELSE Freed(p.ack)
        kept == Active \ freed
        window == IF p.window # None THEN p.window
                  ELSE IF "WINDOW" \in p.frames THEN RecvWindow
                  ELSE send_window
        opens == "WINDOW" \in p.frames \/ p.window # None
    IN  /\ TimelyAck(p)
        /\ r2s' \in Deliver(r2s, p)
        /\ s_pool' = s_pool + Cardinality(freed)
        /\ bytes_in_flight' = bytes_in_flight - Bytes(freed)
        /\ out_head' \in {h \in out_head..send_seq :
                            /\ \A i \in out_head..h-1 : i \notin kept
                            /\ h # send_seq => h \in kept}
        /\ outgoing' = [i \in out_head'..send_seq-1 |->
                          [outgoing[i] EXCEPT !.active = @ /\ i \notin freed]]
        /\ send_window' = window
        /\ s_state' = IF "CLOSE" \in p.frames THEN 3
                      ELSE IF opens /\ s_state = 0 THEN 1
                      ELSE s_state
        /\ s_events' = IF "CLOSE" \in p.frames
                       THEN EvPush(s_events, "CHAN_CLOSE") ELSE s_events
        /\ UNCHANGED <<s_ctrl, send_seq, receiverVars, s2r>>

\* netchan_poll at the sender.
PollSender ==
    /\ s_events # << >>
    /\ s_events' = Tail(s_events)
    /\ UNCHANGED <<s_state, s_ctrl, send_seq, send_window, bytes_in_flight,
                   outgoing, out_head, s_pool, receiverVars, s2r, r2s>>

-----------------------------------------------------------------------------
(* Receiving endpoint. *)

\* process_channel_open, process_channel_close.  An OPEN for a channel that
\* exists is answered with a CLOSE.
ReceiveCtrl(p) ==
    LET opens == "OPEN" \in p.frames
        fresh == opens /\ r_state = 0
        closes == "CLOSE" \in p.frames /\ (opens \/ r_state # 0)
        opened == IF fresh THEN EvPush(r_events, "CHAN_OPEN") ELSE r_events
    IN  /\ s2r' \in Deliver(s2r, p)
        /\ r_state' = IF closes THEN 3 ELSE IF fresh THEN 1 ELSE r_state
        /\ r_ctrl' = IF fresh THEN r_ctrl \cup {"WINDOW"}
                     ELSE IF opens THEN r_ctrl \cup {"CLOSE"}
                     ELSE r_ctrl
        /\ r_events' = IF closes THEN EvPush(opened, "CHAN_CLOSE") ELSE opened
        /\ UNCHANGED <<senderVars, dataVars, ackVars, reading, r2s>>

Slot(w) == w % ReorderSlots

\* The reorder buffer holds the message that counter m expects.
Held(m) == reorder[Slot(Wire(m))].valid /\ reorder[Slot(Wire(m))].seq = Wire(m)

\* Mutants of PoolAfter: a held message that cannot be queued keeps its buffer;
\* the reassembly buffer is not returned.
PoolAfterLeakHeld(pool, run, taken, refund) == pool + refund
PoolAfterLeakFrag(pool, run, taken, refund) == pool + Len(run) - Len(taken)

\* The pool after a run of held messages, `taken` of them queued, the others
\* lost: each gives its buffer back, and `refund` reassembly buffers return.
PoolAfter(pool, run, taken, refund) == pool + Len(run) - Len(taken) + refund

\* chan_recv_enqueue of message i, whose number is recv_seq, then
\* chan_deliver_reordered: the run of messages held after it, up to n-1, is
\* moved to the queue.  An enqueue that fails loses its message and the counter
\* moves on.  Each held message keeps its buffer while a second one is borrowed
\* for the queue, so a drained pool loses the first of the run and, its buffer
\* returned, none of the others; a full queue loses all that are left.
DeliverInOrder(i, refund) ==
    \E n \in recv_seq+1..recv_seq+ReorderSlots+1 :
      LET ok == Len(recv_queue) < RecvQueueSlots - 1 /\ r_pool > 0
          first == IF ok THEN <<i>> ELSE << >>
          pool == IF ok THEN r_pool - 1 ELSE r_pool
          run == [k \in 1..n-recv_seq-1 |->
                    reorder[Slot(Wire(recv_seq + k))].msg]
          room == RecvQueueSlots - 1 - Len(recv_queue) - Len(first)
          skip == IF pool = 0 THEN 1 ELSE 0
          taken == SubSeq(run, 1 + skip, Lesser(Len(run), skip + room))
          new == first \o taken
          emptied == {Slot(Wire(m)) : m \in recv_seq+1..n-1}
      IN  /\ \A m \in recv_seq+1..n-1 : Held(m)
          /\ ~Held(n)
          /\ recv_seq' = n
          /\ recv_queue' = recv_queue \o new
          /\ accepted' = accepted \o new
          /\ recv_buffered' = recv_buffered + Bytes({new[k] : k \in DOMAIN new})
          /\ reorder' = [k \in DOMAIN reorder |->
                           IF k \in emptied THEN EmptySlot ELSE reorder[k]]
          /\ r_pool' = PoolAfter(pool, run, taken, refund)
          /\ r_events' = r_events \o
               [k \in 1..Lesser(n - recv_seq, EventQueue - 1 - Len(r_events))
                  |-> "DATA"]

\* Mutant of InReorderWindow: messages behind recv_seq are held as well.
InReorderWindowBehind(diff) == diff < ReorderSlots

\* The reorder buffer has a slot for a message `diff` ahead of recv_seq.
InReorderWindow(diff) == diff > 0 /\ diff < ReorderSlots

\* Message i is ahead of recv_seq, behind it, or beyond the reorder buffer.
HoldOrDiscard(p, refund) ==
    LET diff == SeqDiff(p.seq, Wire(recv_seq))
        hold == /\ InReorderWindow(diff)
                /\ ~reorder[Slot(p.seq)].valid
                /\ r_pool > 0
    IN  /\ reorder' = IF hold
                      THEN [reorder EXCEPT ![Slot(p.seq)] =
                              [valid |-> TRUE, seq |-> p.seq, msg |-> p.msg]]
                      ELSE reorder
        /\ r_pool' = (IF hold THEN r_pool - 1 ELSE r_pool) + refund
        /\ UNCHANGED <<recv_seq, recv_queue, accepted, recv_buffered, r_events>>

\* Mutant of TakeMessage: a message already passed is delivered again.
TakeMessageTwice(p, refund) ==
    IF SeqDiff(p.seq, Wire(recv_seq)) <= 0 THEN DeliverInOrder(p.msg, refund)
                                           ELSE HoldOrDiscard(p, refund)

\* A whole message has arrived; `refund` reassembly buffers are returned.
TakeMessage(p, refund) ==
    IF p.seq = Wire(recv_seq) THEN DeliverInOrder(p.msg, refund)
                              ELSE HoldOrDiscard(p, refund)

Without(f, i) == [j \in DOMAIN f \ {i} |-> f[j]]
With(f, i, v) == [j \in DOMAIN f \cup {i} |-> IF j = i THEN v ELSE f[j]]

\* The fragmented branch of process_data: frag_find, else frag_alloc.
TakeFragment(p) ==
    LET i == p.msg
        found == i \in DOMAIN frags
        usable == found \/ (Cardinality(DOMAIN frags) < FragSlots /\ r_pool > 0)
        have == (IF found THEN frags[i] ELSE {}) \cup {p.frag}
    IN  IF ~usable \/ (found /\ p.frag \in frags[i])
        THEN UNCHANGED <<dataVars, r_events>>
        ELSE IF Cardinality(have) < FragTotal(i)
        THEN /\ frags' = With(frags, i, have)
             /\ r_pool' = IF found THEN r_pool ELSE r_pool - 1
             /\ UNCHANGED <<recv_seq, recv_buffered, recv_queue, reorder,
                            accepted, r_events>>
        ELSE /\ frags' = Without(frags, i)
             /\ TakeMessage(p, 1)

\* Mutant of AckSeq: acknowledges the message expected next.
AckSeqNext(w) == w

\* The acknowledgement number process_data leaves behind.
AckSeq(w) == IF w > 0 THEN w - 1 ELSE 0

\* process_data on a reliable channel.
ReceiveData(p) ==
    /\ TimelyData(p)
    /\ s2r' \in Deliver(s2r, p)
    /\ IF r_state = 0
       THEN UNCHANGED <<dataVars, ackVars, r_events>>
       ELSE /\ IF FragTotal(p.msg) = 1
               THEN TakeMessage(p, 0) /\ UNCHANGED frags
               ELSE TakeFragment(p)
            /\ need_ack' = TRUE
            /\ ack_seq' = AckSeq(Wire(recv_seq'))
            /\ UNCHANGED need_window_update
    /\ UNCHANGED <<senderVars, r_state, r_ctrl, reading, r2s>>

\* netchan_send_next at the receiver: control frames, ACK, WINDOW_UPDATE.
\* The field upto is history: no handler reads it.
SendReceiver ==
    /\ r_ctrl # {} \/ need_ack \/ need_window_update
    /\ r2s' \in Transmit(r2s,
         [frames |-> r_ctrl,
          ack    |-> IF need_ack THEN ack_seq ELSE None,
          upto   |-> recv_seq,
          window |-> IF ~need_window_update THEN None
                     ELSE IF RecvWindow > recv_buffered
                     THEN RecvWindow - recv_buffered ELSE 0])
    /\ r_ctrl' = {} /\ need_ack' = FALSE /\ need_window_update' = FALSE
    /\ UNCHANGED <<senderVars, r_state, dataVars, ack_seq, r_events, reading,
                   s2r>>

\* netchan_chan_close at the receiver.
ChanCloseReceiver ==
    /\ AppCloses
    /\ r_state = 1
    /\ r_state' = 2
    /\ r_ctrl' = r_ctrl \cup {"CLOSE"}
    /\ UNCHANGED <<senderVars, dataVars, ackVars, r_events, reading, s2r, r2s>>

\* Mutant of PollReceiver: the application reads after DATA events only.
PollReceiverDataOnly ==
    /\ r_events # << >>
    /\ r_events' = Tail(r_events)
    /\ reading' = (reading \/ Head(r_events) = "DATA")
    /\ UNCHANGED <<senderVars, r_state, r_ctrl, dataVars, ackVars, s2r, r2s>>

\* netchan_poll by an application that, like pump_events of auth_link.c, reads
\* the channel until it is empty after any event.
PollReceiver ==
    /\ r_events # << >>
    /\ r_events' = Tail(r_events)
    /\ reading' = TRUE
    /\ UNCHANGED <<senderVars, r_state, r_ctrl, dataVars, ackVars, s2r, r2s>>

\* netchan_chan_read into a buffer of NC_MAX_MSG bytes.
ChanRead ==
    /\ reading
    /\ IF recv_queue = << >>
       THEN /\ reading' = FALSE
            /\ UNCHANGED <<recv_queue, r_pool, recv_buffered,
                           need_window_update>>
       ELSE /\ recv_queue' = Tail(recv_queue)
            /\ r_pool' = r_pool + 1
            /\ recv_buffered' = recv_buffered - Size[Head(recv_queue)]
            /\ need_window_update' = TRUE
            /\ UNCHANGED reading
    /\ UNCHANGED <<senderVars, r_state, r_ctrl, recv_seq, reorder, frags,
                   need_ack, ack_seq, r_events, accepted, s2r, r2s>>

-----------------------------------------------------------------------------
ReceiverFeed ==
    \E p \in s2r : \/ p.type = "CTRL" /\ ReceiveCtrl(p)
                   \/ p.type = "DATA" /\ ReceiveData(p)

SenderFeed == \E p \in r2s : ReceiveAtSender(p)

Next ==
    \/ ChanWrite \/ ChanCloseSender \/ SendCtrl \/ SendData \/ Retransmit
    \/ SenderFeed \/ PollSender
    \/ ReceiverFeed \/ SendReceiver \/ ChanCloseReceiver
    \/ PollReceiver \/ ChanRead

Spec == Init /\ [][Next]_vars

-----------------------------------------------------------------------------
(* Properties. *)

Entry == [active : BOOLEAN, sent : BOOLEAN, attempts : 0..MaxAttempts,
          frag_sent : Nat]
CtrlPacket == [type : {"CTRL"}, frames : SUBSET {"OPEN", "CLOSE"}]
DataPacket == [type : {"DATA"}, seq : 0..SeqMod-1, msg : Msgs, frag : Nat]
AckPacket == [frames : SUBSET {"WINDOW", "CLOSE"}, ack : 0..SeqMod-1 \cup {None},
              upto : 0..MaxMsgs, window : Nat \cup {None}]

SenderTypeOK ==
    /\ s_state \in 0..3
    /\ s_ctrl \in SUBSET {"OPEN", "CLOSE"}
    /\ send_seq \in 0..MaxMsgs /\ out_head \in 0..send_seq
    /\ send_seq - out_head < OutgoingSlots
    /\ outgoing \in [out_head..send_seq-1 -> Entry]
    /\ send_window \in Nat /\ bytes_in_flight \in Nat
    /\ s_pool \in 0..PoolBufs
    /\ s_events \in Seq({"CHAN_CLOSE"}) /\ Len(s_events) < EventQueue

ReceiverTypeOK ==
    /\ r_state \in 0..3
    /\ r_ctrl \in SUBSET {"WINDOW", "CLOSE"}
    /\ recv_seq \in 0..MaxMsgs /\ recv_buffered \in Nat
    /\ recv_queue \in Seq(Msgs) /\ Len(recv_queue) < RecvQueueSlots
    /\ reorder \in [0..ReorderSlots-1 ->
                      [valid : BOOLEAN, seq : 0..SeqMod-1, msg : Nat]]
    /\ DOMAIN frags \subseteq Msgs
    /\ \A i \in DOMAIN frags : frags[i] \subseteq 0..FragTotal(i)-1
    /\ Cardinality(DOMAIN frags) <= FragSlots
    /\ need_ack \in BOOLEAN /\ need_window_update \in BOOLEAN
    /\ ack_seq \in 0..SeqMod-1
    /\ r_pool \in 0..PoolBufs
    /\ r_events \in Seq({"CHAN_OPEN", "CHAN_CLOSE", "DATA"})
    /\ Len(r_events) < EventQueue
    /\ reading \in BOOLEAN
    /\ accepted \in Seq(Msgs)

NetTypeOK ==
    /\ s2r \subseteq CtrlPacket \cup DataPacket
    /\ r2s \subseteq AckPacket

\* The fields keep their types: counters stay in range, neither ring is ever
\* over-full, and no accounting field wraps below zero.
TypeOK == SenderTypeOK /\ ReceiverTypeOK /\ NetTypeOK

\* No buffer is leaked or returned twice: each of an endpoint's buffers is free
\* or held by exactly one slot, on every path of process_data, process_ack and
\* netchan_chan_read, the failing ones included.
PoolConserved ==
    /\ s_pool + Cardinality(Active) = PoolBufs
    /\ r_pool + Len(recv_queue) + Cardinality(DOMAIN frags)
         + Cardinality({k \in DOMAIN reorder : reorder[k].valid}) = PoolBufs

\* The flow-control counters equal what they count, so neither unsigned field
\* wraps: bytes_in_flight the unacknowledged messages, recv_buffered the
\* unread ones.
AccountingExact ==
    /\ bytes_in_flight = Bytes(Active)
    /\ recv_buffered = Bytes({recv_queue[k] : k \in DOMAIN recv_queue})

\* process_ack leaves no hole: the ring from out_head to out_tail holds
\* unacknowledged messages only, so out_head passes every freed slot.
NoHoles == Active = out_head..send_seq-1

\* Whatever the network does, the messages handed to the application are in the
\* order they were written and none is handed over twice.
AcceptedInOrder ==
    /\ \A j, k \in DOMAIN accepted : j < k => accepted[j] < accepted[k]
    /\ \A k \in DOMAIN accepted : accepted[k] < recv_seq

\* A message the sender has dropped from its ring was passed by the receiver.
\* The exception is the ACK of a receiver whose 16-bit counter is zero: it names
\* sequence number 0, which is the message still expected.
FreedWasReceived ==
    \A i \in 0..send_seq-1 :
      i \notin Active => i < recv_seq \/ (i = recv_seq /\ Wire(i) = 0)

\* Every held message is one the receiver still waits for, in the slot of its
\* number, within one buffer length of recv_seq: two messages in the window
\* never compete for a slot, so no retransmission is refused for want of one.
ReorderConsistent ==
    \A k \in DOMAIN reorder : reorder[k].valid =>
      /\ reorder[k].seq = Wire(reorder[k].msg)
      /\ k = Slot(reorder[k].seq)
      /\ reorder[k].msg \in recv_seq+1..Lesser(send_seq, recv_seq+ReorderSlots)-1

\* An unread message is never stranded: an application that empties the channel
\* after every event has an event to come or is still reading, although ev_push
\* drops events when its ring is full.
NeverStranded ==
    recv_queue # << >> => reading \/ r_events # << >>

-----------------------------------------------------------------------------
(* The inductive invariant: how the two ends and the datagrams in flight are *)
(* tied together.                                                            *)

\* A control frame is queued only while no DATA may be sent, and until the OPEN
\* has been sent nothing has happened at the receiver.
Unopened ==
    /\ "CLOSE" \in s_ctrl => s_state \in {2, 3}
    /\ "OPEN" \in s_ctrl =>
         /\ s_state # 1 /\ r_state = 0
         /\ s2r = {} /\ r2s = {} /\ r_ctrl = {} /\ r_events = << >>
         /\ ~need_ack /\ ~need_window_update /\ ~reading

\* A DATA frame in flight carries a written message under its own number.
DataInFlight ==
    \A p \in s2r : p.type = "DATA" =>
      p.seq = Wire(p.msg) /\ p.msg < send_seq /\ p.frag < FragTotal(p.msg)

\* An ACK, owed or in flight, was computed from a value recv_seq has had.
AckInFlight ==
    /\ ack_seq = AckSeq(Wire(recv_seq))
    /\ \A p \in r2s : /\ p.upto <= recv_seq
                      /\ p.ack # None => p.ack = AckSeq(Wire(p.upto))

\* The receiver is not ahead of the sender, and the sender's ring starts at or
\* before the message expected, or just after it when the ACK of zero was sent.
HeadFollowsReceiver ==
    /\ recv_seq <= send_seq
    /\ out_head <= recv_seq \/ (out_head = recv_seq + 1 /\ Wire(recv_seq) = 0)

\* The unread messages are in order, without repetition.
QueueInOrder ==
    /\ \A j, k \in DOMAIN recv_queue : j < k => recv_queue[j] < recv_queue[k]
    /\ \A k \in DOMAIN recv_queue : recv_queue[k] < recv_seq

IInv ==
    /\ TypeOK /\ Unopened
    /\ NoHoles /\ DataInFlight /\ AckInFlight /\ HeadFollowsReceiver
    /\ ReorderConsistent /\ AcceptedInOrder /\ QueueInOrder /\ NeverStranded
    /\ PoolConserved /\ AccountingExact

-----------------------------------------------------------------------------
Fifo == INSTANCE NcFifo WITH written <- send_seq, passed <- recv_seq,
                             delivered <- accepted

\* The protocol implements the ordered, at-most-once channel of NcFifo: each
\* step writes a message, passes a run of written ones, or is invisible.
ImplementsFifo == Fifo!FifoSpec

\* netchan.c is driven by an event loop that feeds every datagram, flushes
\* netchan_send_next until it returns 0 and calls netchan_service on a timer;
\* the application polls and reads after each.  It is not obliged to write.
Fairness ==
    /\ WF_vars(SendCtrl) /\ WF_vars(SendData) /\ WF_vars(Retransmit)
    /\ WF_vars(SenderFeed) /\ WF_vars(ReceiverFeed) /\ WF_vars(SendReceiver)
    /\ WF_vars(PollReceiver) /\ WF_vars(ChanRead) /\ WF_vars(PollSender)

FairSpec == Spec /\ Fairness


-----------------------------------------------------------------------------
(* What the documentation says of the channel. *)

\* An ACK frame confirms delivery: the sender drops only messages that the
\* receiver has passed.
AckConfirmsDelivery ==
    \A i \in 0..send_seq-1 : i \notin Active => i < recv_seq

\* Delivery is reliable: every message the receiver has passed was handed over.
NoGap == accepted = [k \in 1..recv_seq |-> k - 1]

\* Flow control keeps what waits to be read within the advertised window.
WindowRespected == recv_buffered <= RecvWindow
============================================================================
