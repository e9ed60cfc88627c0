---------------------------- MODULE MCChannel ----------------------------
(* Instances of NcChannel for TLC. *)
EXTENDS NcChannel

\* Every message fits one packet.
UnitSizes == [i \in 0..MaxMsgs-1 |-> 1]

\* Every message is cut into two fragments.
DoubleSizes == [i \in 0..MaxMsgs-1 |-> 2]

\* A quiescent open channel one message before the 16-bit counters wrap: all
\* earlier messages have been delivered, acknowledged and read, and the last
\* window update has restored the full window.
NearWrap ==
    LET n == SeqMod - 1
    IN  /\ s_state = 1 /\ s_ctrl = {}
        /\ send_seq = n /\ send_window = RecvWindow /\ bytes_in_flight = 0
        /\ outgoing = [i \in {} |-> None] /\ out_head = n
        /\ s_pool = PoolBufs /\ s_events = << >>
        /\ r_state = 1 /\ r_ctrl = {}
        /\ recv_seq = n /\ recv_buffered = 0 /\ recv_queue = << >>
        /\ reorder = [k \in 0..ReorderSlots-1 |-> EmptySlot]
        /\ frags = [i \in {} |-> {}]
        /\ need_ack = FALSE /\ ack_seq = n - 1 /\ need_window_update = FALSE
        /\ r_pool = PoolBufs /\ r_events = << >> /\ reading = FALSE
        /\ s2r = {} /\ r2s = {}
        /\ accepted = [k \in 1..n |-> k - 1]

WrapSpec == NearWrap /\ [][Next]_vars
==========================================================================
