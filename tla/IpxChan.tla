------------------------------- MODULE IpxChan -------------------------------
(***************************************************************************)
(* netchan for DOS (netchan-ipx/demo/netchan.c): one connection, one send  *)
(* window shared by its reliable channels, Go-Back-N with a cumulative ack *)
(* in every DATA packet.  A connection is a record and an API call is an   *)
(* operator on it.  The clock is abstracted: nc_service is told which of   *)
(* the deadlines have passed (due), so every timing of the timers is       *)
(* covered; whether the retransmit timer is armed (tx_timer # 0) is kept.  *)
(***************************************************************************)
EXTENDS Integers, Sequences, FiniteSetsExt, SequencesExt

CONSTANTS
    Window,         \* NC_WINDOW, which is also NC_RECVQ
    UnrelQ,         \* NC_UNREL_TXQ
    EventQ,         \* NC_EVENTQ
    Modulus,         \* 2^16 in the code: sequence numbers wrap here
    ConnectRetries, \* CONNECT_RETRIES
    Attempts        \* RT_ATTEMPTS

Rel == 0
Unr == 1
NoAddr == 0

\* Bytes of a game message: a map chunk nearly fills a packet.
Bytes == [GM_WELCOME |-> 2, GM_MAP |-> 517, GM_MAPEND |-> 1, GM_CHAT |-> 8,
          GM_INPUT |-> 2, GM_STATE |-> 153]
Room == 546 - 8
RecordLen(m) == 6 + Bytes[m.kind]

\* seq_after: RFC 1982 comparison of two wrapped sequence numbers.
Ahead(a, b) == (a - b + Modulus) % Modulus
SeqAfter(a, b) == Ahead(a, b) \in 1 .. (Modulus \div 2 - 1)
Plus(a, n) == (a + n) % Modulus

\* nc_open, and the two channels every user of the library here opens.
Open(isServer, id) ==
    [server |-> isServer, state |-> "CLOSED", local |-> id, remote |-> 0, peer |-> NoAddr,
     syn |-> FALSE, synack |-> FALSE, ack |-> FALSE, tries |-> 0,
     txw |-> [i \in 0 .. Window - 1 |-> <<>>], base |-> 0, next |-> 0, unsent |-> 0,
     timer |-> FALSE, resends |-> 0, rxnext |-> 0, ackPending |-> FALSE,
     txu |-> <<>>, rxq |-> [ch \in {Rel, Unr} |-> <<>>], evq |-> <<>>,
     mute |-> FALSE, switched |-> FALSE]

\* ev_push: best effort.  Ghosts: mute when the end of a connection was dropped, and
\* switched (in FeedSynAck) when a connected client takes another connection as its peer.
EvPush(c, e) ==
    IF Len(c.evq) >= EventQ THEN [c EXCEPT !.mute = c.mute \/ e = "DISCONNECTED"]
                            ELSE [c EXCEPT !.evq = Append(@, e)]

Connect(c, addr) ==
    [c EXCEPT !.peer = addr, !.state = "CONNECTING", !.syn = TRUE, !.tries = 0]

Closed(c) == EvPush([c EXCEPT !.state = "CLOSED"], "DISCONNECTED")
Established(c) == EvPush([c EXCEPT !.state = "CONNECTED"], "CONNECTED")

\* nc_write: the connection after the call and the code it returns.
Write(c, ch, m) ==
    IF c.state # "CONNECTED" THEN [c |-> c, r |-> "CLOSED"]
    ELSE IF ch = Rel
    THEN IF Ahead(c.next, c.base) >= Window THEN [c |-> c, r |-> "AGAIN"]
         ELSE [c |-> [c EXCEPT !.txw[c.next % Window] = [seq |-> c.next, chan |-> ch, msg |-> m],
                               !.next = Plus(@, 1)],
               r |-> "OK"]
    ELSE LET kept == IF Len(c.txu) >= UnrelQ THEN Tail(c.txu) ELSE c.txu
         IN  [c |-> [c EXCEPT !.txu = Append(kept, [chan |-> ch, msg |-> m])], r |-> "OK"]

\* process_ack: the ack frees every message before it, never past tx_next.
ProcessAck(c, ack) ==
    LET freed  == IF SeqAfter(ack, c.base) THEN Min({Ahead(ack, c.base), Ahead(c.next, c.base)})
                                           ELSE 0
        base   == Plus(c.base, freed)
        d == [c EXCEPT !.base = base, !.unsent = IF SeqAfter(base, @) THEN base ELSE @]
    IN  IF freed = 0 THEN d ELSE [d EXCEPT !.resends = 0, !.timer = base # c.next]

Queue(c, r) ==
    EvPush(IF Len(c.rxq[r.chan]) >= Window THEN c ELSE [c EXCEPT !.rxq[r.chan] = Append(@, r.msg)],
           "DATA")

\* A receive path that takes any record at or after the expected one.
DeliverAhead(c, r) ==
    IF ~r.rel THEN Queue(c, r)
    ELSE IF SeqAfter(c.rxnext, r.seq) \/ Len(c.rxq[r.chan]) >= Window
    THEN [c EXCEPT !.ackPending = TRUE]
    ELSE [Queue(c, r) EXCEPT !.rxnext = Plus(r.seq, 1), !.ackPending = TRUE]

\* deliver: the next reliable record is queued if there is room, every other is dropped.
Deliver(c, r) ==
    IF ~r.rel THEN Queue(c, r)
    ELSE IF r.seq # c.rxnext \/ Len(c.rxq[r.chan]) >= Window THEN [c EXCEPT !.ackPending = TRUE]
    ELSE [Queue(c, r) EXCEPT !.rxnext = Plus(@, 1), !.ackPending = TRUE]

FeedSyn(c, p, from) ==
    LET heard == IF c.state # "CLOSED" THEN c
                 ELSE [c EXCEPT !.peer = from, !.remote = p.from, !.state = "CONNECTING", !.tries = 0]
    IN  IF c.server /\ heard.state = "CONNECTING" THEN [heard EXCEPT !.synack = TRUE]
        ELSE IF c.server THEN heard ELSE c

FeedSynAck(c, p, from) ==
    LET d == [c EXCEPT !.peer = from, !.remote = p.from, !.ack = TRUE,
                       !.switched = @ \/ c.remote \notin {0, p.from}]
    IN  IF c.server \/ p.id # c.local THEN c
        ELSE IF c.state = "CONNECTING" THEN Established(d) ELSE d

FeedAck(c, p) ==
    IF c.server /\ p.id = c.local /\ c.state = "CONNECTING" THEN Established(c) ELSE c

FeedData(c, p) ==
    LET up == IF c.server /\ c.state = "CONNECTING" THEN Established(c) ELSE c
    IN  IF p.id # c.local THEN c
        ELSE IF up.state # "CONNECTED" THEN up
        ELSE FoldLeft(Deliver, ProcessAck(up, p.ack), p.recs)

FeedFin(c, p) == IF p.id = c.local /\ c.state # "CLOSED" THEN Closed(c) ELSE c

\* nc_feed (last_recv is part of the clock).
Feed(c, p, from) ==
    CASE p.type = "SYN"    -> FeedSyn(c, p, from)
      [] p.type = "SYNACK" -> FeedSynAck(c, p, from)
      [] p.type = "ACK"    -> FeedAck(c, p)
      [] p.type = "DATA"   -> FeedData(c, p)
      [] p.type = "FIN"    -> FeedFin(c, p)

\* How many of the messages ms, in order, fit in room bytes.
Fitting(ms, room) ==
    Max({k \in 0 .. Len(ms) : FoldLeft(LAMBDA n, m : n + RecordLen(m.msg), 0, SubSeq(ms, 1, k)) <= room})

Control(c, type, id) == [to |-> c.peer, type |-> type, id |-> id, from |-> c.local,
                         ack |-> 0, recs |-> <<>>]

\* The DATA packet of nc_send_next: unsent reliable records, then unreliable ones.
SendData(c) ==
    LET waiting == [i \in 1 .. Ahead(c.next, c.unsent) |-> c.txw[Plus(c.unsent, i - 1) % Window]]
        n    == Fitting(waiting, Room)
        rels == [i \in 1 .. n |-> [chan |-> waiting[i].chan, rel |-> TRUE, seq |-> waiting[i].seq,
                                   msg |-> waiting[i].msg]]
        used == FoldLeft(LAMBDA k, m : k + RecordLen(m.msg), 0, SubSeq(waiting, 1, n))
        k    == Fitting(c.txu, Room - used)
        unrs == [i \in 1 .. k |-> [chan |-> c.txu[i].chan, rel |-> FALSE, seq |-> 0,
                                   msg |-> c.txu[i].msg]]
    IN  [c |-> [c EXCEPT !.unsent = Plus(@, n), !.timer = @ \/ c.base # c.next,
                         !.txu = SubSeq(@, k + 1, Len(@)), !.ackPending = FALSE],
         p |-> {[to |-> c.peer, type |-> "DATA", id |-> c.remote, from |-> c.local,
                 ack |-> c.rxnext, recs |-> rels \o unrs]}]

\* nc_send_next: the packet, if any, and the connection afterwards.
SendNext(c) ==
    IF c.synack THEN [c |-> [c EXCEPT !.synack = FALSE], p |-> {Control(c, "SYNACK", c.remote)}]
    ELSE IF c.ack THEN [c |-> [c EXCEPT !.ack = FALSE], p |-> {Control(c, "ACK", c.remote)}]
    ELSE IF c.syn THEN [c |-> [c EXCEPT !.syn = FALSE], p |-> {Control(c, "SYN", 0)}]
    ELSE IF c.state # "CONNECTED" \/ (c.unsent = c.next /\ c.txu = <<>> /\ ~c.ackPending)
    THEN [c |-> c, p |-> {}]
    ELSE SendData(c)

\* The connecting half of nc_service.
ServiceConnecting(c) ==
    IF c.tries + 1 > ConnectRetries THEN Closed([c EXCEPT !.tries = @ + 1])
    ELSE [c EXCEPT !.tries = @ + 1, !.synack = @ \/ c.server, !.syn = @ \/ ~c.server]

\* The connected half: idle, then retransmission of the window, then keepalive.
ServiceConnected(c, due) ==
    LET resend == "resend" \in due /\ c.base # c.next /\ c.timer
        d == IF resend THEN [c EXCEPT !.resends = @ + 1, !.unsent = c.base] ELSE c
    IN  IF "idle" \in due THEN Closed(c)
        ELSE IF resend /\ c.resends + 1 > Attempts THEN Closed([c EXCEPT !.resends = @ + 1])
        ELSE IF "keepalive" \in due THEN [d EXCEPT !.ackPending = TRUE] ELSE d

\* nc_service, at a moment when the deadlines in due have passed.
Service(c, due) ==
    IF c.state = "CONNECTING" THEN IF "connect" \in due THEN ServiceConnecting(c) ELSE c
    ELSE IF c.state = "CONNECTED" THEN ServiceConnected(c, due)
    ELSE c
=============================================================================
