------------------------------- MODULE NcConn -------------------------------
(***************************************************************************)
(* One end of a netchan connection as a value: the fields of struct        *)
(* netchan_conn that the handshake, keepalive, idle timeout, migration and *)
(* channel table use, and one operator per function of netchan.c that      *)
(* changes them.  NcConnection and AuthSession build state machines from   *)
(* these operators.                                                        *)
(*                                                                         *)
(* Control frames are records [f, v]: the frame type and its one argument  *)
(* (a connection id, a PING's nonce or a channel id).  A packet carries    *)
(* whole frames: NC_CTRL_BUF_SIZE is smaller than the default MTU, so      *)
(* netchan_send_next never cuts the control buffer in two.                 *)
(***************************************************************************)
EXTENDS Integers, Sequences, FiniteSets

CONSTANTS
    EventSlots,      \* NC_EVENT_QUEUE - 1: events the ring holds
    CtrlSlots,       \* control frames ctrl_buf holds
    ConnectRetries,  \* NC_CONNECT_RETRIES
    MaxChan,         \* NC_MAX_CHAN: channels ever opened on a connection
    IdSpace          \* channel ids are uint8_t: 256 in the code

ASSUME ConnSizes ==
    /\ {EventSlots, CtrlSlots, MaxChan} \subseteq Nat
    /\ IdSpace \in Nat /\ IdSpace > 1 /\ IdSpace % 2 = 0

States == {"NEW", "CONNECTING", "CONNECTED", "CLOSED"}

\* No address and no id: nc_addr.len = 0, and the id nc_random_id never returns.
None == 0

Frame(f, v) == [f |-> f, v |-> v]

\* Mutant: client and server number their channels from the same id.
OpenSameParity(server) ==
    [server |-> server, state |-> "NEW", local_id |-> None, remote_id |-> None,
     peer |-> None, next_chan_id |-> 0, chans |-> {},
     ctrl |-> <<>>, events |-> <<>>, attempts |-> 0, connect_sent |-> 0,
     last_recv |-> 0, last_send |-> 0, ping_sent |-> 0, ping_opaque |-> 0]

\* netchan_open.
Open(server) ==
    [server |-> server, state |-> "NEW", local_id |-> None, remote_id |-> None,
     peer |-> None, next_chan_id |-> IF server THEN 1 ELSE 0, chans |-> {},
     ctrl |-> <<>>, events |-> <<>>, attempts |-> 0, connect_sent |-> 0,
     last_recv |-> 0, last_send |-> 0, ping_sent |-> 0, ping_opaque |-> 0]

\* ev_push: an event that finds the ring full is dropped.
Push(c, e) ==
    IF Len(c.events) < EventSlots THEN [c EXCEPT !.events = Append(@, e)] ELSE c

\* ctrl_reserve and the ctrl_* encoders: a frame that does not fit is dropped.
Queue(c, f, v) ==
    IF Len(c.ctrl) < CtrlSlots THEN [c EXCEPT !.ctrl = Append(@, Frame(f, v))] ELSE c

\* netchan_poll until it returns 0.
Drained(c) == [c EXCEPT !.events = <<>>]

-----------------------------------------------------------------------------
(* Connection lifecycle. *)

\* netchan_connect: refused unless the client is NEW.
Connect(c, addr, id, now) ==
    IF c.server \/ c.state # "NEW" THEN c
    ELSE Queue([c EXCEPT !.local_id = id, !.peer = addr, !.state = "CONNECTING",
                         !.connect_sent = now, !.attempts = 1], "init", id)

\* netchan_accept: refused unless the server is CONNECTING.
Accept(c) ==
    IF ~c.server \/ c.state # "CONNECTING" THEN c
    ELSE Push([Queue(c, "accept", c.local_id) EXCEPT !.state = "CONNECTED"], "CONNECTED")

-----------------------------------------------------------------------------
(* Channels: the table of struct netchan_chan.  An entry is never removed   *)
(* while the connection lives.                                              *)

Known(c, id) == \E ch \in c.chans : ch.id = id
Chan(c, id) == CHOOSE ch \in c.chans : ch.id = id
\* Mutant: a change takes a second entry instead of the one it is for.
UpdateAdds(c, ch) == [c EXCEPT !.chans = @ \union {ch}]
Update(c, ch) == [c EXCEPT !.chans = {x \in @ : x.id # ch.id} \union {ch}]

\* chan_new: "opening", unless the pool of channels is used up.
Room(c) == Cardinality(c.chans) < MaxChan
NewChan(id, role, state) == [id |-> id, role |-> role, state |-> state, out |-> 0]

\* netchan_chan_open with NETCHAN_DIR_SEND: NULL unless connected, the next id
\* free and the pool not used up; the id advances before the pool is tried.
CanOpen(c) == c.state = "CONNECTED" /\ ~Known(c, c.next_chan_id)
ChanOpen(c) ==
    LET id   == c.next_chan_id
        next == [c EXCEPT !.next_chan_id = (id + 2) % IdSpace]
    IN IF ~CanOpen(c) THEN c
       ELSE IF ~Room(c) THEN next
       ELSE Queue(Update(next, NewChan(id, "send", "opening")), "open", id)

\* netchan_chan_close: announced once, by the side that closes.
ChanClose(c, id) ==
    IF Chan(c, id).state \in {"closing", "closed"} THEN c
    ELSE Queue(Update(c, [Chan(c, id) EXCEPT !.state = "closing"]), "close", id)

\* netchan_chan_write on an unreliable channel; sent once and forgotten.
ChanWrite(c, id) ==
    IF Chan(c, id).state = "closed" \/ Chan(c, id).role # "send" THEN c
    ELSE Update(c, [Chan(c, id) EXCEPT !.out = @ + 1])

-----------------------------------------------------------------------------
(* process_*: each returns [c, ok]; ok = FALSE is NETCHAN_ERR_PROTO, after  *)
(* which parse_frames drops the rest of the packet.                         *)

Ok(c) == [c |-> c, ok |-> TRUE]
Proto(c) == [c |-> c, ok |-> FALSE]

\* process_connect_init: the peer's id is taken in every state, the state
\* changes in NEW only, and no answer is queued here.
ConnectInit(c, v, fresh) ==
    IF ~c.server THEN Proto(c)
    ELSE IF c.state = "NEW"
    THEN Ok([c EXCEPT !.remote_id = v, !.local_id = fresh, !.state = "CONNECTING"])
    ELSE Ok([c EXCEPT !.remote_id = v])

\* process_connect_accept: from any state of a client.
ConnectAccept(c, v) ==
    IF c.server THEN Proto(c)
    ELSE Ok(Push([c EXCEPT !.remote_id = v, !.state = "CONNECTED"], "CONNECTED"))

\* process_connect_redirect: an event for the application, nothing else.
ConnectRedirect(c) == Ok(Push(c, "REDIRECT"))

\* process_disconnect: from any state.
Disconnect(c) == Ok(Push([c EXCEPT !.state = "CLOSED"], "DISCONNECTED"))

Ping(c, v) == Ok(Queue(c, "pong", v))

\* Mutant: the outstanding PING is never cleared.
PongIgnored(c, v) == Ok(c)

\* process_pong: only the answer to the outstanding PING counts.
Pong(c, v) ==
    Ok(IF v = c.ping_opaque /\ c.ping_sent # 0 THEN [c EXCEPT !.ping_sent = 0] ELSE c)

\* process_channel_open, for a sender at the far end: refused with a
\* CHANNEL_CLOSE if the id is taken or the pool is used up.
ChannelOpen(c, v) ==
    IF Known(c, v) \/ ~Room(c) THEN Ok(Queue(c, "close", v))
    ELSE Ok(Push(Queue(Update(c, NewChan(v, "recv", "open")), "win", v), "CHAN_OPEN"))

ChannelClose(c, v) ==
    IF ~Known(c, v) THEN Ok(c)
    ELSE Ok(Push(Update(c, [Chan(c, v) EXCEPT !.state = "closed"]), "CHAN_CLOSE"))

\* process_data on an unreliable channel, for a message of one fragment.
Data(c, v) ==
    IF ~Known(c, v) THEN Ok(c)
    ELSE IF Chan(c, v).role # "recv" THEN Ok(c)
    ELSE Ok(Push(c, "DATA"))

\* process_window_update: the first one opens the sender's channel.
WindowUpdate(c, v) ==
    IF ~Known(c, v) THEN Ok(c)
    ELSE IF Chan(c, v).role # "send" \/ Chan(c, v).state # "opening" THEN Ok(c)
    ELSE Ok(Update(c, [Chan(c, v) EXCEPT !.state = "open"]))

ProcessFrame(c, fr, fresh) ==
    CASE fr.f = "init"     -> ConnectInit(c, fr.v, fresh)
      [] fr.f = "accept"   -> ConnectAccept(c, fr.v)
      [] fr.f = "redirect" -> ConnectRedirect(c)
      [] fr.f = "disc"     -> Disconnect(c)
      [] fr.f = "ping"     -> Ping(c, fr.v)
      [] fr.f = "pong"     -> Pong(c, fr.v)
      [] fr.f = "open"     -> ChannelOpen(c, fr.v)
      [] fr.f = "close"    -> ChannelClose(c, fr.v)
      [] fr.f = "data"     -> Data(c, fr.v)
      [] fr.f = "win"      -> WindowUpdate(c, fr.v)

\* parse_frames: in order, up to the first protocol error.  r[n] is the result
\* after n frames.
ParseNext(r, fr, fresh) == IF r.ok THEN ProcessFrame(r.c, fr, fresh) ELSE r
ParseFrames(c, frames, fresh) ==
    LET r[n \in 0 .. Len(frames)] ==
            IF n = 0 THEN Ok(c) ELSE ParseNext(r[n - 1], frames[n], fresh)
    IN r[Len(frames)].c

\* validate_migration: the first frame only, a DATA frame of a known channel.
ValidateMigration(c, frames) ==
    /\ frames # <<>>
    /\ Head(frames).f = "data"
    /\ Known(c, Head(frames).v)

Migrated(c, pkt) ==
    IF c.peer # None /\ c.state = "CONNECTED" /\ pkt.from # c.peer
       /\ ValidateMigration(c, pkt.frames)
    THEN [c EXCEPT !.peer = pkt.from] ELSE c

FirstPeer(c, from) == IF c.peer = None THEN [c EXCEPT !.peer = from] ELSE c

\* Mutant: the connection id of a packet is not compared.
FeedAnyId(c, pkt, now, fresh) ==
    ParseFrames([FirstPeer(Migrated(c, pkt), pkt.from) EXCEPT !.last_recv = now],
                pkt.frames, fresh)

\* netchan_feed: a packet for another connection id changes nothing.
Feed(c, pkt, now, fresh) ==
    IF ~pkt.init /\ pkt.id # c.local_id THEN c
    ELSE ParseFrames([FirstPeer(Migrated(c, pkt), pkt.from) EXCEPT !.last_recv = now],
                     pkt.frames, fresh)

-----------------------------------------------------------------------------
(* Sending. *)

Sendable(c) == {ch \in c.chans : ch.role = "send" /\ ch.state = "open" /\ ch.out > 0}
HasData(c) == c.ctrl # <<>> \/ Sendable(c) # {}

\* netchan_send_next: the control frames, then one DATA frame per channel that
\* has something to send, under the client's id during the handshake and under
\* the peer's id afterwards.  The channels are visited by id: q[n] is what the
\* first n of them add.
DataFrames(c) ==
    LET q[n \in 0 .. IdSpace] ==
            IF n = 0 THEN <<>>
            ELSE IF \E ch \in Sendable(c) : ch.id = n - 1
            THEN Append(q[n - 1], Frame("data", n - 1))
            ELSE q[n - 1]
    IN q[IdSpace]
Packet(c, from) ==
    LET init == c.state = "CONNECTING" /\ ~c.server
    IN [init |-> init, id |-> IF init THEN c.local_id ELSE c.remote_id,
        from |-> from, to |-> c.peer, frames |-> c.ctrl \o DataFrames(c)]
AfterSend(c, now) ==
    [c EXCEPT !.ctrl = <<>>, !.last_send = now,
              !.chans = {IF ch \in Sendable(c) THEN [ch EXCEPT !.out = @ - 1] ELSE ch :
                         ch \in @}]

-----------------------------------------------------------------------------
(* netchan_service.  due is the set of timers that have run out: "retry",   *)
(* "idle" and "ping"; nonce is the random word of a new PING.  The three    *)
(* parts run one after the other; giving up and the idle timeout return     *)
(* before the keepalive.                                                    *)

GiveUp(c) == Push([c EXCEPT !.state = "CLOSED"], "DISCONNECTED")

Keepalive(c, due, now, nonce) ==
    IF c.state = "CONNECTED" /\ c.last_send > 0 /\ "ping" \in due /\ c.ping_sent = 0
    THEN [Queue(c, "ping", nonce) EXCEPT !.ping_opaque = nonce, !.ping_sent = now]
    ELSE c


Service(c, due, now, nonce) ==
    IF c.state = "CONNECTING" /\ ~c.server /\ "retry" \in due
    THEN IF c.attempts >= ConnectRetries THEN GiveUp(c)
         ELSE [Queue(c, "init", c.local_id) EXCEPT !.connect_sent = now,
                                                   !.attempts = @ + 1]
    ELSE IF c.state = "CONNECTED" /\ c.last_recv > 0 /\ "idle" \in due THEN GiveUp(c)
    ELSE Keepalive(c, due, now, nonce)
=============================================================================
