---------------------------- MODULE NcConnection ----------------------------
(***************************************************************************)
(* A netchan client and a netchan server on a network that loses,          *)
(* duplicates and reorders datagrams, with the 32-bit millisecond clock    *)
(* that both use for retries, keepalive and the idle timeout.  The         *)
(* application at each end is the event loop of the demos: after every     *)
(* datagram and every timer it drains the events and sends all there is.   *)
(*                                                                         *)
(* The clock is kept modulo ClockMod as the code keeps it modulo 2^32, so  *)
(* runs pass through the wrap and through the value 0, which the code also *)
(* uses for "never" in last_recv_ms, last_send_ms and ping_sent_ms.        *)
(***************************************************************************)
EXTENDS NcConn

CONSTANTS
    ClockMod,   \* 2^32 in the code
    RetryAge,   \* NC_CONNECT_RETRY_MS
    PingAge,    \* NC_PING_INTERVAL_MS
    IdleAge,    \* cfg.idle_timeout_ms
    MaxFaults,  \* datagrams lost, delivered twice or in flight over a clock step,
                \* restarts of either end and moves of the client
    MaxOut,     \* messages waiting on a channel
    MaxOps      \* channel operations of the two applications

ASSUME ClockAssumption == ClockMod \in Nat \ {0}

VARIABLES
    conn,      \* the connection object of each end
    net,       \* datagrams in flight
    now,       \* nc_now_ms
    caddr,     \* the client's current address
    life,      \* connections each end has opened so far
    lost,      \* datagrams lost so far
    dups,      \* datagrams delivered twice so far
    ops,       \* channel operations so far
    breaks,    \* restarts and moves so far
    late,      \* clock steps that passed over datagrams in flight
    accepted   \* history: pairs <<client id, server id>> netchan_accept agreed to

vars == <<conn, net, now, caddr, life, lost, dups, late, ops, breaks, accepted>>

Ends == {"c", "s"}
Other(e) == IF e = "c" THEN "s" ELSE "c"
ServerAddr == 1
FirstClientAddr == 2
AddrOf(e) == IF e = "s" THEN ServerAddr ELSE caddr

\* nc_random_id: distinct for every connection object of either end.
FreshId(e) == IF e = "c" THEN 2 * life["c"] - 1 ELSE 2 * life["s"]

\* Whether the network, or what is around the connection, may still misbehave.
Faulty == lost + dups + late + breaks < MaxFaults

Age(t) == (now - t) % ClockMod

\* The timers of netchan_service that have run out.
Expired(c, t) ==
    CASE t = "retry" -> Age(c.connect_sent) >= RetryAge
      [] t = "idle"  -> Age(c.last_recv) >= IdleAge
      [] t = "ping"  -> Age(c.last_send) >= PingAge
Due(c) == {t \in {"retry", "idle", "ping"} : Expired(c, t)}

Init ==
    /\ conn = [e \in Ends |-> Open(e = "s")]
    /\ net = {}
    /\ now \in 0 .. ClockMod - 1
    /\ caddr = FirstClientAddr
    /\ life = [e \in Ends |-> 1]
    /\ lost = 0
    /\ dups = 0
    /\ late = 0
    /\ ops = 0
    /\ breaks = 0
    /\ accepted = {}

-----------------------------------------------------------------------------
(* The event loop: each handler ends by draining the events and sending      *)
(* until netchan_send_next has nothing left.  MaxOut = 1 makes that one      *)
(* packet.  Without a peer address the packet goes nowhere.                  *)

Settle(e, c, rest) ==
    IF HasData(c)
    THEN /\ conn' = [conn EXCEPT ![e] = Drained(AfterSend(c, now))]
         /\ net' = rest \union (IF c.peer = None THEN {} ELSE {Packet(c, AddrOf(e))})
    ELSE /\ conn' = [conn EXCEPT ![e] = Drained(c)]
         /\ net' = rest

ClientConnect ==
    /\ conn["c"].state = "NEW"
    /\ Settle("c", Connect(conn["c"], ServerAddr, FreshId("c"), now), net)
    /\ UNCHANGED <<now, caddr, life, lost, dups, late, ops, breaks, accepted>>

\* A datagram reaches the end it is addressed to.  The server accepts at once.
\* keep is the copy a duplicating network holds back.
Answer(e, fed, c, rest) ==
    /\ Settle(e, c, rest)
    /\ accepted' = IF fed # c THEN accepted \union {<<c.remote_id, c.local_id>>} ELSE accepted
Fed(e, c, rest) == Answer(e, c, Accept(c), rest)
Receive(e, p, keep) == Fed(e, Feed(conn[e], p, now, FreshId(e)), (net \ {p}) \union keep)

Deliver(e) ==
    \E p \in net :
        /\ p.to = AddrOf(e)
        /\ \/ Receive(e, p, {}) /\ UNCHANGED dups
           \/ Faulty /\ Receive(e, p, {p}) /\ dups' = dups + 1
        /\ UNCHANGED <<now, caddr, life, lost, late, ops, breaks>>

\* The network loses a datagram, or it was sent to an address the client has left.
Lose ==
    \E p \in net :
        /\ Faulty \/ p.to \notin {AddrOf(e) : e \in Ends}
        /\ net' = net \ {p}
        /\ lost' = IF lost < MaxFaults THEN lost + 1 ELSE lost
        /\ UNCHANGED <<conn, now, caddr, life, dups, late, ops, breaks, accepted>>

\* The service timer.
Tick(e) ==
    /\ Settle(e, Service(conn[e], Due(conn[e]), now, 1 + (conn[e].ping_opaque % 2)), net)
    /\ UNCHANGED <<now, caddr, life, lost, dups, late, ops, breaks, accepted>>

Spend == ops < MaxOps /\ ops' = ops + 1
Break == Faulty /\ breaks' = breaks + 1

AppOpen(e) ==
    /\ CanOpen(conn[e])
    /\ Spend
    /\ Settle(e, ChanOpen(conn[e]), net)
    /\ UNCHANGED <<now, caddr, life, lost, dups, late, breaks, accepted>>

AppWrite(e) ==
    \E ch \in conn[e].chans :
        /\ ch.role = "send"
        /\ ch.out < MaxOut
        /\ Spend
        /\ Settle(e, ChanWrite(conn[e], ch.id), net)
        /\ UNCHANGED <<now, caddr, life, lost, dups, late, breaks, accepted>>

AppChanClose(e) ==
    \E ch \in conn[e].chans :
        /\ Spend
        /\ Settle(e, ChanClose(conn[e], ch.id), net)
        /\ UNCHANGED <<now, caddr, life, lost, dups, late, breaks, accepted>>

\* netchan_close, which frees the connection with its queued DISCONNECT, and
\* netchan_open of the next one.
Reopen(e) ==
    /\ Break
    /\ conn[e].state # "NEW"
    /\ conn' = [conn EXCEPT ![e] = Open(e = "s")]
    /\ life' = [life EXCEPT ![e] = @ + 1]
    /\ UNCHANGED <<net, now, caddr, lost, dups, late, ops, accepted>>

\* The client's address changes under it: a new network, a NAT that forgot.
Move ==
    /\ Break
    /\ caddr' = caddr + 1
    /\ UNCHANGED <<conn, net, now, life, lost, dups, late, ops, accepted>>

\* Time passes when no timer waits to be served and, but for MaxFaults steps, the
\* network has delivered or lost what it was given: a round trip and a turn of
\* the event loop are short against the retry, keepalive and idle intervals.
Waiting(e) == Service(conn[e], Due(conn[e]), now, 0) # conn[e]
Advance ==
    /\ net = {} \/ Faulty
    /\ \A e \in Ends : ~Waiting(e)
    /\ now' = (now + 1) % ClockMod
    /\ late' = IF net = {} THEN late ELSE late + 1
    /\ UNCHANGED <<conn, net, caddr, life, lost, dups, ops, breaks, accepted>>

Next ==
    \/ ClientConnect \/ Lose \/ Move \/ Advance
    \/ \E e \in Ends :
        Deliver(e) \/ Tick(e) \/ AppOpen(e) \/ AppWrite(e) \/ AppChanClose(e) \/ Reopen(e)

Spec == Init /\ [][Next]_vars

\* Time goes on.  As Advance waits for the network and for due timers, the loop
\* then serves its sockets and timers too; the applications owe nothing.
FairSpec == Spec /\ []<><<now' # now>>_now

-----------------------------------------------------------------------------
(* Properties. *)

TypeOK ==
    /\ \A e \in Ends :
        /\ conn[e].state \in States
        /\ Len(conn[e].ctrl) <= CtrlSlots /\ Len(conn[e].events) <= EventSlots
        /\ Cardinality(conn[e].chans) <= MaxChan
        /\ \A a, b \in conn[e].chans : a.id = b.id => a = b
        /\ \A t \in {conn[e].last_recv, conn[e].last_send, conn[e].ping_sent} :
            t \in 0 .. ClockMod - 1
    /\ now \in 0 .. ClockMod - 1

\* Both ends are connected, to each other.
Mutual ==
    \A e \in Ends : /\ conn[e].state = "CONNECTED"
                    /\ conn[e].remote_id = conn[Other(e)].local_id

\* A client is connected only to a server object that accepted this very client
\* object, whatever late, repeated or old CONNECT frames are about:
\* process_connect_accept takes any state to CONNECTED and relies on the
\* connection id netchan_feed checks.
ConnectedMeansAccepted ==
    conn["c"].state = "CONNECTED"
        => <<conn["c"].local_id, conn["c"].remote_id>> \in accepted

\* Keepalive maintains the connection: two ends connected to each other do not
\* time out unless the network lost, repeated or delayed a datagram, or a send happened at
\* clock value 0, which netchan_service reads as "never sent".
KeepaliveHolds ==
    [][\A e \in Ends :
        Mutual /\ conn'[e].state = "CLOSED"
            => lost + dups + late > 0 \/ \E f \in Ends : conn[f].last_send = 0]_vars

\* A handshake ends, and so does a half-open connection: the end whose peer has
\* gone, restarted or given up is closed by the idle timeout, although
\* netchan_close never sends its DISCONNECT and a connected server does not
\* answer CONNECT_INIT again: again and again there is neither.  The exception is
\* a last datagram received at clock value 0, which netchan_service reads as
\* "nothing received yet".
HalfOpen(e) ==
    \/ e = "c" /\ conn[e].state = "CONNECTING"
    \/ conn[e].state = "CONNECTED" /\ ~Mutual /\ conn[e].last_recv # 0

\* The ids the two ends give to the channels they open never meet: a
\* CHANNEL_OPEN on its way names no channel its receiver has, so it is refused
\* only as a duplicate, for want of room, or because its sender restarted while
\* the receiver, still connecting, kept the channels of the object before.
OpensNeverCollide ==
    \A p \in net, e \in Ends :
        p.to = AddrOf(e) /\ p.id = conn[e].local_id /\ ~p.init /\ dups = 0 /\ life[Other(e)] = 1
            => \A i \in DOMAIN p.frames :
                p.frames[i].f = "open" => ~Known(conn[e], p.frames[i].v)
=============================================================================
