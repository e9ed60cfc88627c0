------------------------------- MODULE IpxGame -------------------------------
(***************************************************************************)
(* The game's network layer over netchan for DOS (netchan-ipx/demo/        *)
(* game_net.c) in the loops that run it (thor.c): one server with a slot   *)
(* per player and the clients that join it, a frame of either being one    *)
(* step, over a network that loses, duplicates and reorders packets.  A    *)
(* client may quit and be started again at its address.  The simulation is *)
(* abstracted to who holds a seat and whether that player lives.           *)
(***************************************************************************)
EXTENDS IpxChan

CONSTANTS
    Seats,      \* 0 .. MAX_PLAYERS - 1: connection slots and players
    Addrs,      \* the addresses clients run at
    Chunks,     \* chunks the map is streamed in (MAP_BYTES / MAP_CHUNK)
    Drain,      \* MAX_DRAIN: packets a frame feeds
    NetRoom,    \* bound: packets in flight to one party
    MaxId,      \* bound: connection objects made by nc_open
    MaxFrames,  \* bound: frames of the server and frames of the clients
    MaxExtras   \* bound: losses, repetitions, passed deadlines, chat lines, ticks

VARIABLES
    srv,    \* struct gserver: its connection slots and the players of its world
    cli,    \* address -> struct gclient
    net,    \* destination -> packets in flight, with the address they come from
    ids,    \* the last id gen_id gave (ids are taken to be distinct)
    budget, \* bound: frames left to each party, and extras
    wrote   \* ghost: id -> the reliable messages that connection accepted

ipxVars == <<srv, cli, net, ids, budget, wrote>>

Server == 100
NoSeat == -1
Host == 0

FreeSlot == [used |-> FALSE, nc |-> Open(TRUE, 0), addr |-> NoAddr, player |-> NoSeat, off |-> 0,
             mapped |-> FALSE, got |-> <<>>]
NewClient(id) == [nc |-> Connect(Open(FALSE, id), Server), player |-> NoSeat, map |-> {},
                  have |-> FALSE, got |-> <<>>]

InOrder == [k \in 1 .. Cardinality(Seats) |-> k - 1]

\* thor.c: the host takes the first seat before anyone joins.
GameInit ==
    /\ srv = [conn |-> [i \in Seats |-> FreeSlot],
              world |-> [i \in Seats |-> [alive |-> i = Host, hp |-> i = Host, respawn |-> FALSE]]]
    /\ cli = [a \in Addrs |-> NewClient(a)]
    /\ net = [a \in Addrs \cup {Server} |-> {}]
    /\ ids = Max(Addrs)
    /\ budget = [server |-> MaxFrames, client |-> MaxFrames, extras |-> MaxExtras]
    /\ wrote = [i \in 1 .. MaxId |-> <<>>]

\* game_add_player: a seat is free when nobody lives in it, its hit points are 0
\* and it does not wait to respawn.
FreeSeats(w) == {i \in Seats : ~w[i].alive /\ ~w[i].hp /\ ~w[i].respawn}
AnySeat(w) == {i \in Seats : ~w[i].alive}
\* A join that looks only at who is alive takes the seat of a player who waits to respawn.
GameAddPlayerDead(w) ==
    IF AnySeat(w) = {} THEN [w |-> w, seat |-> NoSeat]
    ELSE LET i == Min(AnySeat(w)) IN
         [w |-> [w EXCEPT ![i].alive = TRUE, ![i].hp = TRUE], seat |-> i]

GameAddPlayer(w) ==
    IF FreeSeats(w) = {} THEN [w |-> w, seat |-> NoSeat]
    ELSE LET i == Min(FreeSeats(w)) IN
         [w |-> [w EXCEPT ![i].alive = TRUE, ![i].hp = TRUE], seat |-> i]

\* find_by_id, find_by_addr and accept_conn, as gserver_feed uses them; ids are given in order.
SlotFor(s, p, from) ==
    LET mine == {i \in Seats : s.conn[i].used /\ IF p.id # 0 THEN s.conn[i].nc.local = p.id
                                                             ELSE s.conn[i].addr = from}
    IN  IF mine # {} THEN {Min(mine)} ELSE {}

Accept(s, from, id) ==
    LET free == {i \in Seats : ~s.conn[i].used}
    IN  IF free = {} THEN s
        ELSE [s EXCEPT !.conn[Min(free)] =
                  [FreeSlot EXCEPT !.used = TRUE, !.nc = Open(TRUE, id), !.addr = from]]

\* gserver_feed of one packet q = [p, from]; st = [s, id] carries the last id.
ServerFeed(st, q) ==
    LET known == SlotFor(st.s, q.p, q.from) # {}
        s == IF known \/ q.p.id # 0 THEN st.s ELSE Accept(st.s, q.from, st.id + 1)
        slot == SlotFor(s, q.p, q.from)
    IN  [s |-> IF slot = {} THEN s
               ELSE [s EXCEPT !.conn[Min(slot)].nc = Feed(@, q.p, q.from)],
         id |-> IF s = st.s THEN st.id ELSE st.id + 1, log |-> st.log]

\* Writing on the reliable channel of slot i, with the ghost of what was accepted.
SlotWrite(st, i, m) ==
    LET w == Write(st.s.conn[i].nc, Rel, m)
    IN  [st EXCEPT !.s.conn[i].nc = w.c,
                   !.log[w.c.local] = IF w.r = "OK" THEN Append(@, m) ELSE @]

Relay(st, m) ==
    FoldLeft(LAMBDA t, i : IF t.s.conn[i].used /\ t.s.conn[i].player # NoSeat
                           THEN SlotWrite(t, i, m) ELSE t,
             st, InOrder)

\* The events of slot i, in order: a player for a new connection, none for a dead one.
SlotEvent(st, i, e) ==
    IF ~st.s.conn[i].used \/ e = "DATA" THEN st
    ELSE IF e = "CONNECTED"
    THEN LET added == GameAddPlayer(st.s.world)
             t == [st EXCEPT !.s.world = added.w, !.s.conn[i].player = added.seat,
                             !.s.conn[i].off = 0, !.s.conn[i].mapped = FALSE]
         IN  SlotWrite(t, i, [kind |-> "GM_WELCOME", v |-> added.seat])
    ELSE LET seat == st.s.conn[i].player
         IN  [st EXCEPT !.s.world = IF seat = NoSeat THEN @ ELSE [@ EXCEPT ![seat].alive = FALSE],
                        !.s.conn[i] = FreeSlot]

\* server_drain: a chat line is stamped with the sender's seat and relayed to
\* every player; an input is for the sender's own player.
ServerDrain(st, i) ==
    LET gc == st.s.conn[i]
        chats == SelectSeq(gc.nc.rxq[Rel], LAMBDA m : m.kind = "GM_CHAT")
        t == [st EXCEPT !.s.conn[i].nc.rxq = [ch \in {Rel, Unr} |-> <<>>],
                        !.s.conn[i].got = @ \o gc.nc.rxq[Rel]]
    IN  FoldLeft(LAMBDA u, m : Relay(u, [m EXCEPT !.v = gc.player]), t, chats)

\* stream_map: chunks while the window takes them, then the end mark.  Only
\* NC_ERR_AGAIN stops it.
RECURSIVE StreamMap(_, _)
StreamMap(st, i) ==
    LET gc == st.s.conn[i]
        m == IF gc.off < Chunks THEN [kind |-> "GM_MAP", v |-> gc.off] ELSE [kind |-> "GM_MAPEND", v |-> 0]
        t == SlotWrite(st, i, m)
    IN  IF Write(gc.nc, Rel, m).r = "AGAIN" THEN st
        ELSE IF gc.off < Chunks THEN StreamMap([t EXCEPT !.s.conn[i].off = @ + 1], i)
        ELSE [t EXCEPT !.s.conn[i].mapped = TRUE]

\* One slot of the loop of gserver_service.
ServiceSlot(st, i, due) ==
    LET nc == Service(st.s.conn[i].nc, due)
        polled == FoldLeft(LAMBDA t, e : SlotEvent(t, i, e),
                           [st EXCEPT !.s.conn[i].nc = [nc EXCEPT !.evq = <<>>]], nc.evq)
        drained == ServerDrain(polled, i)
    IN  IF ~st.s.conn[i].used THEN st
        ELSE IF ~polled.s.conn[i].used THEN polled
        ELSE IF drained.s.conn[i].player # NoSeat /\ ~drained.s.conn[i].mapped
        THEN StreamMap(drained, i) ELSE drained

\* game_tick as far as seats go: a creature may kill a player, and a dead one respawns.
GameTick(w) ==
    {w} \cup {[w EXCEPT ![i] = [alive |-> FALSE, hp |-> FALSE, respawn |-> TRUE]] :
                  i \in {j \in Seats : w[j].alive}}
        \cup {[w EXCEPT ![i] = [alive |-> TRUE, hp |-> TRUE, respawn |-> FALSE]] :
                  i \in {j \in Seats : ~w[j].alive /\ w[j].respawn}}

\* The broadcast after a tick goes to the players who have the map.
Broadcast(s) ==
    [s EXCEPT !.conn = [i \in Seats |->
        IF s.conn[i].used /\ s.conn[i].player # NoSeat /\ s.conn[i].mapped
        THEN [s.conn[i] EXCEPT !.nc = Write(@, Unr, [kind |-> "GM_STATE", v |-> 0]).c]
        ELSE s.conn[i]]]

\* The pull loops: nc_send_next until it has nothing to send.
RECURSIVE PullAll(_, _)
PullAll(c, out) ==
    LET n == SendNext(c) IN IF n.p = {} THEN [c |-> n.c, out |-> out] ELSE PullAll(n.c, out \cup n.p)

\* Up to Drain packets in flight to a party, in any order.
Batches(to) == UNION {{b \in [1 .. k -> net[to]] : IsInjective(b)} : k \in 0 .. Drain}

\* What stays in flight to a party that was fed b: a packet may come again.
Left(to, b, dup) == net[to] \ Range(IF dup THEN Tail(b) ELSE b)

\* The packets of sent are in flight to their destinations, where there is room.
Posted(now, sent, from) ==
    [to \in DOMAIN now |-> now[to] \cup {[p |-> p, from |-> from] : p \in {q \in sent : q.to = to}}]

\* The deadlines of a connection that can have passed.
Dues(c) ==
    CASE c.state = "CONNECTING" -> {{}, {"connect"}}
      [] c.state = "CONNECTED"  -> {{}, {"idle"}, {"keepalive"}} \cup
                                   (IF c.timer /\ c.base # c.next THEN {{"resend"}} ELSE {})
      [] OTHER -> {{}}

\* What a frame does beyond the plain exchange: a repeated packet, a deadline
\* that passed, a line of chat, a tick.  A loss counts as well.
Extras(dup, late, talk, tick) ==
    LET count(x) == IF x THEN 1 ELSE 0 IN count(dup) + count(late) + count(talk) + count(tick)

Spend(party, n) ==
    /\ budget[party] > 0 /\ budget.extras >= n
    /\ budget' = [budget EXCEPT ![party] = @ - 1, !.extras = @ - n]

\* One iteration of run_server: the host may speak, packets are fed, every slot
\* is serviced, the game ticks or not, and what is pending is sent.
Frame(b, say, late, due) ==
    LET start == [s |-> srv, id |-> ids, log |-> wrote]
        fed == FoldLeft(ServerFeed,
                        IF say THEN Relay(start, [kind |-> "GM_CHAT", v |-> Host]) ELSE start, b)
    IN  FoldLeft(LAMBDA st, j : ServiceSlot(st, j, IF late = j THEN due ELSE {}), fed, InOrder)

Pulled(s) == [j \in Seats |-> IF s.conn[j].used THEN PullAll(s.conn[j].nc, {})
                              ELSE [c |-> s.conn[j].nc, out |-> {}]]

\* Everything pending is sent; a packet that is lost is an extra, too.
Send(s, now, left) ==
    \E out \in {Pulled(s)} :
    \E lost \in SUBSET UNION {out[j].out : j \in Seats} :
        /\ Spend("server", now + Cardinality(lost))
        /\ srv' = [s EXCEPT !.conn = [j \in Seats |-> [s.conn[j] EXCEPT !.nc = out[j].c]]]
        /\ net' = Posted([net EXCEPT ![Server] = left],
                         UNION {out[j].out : j \in Seats} \ lost, Server)
        /\ \A a \in Addrs : Cardinality(net'[a]) <= NetRoom

ServerFrame ==
    \E b \in Batches(Server), late \in Seats, say, tick, dup \in BOOLEAN :
    \E due \in Dues(srv.conn[late].nc) :
        /\ b # <<>> \/ say \/ due # {} \/ tick
        /\ due = {} => late = Min(Seats)
        /\ say => \E i \in Seats : srv.conn[i].player # NoSeat
        /\ dup => b # <<>>
        /\ budget.server > 0 /\ budget.extras >= Extras(dup, due # {}, say, tick)
        /\ \E st \in {Frame(b, say, late, due)} :
           \E w \in IF tick THEN GameTick(st.s.world) ELSE {st.s.world} :
           \E s \in {[st.s EXCEPT !.world = w]} :
               /\ st.id <= MaxId
               /\ ids' = st.id /\ wrote' = st.log
               /\ Send(IF tick THEN Broadcast(s) ELSE s,
                       Extras(dup, due # {}, say, tick), Left(Server, b, dup))
        /\ UNCHANGED cli

\* client_drain: the seat, the map and its end arrive on the reliable channel.
ClientDrain(c) ==
    LET read == c.nc.rxq[Rel]
        of(kind) == {m \in Range(read) : m.kind = kind}
        welcome == SelectSeq(read, LAMBDA m : m.kind = "GM_WELCOME")
    IN  [c EXCEPT !.player = IF welcome = <<>> THEN @ ELSE Last(welcome).v,
                  !.map = @ \cup {m.v : m \in of("GM_MAP")},
                  !.have = @ \/ of("GM_MAPEND") # {},
                  !.got = @ \o read,
                  !.nc.rxq = [ch \in {Rel, Unr} |-> <<>>]]

\* One iteration of run_client at address a: feed, service, chat, input, pull.
ClientFrame(a) ==
    \E b \in Batches(a), chat \in BOOLEAN, due \in Dues(cli[a].nc), dup \in BOOLEAN :
        LET fed == FoldLeft(LAMBDA c, q : Feed(c, q.p, q.from), cli[a].nc, b)
            c == ClientDrain([cli[a] EXCEPT !.nc = [Service(fed, due) EXCEPT !.evq = <<>>]])
            line == [kind |-> "GM_CHAT", v |-> c.player]
            chatted == IF chat THEN Write(c.nc, Rel, line) ELSE [c |-> c.nc, r |-> "NONE"]
            moved == IF c.player # NoSeat THEN Write(chatted.c, Unr, [kind |-> "GM_INPUT", v |-> 0]).c
                                          ELSE chatted.c
        IN  /\ dup => b # <<>>
            /\ budget.client > 0 /\ budget.extras >= Extras(dup, due # {}, chat, FALSE)
            /\ chat => chatted.r = "OK"
            /\ \E out \in {PullAll(moved, {})} : \E lost \in SUBSET out.out :
                   /\ cli' = [cli EXCEPT ![a] = [c EXCEPT !.nc = out.c]]
                   /\ net' = Posted([net EXCEPT ![a] = Left(a, b, dup)], out.out \ lost, a)
                   /\ Cardinality(net'[Server]) <= NetRoom
                   /\ Spend("client", Extras(dup, due # {}, chat, FALSE) + Cardinality(lost))
            /\ wrote' = IF chat THEN [wrote EXCEPT ![c.nc.local] = Append(@, line)] ELSE wrote
            /\ UNCHANGED <<srv, ids>>

\* The player quits (nothing is sent) and starts the program again.
Restart(a) ==
    /\ ids < MaxId
    /\ cli' = [cli EXCEPT ![a] = NewClient(ids + 1)]
    /\ ids' = ids + 1
    /\ UNCHANGED <<srv, net, budget, wrote>>

GameNext == ServerFrame \/ \E a \in Addrs : ClientFrame(a) \/ Restart(a)
GameSpec == GameInit /\ [][GameNext]_ipxVars

----------------------------------------------------------------------------
\* Messages on the reliable channel arrive in order, once and without a gap: what
\* a side read is the beginning of what its peer's connection accepted.  Left out
\* are a connected client that took another connection for its peer (nc_feed takes
\* a SYNACK in any state) and a slot whose end went unreported and is used again.
ReadInOrder ==
    /\ \A a \in Addrs : LET c == cli[a] IN
           c.nc.remote # 0 /\ ~c.nc.switched => IsPrefix(c.got, wrote[c.nc.remote])
    /\ \A i \in Seats : LET gc == srv.conn[i] IN
           gc.used /\ gc.nc.remote # 0 /\ ~gc.nc.mute => IsPrefix(gc.got, wrote[gc.nc.remote])

\* A client that believes its map is complete has all of it.
MapWhole == \A a \in Addrs : cli[a].have /\ ~cli[a].nc.switched => cli[a].map = 0 .. Chunks - 1

\* A seat is steered by one connection, and the host's by none.
SeatsExclusive ==
    \A i, j \in Seats : LET p == srv.conn[i].player IN
        p # NoSeat => p # Host /\ (srv.conn[j].player = p => i = j)

\* What the players of a networked game rely on.
GameSynced == ReadInOrder /\ MapWhole /\ SeatsExclusive
=============================================================================
