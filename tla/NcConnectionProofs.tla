------------------------- MODULE NcConnectionProofs -------------------------
(***************************************************************************)
(* Proofs about NcConnection, for every number of event slots, control     *)
(* frames, channels, retries and faults and for every clock width: its     *)
(* state is well formed, a client is connected only to a server object     *)
(* that accepted it, and the channel ids of the two ends never meet.       *)
(***************************************************************************)
EXTENDS NcConnLemmas

-----------------------------------------------------------------------------
(* The inductive invariant. *)

Own(e) == IF e = "s" THEN 1 ELSE 0
Sender(p) == IF p.from = ServerAddr THEN "s" ELSE "c"

\* One end: the server numbers its channels oddly and the client evenly, and each
\* one's peer address is one the other has.
EndOK(e, c) ==
    /\ c \in Conns /\ Table(c)
    /\ c.server <=> e = "s"
    /\ c.next_chan_id < IdSpace /\ c.next_chan_id % 2 = Own(e)
    /\ IF e = "s" THEN c.peer # ServerAddr ELSE c.peer \in {None, ServerAddr}
Settled(c) == c.ctrl = <<>> /\ c.events = <<>>

\* A datagram goes from one end to the other, and a handshake packet to the server.
PacketOK(p) ==
    /\ p \in Packets /\ p.from # None /\ p.to # None
    /\ IF p.from = ServerAddr THEN p.to # ServerAddr /\ ~p.init ELSE p.to = ServerAddr
    /\ \A v \in Opened(p) : v % 2 = Own(Sender(p))

\* An ACCEPT from the server is for a pair of objects that netchan_accept agreed to.
AcceptOK(p, agreed) ==
    p.from = ServerAddr => \A v \in Args(p.frames, "accept") : <<p.id, v>> \in agreed

\* While f is in its first life it knows every id it has opened, in flight or
\* arrived.
OpensKnown(f) ==
    life[f] = 1 =>
        /\ \A p \in net : Sender(p) = f => \A v \in Opened(p) : Known(conn[f], v)
        /\ \A ch \in conn[Other(f)].chans : ch.id % 2 = Own(f) => Known(conn[f], ch.id)

\* And while nothing was delivered twice, an OPEN in flight is the only one of its
\* id and has not arrived.
OpensOnce(f) ==
    life[f] = 1 /\ dups = 0 =>
        /\ \A p \in net : Sender(p) = f => \A v \in Opened(p) : ~Known(conn[Other(f)], v)
        /\ \A p, q \in net : Sender(p) = f /\ Sender(q) = f /\ p # q
                                => Opened(p) \intersect Opened(q) = {}

Typed ==
    /\ conn \in [Ends -> Conns]
    /\ now \in Times
    /\ caddr \in Nat /\ caddr >= FirstClientAddr
    /\ life \in [Ends -> Nat \ {0}]
    /\ dups \in Nat

IInv ==
    /\ Typed
    /\ \A e \in Ends : EndOK(e, conn[e]) /\ Settled(conn[e])
    /\ \A p \in net : PacketOK(p) /\ AcceptOK(p, accepted)
    /\ \A f \in Ends : OpensKnown(f) /\ OpensOnce(f)
    /\ ConnectedMeansAccepted

\* What settle does to the end e, with c what the handler made of it: the events
\* are drained, and what there is to send is one packet on its way to the peer.
LEMMA SettleFacts ==
    ASSUME Typed, NEW e \in Ends, NEW c, EndOK(e, c), NEW rest, Settle(e, c, rest)
    PROVE  /\ EndOK(e, conn'[e]) /\ Settled(conn'[e])
           /\ conn' \in [Ends -> Conns] /\ conn'[Other(e)] = conn[Other(e)]
           /\ conn'[e].state = c.state
           /\ conn'[e].local_id = c.local_id /\ conn'[e].remote_id = c.remote_id
           /\ \A v : Known(conn'[e], v) <=> Known(c, v)
           /\ \/ net' = rest
              \/ c.peer # None /\ net' = rest \union {Packet(c, AddrOf(e))}
<1> DEFINE b == IF HasData(c) THEN AfterSend(c, now) ELSE c
           d == Drained(b)
<1>1. c \in Conns /\ Table(c) /\ now \in Times
  BY SMTT(30) DEF EndOK, Typed
<1>2. /\ b \in Conns /\ Table(b) /\ b.ctrl = <<>>
      /\ b.server = c.server /\ b.next_chan_id = c.next_chan_id /\ b.peer = c.peer
      /\ b.state = c.state /\ b.local_id = c.local_id /\ b.remote_id = c.remote_id
      /\ \A v : Known(b, v) <=> Known(c, v)
  <2>1. CASE HasData(c)
    <3> DEFINE a == AfterSend(c, now)
    <3>1. /\ a \in Conns /\ Table(a) /\ \A v : Known(a, v) <=> Known(c, v)
          /\ a = [c EXCEPT !.ctrl = <<>>, !.last_send = now, !.chans = a.chans]
      BY <1>1, AfterSendFacts, ZenonT(30)
    <3> HIDE DEF a
    <3>2. b = a
      BY <2>1 DEF a
    <3>3. /\ a.ctrl = <<>> /\ a.server = c.server /\ a.next_chan_id = c.next_chan_id
          /\ a.peer = c.peer /\ a.state = c.state /\ a.local_id = c.local_id
          /\ a.remote_id = c.remote_id
      BY <3>1, <1>1, ZenonT(30) DEF Conns
    <3> QED  BY <3>1, <3>2, <3>3
  <2>2. CASE ~HasData(c)
    BY <1>1, <2>2, SMTT(30) DEF HasData
  <2> QED  BY <2>1, <2>2
<1> HIDE DEF b
<1>3. /\ d \in Conns /\ d.events = <<>> /\ d.ctrl = b.ctrl /\ d.chans = b.chans
      /\ d.server = b.server /\ d.next_chan_id = b.next_chan_id /\ d.peer = b.peer
      /\ d.state = b.state /\ d.local_id = b.local_id /\ d.remote_id = b.remote_id
  BY <1>2, DrainedFacts
<1>4. conn' = [conn EXCEPT ![e] = d]
  BY DEF Settle, b
<1>5. net' = rest \/ (c.peer # None /\ net' = rest \union {Packet(c, AddrOf(e))})
  BY DEF Settle
<1> HIDE DEF d
<1>6. EndOK(e, d) /\ Settled(d) /\ \A v : Known(d, v) <=> Known(c, v)
  BY <1>2, <1>3 DEF EndOK, Settled, Table, Known
<1>7. conn'[e] = d /\ conn'[Other(e)] = conn[Other(e)] /\ conn' \in [Ends -> Conns]
  BY <1>3, <1>4, SMTT(30) DEF Typed, Ends, Other
<1> QED
  BY <1>2, <1>3, <1>5, <1>6, <1>7, SMTT(30)

\* What a handler of the end e may make of it, before it is settled: channels are
\* added with ids of its own or with ids in got, an OPEN it queues is for a new
\* channel, and an ACCEPT for the pair it accepted.
Handled(e, c, got, agreed) ==
    /\ EndOK(e, c)
    /\ \A v : Known(conn[e], v) => Known(c, v)
    /\ \A v : Known(c, v) => Known(conn[e], v) \/ v % 2 = Own(e) \/ v \in got
    /\ \A v \in Args(c.ctrl, "open") : v % 2 = Own(e) /\ Known(c, v) /\ ~Known(conn[e], v)
    /\ e = "s" => \A v \in Args(c.ctrl, "accept") : <<c.remote_id, v>> \in agreed
    /\ e = "c" /\ c.state = "CONNECTED" => <<c.local_id, c.remote_id>> \in agreed

\* The ids got were opened by the other end, and no other OPEN for them is left.
Gotten(e, got, rest) ==
    life[Other(e)] = 1 =>
        /\ \A v \in got : Known(conn[Other(e)], v)
        /\ dups' = 0 => \A q \in rest : Sender(q) = Other(e) => Opened(q) \intersect got = {}

\* Every handler ends in settle, and settle keeps the invariant.
LEMMA SettleStep ==
    ASSUME IInv, NEW e \in Ends, NEW c, NEW got, NEW rest, rest \subseteq net,
           Settle(e, c, rest), Handled(e, c, got, accepted'), Gotten(e, got, rest),
           \A v \in got : v % 2 = Own(Other(e)),
           UNCHANGED <<now, caddr, life>>, dups' \in Nat, dups' = 0 => dups = 0,
           accepted \subseteq accepted'
    PROVE  IInv'
<1> DEFINE f == Other(e)
           p == Packet(c, AddrOf(e))
<1>0. /\ Typed /\ f \in Ends /\ f # e /\ Other(f) = e /\ EndOK(e, c)
      /\ Own(f) # Own(e)
  BY DEF IInv, Ends, Other, Handled, Own
<1>1. /\ EndOK(e, conn'[e]) /\ Settled(conn'[e])
      /\ conn' \in [Ends -> Conns] /\ conn'[f] = conn[f]
      /\ conn'[e].state = c.state
      /\ conn'[e].local_id = c.local_id /\ conn'[e].remote_id = c.remote_id
      /\ \A v : Known(conn'[e], v) <=> Known(c, v)
      /\ net' = rest \/ (c.peer # None /\ net' = rest \union {p})
  BY <1>0, SettleFacts
<1>2. Typed'
  BY <1>0, <1>1, SMTT(30) DEF Typed
<1>3. \A g \in Ends : EndOK(g, conn'[g]) /\ Settled(conn'[g])
  BY <1>1 DEF IInv, Ends, Other
<1>4. AddrOf(e) \in Nat /\ AddrOf(e) # None /\ (AddrOf(e) = ServerAddr <=> e = "s")
  BY <1>0, SMTT(30) DEF AddrOf, Typed, ServerAddr, FirstClientAddr, None, Ends
<1>5. /\ p \in Packets /\ p.from = AddrOf(e) /\ p.to = c.peer
      /\ c.server => ~p.init /\ p.id = c.remote_id
      /\ \A v : v \in Opened(p) <=> v \in Args(c.ctrl, "open")
      /\ \A v : v \in Args(p.frames, "accept") <=> v \in Args(c.ctrl, "accept")
  BY <1>0, <1>4, PacketFacts, ArgsHas, SMTT(30) DEF EndOK, Opened
<1>6. Sender(p) = e
  BY <1>4, <1>5, SMTT(30) DEF Sender, Ends
<1> HIDE DEF p, f
<1>7. ASSUME c.peer # None
      PROVE  PacketOK(p) /\ AcceptOK(p, accepted')
  <2>1. p.from # None /\ p.to # None
    BY <1>4, <1>5, <1>7, SMTT(30)
  <2>2. IF p.from = ServerAddr THEN p.to # ServerAddr /\ ~p.init ELSE p.to = ServerAddr
    BY <1>0, <1>4, <1>5, <1>7, SMTT(30) DEF EndOK
  <2>3. \A v \in Opened(p) : v % 2 = Own(Sender(p))
    BY <1>5, <1>6, SMTT(30) DEF Handled
  <2>4. p.from = ServerAddr => \A v \in Args(p.frames, "accept") : <<p.id, v>> \in accepted'
    BY <1>0, <1>4, <1>5, SMTT(30) DEF Handled, EndOK
  <2> QED
    BY <2>1, <2>2, <2>3, <2>4, <1>5, SMTT(30) DEF PacketOK, AcceptOK
<1>8. \A q \in net' : q \in rest \/ (q = p /\ c.peer # None)
  BY <1>1
<1>9. ASSUME NEW q \in net'
      PROVE  PacketOK(q) /\ AcceptOK(q, accepted')
  <2>1. CASE q \in rest
    BY <2>1, SMTT(30) DEF IInv, AcceptOK
  <2> QED
    BY <2>1, <1>7, <1>8, SMTT(30)
<1>10. OpensKnown(e)'
  <2> SUFFICES ASSUME life[e] = 1
               PROVE  /\ \A q \in net' : Sender(q) = e => \A v \in Opened(q) : Known(conn'[e], v)
                      /\ \A ch \in conn'[f].chans : ch.id % 2 = Own(e) => Known(conn'[e], ch.id)
    BY SMTT(30) DEF OpensKnown, f
  <2>1. OpensKnown(e)
    BY SMTT(30) DEF IInv
  <2>2. \A q \in net' : Sender(q) = e => \A v \in Opened(q) : Known(conn'[e], v)
    BY <2>1, <1>1, <1>5, <1>8, SMTT(30) DEF OpensKnown, Handled
  <2>3. \A ch \in conn'[f].chans : ch.id % 2 = Own(e) => Known(conn'[e], ch.id)
    BY <2>1, <1>1, SMTT(30) DEF OpensKnown, Handled, f
  <2> QED  BY <2>2, <2>3, SMTT(30)
<1>11. OpensKnown(f)'
  <2> SUFFICES ASSUME life[f] = 1
               PROVE  /\ \A q \in net' : Sender(q) = f => \A v \in Opened(q) : Known(conn'[f], v)
                      /\ \A ch \in conn'[e].chans : ch.id % 2 = Own(f) => Known(conn'[f], ch.id)
    BY <1>0, SMTT(30) DEF OpensKnown
  <2>1. OpensKnown(f)
    BY <1>0, SMTT(30) DEF IInv
  <2>2. \A q \in net' : Sender(q) = f => \A v \in Opened(q) : Known(conn'[f], v)
    BY <2>1, <1>0, <1>1, <1>6, <1>8, SMTT(30) DEF OpensKnown
  <2>3. ASSUME NEW ch \in conn'[e].chans, ch.id % 2 = Own(f)
        PROVE  Known(conn'[f], ch.id)
    <3>1. Known(c, ch.id)
      BY <1>1, SMTT(30) DEF Known
    <3>2. ch.id % 2 # Own(e)
      BY <2>3, <1>0, SMTT(30)
    <3>3. Known(conn[e], ch.id) \/ ch.id \in got
      BY <3>1, <3>2, SMTT(30) DEF Handled
    <3>4. CASE Known(conn[e], ch.id)
      BY <3>4, <2>1, <2>3, <1>0, <1>1, SMTT(30) DEF OpensKnown, Known
    <3>5. CASE ch.id \in got
      BY <3>5, <1>1, SMTT(30) DEF Gotten, f
    <3> QED  BY <3>3, <3>4, <3>5, SMTT(30)
  <2> QED  BY <2>2, <2>3, SMTT(30)
<1>12. OpensOnce(e)'
  <2> SUFFICES ASSUME life[e] = 1, dups' = 0
               PROVE  /\ \A q \in net' : Sender(q) = e => \A v \in Opened(q) : ~Known(conn'[f], v)
                      /\ \A q, r \in net' : Sender(q) = e /\ Sender(r) = e /\ q # r
                            => Opened(q) \intersect Opened(r) = {}
    BY SMTT(30) DEF OpensOnce, f
  <2>1. OpensKnown(e) /\ OpensOnce(e) /\ dups = 0
    BY SMTT(30) DEF IInv
  <2>2. ASSUME NEW v \in Opened(p)
        PROVE  /\ ~Known(conn[f], v)
               /\ \A q \in net : Sender(q) = e => v \notin Opened(q)
    <3>1. v % 2 = Own(e) /\ ~Known(conn[e], v)
      BY <2>2, <1>5, SMTT(30) DEF Handled
    <3>2. ~Known(conn[f], v)
      BY <2>1, <3>1, SMTT(30) DEF OpensKnown, Known, f
    <3> QED
      BY <2>1, <3>1, <3>2, SMTT(30) DEF OpensKnown
  <2>3. \A q \in rest : Sender(q) = e => \A v \in Opened(q) : ~Known(conn[f], v)
    BY <2>1 DEF OpensOnce, f
  <2>4. \A q, r \in rest : Sender(q) = e /\ Sender(r) = e /\ q # r
            => Opened(q) \intersect Opened(r) = {}
    BY <2>1, SMTT(30) DEF OpensOnce
  <2> QED
    BY <2>2, <2>3, <2>4, <1>1, <1>8, SMTT(30)
<1>13. OpensOnce(f)'
  <2> SUFFICES ASSUME life[f] = 1, dups' = 0
               PROVE  /\ \A q \in net' : Sender(q) = f => \A v \in Opened(q) : ~Known(conn'[e], v)
                      /\ \A q, r \in net' : Sender(q) = f /\ Sender(r) = f /\ q # r
                            => Opened(q) \intersect Opened(r) = {}
    BY <1>0, SMTT(30) DEF OpensOnce
  <2>1. OpensOnce(f) /\ dups = 0
    BY <1>0 DEF IInv
  <2>2. \A q \in net' : Sender(q) = f => q \in rest /\ q \in net
    BY <1>0, <1>6, <1>8, SMTT(30)
  <2>3. ASSUME NEW q \in net', Sender(q) = f, NEW v \in Opened(q)
        PROVE  ~Known(conn'[e], v)
    <3>1. q \in rest /\ q \in net /\ ~Known(conn[e], v)
      BY <2>1, <2>2, <2>3, <1>0, SMTT(30) DEF OpensOnce
    <3>2. v \notin got
      BY <3>1, <2>3, SMTT(30) DEF Gotten, f
    <3>3. v % 2 # Own(e)
      <4>1. PacketOK(q)
        BY <3>1 DEF IInv
      <4> QED  BY <4>1, <2>3, <1>0, SMTT(30) DEF PacketOK
    <3> QED
      BY <3>1, <3>2, <3>3, <1>1, SMTT(30) DEF Handled
  <2> QED
    BY <2>1, <2>2, <2>3, SMTT(30) DEF OpensOnce
<1>14. ConnectedMeansAccepted'
  <2>1. CASE e = "c"
    BY <2>1, <1>1, SMTT(30) DEF ConnectedMeansAccepted, Handled
  <2>2. CASE e = "s"
    BY <2>2, <1>1 DEF ConnectedMeansAccepted, IInv, f, Other
  <2> QED  BY <2>1, <2>2, SMTT(30) DEF Ends
<1>15. \A g \in Ends : OpensKnown(g)' /\ OpensOnce(g)'
  BY <1>10, <1>11, <1>12, <1>13, SMTT(30) DEF Ends, Other, f
<1> QED
  BY <1>2, <1>3, <1>9, <1>14, <1>15, SMTT(30) DEF IInv, PacketOK

-----------------------------------------------------------------------------
(* The handlers.  Most leave the ids, the peer and the known channels alone. *)

LEMMA MildStep ==
    ASSUME IInv, NEW e \in Ends, NEW d, Mild(conn[e], d), d.peer = conn[e].peer,
           Settle(e, d, net), UNCHANGED <<now, caddr, life, dups, accepted>>
    PROVE  IInv'
<1>1. EndOK(e, conn[e]) /\ Typed /\ ConnectedMeansAccepted
  BY SMTT(30) DEF IInv
<1>2. EndOK(e, d)
  BY <1>1, SMTT(30) DEF EndOK, Mild
<1>3. Handled(e, d, {}, accepted')
  BY <1>1, <1>2, QuietArgs, SMTT(30) DEF Handled, Mild, ConnectedMeansAccepted
<1>4. Gotten(e, {}, net)
  BY SMTT(30) DEF Gotten
<1> QED
  BY <1>1, <1>3, <1>4, SettleStep, SMTT(30) DEF Typed

LEMMA TickStep ==
    ASSUME IInv, NEW e \in Ends, Tick(e)
    PROVE  IInv'
<1> DEFINE nonce == 1 + (conn[e].ping_opaque % 2)
           d     == Service(conn[e], Due(conn[e]), now, nonce)
<1>1. /\ conn[e] \in Conns /\ Table(conn[e]) /\ conn[e].ctrl = <<>> /\ now \in Times
      /\ nonce \in Nat
  BY SMTT(30) DEF IInv, EndOK, Settled, Typed, Conns
<1>2. Mild(conn[e], d) /\ d.peer = conn[e].peer
  BY <1>1, ServiceMild, SMTT(30)
<1>3. Settle(e, d, net) /\ UNCHANGED <<now, caddr, life, dups, accepted>>
  BY SMTT(30) DEF Tick
<1> QED
  BY <1>2, <1>3, MildStep, SMTT(30)

LEMMA AppChannelStep ==
    ASSUME IInv, NEW e \in Ends, AppWrite(e) \/ AppChanClose(e)
    PROVE  IInv'
<1>1. conn[e] \in Conns /\ Table(conn[e]) /\ conn[e].ctrl = <<>>
  BY SMTT(30) DEF IInv, EndOK, Settled
<1>2. PICK ch \in conn[e].chans :
        \/ Settle(e, ChanWrite(conn[e], ch.id), net)
        \/ Settle(e, ChanClose(conn[e], ch.id), net)
  BY DEF AppWrite, AppChanClose
<1>3. UNCHANGED <<now, caddr, life, dups, accepted>>
  BY SMTT(30) DEF AppWrite, AppChanClose
<1> DEFINE x == Chan(conn[e], ch.id)
<1>4. x \in Channels /\ x.id = ch.id /\ Known(conn[e], ch.id)
  BY <1>1, ChanFacts, SMTT(30) DEF Known
<1>5. Mild(conn[e], conn[e])
  BY <1>1, SMTT(30) DEF Mild, Quiet
<1>6. CASE Settle(e, ChanWrite(conn[e], ch.id), net)
  <2> DEFINE y == [x EXCEPT !.out = @ + 1]
  <2>1. y \in Channels /\ y.id = ch.id
    BY <1>4 DEF Channels
  <2>2. ChanWrite(conn[e], ch.id) \in {conn[e], Update(conn[e], y)}
    BY SMTT(30) DEF ChanWrite
  <2> HIDE DEF y
  <2>3. Mild(conn[e], Update(conn[e], y)) /\ Update(conn[e], y).peer = conn[e].peer
    BY <1>1, <1>4, <2>1, UpdateMild, SMTT(30)
  <2> QED
    BY <1>3, <1>5, <1>6, <2>2, <2>3, MildStep, SMTT(30)
<1>7. CASE Settle(e, ChanClose(conn[e], ch.id), net)
  <2> DEFINE y == [x EXCEPT !.state = "closing"]
             d == Queue(Update(conn[e], y), "close", ch.id)
  <2>1. y \in Channels /\ y.id = ch.id
    BY <1>4 DEF Channels
  <2>2. ChanClose(conn[e], ch.id) \in {conn[e], d}
    BY SMTT(30) DEF ChanClose
  <2> HIDE DEF y
  <2>3. Mild(conn[e], d) /\ d.peer = conn[e].peer
    BY <1>1, <1>4, <2>1, UpdateMild, SMTT(30)
  <2> QED
    BY <1>3, <1>5, <1>7, <2>2, <2>3, MildStep, SMTT(30)
<1> QED
  BY <1>2, <1>6, <1>7, SMTT(30)

LEMMA FreshIdType ==
    ASSUME Typed, NEW e \in Ends
    PROVE  FreshId(e) \in Nat
  BY SMTT(30) DEF Typed, FreshId, Ends

LEMMA ConnectStep ==
    ASSUME IInv, ClientConnect
    PROVE  IInv'
<1> DEFINE c == conn["c"]
           d == Connect(c, ServerAddr, FreshId("c"), now)
           b == [c EXCEPT !.local_id = FreshId("c"), !.peer = ServerAddr,
                          !.state = "CONNECTING", !.connect_sent = now, !.attempts = 1]
<1>1. /\ Typed /\ c \in Conns /\ Table(c) /\ c.ctrl = <<>> /\ ~c.server /\ c.state = "NEW"
      /\ EndOK("c", c) /\ "c" \in Ends /\ FreshId("c") \in Nat /\ now \in Times
  BY FreshIdType DEF IInv, EndOK, Settled, ClientConnect, Ends, Typed
<1>2. d = Queue(b, "init", FreshId("c"))
  BY <1>1, SMTT(30) DEF Connect
<1>3. Settle("c", d, net) /\ UNCHANGED <<now, caddr, life, dups, accepted>>
  BY DEF ClientConnect
<1>4. /\ b \in Conns /\ b.chans = c.chans /\ b.ctrl = c.ctrl /\ b.server = c.server
      /\ b.next_chan_id = c.next_chan_id /\ b.peer = ServerAddr /\ b.state = "CONNECTING"
  BY <1>1, ZenonT(30) DEF Conns, States, ServerAddr
<1> HIDE DEF b, d
<1>5. Table(b) /\ Quiet(b)
  BY <1>1, <1>4 DEF Table, Quiet
<1>6. d \in Conns /\ d = [b EXCEPT !.ctrl = d.ctrl] /\ Evolves(b, d, <<>>)
  BY <1>1, <1>2, <1>4, <1>5, QueueFacts, QueueEvolves, ZenonT(30) DEF FrameTypes
<1>7. /\ d.chans = c.chans /\ d.server = c.server /\ d.next_chan_id = c.next_chan_id
      /\ d.peer = ServerAddr /\ d.state = "CONNECTING"
  BY <1>4, <1>6, SMTT(30) DEF Conns
<1>8. Table(d) /\ Quiet(d) /\ \A v : Known(d, v) <=> Known(c, v)
  BY <1>5, <1>6, <1>7 DEF Evolves, Known
<1>9. EndOK("c", d)
  BY <1>1, <1>6, <1>7, <1>8 DEF EndOK
<1>10. Handled("c", d, {}, accepted')
  BY <1>7, <1>8, <1>9, QuietArgs, SMTT(30) DEF Handled
<1>11. Gotten("c", {}, net)
  BY DEF Gotten
<1> QED
  BY <1>1, <1>3, <1>10, <1>11, SettleStep, SMTT(30) DEF Typed

\* netchan_chan_open: the OPEN it queues is for an id neither end had.
LEMMA AppOpenStep ==
    ASSUME IInv, NEW e \in Ends, AppOpen(e)
    PROVE  IInv'
<1> DEFINE c  == conn[e]
           id == c.next_chan_id
           b  == [c EXCEPT !.next_chan_id = (id + 2) % IdSpace]
           ch == NewChan(id, "send", "opening")
           u  == Update(b, ch)
           d  == Queue(u, "open", id)
<1>1. /\ Typed /\ c \in Conns /\ Table(c) /\ c.ctrl = <<>> /\ EndOK(e, c)
      /\ id \in Nat /\ id < IdSpace /\ id % 2 = Own(e)
      /\ ConnectedMeansAccepted
  BY DEF IInv, EndOK, Settled, Conns
<1>2. CanOpen(c) /\ UNCHANGED <<now, caddr, life, dups, accepted>>
  BY DEF AppOpen
<1>3. Settle(e, IF Room(c) THEN d ELSE b, net)
  BY <1>2 DEF AppOpen, ChanOpen
<1>4. /\ b \in Conns /\ b.chans = c.chans /\ b.ctrl = c.ctrl /\ b.server = c.server
      /\ b.peer = c.peer /\ b.state = c.state /\ b.local_id = c.local_id
      /\ b.remote_id = c.remote_id
      /\ b.next_chan_id < IdSpace /\ b.next_chan_id % 2 = Own(e)
  BY <1>1, NextChanId, ZenonT(30) DEF Conns
<1>5. Table(b) /\ Quiet(b) /\ \A v : Known(b, v) <=> Known(c, v)
  BY <1>1, <1>4, SMTT(30) DEF Table, Quiet, Known
<1>6. Gotten(e, {}, net)
  BY SMTT(30) DEF Gotten
<1>7. CASE ~Room(c)
  <2> HIDE DEF b
  <2>1. EndOK(e, b)
    BY <1>1, <1>4, <1>5 DEF EndOK
  <2>2. Handled(e, b, {}, accepted')
    BY <1>1, <1>2, <1>4, <1>5, <2>1, QuietArgs, ZenonT(30) DEF Handled, ConnectedMeansAccepted
  <2> QED
    BY <1>1, <1>2, <1>3, <1>6, <1>7, <2>2, SettleStep, SMTT(30) DEF Typed
<1>8. CASE Room(c)
  <2>1. ch \in Channels /\ ch.id = id
    BY <1>1 DEF NewChan, Channels
  <2>2. Room(b)
    BY <1>4, <1>8, SMTT(30) DEF Room
  <2> HIDE DEF b, ch
  <2>3. /\ u \in Conns /\ Table(u) /\ u = [b EXCEPT !.chans = u.chans]
        /\ \A v : Known(u, v) <=> Known(b, v) \/ v = id
    BY <1>4, <1>5, <2>1, <2>2, UpdateFacts, SMTT(30)
  <2> HIDE DEF u
  <2>4. /\ u.server = b.server /\ u.next_chan_id = b.next_chan_id /\ u.peer = b.peer
        /\ u.state = b.state /\ u.local_id = b.local_id /\ u.remote_id = b.remote_id
        /\ u.ctrl = <<>>
    BY <1>1, <1>4, <2>3, ZenonT(30) DEF Conns
  <2>5. d \in Conns /\ d = [u EXCEPT !.ctrl = d.ctrl] /\ d.ctrl \in {<<>>, Append(<<>>, Frame("open", id))}
    <3>1. "open" \in FrameTypes
      BY DEF FrameTypes
    <3>2. /\ d \in Conns /\ d = [u EXCEPT !.ctrl = d.ctrl]
          /\ d.ctrl \in {u.ctrl, Append(u.ctrl, Frame("open", id))}
      <4>1. u \in Conns /\ id \in Nat
        BY <1>1, <2>3
      <4> HIDE DEF id
      <4> QED  BY <3>1, <4>1, QueueFacts, SMTT(30)
    <3> QED  BY <2>4, <3>2
  <2> HIDE DEF d
  <2>6. /\ d.server = u.server /\ d.next_chan_id = u.next_chan_id /\ d.peer = u.peer
        /\ d.state = u.state /\ d.local_id = u.local_id /\ d.remote_id = u.remote_id
        /\ d.chans = u.chans
    BY <2>3, <2>5, SMTT(30) DEF Conns
  <2>7. Table(d) /\ \A v : Known(d, v) <=> Known(c, v) \/ v = id
    BY <1>5, <2>3, <2>6 DEF Table, Known
  <2>8. Args(d.ctrl, "open") \subseteq {id} /\ Args(d.ctrl, "accept") = {}
    <3>1. \A i \in DOMAIN d.ctrl : d.ctrl[i] = Frame("open", id)
      BY <2>5, SMTT(30)
    <3> QED
      BY <3>1 DEF Args, Frame
  <2>9. EndOK(e, d)
    BY <1>1, <1>4, <2>4, <2>5, <2>6, <2>7, SMTT(30) DEF EndOK
  <2>10. ~Known(c, id)
    BY <1>2, SMTT(30) DEF CanOpen
  <2>11. Handled(e, d, {}, accepted')
    BY <1>1, <1>2, <1>4, <2>4, <2>6, <2>7, <2>8, <2>9, <2>10, SMTT(30) DEF Handled, ConnectedMeansAccepted
  <2> QED
    BY <1>1, <1>2, <1>3, <1>6, <1>8, <2>11, SettleStep, SMTT(30) DEF Typed
<1> QED
  BY <1>7, <1>8, SMTT(30)

\* netchan_feed: nothing, or the frames of a packet that names this connection,
\* after which the peer is still an address of the other end.
LEMMA FeedFacts ==
    ASSUME IInv, NEW e \in Ends, NEW p \in net, p.to = AddrOf(e)
    PROVE  LET d == Feed(conn[e], p, now, FreshId(e))
           IN /\ EndOK(e, d) /\ Quiet(d)
              /\ \A v : Known(conn[e], v) => Known(d, v)
              /\ \A v : Known(d, v) => Known(conn[e], v) \/ v \in Opened(p)
              /\ e = "c" /\ d.state = "CONNECTED" => <<d.local_id, d.remote_id>> \in accepted
<1> DEFINE c == conn[e]
           b == [FirstPeer(Migrated(c, p), p.from) EXCEPT !.last_recv = now]
           d == Feed(c, p, now, FreshId(e))
<1>1. /\ Typed /\ c \in Conns /\ Table(c) /\ c.ctrl = <<>> /\ EndOK(e, c)
      /\ PacketOK(p) /\ AcceptOK(p, accepted) /\ ConnectedMeansAccepted
      /\ p \in Packets /\ p.from \in Nat /\ p.frames \in Seq(Frames) /\ now \in Times
      /\ FreshId(e) \in Nat
  BY FreshIdType, ZenonT(30) DEF IInv, EndOK, Settled, PacketOK, Packets, Typed
<1>2. IF e = "s" THEN p.from # ServerAddr ELSE p.from = ServerAddr /\ ~p.init
  BY <1>1, SMTT(30) DEF PacketOK, AddrOf, Typed, FirstClientAddr, ServerAddr, Ends
<1>3. CASE ~p.init /\ p.id # c.local_id
  <2>1. d = c
    BY <1>3, SMTT(30) DEF Feed
  <2>2. Quiet(c) /\ (e = "c" /\ c.state = "CONNECTED" => <<c.local_id, c.remote_id>> \in accepted)
    BY <1>1, EmptyQuiet DEF ConnectedMeansAccepted
  <2> HIDE DEF d
  <2> QED
    BY <2>1, <2>2, <1>1 DEF d
<1>4. CASE p.init \/ p.id = c.local_id
  <2>1. d = ParseFrames(b, p.frames, FreshId(e))
    BY <1>4 DEF Feed
  <2>4. /\ b \in Conns /\ b.chans = c.chans /\ b.ctrl = c.ctrl /\ b.server = c.server
        /\ b.next_chan_id = c.next_chan_id /\ b.peer \in {c.peer, p.from}
        /\ b.local_id = c.local_id /\ b.remote_id = c.remote_id /\ b.state = c.state
    BY <1>1, FedFacts
  <2> HIDE DEF b, d
  <2>5. Table(b) /\ Quiet(b) /\ \A v : Known(b, v) <=> Known(c, v)
    BY <1>1, <2>4, SameTable, EmptyQuiet, ZenonT(30)
  <2>6. Evolves(b, d, p.frames)
    BY <1>1, <2>1, <2>4, <2>5, ParseEvolves, SMTT(30)
  <2>7. EndOK(e, d)
    BY <1>1, <1>2, <2>4, <2>6, ZenonT(30) DEF EndOK, Evolves, None, ServerAddr
  <2>8. \A v : Known(c, v) => Known(d, v)
    BY <2>5, <2>6, SMTT(30) DEF Evolves
  <2>9. \A v : Known(d, v) => Known(c, v) \/ v \in Opened(p)
    BY <2>5, <2>6, ArgsHas, SMTT(30) DEF Evolves, Opened
  <2>10. ASSUME e = "c", d.state = "CONNECTED"
         PROVE  <<d.local_id, d.remote_id>> \in accepted
    <3>1. ~c.server /\ d.local_id = c.local_id
      BY <2>10, <1>1, <2>4, <2>6, SMTT(30) DEF EndOK, Evolves
    <3>2. CASE c.state = "CONNECTED" /\ d.remote_id = c.remote_id
      BY <2>10, <3>1, <3>2, <1>1, SMTT(30) DEF ConnectedMeansAccepted
    <3>3. CASE Has(p.frames, "accept", d.remote_id)
      <4>1. d.remote_id \in Args(p.frames, "accept")
        BY <3>3, ArgsHas, SMTT(30)
      <4>2. p.id = c.local_id /\ p.from = ServerAddr
        BY <2>10, <1>2, <1>4, SMTT(30)
      <4> QED
        BY <4>1, <4>2, <3>1, <1>1, SMTT(30) DEF AcceptOK
    <3> QED
      BY <2>10, <3>1, <3>2, <3>3, <2>4, <2>6, SMTT(30) DEF Evolves
  <2> QED
    BY <2>5, <2>6, <2>7, <2>8, <2>9, <2>10, ZenonT(30) DEF Evolves, d
<1> QED
  BY <1>3, <1>4, ZenonT(30)

\* A datagram is fed, accepted and answered, whether or not a copy stays behind.
LEMMA ReceiveStep ==
    ASSUME IInv, NEW e \in Ends, NEW p \in net, p.to = AddrOf(e),
           NEW keep \in SUBSET {p}, Receive(e, p, keep),
           dups' = IF keep = {} THEN dups ELSE dups + 1,
           UNCHANGED <<now, caddr, life>>
    PROVE  IInv'
<1> DEFINE fed  == Feed(conn[e], p, now, FreshId(e))
           c    == Accept(fed)
           rest == (net \ {p}) \union keep
           f    == Other(e)
<1>1. /\ EndOK(e, fed) /\ Quiet(fed)
      /\ \A v : Known(conn[e], v) => Known(fed, v)
      /\ \A v : Known(fed, v) => Known(conn[e], v) \/ v \in Opened(p)
      /\ e = "c" /\ fed.state = "CONNECTED" => <<fed.local_id, fed.remote_id>> \in accepted
  BY FeedFacts, ZenonT(30)
<1>2. /\ Settle(e, c, rest)
      /\ accepted' = IF fed # c THEN accepted \union {<<c.remote_id, c.local_id>>} ELSE accepted
  BY DEF Receive, Fed, Answer
<1> HIDE DEF fed
<1>3. /\ c \in Conns /\ Table(c)
      /\ c.server = fed.server /\ c.next_chan_id = fed.next_chan_id /\ c.peer = fed.peer
      /\ c.local_id = fed.local_id /\ c.remote_id = fed.remote_id
      /\ \A v : Known(c, v) <=> Known(fed, v)
      /\ Args(c.ctrl, "open") = {}
      /\ \A v \in Args(c.ctrl, "accept") : v = fed.local_id /\ c # fed
      /\ ~fed.server => c = fed
  BY <1>1, AcceptFacts, ZenonT(30) DEF EndOK
<1> HIDE DEF c
<1>4. EndOK(e, c)
  BY <1>1, <1>3, ZenonT(30) DEF EndOK
<1>5. accepted \subseteq accepted'
  BY <1>2, SMTT(30)
<1>6. Handled(e, c, Opened(p), accepted')
  <2>1. e = "s" => \A v \in Args(c.ctrl, "accept") : <<c.remote_id, v>> \in accepted'
    BY <1>2, <1>3
  <2>2. e = "c" /\ c.state = "CONNECTED" => <<c.local_id, c.remote_id>> \in accepted'
    BY <1>1, <1>3, <1>5, ZenonT(30) DEF EndOK
  <2> QED
    BY <1>1, <1>3, <1>4, <2>1, <2>2, ZenonT(30) DEF Handled
<1>7. Typed /\ PacketOK(p) /\ f \in Ends /\ OpensKnown(f) /\ OpensOnce(f)
  BY SMTT(30) DEF IInv, Ends, Other
<1>8. Sender(p) = f
  BY <1>7, SMTT(30) DEF PacketOK, Sender, AddrOf, Typed, FirstClientAddr, ServerAddr, Ends, Other
<1>9. \A v \in Opened(p) : v % 2 = Own(f)
  BY <1>7, <1>8, SMTT(30) DEF PacketOK
<1>10. Gotten(e, Opened(p), rest)
  <2>1. dups' = 0 => dups = 0 /\ keep = {}
    BY <1>7, SMTT(30) DEF Typed
  <2> QED
    BY <1>7, <1>8, <2>1, SMTT(30) DEF Gotten, OpensKnown, OpensOnce
<1>11. rest \subseteq net /\ dups' \in Nat /\ (dups' = 0 => dups = 0)
  BY <1>7, SMTT(30) DEF Typed
<1> HIDE DEF rest
<1> QED
  BY <1>2, <1>5, <1>6, <1>9, <1>10, <1>11, SettleStep, ZenonT(30)

LEMMA DeliverStep ==
    ASSUME IInv, NEW e \in Ends, Deliver(e)
    PROVE  IInv'
<1>1. PICK p \in net :
        /\ p.to = AddrOf(e)
        /\ \/ Receive(e, p, {}) /\ dups' = dups
           \/ Receive(e, p, {p}) /\ dups' = dups + 1
        /\ UNCHANGED <<now, caddr, life>>
  BY ZenonT(30) DEF Deliver
<1>2. {p} # {}
  BY SMTT(30)
<1> QED
  BY <1>1, <1>2, ReceiveStep

\* netchan_open.
LEMMA OpenFacts ==
    ASSUME NEW e \in Ends
    PROVE  LET d == Open(e = "s")
           IN EndOK(e, d) /\ Settled(d) /\ d.chans = {} /\ d.state = "NEW"
<1> DEFINE d == Open(e = "s")
<1>0. 0 \in Times /\ IdSpace \in Nat /\ IdSpace > 1 /\ MaxChan \in Nat
  BY ClockAssumption, ConnSizes DEF Times
<1>1. /\ d.chans = {} /\ d.state = "NEW" /\ d.ctrl = <<>> /\ d.events = <<>>
      /\ d.peer = None /\ (d.server <=> e = "s")
      /\ d.next_chan_id = IF e = "s" THEN 1 ELSE 0
  BY ZenonT(30) DEF Open
<1>2. d \in Conns
  BY <1>0, SMTT(30) DEF Open, Conns, States, None
<1> HIDE DEF d
<1>3. Table(d)
  BY <1>0, <1>1, FS_EmptySet, SMTT(30) DEF Table
<1>4. EndOK(e, d)
  BY <1>0, <1>1, <1>2, <1>3, SMTT(30) DEF EndOK, Own, None, ServerAddr
<1> QED
  BY <1>1, <1>4, SMTT(30) DEF d, Settled

\* A restart forgets the channels; the id and the queued DISCONNECT go with them.
LEMMA ReopenStep ==
    ASSUME IInv, NEW e \in Ends, Reopen(e)
    PROVE  IInv'
<1> DEFINE f == Other(e)
           d == Open(e = "s")
<1>1. /\ Typed /\ f \in Ends /\ f # e /\ Other(f) = e
      /\ conn' = [conn EXCEPT ![e] = d] /\ life' = [life EXCEPT ![e] = @ + 1]
      /\ UNCHANGED <<net, now, caddr, dups, accepted>>
  BY SMTT(30) DEF IInv, Reopen, Ends, Other
<1>2. EndOK(e, d) /\ Settled(d) /\ d.chans = {} /\ d.state = "NEW"
  BY OpenFacts, SMTT(30)
<1>3. d \in Conns
  BY <1>2, SMTT(30) DEF EndOK
<1> HIDE DEF d
<1>4. conn'[e] = d /\ conn'[f] = conn[f] /\ life'[f] = life[f] /\ life'[e] # 1
  BY <1>1, SMTT(30) DEF Typed
<1>5. Typed'
  BY <1>1, <1>3, SMTT(30) DEF Typed
<1>6. \A g \in Ends : EndOK(g, conn'[g]) /\ Settled(conn'[g])
  BY <1>2, <1>3, <1>4, SMTT(30) DEF IInv, f, Ends, Other
<1>7. \A p \in net' : PacketOK(p) /\ AcceptOK(p, accepted')
  BY <1>1, SMTT(30) DEF IInv, AcceptOK
<1>8. ~(\E v : Known(d, v))
  BY <1>2, SMTT(30) DEF Known
<1>9. OpensKnown(e)' /\ OpensOnce(e)'
  BY <1>4 DEF OpensKnown, OpensOnce
<1>10. OpensKnown(f)' /\ OpensOnce(f)'
  <2>1. OpensKnown(f) /\ OpensOnce(f)
    BY <1>1, SMTT(30) DEF IInv
  <2> HIDE DEF f
  <2> QED
    BY <2>1, <1>1, <1>2, <1>4, <1>8, ZenonT(30) DEF OpensKnown, OpensOnce
<1>11. ConnectedMeansAccepted'
  BY <1>1, <1>2, <1>4, SMTT(30) DEF ConnectedMeansAccepted, IInv, f, Ends, Other
<1>12. \A g \in Ends : OpensKnown(g)' /\ OpensOnce(g)'
  BY <1>9, <1>10, SMTT(30) DEF Ends, Other, f
<1> QED
  BY <1>5, <1>6, <1>7, <1>11, <1>12, ZenonT(30) DEF IInv, PacketOK

\* The network and the clock: datagrams vanish, the client's address and the time
\* change.
LEMMA WorldStep ==
    ASSUME IInv, Lose \/ Move \/ Advance \/ UNCHANGED vars
    PROVE  IInv'
<1>1. /\ UNCHANGED <<conn, life, dups, accepted>> /\ net' \subseteq net
      /\ now' \in {now, (now + 1) % ClockMod} /\ caddr' \in {caddr, caddr + 1}
  <2>1. CASE Lose
    BY <2>1, SMTT(30) DEF Lose
  <2>2. CASE Move
    BY <2>2, SMTT(30) DEF Move
  <2>3. CASE Advance
    BY <2>3, SMTT(30) DEF Advance
  <2>4. CASE UNCHANGED vars
    BY <2>4, SMTT(30) DEF vars
  <2> QED  BY <2>1, <2>2, <2>3, <2>4, SMTT(30)
<1>2. Typed'
  <2>1. Typed
    BY DEF IInv
  <2>2. now' \in Times
    BY <2>1, <1>1, ClockAssumption, SMTT(30) DEF Typed, Times
  <2>3. caddr' \in Nat /\ caddr' >= FirstClientAddr
    BY <2>1, <1>1, SMTT(30) DEF Typed, FirstClientAddr
  <2> QED
    BY <2>1, <2>2, <2>3, <1>1, SMTT(30) DEF Typed
<1>3. \A e \in Ends : EndOK(e, conn'[e]) /\ Settled(conn'[e])
  BY <1>1, SMTT(30) DEF IInv
<1>4. \A p \in net' : PacketOK(p) /\ AcceptOK(p, accepted')
  BY <1>1, SMTT(30) DEF IInv, AcceptOK
<1>5. \A f \in Ends : OpensKnown(f)' /\ OpensOnce(f)'
  BY <1>1, ZenonT(30) DEF IInv, OpensKnown, OpensOnce
<1>6. ConnectedMeansAccepted'
  BY <1>1, ZenonT(30) DEF IInv, ConnectedMeansAccepted
<1> QED
  BY <1>2, <1>3, <1>4, <1>5, <1>6, SMTT(30) DEF IInv, PacketOK

-----------------------------------------------------------------------------
(* The theorems. *)

LEMMA InitIInv == Init => IInv
<1> SUFFICES ASSUME Init PROVE IInv
  BY SMTT(30)
<1>1. ASSUME NEW e \in Ends
      PROVE  EndOK(e, conn[e]) /\ Settled(conn[e]) /\ conn[e].chans = {} /\ conn[e].state = "NEW"
  <2>1. conn[e] = Open(e = "s")
    BY DEF Init
  <2> QED
    BY <2>1, OpenFacts, SMTT(30)
<1>2. Typed
  <2>1. conn = [e \in Ends |-> conn[e]] /\ life = [e \in Ends |-> 1]
    BY DEF Init
  <2>2. conn \in [Ends -> Conns] /\ life \in [Ends -> Nat \ {0}]
    BY <1>1, <2>1, SMTT(30) DEF EndOK
  <2> QED
    BY <2>2, SMTT(30) DEF Init, Typed, Times, FirstClientAddr
<1>3. net = {}
  BY SMTT(30) DEF Init
<1>4. \A f \in Ends : OpensKnown(f) /\ OpensOnce(f)
  BY <1>1, <1>3, SMTT(30) DEF OpensKnown, OpensOnce, Ends, Other
<1>5. ConnectedMeansAccepted
  BY <1>1, SMTT(30) DEF ConnectedMeansAccepted, Ends
<1> QED
  BY <1>1, <1>2, <1>3, <1>4, <1>5, SMTT(30) DEF IInv

LEMMA NextIInv == IInv /\ [Next]_vars => IInv'
<1> SUFFICES ASSUME IInv, [Next]_vars PROVE IInv'
  OBVIOUS
<1>1. CASE ClientConnect
  BY <1>1, ConnectStep, SMTT(30)
<1>2. CASE Lose \/ Move \/ Advance \/ UNCHANGED vars
  BY <1>2, WorldStep, SMTT(30)
<1>3. ASSUME NEW e \in Ends, Deliver(e)
      PROVE  IInv'
  BY <1>3, DeliverStep, SMTT(30)
<1>4. ASSUME NEW e \in Ends, Tick(e)
      PROVE  IInv'
  BY <1>4, TickStep, SMTT(30)
<1>5. ASSUME NEW e \in Ends, AppOpen(e)
      PROVE  IInv'
  BY <1>5, AppOpenStep
<1>6. ASSUME NEW e \in Ends, AppWrite(e) \/ AppChanClose(e)
      PROVE  IInv'
  BY <1>6, AppChannelStep, SMTT(30)
<1>7. ASSUME NEW e \in Ends, Reopen(e)
      PROVE  IInv'
  BY <1>7, ReopenStep
<1> QED
  BY <1>1, <1>2, <1>3, <1>4, <1>5, <1>6, <1>7, SMTT(30) DEF Next

\* IInv is an invariant of a client and a server on a network that loses,
\* repeats, delays and reorders, through restarts of both and moves of the client.
THEOREM Inductive == Spec => []IInv
  BY InitIInv, NextIInv, PTL DEF Spec

\* The event ring, the control buffer and the channel table of struct netchan_conn
\* stay within their bounds and a channel id has one entry.
THEOREM TypeCorrect == Spec => []TypeOK
<1>1. IInv => TypeOK
  <2> SUFFICES ASSUME IInv PROVE TypeOK
    BY SMTT(30)
  <2>1. ASSUME NEW e \in Ends
        PROVE  /\ conn[e].state \in States
               /\ Len(conn[e].ctrl) <= CtrlSlots /\ Len(conn[e].events) <= EventSlots
               /\ Cardinality(conn[e].chans) <= MaxChan
               /\ \A a, b \in conn[e].chans : a.id = b.id => a = b
               /\ \A t \in {conn[e].last_recv, conn[e].last_send, conn[e].ping_sent} :
                    t \in 0 .. ClockMod - 1
    <3>1. EndOK(e, conn[e]) /\ Settled(conn[e])
      BY DEF IInv
    <3>2. Len(conn[e].ctrl) = 0 /\ Len(conn[e].events) = 0
      BY <3>1, SMTT(30) DEF Settled
    <3>3. CtrlSlots \in Nat /\ EventSlots \in Nat
      BY ConnSizes, SMTT(30)
    <3> QED
      BY <3>1, <3>2, <3>3, SMTT(30) DEF EndOK, Table, Conns, Times
  <2> QED
    BY <2>1 DEF TypeOK, IInv, Typed, Times
<1> QED
  BY <1>1, Inductive, PTL

\* A client that process_connect_accept has connected has an accept behind it of
\* the server object it names, for the client object it is: no late, repeated or
\* old ACCEPT connects it, however many restarts and address changes there were.
THEOREM OnlyAccepted == Spec => []ConnectedMeansAccepted
<1>1. IInv => ConnectedMeansAccepted
  BY SMTT(30) DEF IInv
<1> QED
  BY <1>1, Inductive, PTL

\* A CHANNEL_OPEN on its way names no channel of its receiver: the even and odd
\* ids of netchan_chan_open never meet, through the wrap of next_chan_id too.
THEOREM NoCollision == Spec => []OpensNeverCollide
<1>1. IInv => OpensNeverCollide
  <2> SUFFICES ASSUME IInv, NEW p \in net, NEW e \in Ends, p.to = AddrOf(e), dups = 0,
                      life[Other(e)] = 1, NEW i \in DOMAIN p.frames, p.frames[i].f = "open"
               PROVE  ~Known(conn[e], p.frames[i].v)
    BY SMTT(30) DEF OpensNeverCollide
  <2>1. p.frames[i].v \in Opened(p)
    BY SMTT(30) DEF Opened, Args
  <2>2. Typed /\ PacketOK(p) /\ Other(e) \in Ends /\ Other(Other(e)) = e /\ OpensOnce(Other(e))
    BY SMTT(30) DEF IInv, Ends, Other
  <2>3. Sender(p) = Other(e)
    BY <2>2 DEF PacketOK, Sender, AddrOf, Typed, FirstClientAddr, ServerAddr, Ends, Other
  <2> QED
    BY <2>1, <2>2, <2>3, SMTT(30) DEF OpensOnce
<1> QED
  BY <1>1, Inductive, PTL
=============================================================================
