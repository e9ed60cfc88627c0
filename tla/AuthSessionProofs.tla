------------------------- MODULE AuthSessionProofs -------------------------
(***************************************************************************)
(* Proofs about AuthSession, for every number of faults, tries, retries,   *)
(* lines and datagrams of a wakeup and every width of the replay window:   *)
(* the server lets in only a user whose valid credential was put on the    *)
(* channel of the very session, and a client has keys only with the host   *)
(* that its known_hosts file names first.                                  *)
(*                                                                         *)
(* deliver and on_readable loop over messages and datagrams: those loops   *)
(* are recursive functions, proved by the least counterexample.            *)
(***************************************************************************)
EXTENDS AuthSessionLemmas

-----------------------------------------------------------------------------
(* deliver, pump_events and advance. *)

LEMMA DeliverMsgKeeps ==
    ASSUME NEW w, NEW x \in Incoming(w), Ready(w, passwd)
    PROVE  Keeps(w, DeliverMsg(w, x), passwd)
<1>1. /\ x.tag \in {"AUTH", "APP"}
      /\ x.tag = "AUTH" => x = [tag |-> "AUTH", m |-> x.m]
      /\ x.tag = "APP" => x.m = "line"
  <2>1. CASE w.al.server
    <3>1. \/ x = [tag |-> "APP", m |-> "line"]
          \/ \E z : x = [tag |-> "AUTH", m |-> z]
      BY <2>1, Zenon DEF Incoming, ClientMessages
    <3> QED
      BY <3>1
  <2>2. CASE ~w.al.server
    BY <2>2 DEF Incoming, ServerMessages
  <2> QED
    BY <2>1, <2>2, SMTT(30)
<1>2. CASE x.tag = "AUTH"
  <2> DEFINE v == IF w.al.auth_started
                  THEN AuthOut([w EXCEPT !.al.auth = U!Feed(@, x.m)]) ELSE w
  <2>1. Keeps(w, v, passwd)
    <3>1. CASE w.al.auth_started
      <4>1. Sound(w, U!Feed(w.al.auth, x.m), passwd)
        BY <1>1, <1>2, <3>1, FeedSound, SMTT(30)
      <4>2. WorldOK(w, passwd) /\ w.al.crypto.have_key
        BY <3>1 DEF Ready, WorldOK, LoginOK
      <4> QED
        BY <3>1, <4>1, <4>2, DialogueUpdates, ZenonT(30)
    <3> QED
      BY <3>1, ReadyKeeps, SMTT(30)
  <2>2. DeliverMsg(w, x) = SettleAuth(v)
    BY <1>2 DEF DeliverMsg
  <2> HIDE DEF v
  <2>3. Keeps(v, SettleAuth(v), passwd)
    BY <2>1, SettleAuthKeeps, SMTT(30) DEF Keeps
  <2> QED
    BY <2>1, <2>2, <2>3, KeepsTransitive, SMTT(30)
<1>3. CASE x.tag = "APP"
  BY <1>1, <1>3, LinkSendKeeps, ReadyKeeps, SMTT(30) DEF DeliverMsg
<1> QED
  BY <1>1, <1>2, <1>3

\* What could be read before a step can be read after it.
LEMMA IncomingKept ==
    ASSUME NEW w, NEW v, Core(w, v)
    PROVE  Incoming(w) \subseteq Incoming(v)
  BY DEF Core, Incoming, ClientMessages

-----------------------------------------------------------------------------
(* The two loops, over messages and over datagrams. *)

Turn(loop, w, x) == IF loop = "deliver" THEN DeliverMsg(w, x) ELSE TakeDatagram(w, x)
\* r holds the worlds after the first k turns.
Turns(loop, r, k, w, xs) ==
    r = [n \in 0 .. k |-> IF n = 0 THEN w ELSE Turn(loop, r[n - 1], xs[n])]

LEMMA TurnsExist ==
    ASSUME NEW loop, NEW w, NEW xs
    PROVE  \A k \in Nat : \E r : Turns(loop, r, k, w, xs)
<1> DEFINE S == {k \in Nat : \E r : Turns(loop, r, k, w, xs)}
<1>1. 0 \in S
  <2> DEFINE g == [n \in 0 .. 0 |-> w]
  <2>1. g = [n \in 0 .. 0 |-> IF n = 0 THEN w ELSE Turn(loop, g[n - 1], xs[n])]
    OBVIOUS
  <2> HIDE DEF g
  <2>2. Turns(loop, g, 0, w, xs)
    BY <2>1 DEF Turns
  <2> QED
    BY <2>2
<1>2. ASSUME NEW k \in Nat, k \in S
      PROVE  k + 1 \in S
  <2>1. PICK g : Turns(loop, g, k, w, xs)
    BY <1>2
  <2> DEFINE h == [n \in 0 .. k + 1 |-> IF n = k + 1 THEN Turn(loop, g[k], xs[k + 1]) ELSE g[n]]
  <2>2. ASSUME NEW n \in 0 .. k + 1
        PROVE  h[n] = IF n = 0 THEN w ELSE Turn(loop, h[n - 1], xs[n])
    <3>1. CASE n = k + 1
      <4>1. n # 0 /\ n - 1 = k /\ h[n] = Turn(loop, g[k], xs[k + 1]) /\ h[k] = g[k]
        BY <3>1
      <4> QED
        BY <3>1, <4>1
    <3>2. CASE n # k + 1
      <4>1. n \in 0 .. k /\ h[n] = g[n] /\ (n # 0 => h[n - 1] = g[n - 1])
        BY <3>2
      <4>2. g[n] = IF n = 0 THEN w ELSE Turn(loop, g[n - 1], xs[n])
        BY <2>1, <4>1 DEF Turns
      <4> QED
        BY <4>1, <4>2
    <3> QED
      BY <3>1, <3>2
  <2>3. h = [n \in 0 .. k + 1 |-> IF n = 0 THEN w ELSE Turn(loop, h[n - 1], xs[n])]
    BY <2>2
  <2> HIDE DEF h
  <2>4. Turns(loop, h, k + 1, w, xs)
    BY <2>3 DEF Turns
  <2> QED
    BY <2>4
<1> HIDE DEF S
<1>3. \A k \in Nat : k \in S
  BY <1>1, <1>2, NatSetInduction
<1> QED
  BY <1>3 DEF S

LEMMA DeliverAllKeeps ==
    ASSUME NEW w, Ready(w, passwd), NEW msgs \in Seq(Incoming(w))
    PROVE  Keeps(w, DeliverAll(w, msgs), passwd)
<1> DEFINE Run(r) == r = [n \in 0 .. Len(msgs) |->
                            IF n = 0 THEN w ELSE DeliverMsg(r[n - 1], msgs[n])]
           h == CHOOSE r : Run(r)
           S == {n \in Nat : n <= Len(msgs) => Keeps(w, h[n], passwd)}
<1>0. Len(msgs) \in Nat /\ \A n \in 1 .. Len(msgs) : msgs[n] \in Incoming(w)
  OBVIOUS
<1>1. Run(h)
  <2>1. PICK r : Turns("deliver", r, Len(msgs), w, msgs)
    BY <1>0, TurnsExist, ZenonT(30)
  <2>2. Run(r)
    BY <2>1, SMTT(30) DEF Turns, Turn
  <2> HIDE DEF Run
  <2> QED
    BY <2>2, Zenon
<1>2. DeliverAll(w, msgs) = h[Len(msgs)]
  BY Zenon DEF DeliverAll
<1> HIDE DEF h
<1>3. h[0] = w /\ \A n \in 1 .. Len(msgs) : h[n] = DeliverMsg(h[n - 1], msgs[n])
  BY <1>0, <1>1
<1>4. 0 \in S
  BY <1>3, ReadyKeeps
<1>5. ASSUME NEW n \in Nat, n \in S
      PROVE  n + 1 \in S
  <2> SUFFICES ASSUME n + 1 <= Len(msgs) PROVE Keeps(w, h[n + 1], passwd)
    OBVIOUS
  <2>1. Keeps(w, h[n], passwd) /\ n + 1 \in 1 .. Len(msgs)
    BY <1>0, <1>5
  <2>2. h[n + 1] = DeliverMsg(h[n], msgs[n + 1])
    BY <1>3, <2>1
  <2>3. msgs[n + 1] \in Incoming(h[n])
    BY <1>0, <2>1, IncomingKept, SMTT(30) DEF Keeps
  <2>4. Keeps(h[n], h[n + 1], passwd)
    BY <2>1, <2>2, <2>3, DeliverMsgKeeps, SMTT(30) DEF Keeps
  <2> QED
    BY <2>1, <2>4, KeepsTransitive, SMTT(30)
<1> HIDE DEF S
<1>6. \A n \in Nat : n \in S
  BY <1>4, <1>5, NatSetInduction, SMTT(30)
<1> QED
  BY <1>0, <1>2, <1>6, SMTT(30) DEF S

LEMMA PumpEventsKeeps ==
    ASSUME NEW w, Ready(w, passwd), NEW msgs \in Seq(Incoming(w))
    PROVE  Keeps(w, PumpEvents(w, msgs), passwd)
<1> DEFINE evs == Range(w.al.conn.events)
           v == [w EXCEPT !.al.conn = C!Drained(@), !.al.rx = @ \/ "CHAN_OPEN" \in evs]
           u == IF "DISCONNECTED" \in evs THEN FireDown(v, "PEER") ELSE v
<1>1. PumpEvents(w, msgs) = IF u.al.rx THEN DeliverAll(u, msgs) ELSE u
  BY DEF PumpEvents
<1>2. Keeps(w, v, passwd)
  <2>1. Alike(w, v)
    BY SmallUpdates, ZenonT(30) DEF Ready, WorldOK
  <2> QED
    BY <2>1, ReadyAlike, SMTT(30)
<1> HIDE DEF v
<1>3. Keeps(v, u, passwd)
  <2>1. Ready(v, passwd) /\ Shaped(v)
    BY <1>2, SMTT(30) DEF Keeps, Ready, WorldOK
  <2>2. Keeps(v, FireDown(v, "PEER"), passwd)
    BY <2>1, SmallUpdates, ReadyAlike, ZenonT(30)
  <2> QED
    BY <2>1, <2>2, ReadyKeeps, SMTT(30)
<1>4. Keeps(w, u, passwd)
  BY <1>2, <1>3, KeepsTransitive
<1> HIDE DEF u
<1>5. msgs \in Seq(Incoming(u)) /\ Ready(u, passwd)
  BY <1>4, IncomingKept DEF Keeps
<1>6. Keeps(u, DeliverAll(u, msgs), passwd)
  BY <1>5, DeliverAllKeeps
<1> QED
  BY <1>1, <1>4, <1>6, KeepsTransitive, SMTT(30)

LEMMA StartAuthKeeps ==
    ASSUME NEW w, NEW pw, Ready(w, pw)
    PROVE  Keeps(w, StartAuth(w), pw)
<1> DEFINE sid == w.al.crypto.sid
           c == U!ClientInit(sid, User)
           a == IF w.al.server THEN U!ServerInit(sid) ELSE U!Start(c)
<1>1. StartAuth(w) = IF ~w.al.tx \/ w.al.auth_started \/ ~w.al.crypto.have_key THEN w
                     ELSE AuthOut([w EXCEPT !.al.auth = a, !.al.auth_started = TRUE])
  BY DEF StartAuth
<1>2. w.al.server = TRUE => Sound(w, U!ServerInit(sid), pw)
  BY ZenonT(30) DEF U!ServerInit, Sound, AuthFields
<1>3. w.al.server = FALSE => Sound(w, c, pw)
  BY ZenonT(30) DEF U!ClientInit, Sound, AuthFields
<1>4. U!Start(c) = U!Emit(c, U!Msg("HELLO", User)) /\ c.sent = <<>> /\ ~c.server
  BY DEF U!Start, U!ClientInit
<1> HIDE DEF c
<1>5. Emitted(c, U!Msg("HELLO", User))
  BY <1>4, SMTT(30) DEF Emitted
<1>6. w.al.server = FALSE => Sound(w, U!Start(c), pw)
  BY <1>3, <1>4, <1>5, EmitSound, SMTT(30)
<1>7. WorldOK(w, pw) /\ w.al.server \in BOOLEAN
  BY DEF Ready, WorldOK
<1>8. Sound(w, a, pw)
  BY <1>2, <1>6, <1>7, SMTT(30)
<1> HIDE DEF a
<1>9. w.al.crypto.have_key =>
        Keeps(w, AuthOut([w EXCEPT !.al.auth = a, !.al.auth_started = TRUE]), pw)
  BY <1>7, <1>8, DialogueUpdates, ZenonT(30)
<1> QED
  BY <1>1, <1>9, ReadyKeeps, SMTT(30)

LEMMA AdvanceLinkKeeps ==
    ASSUME NEW w, NEW pw, Ready(w, pw)
    PROVE  Keeps(w, AdvanceLink(w), pw)
<1> DEFINE v == NetchanConnect(w)
           u == OpenChannel(v)
           t == StartAuth(u)
<1>0. \A x : Ready(x, pw) => Shaped(x)
  BY SMTT(30) DEF Ready, WorldOK
<1>1. Keeps(w, v, pw) /\ Keeps(w, FireDown(w, "HOSTKEY"), pw)
  BY <1>0, SmallUpdates, ReadyAlike, ZenonT(30)
<1>2. AdvanceLink(w) \in {FireDown(w, "HOSTKEY"), SettleAuth(t)}
  BY DEF AdvanceLink
<1> HIDE DEF v
<1>3. Keeps(w, u, pw)
  <2>1. Keeps(v, u, pw)
    BY <1>0, <1>1, SmallUpdates, ReadyAlike, ZenonT(30) DEF Keeps
  <2> QED
    BY <1>1, <2>1, KeepsTransitive, SMTT(30)
<1> HIDE DEF u
<1>4. Keeps(w, t, pw)
  BY <1>3, StartAuthKeeps, KeepsTransitive, SMTT(30) DEF Keeps
<1> HIDE DEF t
<1>5. Keeps(w, SettleAuth(t), pw)
  BY <1>4, SettleAuthKeeps, KeepsTransitive, SMTT(30) DEF Keeps
<1> QED
  BY <1>1, <1>2, <1>5, SMTT(30)

\* The end of on_readable and on_tick.
LEMMA TurnEnds ==
    ASSUME NEW w, Ready(w, passwd), NEW msgs \in Seq(Incoming(w))
    PROVE  Keeps(w, FlushOut(AdvanceLink(PumpEvents(w, msgs))), passwd)
<1> DEFINE v == PumpEvents(w, msgs)
           u == AdvanceLink(v)
<1>1. Keeps(w, v, passwd)
  BY PumpEventsKeeps
<1> HIDE DEF v
<1>2. Keeps(w, u, passwd)
  BY <1>1, AdvanceLinkKeeps, KeepsTransitive, SMTT(30) DEF Keeps
<1> HIDE DEF u
<1>3. Keeps(w, FlushOut(u), passwd)
  BY <1>2, FlushOutKeeps, KeepsTransitive DEF Keeps
<1> QED
  BY <1>3 DEF u, v

-----------------------------------------------------------------------------
(* on_readable takes the datagrams. *)

\* A host that a file names first stays the first.
Pinned(old, new) ==
    \A k : KnownHost(old, Host, k) = "MATCH" => KnownHost(new, Host, k) = "MATCH"
Later(w, v) ==
    /\ Ready(v, passwd)
    /\ v.al.server = w.al.server /\ v.supplied = w.supplied
    /\ w.al.server => v.known_hosts = w.known_hosts
    /\ Pinned(w.known_hosts, v.known_hosts)

LEMMA LaterTransitive ==
    ASSUME NEW w, NEW v, NEW u, Later(w, v), Later(v, u)
    PROVE  Later(w, u)
  BY DEF Later, Pinned

LEMMA AlikeLater ==
    ASSUME NEW w, NEW v, Ready(w, passwd), Alike(w, v)
    PROVE  Later(w, v)
  BY ReadyAlike DEF Later, Keeps, Alike, Pinned

LEMMA ReadyLater ==
    ASSUME NEW w, Ready(w, passwd)
    PROVE  Later(w, w)
  BY DEF Later, Pinned

LEMMA ConsumeHelloFacts ==
    ASSUME NEW c, DOMAIN c = CryptoFields, ~c.have_key, NEW h, NEW ok
    PROVE  LET d == Y!ConsumeHello(c, h, ok)
           IN /\ DOMAIN d = CryptoFields /\ d.st = c.st /\ d.require = c.require
              /\ d.peer_static = h.st
              /\ d.have_key => ok /\ ~(c.require /\ h.st = Y!NoKey)
<1> DEFINE seen == [c EXCEPT !.peer_static = h.st]
           lost == [seen EXCEPT !.failed = TRUE]
           d == Y!ConsumeHello(c, h, ok)
<1>1. /\ DOMAIN seen = CryptoFields /\ seen.st = c.st /\ seen.require = c.require
      /\ seen.peer_static = h.st /\ seen.have_key = c.have_key
  BY DEF CryptoFields
<1>2. d = IF (c.require /\ h.st = Y!NoKey) \/ ~ok THEN lost
          ELSE [seen EXCEPT !.sid = Y!SessionId(seen, h.eph), !.have_key = TRUE]
  BY DEF Y!ConsumeHello, Y!DeriveSession
<1> HIDE DEF seen, d
<1>3. /\ DOMAIN d = CryptoFields /\ d.st = c.st /\ d.require = c.require
      /\ d.peer_static = h.st
      /\ d.have_key => ok /\ ~(c.require /\ h.st = Y!NoKey)
  BY <1>1, <1>2 DEF CryptoFields
<1> QED
  BY <1>3 DEF d

\* The first HELLO: the client's file is asked, and may grow, before there are keys.
LEMMA TakeHelloLater ==
    ASSUME NEW w, Ready(w, passwd), NEW h, h.st \in Nat
    PROVE  Later(w, TakeHello(w, h))
<1> DEFINE c == Y!ConsumeHello(w.al.crypto, h, HostVerified(w, h.st))
           b == IF w.al.server \/ h.st = Y!NoKey THEN w ELSE VerifyHost(w, h.st)
           n == [b EXCEPT !.al.crypto = c]
           v == IF w.al.crypto.have_key THEN w ELSE n
<1>1. TakeHello(w, h) = IF w.al.server THEN SendHello(v) ELSE v
  BY DEF TakeHello
<1>2. Shaped(w) /\ WorldOK(w, passwd) /\ w.known_hosts \in Seq(HostLines)
  BY DEF Ready, WorldOK
<1>3. ~w.al.crypto.have_key => Later(w, n)
  <2> SUFFICES ASSUME ~w.al.crypto.have_key PROVE Later(w, n)
    BY SMTT(30)
  <2>1. /\ DOMAIN c = CryptoFields /\ c.st = w.al.crypto.st /\ c.require = w.al.crypto.require
        /\ c.peer_static = h.st
        /\ c.have_key => HostVerified(w, h.st) /\ ~(w.al.crypto.require /\ h.st = Y!NoKey)
    BY <1>2, ConsumeHelloFacts, SMTT(30) DEF Shaped
  <2> HIDE DEF c
  <2>2. /\ Shaped(b) /\ b.al = w.al /\ b.q = w.q /\ b.net = w.net
        /\ b.supplied = w.supplied /\ b.ups = w.ups
        /\ b.known_hosts = IF ~w.al.server /\ h.st # Y!NoKey
                              /\ KnownHost(w.known_hosts, Host, h.st) = "UNKNOWN"
                           THEN KnownHostAdd(w.known_hosts, Host, h.st) ELSE w.known_hosts
    BY <1>2 DEF VerifyHost, Shaped, WorldFields
  <2> HIDE DEF b
  <2>3. /\ DOMAIN n = WorldFields /\ DOMAIN n.al = LinkFields /\ n.al.crypto = c
        /\ n.al.auth = w.al.auth /\ n.al.server = w.al.server
        /\ n.al.auth_started = w.al.auth_started /\ n.al.up = w.al.up
        /\ n.q = b.q /\ n.net = b.net /\ n.supplied = b.supplied /\ n.ups = b.ups
        /\ n.known_hosts = b.known_hosts
    BY <2>2 DEF Shaped, WorldFields, LinkFields
  <2> HIDE DEF n
  <2>0. LET new == KnownHostAdd(w.known_hosts, Host, h.st)
        IN /\ new \in Seq(HostLines) /\ Pinned(w.known_hosts, new)
           /\ KnownHost(w.known_hosts, Host, h.st) = "UNKNOWN"
                => KnownHost(new, Host, h.st) = "MATCH"
    BY <1>2, HostsGrow, ZenonT(30) DEF Pinned
  <2>4. /\ n.known_hosts \in Seq(HostLines) /\ Pinned(w.known_hosts, n.known_hosts)
        /\ w.al.server => n.known_hosts = w.known_hosts
    <3>1. Pinned(w.known_hosts, w.known_hosts)
      BY DEF Pinned
    <3> QED
      BY <1>2, <2>0, <2>2, <2>3, <3>1
  <2>5. HostOK(n.al, n.known_hosts)
    <3> SUFFICES ASSUME ~w.al.server, c.have_key
                 PROVE  KnownHost(n.known_hosts, Host, h.st) = "MATCH"
      BY <2>1, <2>3, SMTT(30) DEF HostOK
    <3>1. KnownHost(w.known_hosts, Host, h.st) \in {"UNKNOWN", "MATCH"} /\ h.st # Y!NoKey
      BY <1>2, <2>1, SMTT(30) DEF HostVerified, WorldOK
    <3> QED
      BY <2>0, <2>2, <2>3, <3>1, SMTT(30)
  <2>6. ~w.al.auth_started /\ ~w.al.up /\ w.q = <<>>
    BY <1>2, SMTT(30) DEF WorldOK, LoginOK
  <2>7. LoginOK(n.al, n.supplied, passwd)
    BY <2>3, <2>6, SMTT(30) DEF LoginOK
  <2>8. n.q = <<>> /\ n.q \in Seq(Messages(n.al, n.supplied))
    BY <2>2, <2>3, <2>6, SMTT(30)
  <2>9. Shaped(n)
    BY <1>2, <2>1, <2>3, SMTT(30) DEF Shaped
  <2>10. WorldOK(n, passwd)
    <3>1. /\ w.al.server \in BOOLEAN /\ w.al.crypto.st \in Nat /\ Stamped(w.net)
          /\ w.al.server \/ w.al.crypto.require
          /\ \A u \in w.ups : u.server => Proven(u.sid, u.user, w.supplied, passwd)
      BY <1>2, ZenonT(30) DEF WorldOK
    <3>2. n.al.server \in BOOLEAN /\ n.al.crypto.st \in Nat
      BY <2>1, <2>3, <3>1, ZenonT(30)
    <3>3. n.al.server \/ n.al.crypto.require
      BY <2>1, <2>3, <3>1, ZenonT(30)
    <3>4. n.net = w.net /\ n.ups = w.ups /\ n.supplied = w.supplied
      BY <2>2, <2>3, ZenonT(30)
    <3>5. Stamped(n.net) /\ \A u \in n.ups : u.server => Proven(u.sid, u.user, n.supplied, passwd)
      BY <3>1, <3>4, ZenonT(30)
    <3>6. n.al.up => n.al.auth_started
      BY <2>3, <2>6, ZenonT(30)
    <3>7. IF n.al.crypto.have_key THEN n.q \in Seq(Messages(n.al, n.supplied)) ELSE n.q = <<>>
      BY <2>8, ZenonT(30)
    <3> QED
      BY <2>4, <2>5, <2>7, <2>9, <3>2, <3>3, <3>5, <3>6, <3>7, ZenonT(30) DEF WorldOK
  <2> QED
    BY <2>2, <2>3, <2>4, <2>10, SMTT(30) DEF Later, Ready
<1>4. Later(w, v)
  BY <1>3, ReadyLater, SMTT(30)
<1> HIDE DEF v
<1>5. Later(v, SendHello(v))
  <2>1. Keeps(v, SendHello(v), passwd) /\ SendHello(v).supplied = v.supplied
    <3>1. Ready(v, passwd) /\ DOMAIN v = WorldFields
      BY <1>4 DEF Later, Ready, WorldOK, Shaped
    <3> QED
      BY <3>1, SendHelloKeeps, SMTT(30) DEF SendHello, WorldFields
  <2> QED
    BY <2>1 DEF Later, Keeps, Core, Pinned
<1> QED
  BY <1>1, <1>4, <1>5, LaterTransitive, SMTT(30)

LEMMA TakeSealedLater ==
    ASSUME NEW w, Ready(w, passwd), NEW p
    PROVE  Later(w, TakeSealed(w, p))
<1> DEFINE k == Y!AfterOpen(w.al.crypto, p)
           c == C!Feed(w.al.conn, p.body, Now, w.al.crypto.eph)
           v == [w EXCEPT !.al.crypto = k, !.al.conn = c]
           u == [v EXCEPT !.al.conn = C!Accept(@), !.al.accepted = TRUE]
<1>0. WorldOK(w, passwd) /\ Shaped(w) /\ w.al.auth.sent = <<>>
  BY DEF Ready, WorldOK
<1>1. TakeSealed(w, p) \in {w, v, u}
  BY <1>0 DEF TakeSealed
<1>2. /\ DOMAIN k = CryptoFields
      /\ k.have_key = w.al.crypto.have_key /\ k.sid = w.al.crypto.sid /\ k.st = w.al.crypto.st
      /\ k.require = w.al.crypto.require /\ k.peer_static = w.al.crypto.peer_static
  BY <1>0 DEF Shaped, CryptoFields, Y!AfterOpen
<1> HIDE DEF k, c
<1>3. /\ DOMAIN v = WorldFields /\ DOMAIN v.al = LinkFields
      /\ v.al.crypto = k /\ v.al.auth = w.al.auth /\ v.al.server = w.al.server
      /\ v.al.auth_started = w.al.auth_started /\ v.al.up = w.al.up
      /\ v.q = w.q /\ v.net = w.net /\ v.known_hosts = w.known_hosts
      /\ v.supplied = w.supplied /\ v.ups = w.ups
  BY <1>0, ZenonT(30) DEF Shaped, WorldFields, LinkFields
<1> HIDE DEF v
<1>4. Shaped(v)
  BY <1>0, <1>2, <1>3 DEF Shaped
<1>5. WorldOK(v, passwd)
  <2>1. Stamped(v.net)
    BY <1>0, <1>3, SMTT(30) DEF WorldOK
  <2> QED
    BY <1>0, <1>2, <1>3, <1>4, <2>1, Unaffected
<1>6. Later(w, v)
  BY <1>0, <1>3, <1>5, SMTT(30) DEF Later, Ready, Pinned
<1>7. Later(v, u)
  BY <1>4, <1>6, SmallUpdates, AlikeLater, ZenonT(30) DEF Later
<1> HIDE DEF u
<1> QED
  BY <1>1, <1>6, <1>7, ReadyLater, LaterTransitive, SMTT(30)

LEMMA TakeDatagramLater ==
    ASSUME NEW w, Ready(w, passwd), NEW d, d.p.hello => d.p.st \in Nat
    PROVE  Later(w, TakeDatagram(w, d))
<1> DEFINE v == PinPeer(w, d.from)
<1>1. Later(w, v)
  BY SmallUpdates, AlikeLater, ZenonT(30) DEF Ready, WorldOK
<1>2. TakeDatagram(w, d) \in {v, TakeSealed(v, d.p)}
        \/ (d.p.hello /\ TakeDatagram(w, d) = TakeHello(v, d.p))
  BY SMTT(30) DEF TakeDatagram
<1> HIDE DEF v
<1>3. Later(v, TakeSealed(v, d.p)) /\ (d.p.hello => Later(v, TakeHello(v, d.p)))
  BY <1>1, TakeSealedLater, TakeHelloLater, SMTT(30) DEF Later
<1> QED
  BY <1>1, <1>2, <1>3, LaterTransitive, SMTT(30)

LEMMA TakeAllLater ==
    ASSUME NEW w, Ready(w, passwd), NEW batch, Len(batch) \in Nat,
           \A i \in 1 .. Len(batch) : batch[i].p.hello => batch[i].p.st \in Nat
    PROVE  Later(w, TakeAll(w, batch))
<1> DEFINE Run(r) == r = [n \in 0 .. Len(batch) |->
                            IF n = 0 THEN w ELSE TakeDatagram(r[n - 1], batch[n])]
           h == CHOOSE r : Run(r)
           S == {n \in Nat : n <= Len(batch) => Later(w, h[n])}
<1>1. Run(h)
  <2>1. PICK r : Turns("take", r, Len(batch), w, batch)
    BY TurnsExist, ZenonT(30)
  <2>2. Run(r)
    BY <2>1 DEF Turns, Turn
  <2> HIDE DEF Run
  <2> QED
    BY <2>2, Zenon
<1>2. TakeAll(w, batch) = h[Len(batch)]
  BY Zenon DEF TakeAll
<1> HIDE DEF h
<1>3. h[0] = w /\ \A n \in 1 .. Len(batch) : h[n] = TakeDatagram(h[n - 1], batch[n])
  BY <1>1
<1>4. 0 \in S
  BY <1>3, ReadyLater, SMTT(30)
<1>5. ASSUME NEW n \in Nat, n \in S
      PROVE  n + 1 \in S
  <2> SUFFICES ASSUME n + 1 <= Len(batch) PROVE Later(w, h[n + 1])
    OBVIOUS
  <2>1. Later(w, h[n]) /\ n + 1 \in 1 .. Len(batch)
    BY <1>5
  <2>2. h[n + 1] = TakeDatagram(h[n], batch[n + 1])
    BY <1>3, <2>1, SMTT(30)
  <2>3. Later(h[n], h[n + 1])
    <3>1. Ready(h[n], passwd)
      BY <2>1, SMTT(30) DEF Later
    <3>2. batch[n + 1].p.hello => batch[n + 1].p.st \in Nat
      BY <2>1
    <3> QED
      BY <2>2, <3>1, <3>2, TakeDatagramLater, SMTT(30)
  <2> QED
    BY <2>1, <2>3, LaterTransitive, SMTT(30)
<1> HIDE DEF S
<1>6. \A n \in Nat : n \in S
  BY <1>4, <1>5, NatSetInduction, SMTT(30)
<1> QED
  BY <1>2, <1>6 DEF S

-----------------------------------------------------------------------------
(* The steps. *)

\* What the handlers of the end e leave, and what Commit makes of it.
Left(e, w) ==
    /\ Ready(w, passwd) /\ w.al.server = (e = "s")
    /\ supplied \subseteq w.supplied /\ Pinned(known_hosts, w.known_hosts)
    /\ e = "s" => w.known_hosts = known_hosts

LEMMA CommitKeeps ==
    ASSUME IInv, NEW e \in Ends, NEW w, NEW phase, NEW rest, NEW far, Left(e, w),
           Commit(e, w, phase, rest, far), Stamped(rest), passwd' = passwd, host_key' \in Nat,
           far = <<>> \/ (al[Other(e)].crypto.have_key
                             /\ far \in Seq(Messages(al[Other(e)], supplied)))
    PROVE  IInv' /\ Pinned(known_hosts, known_hosts')
<1> DEFINE o == Other(e)
           x == IF w.al.down # "NO" THEN [w.al EXCEPT !.stop = phase] ELSE w.al
<1>1. e # o /\ o \in Ends /\ Ends = {e, o}
  BY DEF Ends, Other
<1>2. /\ DOMAIN al' = Ends /\ al'[e] = x /\ al'[o] = al[o]
      /\ DOMAIN chanq' = Ends /\ chanq'[e] = w.q /\ chanq'[o] = far
  BY <1>1 DEF Commit, IInv
<1>3. /\ net' = rest \union w.net /\ known_hosts' = w.known_hosts
      /\ supplied' = w.supplied /\ ups' = w.ups
  BY SMTT(30) DEF Commit
<1>4. WorldOK(w, passwd) /\ Shaped(w) /\ w.al.auth.sent = <<>>
  BY DEF Left, Ready, WorldOK
<1>5. /\ DOMAIN x = LinkFields /\ x.server = w.al.server /\ x.crypto = w.al.crypto
      /\ x.auth = w.al.auth /\ x.auth_started = w.al.auth_started /\ x.up = w.al.up
  BY <1>4, SMTT(30) DEF Shaped, LinkFields
<1> HIDE DEF x
<1>6. Ready(World(e)', passwd')
  <2> DEFINE v == [al |-> x, q |-> w.q, net |-> {}, known_hosts |-> w.known_hosts,
                   supplied |-> w.supplied, ups |-> w.ups]
  <2>1. World(e)' = v
    BY <1>2, <1>3, SMTT(30) DEF World
  <2>2. /\ DOMAIN v = WorldFields /\ v.al = x /\ v.q = w.q /\ v.net = {}
        /\ v.known_hosts = w.known_hosts /\ v.supplied = w.supplied /\ v.ups = w.ups
    BY SMTT(30) DEF WorldFields
  <2> HIDE DEF v
  <2>3. Shaped(v) /\ Stamped(v.net)
    BY <1>4, <1>5, <2>2, SMTT(30) DEF Shaped, Stamped
  <2>4. WorldOK(v, passwd)
    BY <1>4, <1>5, <2>2, <2>3, Unaffected, ZenonT(30)
  <2> QED
    BY <1>4, <1>5, <2>1, <2>2, <2>4, SMTT(30) DEF Ready
<1>7. Ready(World(o)', passwd')
  <2> DEFINE v == [al |-> al[o], q |-> far, net |-> {}, known_hosts |-> w.known_hosts,
                   supplied |-> w.supplied, ups |-> w.ups]
             z == World(o)
  <2>1. World(o)' = v
    BY <1>2, <1>3, SMTT(30) DEF World
  <2>2. Ready(z, passwd) /\ WorldOK(z, passwd) /\ Shaped(z)
    BY <1>1, ZenonT(30) DEF IInv, Ready, WorldOK
  <2>3. /\ z.al = al[o] /\ z.q = chanq[o] /\ z.known_hosts = known_hosts
        /\ z.supplied = supplied
    BY SMTT(30) DEF World
  <2>4. /\ DOMAIN v = WorldFields /\ v.al = al[o] /\ v.q = far /\ v.net = {}
        /\ v.known_hosts = w.known_hosts /\ v.supplied = w.supplied /\ v.ups = w.ups
    BY SMTT(30) DEF WorldFields
  <2> HIDE DEF v, z
  <2>5. Shaped(v) /\ Stamped(v.net) /\ v.known_hosts \in Seq(HostLines)
    BY <1>4, <2>2, <2>3, <2>4, ZenonT(30) DEF Shaped, Stamped, WorldOK
  <2>6. HostOK(v.al, v.known_hosts)
    BY <2>2, <2>3, <2>4, SMTT(30) DEF HostOK, WorldOK, Left, Pinned
  <2>7. Messages(al[o], supplied) \subseteq Messages(al[o], w.supplied)
    BY MessagesGrow, SMTT(30) DEF Left
  <2>8. IF z.al.crypto.have_key THEN v.q \in Seq(Messages(z.al, v.supplied)) ELSE v.q = <<>>
    <3> DEFINE A == Messages(al[o], supplied)
               B == Messages(al[o], w.supplied)
    <3> HIDE DEF A, B
    <3>1. \A s : s \in Seq(A) => s \in Seq(B)
      BY <2>7 DEF A, B
    <3>2. <<>> \in Seq(B) /\ B = Messages(z.al, v.supplied)
      BY <2>3, <2>4 DEF B
    <3> QED
      BY <2>3, <2>4, <3>1, <3>2, ZenonT(30) DEF A
  <2>9. /\ z.supplied \subseteq v.supplied /\ (v.al.up => z.al.auth_started)
        /\ \A u \in v.ups : u.server => Proven(u.sid, u.user, v.supplied, passwd)
    BY <1>4, <2>2, <2>3, <2>4, ZenonT(30) DEF WorldOK, Left
  <2>10. WorldOK(v, passwd)
    BY <2>2, <2>3, <2>4, <2>5, <2>6, <2>8, <2>9, Carry, ZenonT(30)
  <2> QED
    BY <2>1, <2>2, <2>3, <2>4, <2>10 DEF Ready
<1>8. Stamped(net')
  BY <1>3, <1>4, SMTT(30) DEF Stamped, WorldOK
<1>9. al'["s"].server = TRUE /\ al'["c"].server = FALSE
  <2>1. al'[e].server = (e = "s") /\ al'[o].server = al[o].server
    BY <1>2, <1>5, ZenonT(30) DEF Left
  <2> QED
    BY <1>1, <2>1, ZenonT(30) DEF IInv, Ends, Other
<1>10. (\A i \in Ends : Ready(World(i), passwd))'
  BY <1>1, <1>6, <1>7, SMTT(30)
<1> QED
  BY <1>2, <1>3, <1>8, <1>9, <1>10, SMTT(30) DEF IInv, Left

\* The world a handler of e starts in.
LEMMA WorldFacts ==
    ASSUME IInv, NEW e \in Ends
    PROVE  /\ Ready(World(e), passwd) /\ World(e).al = al[e] /\ World(e).q = chanq[e]
           /\ World(e).known_hosts = known_hosts /\ World(e).supplied = supplied
           /\ World(e).ups = ups /\ al[e].server = (e = "s")
           /\ Other(e) \in Ends /\ Other(e) # e
           /\ IF al[e].crypto.have_key THEN chanq[e] \in Seq(Messages(al[e], supplied))
              ELSE chanq[e] = <<>>
<1>1. /\ World(e).al = al[e] /\ World(e).q = chanq[e]
      /\ World(e).known_hosts = known_hosts /\ World(e).supplied = supplied
      /\ World(e).ups = ups
  BY ZenonT(30) DEF World
<1>2. Ready(World(e), passwd) /\ al[e].server = (e = "s")
  BY ZenonT(30) DEF IInv, Ends
<1>3. Other(e) \in Ends /\ Other(e) # e
  BY SMTT(30) DEF Ends, Other
<1>4. IF World(e).al.crypto.have_key
      THEN World(e).q \in Seq(Messages(World(e).al, World(e).supplied)) ELSE World(e).q = <<>>
  BY <1>2, ZenonT(30) DEF Ready, WorldOK
<1>5. IF al[e].crypto.have_key THEN chanq[e] \in Seq(Messages(al[e], supplied))
      ELSE chanq[e] = <<>>
  BY <1>1, <1>4, ZenonT(30)
<1> QED
  BY <1>1, <1>2, <1>3, <1>5, ZenonT(30)

LEMMA LeftAfter ==
    ASSUME IInv, NEW e \in Ends, NEW f, NEW v, Later(World(e), f), Keeps(f, v, passwd)
    PROVE  Left(e, v)
<1>1. /\ World(e).al.server = (e = "s") /\ World(e).known_hosts = known_hosts
      /\ World(e).supplied = supplied
  BY WorldFacts
<1>2. /\ f.al.server = World(e).al.server /\ f.supplied = World(e).supplied
      /\ World(e).al.server => f.known_hosts = World(e).known_hosts
      /\ Pinned(World(e).known_hosts, f.known_hosts)
  BY SMTT(30) DEF Later
<1>3. /\ Ready(v, passwd) /\ v.al.server = f.al.server /\ v.known_hosts = f.known_hosts
      /\ f.supplied \subseteq v.supplied
  BY SMTT(30) DEF Keeps, Core
<1> QED
  BY <1>1, <1>2, <1>3, ZenonT(30) DEF Left

\* A handler that takes no datagrams.
LEMMA StepKeeps ==
    ASSUME IInv, NEW e \in Ends, NEW v, NEW phase, Keeps(World(e), v, passwd),
           Commit(e, v, phase, net, chanq[Other(e)]), passwd' = passwd, host_key' = host_key
    PROVE  IInv' /\ Pinned(known_hosts, known_hosts')
<1>1. Left(e, v)
  BY WorldFacts, ReadyLater, LeftAfter
<1>2. LET o == Other(e)
      IN chanq[o] = <<>>
            \/ (al[o].crypto.have_key /\ chanq[o] \in Seq(Messages(al[o], supplied)))
  BY WorldFacts
<1> QED
  BY <1>1, <1>2, CommitKeeps, ZenonT(30) DEF IInv

LEMMA OnTickKeeps ==
    ASSUME NEW w, Ready(w, passwd), NEW due
    PROVE  Keeps(w, OnTick(w, due), passwd)
<1> DEFINE v == IF ~w.al.server /\ ~w.al.crypto.have_key THEN SendHello(w) ELSE w
           u == [v EXCEPT !.al.conn = C!Service(@, due, Now, 1)]
<1>1. OnTick(w, due) = FlushOut(AdvanceLink(PumpEvents(u, <<>>)))
  BY DEF OnTick
<1>2. Keeps(w, v, passwd)
  BY SendHelloKeeps, ReadyKeeps, SMTT(30)
<1> HIDE DEF v
<1>3. Ready(v, passwd) /\ Shaped(v)
  BY <1>2, SMTT(30) DEF Keeps, Ready, WorldOK
<1>4. Keeps(v, u, passwd)
  BY <1>3, SmallUpdates, ReadyAlike, ZenonT(30)
<1> HIDE DEF u
<1>5. Ready(u, passwd) /\ <<>> \in Seq(Incoming(u))
  BY <1>4 DEF Keeps
<1>6. Keeps(u, OnTick(w, due), passwd)
  BY <1>1, <1>5, TurnEnds, ZenonT(30)
<1> QED
  BY <1>2, <1>4, <1>6, KeepsTransitive, SMTT(30)

\* The fields of a link that the invariant looks at.
Opened(l, e, n, hk) ==
    /\ DOMAIN l = LinkFields /\ l.server = (e = "s")
    /\ l.crypto = IF e = "s" THEN Y!CryptoInit(1, Eph(e, n), hk, FALSE)
                  ELSE Y!CryptoInit(0, Eph(e, n), Y!NoKey, TRUE)
    /\ l.auth = U!ServerInit(Y!NoKey) /\ l.auth_started = FALSE /\ l.up = FALSE

LEMMA LinkShape ==
    ASSUME NEW e, NEW n, NEW hk, NEW kf
    PROVE  Opened(Link(e, n, hk, kf), e, n, hk)
<1> DEFINE l == Link(e, n, hk, kf)
<1>1. DOMAIN l = LinkFields
  BY ZenonT(30) DEF Link, LinkFields
<1>2. /\ l.server = (e = "s")
      /\ l.crypto = IF e = "s" THEN Y!CryptoInit(1, Eph(e, n), hk, FALSE)
                    ELSE Y!CryptoInit(0, Eph(e, n), Y!NoKey, TRUE)
      /\ l.auth = U!ServerInit(Y!NoKey) /\ l.auth_started = FALSE /\ l.up = FALSE
  BY ZenonT(30) DEF Link
<1> QED
  BY <1>1, <1>2, ZenonT(30) DEF Opened

\* A link that was just opened.
AllProven(w, pw) == \A u \in w.ups : u.server => Proven(u.sid, u.user, w.supplied, pw)
LEMMA LinkReady ==
    ASSUME NEW e \in Ends, NEW n, NEW hk \in Nat, NEW kf, NEW w, NEW pw,
           DOMAIN w = WorldFields, w.al = Link(e, n, hk, kf), w.q = <<>>, w.net = {},
           w.known_hosts \in Seq(HostLines), AllProven(w, pw)
    PROVE  Ready(w, pw) /\ w.al.server = (e = "s")
<1>0. Opened(w.al, e, n, hk)
  BY LinkShape, ZenonT(30)
<1>1. /\ w.al.server = (e = "s") /\ DOMAIN w.al = LinkFields
      /\ w.al.crypto = IF e = "s" THEN Y!CryptoInit(1, Eph(e, n), hk, FALSE)
                       ELSE Y!CryptoInit(0, Eph(e, n), Y!NoKey, TRUE)
      /\ w.al.auth = U!ServerInit(Y!NoKey) /\ w.al.auth_started = FALSE /\ w.al.up = FALSE
  BY <1>0, SMTT(30) DEF Opened
<1>2. DOMAIN w.al.auth = AuthFields /\ w.al.auth.sent = <<>>
  <2> DEFINE a == U!ServerInit(Y!NoKey)
  <2>1. DOMAIN a = AuthFields /\ a.sent = <<>>
    BY SMTT(30) DEF U!ServerInit, AuthFields
  <2> HIDE DEF a
  <2>2. w.al.auth = a
    BY <1>1 DEF a
  <2> QED
    BY <2>1, <2>2
<1>3. /\ DOMAIN w.al.crypto = CryptoFields /\ w.al.crypto.have_key = FALSE
      /\ w.al.crypto.st \in Nat /\ (e # "s" => w.al.crypto.require = TRUE)
  BY <1>1 DEF Y!CryptoInit, Y!NoKey, CryptoFields
<1>4. Shaped(w) /\ Stamped(w.net)
  BY <1>1, <1>2, <1>3, ZenonT(30) DEF Shaped, Stamped
<1>5. LoginOK(w.al, w.supplied, pw) /\ HostOK(w.al, w.known_hosts)
  BY <1>1, <1>3, ZenonT(30) DEF LoginOK, HostOK
<1>6. w.al.server \in BOOLEAN /\ (w.al.server \/ w.al.crypto.require)
  BY <1>1, <1>3, ZenonT(30)
<1> QED
  BY <1>1, <1>2, <1>3, <1>4, <1>5, <1>6, ZenonT(30) DEF Ready, WorldOK, AllProven

LEMMA BatchFacts ==
    ASSUME NEW e \in Ends, NEW b \in Batches(e)
    PROVE  Len(b) \in Nat /\ \A i \in 1 .. Len(b) : b[i] \in net
<1>1. PICK n \in 0 .. MaxBatch : b \in Injection(1 .. n, {d \in net : d.to = al[e].addr})
  BY DEF Batches
<1>2. n \in Nat
  BY <1>1, SMTT(30)
<1>3. b \in [1 .. n -> {d \in net : d.to = al[e].addr}]
  BY <1>1 DEF Injection
<1>4. Len(b) = n
  BY <1>2, <1>3, SMTT(30)
<1> QED
  BY <1>2, <1>3, <1>4

LEMMA ReadableStep ==
    ASSUME IInv, NEW e \in Ends, Readable(e)
    PROVE  IInv' /\ Pinned(known_hosts, known_hosts')
<1> DEFINE o == Other(e)
           q == chanq[o]
<1>1. PICK b \in Batches(e), n \in 0 .. Len(q), again \in BOOLEAN :
        LET fed == TakeAll(World(e), b)
        IN /\ n > 0 => Linked(al[o], fed.al)
           /\ Commit(e, FlushOut(AdvanceLink(PumpEvents(fed, SubSeq(q, 1, n)))), "FDS",
                     IF again THEN net ELSE net \ Range(b), SubSeq(q, n + 1, Len(q)))
           /\ passwd' = passwd /\ host_key' = host_key
  BY Zenon DEF Readable
<1> DEFINE f == TakeAll(World(e), b)
           got == SubSeq(q, 1, n)
           v == FlushOut(AdvanceLink(PumpEvents(f, got)))
           rest == IF again THEN net ELSE net \ Range(b)
           far == SubSeq(q, n + 1, Len(q))
<1>2. /\ Ready(World(e), passwd) /\ al[e].server = (e = "s") /\ World(e).al = al[e]
      /\ World(e).supplied = supplied
  BY WorldFacts, SMTT(30)
<1>3. /\ o \in Ends /\ al[o].server = (o = "s") /\ (o = "s") = (e # "s")
      /\ IF al[o].crypto.have_key THEN q \in Seq(Messages(al[o], supplied)) ELSE q = <<>>
  BY WorldFacts, SMTT(30) DEF Ends, Other
<1>4. Later(World(e), f)
  <2>1. Len(b) \in Nat /\ \A i \in 1 .. Len(b) : b[i].p.hello => b[i].p.st \in Nat
    BY BatchFacts, SMTT(30) DEF IInv, Stamped
  <2> QED
    BY <1>2, <2>1, TakeAllLater, SMTT(30)
<1> HIDE DEF f
<1>5. Ready(f, passwd) /\ f.al.server = (e = "s") /\ f.supplied = supplied
  BY <1>2, <1>4, SMTT(30) DEF Later
<1> HIDE DEF q
<1>6. got \in Seq(Incoming(f))
  <2>1. CASE n = 0
    <3>1. got = <<>>
      BY <1>3, <2>1, SMTT(30)
    <3> QED
      BY <3>1, SMTT(30)
  <2>2. CASE n > 0
    <3>1. al[o].crypto.have_key /\ al[o].crypto.sid = f.al.crypto.sid
      BY <1>1, <2>2, ZenonT(30) DEF Linked, f
    <3>2. Incoming(f) = Messages(al[o], supplied)
      BY <1>3, <1>5, <3>1, ZenonT(30) DEF Incoming, Messages
    <3> QED
      BY <1>3, <3>1, <3>2, SMTT(30)
  <2> QED
    BY <1>1, <2>1, <2>2, SMTT(30)
<1>7. Keeps(f, v, passwd)
  BY <1>5, <1>6, TurnEnds, ZenonT(30)
<1>8. Left(e, v)
  BY <1>4, <1>7, LeftAfter
<1>9. far = <<>> \/ (al[o].crypto.have_key /\ far \in Seq(Messages(al[o], supplied)))
  <2>1. q = <<>> => far = <<>>
    BY <1>1, SMTT(30)
  <2>2. q \in Seq(Messages(al[o], supplied)) => far \in Seq(Messages(al[o], supplied))
    BY <1>1, SMTT(30)
  <2> QED
    BY <1>3, <2>1, <2>2, SMTT(30)
<1>10. Stamped(rest) /\ host_key' \in Nat
  BY <1>1, SMTT(30) DEF Stamped, IInv
<1>11. Commit(e, v, "FDS", rest, far) /\ passwd' = passwd
  BY <1>1, SMTT(30) DEF f
<1> HIDE DEF v, rest, far
<1> QED
  BY <1>8, <1>9, <1>10, <1>11, CommitKeeps, SMTT(30)

LEMMA TickStep ==
    ASSUME IInv, NEW e \in Ends, Tick(e)
    PROVE  IInv' /\ Pinned(known_hosts, known_hosts')
<1>1. PICK due : /\ Commit(e, OnTick(World(e), due), "TIMERS", net, chanq[Other(e)])
                 /\ passwd' = passwd /\ host_key' = host_key
  BY SMTT(30) DEF Tick
<1>2. Keeps(World(e), OnTick(World(e), due), passwd)
  BY WorldFacts, OnTickKeeps, SMTT(30)
<1> QED
  BY <1>1, <1>2, StepKeeps, SMTT(30)

LEMMA StartStep ==
    ASSUME IInv, NEW e \in Ends, Start(e)
    PROVE  IInv' /\ Pinned(known_hosts, known_hosts')
<1>1. PICK kf \in Keyfiles, hk \in {host_key, 2} :
        /\ host_key' = hk /\ passwd' = passwd
        /\ Commit(e, OnTick([World(e) EXCEPT !.al = Link(e, starts[e] + 1, hk, kf), !.q = <<>>], {}),
                  "TIMERS", net, chanq[Other(e)])
  BY Zenon DEF Start
<1> DEFINE n == starts[e] + 1
           l == Link(e, n, hk, kf)
           w == [World(e) EXCEPT !.al = l, !.q = <<>>]
           v == OnTick(w, {})
           o == Other(e)
<1>2. hk \in Nat
  BY <1>1, SMTT(30) DEF IInv
<1>3. WorldOK(World(e), passwd) /\ DOMAIN World(e) = WorldFields
  BY WorldFacts, ZenonT(30) DEF Ready, WorldOK, Shaped
<1>4. /\ DOMAIN w = WorldFields /\ w.al = l /\ w.q = <<>> /\ w.net = World(e).net
      /\ w.known_hosts = World(e).known_hosts /\ w.supplied = World(e).supplied
      /\ w.ups = World(e).ups
  BY <1>3, SMTT(30) DEF WorldFields
<1> HIDE DEF w
<1>5. w.net = {}
  BY <1>4, ZenonT(30) DEF World
<1>6. Ready(w, passwd) /\ w.al.server = (e = "s")
  <2>1. w.known_hosts \in Seq(HostLines) /\ AllProven(w, passwd)
    BY <1>3, <1>4, ZenonT(30) DEF WorldOK, AllProven
  <2> HIDE DEF n
  <2> QED
    BY <1>2, <1>4, <1>5, <2>1, LinkReady, SMTT(30)
<1>7. Keeps(w, v, passwd)
  BY <1>6, OnTickKeeps, SMTT(30)
<1>8. w.known_hosts = known_hosts /\ w.supplied = supplied
  BY <1>4, WorldFacts, SMTT(30)
<1>9. Left(e, v)
  BY <1>6, <1>7, <1>8, SMTT(30) DEF Left, Keeps, Core, Pinned
<1>10. chanq[o] = <<>> \/ (al[o].crypto.have_key /\ chanq[o] \in Seq(Messages(al[o], supplied)))
  BY WorldFacts, SMTT(30)
<1>11. Commit(e, v, "TIMERS", net, chanq[o]) /\ passwd' = passwd /\ host_key' \in Nat
  BY <1>1, <1>2, SMTT(30) DEF w
<1> HIDE DEF v
<1> QED
  BY <1>9, <1>10, <1>11, CommitKeeps, ZenonT(30) DEF IInv

LEMMA KeyboardStep ==
    ASSUME IInv, SecretTyped \/ StdinLine
    PROVE  IInv' /\ Pinned(known_hosts, known_hosts')
<1> DEFINE w == World("c")
<1>1. Ready(w, passwd) /\ Shaped(w) /\ Other("c") = "s" /\ "c" \in Ends
  BY WorldFacts, SMTT(30) DEF Ready, WorldOK, Other, Ends
<1>2. CASE StdinLine
  <2>1. Keeps(w, LinkSend(w, "line"), passwd)
    BY <1>1, LinkSendKeeps, SMTT(30)
  <2> QED
    BY <1>1, <1>2, <2>1, StepKeeps, SMTT(30) DEF StdinLine
<1>3. CASE SecretTyped
  <2> DEFINE u == [w EXCEPT !.al.asking = "NOTHING", !.al.watching = "NONE"]
  <2>1. Keeps(w, u, passwd)
    BY <1>1, SmallUpdates, ReadyAlike, ZenonT(30)
  <2>2. PICK line :
          LET key == IF line = U!None THEN U!None ELSE KeyfileLoad(u.al.keyfile, line)
          IN /\ Commit("c", IF al["c"].asking = "KEY" THEN LinkSupplyKey(u, key)
                            ELSE LinkSupplyPassword(u, line), "FDS", net, chanq["s"])
             /\ passwd' = passwd /\ host_key' = host_key
    BY <1>3, Zenon DEF SecretTyped
  <2> DEFINE key == IF line = U!None THEN U!None ELSE KeyfileLoad(u.al.keyfile, line)
             v == IF al["c"].asking = "KEY" THEN LinkSupplyKey(u, key)
                  ELSE LinkSupplyPassword(u, line)
  <2>3. Commit("c", v, "FDS", net, chanq["s"]) /\ passwd' = passwd /\ host_key' = host_key
    BY <2>2, SMTT(30)
  <2> HIDE DEF u, key
  <2>4. Keeps(u, v, passwd)
    BY <2>1, LinkSupplyKeeps, SMTT(30) DEF Keeps
  <2> HIDE DEF v
  <2> QED
    BY <1>1, <2>1, <2>3, <2>4, KeepsTransitive, StepKeeps, SMTT(30)
<1> QED
  BY <1>2, <1>3, SMTT(30)

\* The end of input, and auth_server --adduser, which makes more passwords good.
LEMMA QuietStep ==
    ASSUME IInv, StdinEof \/ AddUser \/ UNCHANGED vars
    PROVE  IInv' /\ Pinned(known_hosts, known_hosts')
<1>0. Pinned(known_hosts, known_hosts')
  BY DEF StdinEof, AddUser, vars, Pinned
<1>1. CASE StdinEof
  <2> DEFINE u == [World("c") EXCEPT !.al.watching = "NONE"]
  <2>0. "c" \in Ends /\ "s" \in Ends /\ Ends = {"c", "s"} /\ DOMAIN al = Ends
    BY SMTT(30) DEF Ends, IInv
  <2>1. Ready(World("c"), passwd) /\ Shaped(World("c")) /\ World("c").al = al["c"]
    BY <2>0, WorldFacts, ZenonT(30) DEF Ready, WorldOK
  <2>2. Alike(World("c"), u)
    BY <2>1, SMTT(30) DEF Shaped, WorldFields, LinkFields, Alike
  <2>3. Ready(u, passwd) /\ u.al.server = al["c"].server
    <3> HIDE DEF u
    <3>1. Keeps(World("c"), u, passwd)
      BY <2>1, <2>2, ReadyAlike, SMTT(30)
    <3> QED
      BY <2>1, <3>1, SMTT(30) DEF Keeps, Core
  <2>4. /\ al' = [al EXCEPT !["c"] = [al["c"] EXCEPT !.watching = "NONE"]]
        /\ UNCHANGED <<chanq, net, known_hosts, passwd, host_key, supplied, ups>>
    BY <1>1, SMTT(30) DEF StdinEof
  <2>5. World("c")' = u
    BY <2>0, <2>4, SMTT(30) DEF World
  <2>6. World("s")' = World("s")
    BY <2>0, <2>4, SMTT(30) DEF World
  <2>7. al'["c"] = u.al /\ al'["s"] = al["s"] /\ DOMAIN al' = Ends
    BY <2>0, <2>1, <2>4, SMTT(30)
  <2>8. \A e \in Ends : Ready(World(e)', passwd')
    BY <2>0, <2>3, <2>4, <2>5, <2>6, SMTT(30) DEF IInv
  <2> QED
    BY <1>0, <2>3, <2>4, <2>7, <2>8, SMTT(30) DEF IInv
<1>2. CASE AddUser
  <2>1. /\ passwd' \in Seq(PasswdLines)
        /\ \A u, p : CheckPassword(passwd, u, p) => CheckPassword(passwd', u, p)
    BY <1>2, PasswdGrows, SMTT(30) DEF AddUser, IInv
  <2>2. ASSUME NEW e \in Ends
        PROVE  Ready(World(e)', passwd')
    <3> DEFINE w == World(e)
    <3>1. World(e)' = w
      BY <1>2, SMTT(30) DEF AddUser, World
    <3>2. WorldOK(w, passwd) /\ w.al.auth.sent = <<>>
      BY SMTT(30) DEF IInv, Ready
    <3> HIDE DEF w
    <3>3. /\ Shaped(w) /\ (w.al.up => w.al.auth_started) /\ Stamped(w.net)
          /\ w.known_hosts \in Seq(HostLines) /\ HostOK(w.al, w.known_hosts)
          /\ IF w.al.crypto.have_key THEN w.q \in Seq(Messages(w.al, w.supplied)) ELSE w.q = <<>>
          /\ \A u \in w.ups : u.server => Proven(u.sid, u.user, w.supplied, passwd)
      BY <3>2, SMTT(30) DEF WorldOK
    <3>4. \A u \in w.ups : u.server => Proven(u.sid, u.user, w.supplied, passwd')
      BY <2>1, <3>3, ProvenGrows, SMTT(30)
    <3>5. WorldOK(w, passwd')
      BY <2>1, <3>2, <3>3, <3>4, Carry, ZenonT(30)
    <3> QED
      BY <3>1, <3>2, <3>5, SMTT(30) DEF Ready
  <2> QED
    BY <1>0, <1>2, <2>1, <2>2, SMTT(30) DEF IInv, AddUser
<1>3. CASE UNCHANGED vars
  <2>1. \A e : World(e)' = World(e)
    BY <1>3, SMTT(30) DEF World, vars
  <2> QED
    BY <1>0, <1>3, <2>1, SMTT(30) DEF IInv, vars
<1> QED
  BY <1>1, <1>2, <1>3, SMTT(30)

-----------------------------------------------------------------------------
(* The theorems. *)

LEMMA InitIInv == Init => IInv
<1> SUFFICES ASSUME Init PROVE IInv
  OBVIOUS
<1>1. PICK kf \in Keyfiles : al = [e \in Ends |-> Link(e, 1, 1, kf)]
  BY DEF Init
<1>2. known_hosts \in Seq(HostLines)
  <2>1. known_hosts = <<>> \/ \E k \in 1 .. 2 : known_hosts = <<[name |-> Host, pk |-> k]>>
    BY DEF Init
  <2>2. \A k \in 1 .. 2 : [name |-> Host, pk |-> k] \in HostLines
    BY DEF HostLines
  <2>3. ASSUME NEW x \in HostLines
        PROVE  <<x>> \in Seq(HostLines)
    OBVIOUS
  <2>4. <<>> \in Seq(HostLines)
    BY SMTT(30)
  <2> QED
    BY <2>1, <2>2, <2>3, <2>4, Zenon
<1>3. ASSUME NEW e \in Ends
      PROVE  Ready(World(e), passwd) /\ al[e].server = (e = "s")
  <2> DEFINE w == World(e)
  <2>1. /\ DOMAIN w = WorldFields /\ w.al = Link(e, 1, 1, kf) /\ w.q = <<>> /\ w.net = {}
        /\ w.known_hosts = known_hosts /\ w.ups = {} /\ w.al = al[e]
    BY <1>1, ZenonT(30) DEF Init, World, WorldFields
  <2> HIDE DEF w
  <2>2. AllProven(w, passwd) /\ w.known_hosts \in Seq(HostLines)
    BY <1>2, <2>1, SMTT(30) DEF AllProven
  <2>3. Ready(w, passwd) /\ w.al.server = (e = "s")
    BY <2>1, <2>2, LinkReady, SMTT(30)
  <2> QED
    BY <2>1, <2>3, SMTT(30) DEF w
<1>4. DOMAIN al = Ends /\ DOMAIN chanq = Ends /\ Stamped(net) /\ host_key \in Nat
      /\ passwd \in Seq(PasswdLines)
  BY <1>1, SMTT(30) DEF Init, Stamped
<1> QED
  BY <1>3, <1>4, ZenonT(30) DEF IInv, Ends

LEMMA NextIInv ==
    ASSUME IInv, [Next]_vars
    PROVE  IInv' /\ Pinned(known_hosts, known_hosts')
  BY ReadableStep, TickStep, StartStep, KeyboardStep, QuietStep, SMTT(30) DEF Next

\* Every world an end can be in is a good one: a login belongs to the session of
\* its link, the channel holds only what its end may write there, and keys and
\* decisions are backed by the files (auth_link.c, nc_auth.c, keystore.c).
THEOREM Inductive == Spec => []IInv
<1>1. IInv /\ [Next]_vars => IInv'
  BY NextIInv
<1> QED
  BY InitIInv, <1>1, PTL DEF Spec

\* Whatever is lost, repeated, reordered or restarted, a server calls a user
\* authenticated only if a credential that its files accept for that user was put
\* on the channel of that very session (server_feed, settle_auth).
THEOREM ServerLetsInTheProven == Spec => []AuthAgreement
<1>1. IInv => AuthAgreement
  <2> SUFFICES ASSUME IInv PROVE AuthAgreement
    BY SMTT(30)
  <2>1. WorldOK(World("s"), passwd) /\ World("s").ups = ups /\ World("s").supplied = supplied
    BY WorldFacts, SMTT(30) DEF Ready, Ends
  <2>2. \A u \in ups : u.server => Proven(u.sid, u.user, supplied, passwd)
    BY <2>1, SMTT(30) DEF WorldOK
  <2> QED
    BY <2>2 DEF AuthAgreement, Proven
<1> QED
  BY Inductive, <1>1, PTL

\* A client has keys only with the host that its known_hosts file names first,
\* whichever servers answer it and whenever it is restarted (verify_host,
\* consume_hello).
THEOREM KeysOnlyWithTheKnownHost == Spec => []HostTrusted
<1>1. IInv => HostTrusted
  <2> SUFFICES ASSUME IInv PROVE HostTrusted
    OBVIOUS
  <2>1. /\ WorldOK(World("c"), passwd) /\ World("c").al = al["c"]
        /\ World("c").known_hosts = known_hosts /\ al["c"].server = FALSE
    BY WorldFacts, ZenonT(30) DEF Ready, Ends, IInv
  <2>2. HostOK(al["c"], known_hosts)
    BY <2>1 DEF WorldOK
  <2> QED
    BY <2>1, <2>2, SMTT(30) DEF HostOK, HostTrusted
<1> QED
  BY Inductive, <1>1, PTL

\* A host key that the file names first stays the one it names first: no step of
\* either program displaces it (ks_known_host_add only appends).
THEOREM FirstHostStays == Spec => [][Pinned(known_hosts, known_hosts')]_vars
<1>1. IInv /\ [Next]_vars => [Pinned(known_hosts, known_hosts')]_vars
  BY NextIInv
<1> QED
  BY Inductive, <1>1, PTL DEF Spec
=============================================================================
