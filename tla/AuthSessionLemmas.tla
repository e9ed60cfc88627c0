------------------------- MODULE AuthSessionLemmas -------------------------
(***************************************************************************)
(* The inductive invariant of AuthSession and what the operators of its    *)
(* handlers do to it.                                                      *)
(*                                                                         *)
(* A handler is a chain of operators on the world of its end.  Ready is    *)
(* what holds of a world between two of them; each operator is shown to    *)
(* keep it, with a lemma of its own.                                       *)
(***************************************************************************)
EXTENDS AuthSession, NaturalsInduction, WellFoundedInduction, TLAPS

-----------------------------------------------------------------------------
(* The inductive invariant. *)

LinkFields == {"server", "addr", "conn", "crypto", "tx", "rx", "peer", "connect_sent",
               "accepted", "auth", "auth_started", "need_fired", "up", "down", "stop",
               "keyfile", "asking", "watching"}
CryptoFields == {"role", "eph", "st", "require", "have_key", "failed", "peer_static",
                 "sid", "tx_counter", "rx_max", "rx_window"}
AuthFields == {"server", "state", "need", "sid", "user", "avail", "tries", "greeted", "sent"}
WorldFields == {"al", "q", "net", "known_hosts", "supplied", "ups"}

Shaped(w) ==
    /\ DOMAIN w = WorldFields /\ DOMAIN w.al = LinkFields
    /\ DOMAIN w.al.crypto = CryptoFields /\ DOMAIN w.al.auth = AuthFields

HostLines == [name : {Host}, pk : Nat]
PasswdLines == [name : {User}, password : {GoodPassword}]
Methods == {"PUBKEY", "PASSWORD"}

\* A credential of the user that pw or the authorized keys accept was supplied
\* in the session.
Proven(sid, user, sup, pw) ==
    \E s \in sup :
        /\ s.sid = sid /\ s.user = user
        /\ \/ AuthorizedKey(AuthorizedKeys, user, s.key)
           \/ CheckPassword(pw, user, s.password)

\* What the ends put on their channels.  A credential on the client's is among those
\* supplied, a password in the session of the client that wrote it.
ClientMessages(sid, sup) ==
    {[tag |-> "AUTH", m |-> U!Msg("HELLO", User)], [tag |-> "APP", m |-> "line"]}
    \union {[tag |-> "AUTH",
             m |-> U!Msg("PUBKEY", [key |-> s.key, sid |-> s.sid, user |-> s.user])] : s \in sup}
    \union {[tag |-> "AUTH", m |-> U!Msg("PASSWORD", s.password)] :
                s \in {x \in sup : x.sid = sid /\ x.user = User}}
ServerMessages ==
    [tag : {"AUTH"}, m : [t : {"METHODS", "OK", "FAIL"}, v : SUBSET Methods]]
    \union {[tag |-> "APP", m |-> "line"]}
Messages(l, sup) == IF l.server THEN ServerMessages ELSE ClientMessages(l.crypto.sid, sup)

\* A login that has started belongs to the session of its link; the server decides
\* for it only with proof, and the client never has PUBKEY left to try.
LoginOK(l, sup, pw) ==
    l.auth_started =>
        /\ l.crypto.have_key /\ l.auth.server = l.server /\ l.auth.sid = l.crypto.sid
        /\ l.auth.state \in {"PENDING", "OK", "DENIED"}
        /\ l.server => /\ l.auth.avail \subseteq Methods
                       /\ l.auth.greeted => l.auth.user = User
                       /\ l.auth.state = "OK" => Proven(l.auth.sid, l.auth.user, sup, pw)
        /\ ~l.server => l.auth.user = User /\ "PUBKEY" \notin l.auth.avail

\* The client's keys are with the first host of its file.
HostOK(l, hosts) ==
    ~l.server /\ l.crypto.have_key => KnownHost(hosts, Host, l.crypto.peer_static) = "MATCH"

Stamped(packets) == \A d \in packets : d.p.hello => d.p.st \in Nat

WorldOK(w, pw) ==
    /\ Shaped(w)
    /\ w.al.server \in BOOLEAN /\ w.al.crypto.st \in Nat /\ Stamped(w.net)
    /\ w.al.server \/ w.al.crypto.require
    /\ w.known_hosts \in Seq(HostLines) /\ HostOK(w.al, w.known_hosts)
    /\ w.al.up => w.al.auth_started
    /\ LoginOK(w.al, w.supplied, pw)
    /\ IF w.al.crypto.have_key THEN w.q \in Seq(Messages(w.al, w.supplied)) ELSE w.q = <<>>
    /\ \A u \in w.ups : u.server => Proven(u.sid, u.user, w.supplied, pw)
Ready(w, pw) == WorldOK(w, pw) /\ w.al.auth.sent = <<>>

IInv ==
    /\ DOMAIN al = Ends /\ DOMAIN chanq = Ends
    /\ al["s"].server = TRUE /\ al["c"].server = FALSE
    /\ \A e \in Ends : Ready(World(e), passwd)
    /\ Stamped(net) /\ host_key \in Nat
    /\ passwd \in Seq(PasswdLines)

-----------------------------------------------------------------------------
(* Induction, as in NcConnLemmas: by a least counterexample. *)

\* A set of naturals that is not empty has a least element.
LEMMA NatMin ==
    ASSUME NEW T, T \subseteq Nat, T # {}
    PROVE  \E x \in T : \A y \in T : x <= y
<1>1. PICK x \in T : \A y \in T : ~(<<y, x>> \in OpToRel(<, Nat))
  BY NatLessThanWellFounded, WFMin, Zenon
<1>2. \A y \in T : ~(y < x)
  BY <1>1, ZenonT(30) DEF OpToRel
<1> QED
  BY <1>2

\* Induction over the naturals for a set.
LEMMA NatSetInduction ==
    ASSUME NEW S, 0 \in S, \A n \in Nat : n \in S => n + 1 \in S
    PROVE  \A n \in Nat : n \in S
<1> DEFINE T == Nat \ S
<1> SUFFICES ASSUME T # {} PROVE FALSE
  OBVIOUS
<1>1. PICK k \in T : \A y \in T : k <= y
  BY NatMin, ZenonT(30)
<1>2. k # 0 /\ k - 1 \in Nat
  BY <1>1
<1>3. k - 1 \in S
  BY <1>1, <1>2
<1> QED
  BY <1>1, <1>2, <1>3

-----------------------------------------------------------------------------
(* The files. *)

\* A line added at the end hides no line of the same name.
LEMMA FirstLineStays ==
    ASSUME NEW S, NEW file \in Seq(S), NEW line \in S, NEW name, Lines(file, name) # {}
    PROVE  /\ Lines(Append(file, line), name) # {}
           /\ FirstLine(Append(file, line), name) = FirstLine(file, name)
<1> DEFINE new == Append(file, line)
           A   == Lines(file, name)
           B   == Lines(new, name)
<1>1. /\ Len(file) \in Nat /\ DOMAIN file = 1 .. Len(file) /\ DOMAIN new = 1 .. Len(file) + 1
      /\ \A i \in 1 .. Len(file) : new[i] = file[i]
  OBVIOUS
<1>2. A \subseteq Nat /\ A \subseteq 1 .. Len(file) /\ B \subseteq Nat
      /\ \A i \in 1 .. Len(file) : i \in A <=> i \in B
  BY <1>1 DEF Lines
<1>3. PICK x \in A : \A y \in A : x <= y
  BY <1>2, NatMin, Zenon
<1>4. \A y \in B : x <= y
  <2> SUFFICES ASSUME NEW y \in B PROVE x <= y
    OBVIOUS
  <2>1. y \in 1 .. Len(file) + 1 /\ x \in 1 .. Len(file)
    BY <1>1, <1>2, <1>3 DEF Lines
  <2>2. y \in 1 .. Len(file) => y \in A
    BY <1>2
  <2> QED
    BY <1>1, <1>3, <2>1, <2>2
<1>5. x \in B /\ new[x] = file[x]
  BY <1>1, <1>2, <1>3
<1> HIDE DEF A, B, new
<1>6. \A z \in A : (\A y \in A : z <= y) => z = x
  BY <1>2, <1>3
<1>7. \A z \in B : (\A y \in B : z <= y) => z = x
  BY <1>2, <1>4, <1>5
<1>8. (CHOOSE i \in A : \A j \in A : i <= j) = x
  BY <1>3, <1>6
<1>9. (CHOOSE i \in B : \A j \in B : i <= j) = x
  BY <1>4, <1>5, <1>7
<1>10. FirstLine(file, name) = file[x]
  BY <1>8, Zenon DEF FirstLine, A
<1>11. FirstLine(new, name) = new[x]
  BY <1>9, Zenon DEF FirstLine, B
<1> QED
  BY <1>5, <1>10, <1>11, Zenon DEF B, new

\* add_user takes no password away.
LEMMA PasswdGrows ==
    ASSUME NEW file \in Seq(PasswdLines)
    PROVE  /\ PasswdAdd(file, User, GoodPassword) \in Seq(PasswdLines)
           /\ \A u, p : CheckPassword(file, u, p)
                => CheckPassword(PasswdAdd(file, User, GoodPassword), u, p)
<1> DEFINE line == [name |-> User, password |-> GoodPassword]
<1>1. line \in PasswdLines
  BY DEF PasswdLines
<1> HIDE DEF line
<1>2. \A u, p : CheckPassword(file, u, p) => CheckPassword(Append(file, line), u, p)
  BY <1>1, FirstLineStays DEF CheckPassword, UserExists
<1>3. Append(file, line) \in Seq(PasswdLines)
  BY <1>1
<1> QED
  BY <1>2, <1>3 DEF PasswdAdd, line

\* ks_known_host_add: what was known stays, and an unknown host becomes known.
LEMMA HostsGrow ==
    ASSUME NEW file \in Seq(HostLines), NEW pk \in Nat
    PROVE  LET new == KnownHostAdd(file, Host, pk)
           IN /\ new \in Seq(HostLines)
              /\ \A k : KnownHost(file, Host, k) = "MATCH" => KnownHost(new, Host, k) = "MATCH"
              /\ KnownHost(file, Host, pk) = "UNKNOWN" => KnownHost(new, Host, pk) = "MATCH"
<1> DEFINE line == [name |-> Host, pk |-> pk]
           new  == Append(file, line)
<1>1. line \in HostLines /\ line.name = Host /\ line.pk = pk
  BY DEF HostLines
<1> HIDE DEF line
<1>2. /\ new \in Seq(HostLines) /\ Len(file) \in Nat /\ DOMAIN new = 1 .. Len(file) + 1
      /\ \A i \in 1 .. Len(file) : new[i] = file[i]
      /\ new[Len(file) + 1] = line /\ DOMAIN file = 1 .. Len(file)
  BY <1>1
<1>3. \A k : KnownHost(file, Host, k) = "MATCH" => KnownHost(new, Host, k) = "MATCH"
  <2> SUFFICES ASSUME NEW k, KnownHost(file, Host, k) = "MATCH"
               PROVE  KnownHost(new, Host, k) = "MATCH"
    OBVIOUS
  <2>1. Lines(file, Host) # {} /\ FirstLine(file, Host).pk = k
    BY DEF KnownHost
  <2> QED
    BY <1>1, <2>1, FirstLineStays DEF KnownHost
<1>4. ASSUME KnownHost(file, Host, pk) = "UNKNOWN"
      PROVE  KnownHost(new, Host, pk) = "MATCH"
  <2>1. Lines(file, Host) = {}
    BY <1>4 DEF KnownHost
  <2> HIDE DEF new
  <2>2. Lines(new, Host) = {Len(file) + 1}
    BY <1>1, <1>2, <2>1 DEF Lines
  <2>3. FirstLine(new, Host) = line
    <3>1. \A j \in {Len(file) + 1} : Len(file) + 1 <= j
      BY <1>2
    <3> QED
      BY <1>2, <2>2, <3>1 DEF FirstLine
  <2> QED
    BY <1>1, <2>2, <2>3 DEF KnownHost
<1> QED
  BY <1>2, <1>3, <1>4 DEF KnownHostAdd, line

-----------------------------------------------------------------------------
(* Worlds. *)

LEMMA ProvenGrows ==
    ASSUME NEW sid, NEW user, NEW a, NEW b, NEW pw, NEW pn, a \subseteq b,
           \A u, p : CheckPassword(pw, u, p) => CheckPassword(pn, u, p),
           Proven(sid, user, a, pw)
    PROVE  Proven(sid, user, b, pn)
  BY DEF Proven

LEMMA MessagesGrow ==
    ASSUME NEW l, NEW a, NEW b, a \subseteq b
    PROVE  Messages(l, a) \subseteq Messages(l, b)
  BY SMTT(30) DEF Messages, ClientMessages

\* A world that differs from a good one in fields the invariant does not look at,
\* with a queue, files and histories that are good by themselves.
LEMMA Carry ==
    ASSUME NEW w, NEW v, NEW pw, NEW pn, WorldOK(w, pw), Shaped(v),
           v.al.server = w.al.server, v.al.crypto.have_key = w.al.crypto.have_key,
           v.al.crypto.sid = w.al.crypto.sid, v.al.crypto.st = w.al.crypto.st,
           v.al.crypto.require = w.al.crypto.require,
           v.al.auth_started = w.al.auth_started, v.al.up => w.al.auth_started,
           \A f \in AuthFields \ {"sent"} : v.al.auth[f] = w.al.auth[f],
           Stamped(v.net), v.known_hosts \in Seq(HostLines), HostOK(v.al, v.known_hosts),
           w.supplied \subseteq v.supplied,
           IF w.al.crypto.have_key THEN v.q \in Seq(Messages(w.al, v.supplied)) ELSE v.q = <<>>,
           \A u \in v.ups : u.server => Proven(u.sid, u.user, v.supplied, pn),
           \A u, p : CheckPassword(pw, u, p) => CheckPassword(pn, u, p)
    PROVE  WorldOK(v, pn)
<1>1. /\ v.al.auth.server = w.al.auth.server /\ v.al.auth.sid = w.al.auth.sid
      /\ v.al.auth.state = w.al.auth.state /\ v.al.auth.avail = w.al.auth.avail
      /\ v.al.auth.greeted = w.al.auth.greeted /\ v.al.auth.user = w.al.auth.user
  BY SMTT(30) DEF AuthFields
<1>2. LoginOK(w.al, w.supplied, pw) /\ w.al.server \in BOOLEAN /\ w.al.crypto.st \in Nat
  BY SMTT(30) DEF WorldOK
<1>3. LoginOK(v.al, v.supplied, pn)
  BY <1>1, <1>2, ProvenGrows, SMTT(30) DEF LoginOK
<1>4. Messages(v.al, v.supplied) = Messages(w.al, v.supplied)
  BY DEF Messages
<1> QED
  BY <1>2, <1>3, <1>4, SMTT(30) DEF WorldOK

LEMMA Unaffected ==
    ASSUME NEW w, NEW v, NEW pw, WorldOK(w, pw), Shaped(v), Stamped(v.net),
           v.al.server = w.al.server, v.al.crypto.have_key = w.al.crypto.have_key,
           v.al.crypto.sid = w.al.crypto.sid, v.al.crypto.st = w.al.crypto.st,
           v.al.crypto.require = w.al.crypto.require,
           v.al.crypto.peer_static = w.al.crypto.peer_static,
           v.al.auth = w.al.auth, v.al.auth_started = w.al.auth_started, v.al.up = w.al.up,
           v.q = w.q, v.known_hosts = w.known_hosts, v.supplied = w.supplied, v.ups = w.ups
    PROVE  WorldOK(v, pw)
<1>1. LoginOK(v.al, v.supplied, pw)
  BY DEF WorldOK, LoginOK
<1>2. HostOK(v.al, v.known_hosts)
  BY DEF WorldOK, HostOK
<1>3. Messages(v.al, v.supplied) = Messages(w.al, w.supplied)
  BY DEF Messages
<1> QED
  BY <1>1, <1>2, <1>3, SMTT(30) DEF WorldOK

\* What no handler changes once the datagrams are taken.
Core(w, v) ==
    /\ v.al.server = w.al.server /\ v.al.crypto.have_key = w.al.crypto.have_key
    /\ v.al.crypto.sid = w.al.crypto.sid /\ v.al.crypto.peer_static = w.al.crypto.peer_static
    /\ v.known_hosts = w.known_hosts /\ w.supplied \subseteq v.supplied
    /\ w.al.auth_started => v.al.auth_started
Keeps(w, v, pw) == Ready(v, pw) /\ Core(w, v)

LEMMA KeepsTransitive ==
    ASSUME NEW w, NEW v, NEW u, NEW pw, Keeps(w, v, pw), Keeps(v, u, pw)
    PROVE  Keeps(w, u, pw)
  BY DEF Keeps, Core

\* An update of fields that the invariant does not look at.
Alike(w, v) ==
    /\ Shaped(v)
    /\ v.al.server = w.al.server /\ v.al.crypto = w.al.crypto /\ v.al.auth = w.al.auth
    /\ v.al.auth_started = w.al.auth_started /\ v.al.up = w.al.up
    /\ v.q = w.q /\ v.net = w.net /\ v.known_hosts = w.known_hosts
    /\ v.supplied = w.supplied /\ v.ups = w.ups

LEMMA AlikeKeeps ==
    ASSUME NEW w, NEW v, NEW pw, WorldOK(w, pw), Alike(w, v)
    PROVE  WorldOK(v, pw) /\ Core(w, v) /\ v.al.auth.sent = w.al.auth.sent
<1>1. HostOK(v.al, v.known_hosts)
  BY SMTT(30) DEF Alike, WorldOK, HostOK
<1>2. WorldOK(v, pw)
  BY <1>1, Carry, ZenonT(30) DEF Alike, WorldOK
<1> QED
  BY <1>2 DEF Alike, Core

LEMMA ReadyAlike ==
    ASSUME NEW w, NEW v, NEW pw, Ready(w, pw), Alike(w, v)
    PROVE  Keeps(w, v, pw)
  BY AlikeKeeps DEF Ready, Keeps

LEMMA ReadyKeeps ==
    ASSUME NEW w, NEW pw, Ready(w, pw)
    PROVE  Keeps(w, w, pw)
  BY DEF Keeps, Core

-----------------------------------------------------------------------------
(* The operators of a handler, from the inside out. *)

LEMMA SmallUpdates ==
    ASSUME NEW w, Shaped(w)
    PROVE  /\ \A why : Alike(w, FireDown(w, why))
           /\ Alike(w, Fired(w)) /\ \A what : Alike(w, AskSecret(w, what))
           /\ Alike(w, NetchanConnect(w)) /\ Alike(w, OpenChannel(w))
           /\ \A from : Alike(w, PinPeer(w, from))
           /\ \A c : Alike(w, [w EXCEPT !.al.conn = c])
           /\ \A c, r : Alike(w, [w EXCEPT !.al.conn = c, !.al.rx = r])
           /\ \A c, a : Alike(w, [w EXCEPT !.al.conn = c, !.al.accepted = a])
           /\ Alike(w, [w EXCEPT !.al.asking = "NOTHING", !.al.watching = "NONE"])
<1> USE DEF Shaped, WorldFields, LinkFields, Alike
<1>1. \A why : Alike(w, FireDown(w, why))
  BY DEF FireDown
<1>2. Alike(w, Fired(w)) /\ \A what : Alike(w, AskSecret(w, what))
  BY ZenonT(30) DEF Fired, AskSecret
<1>3. Alike(w, NetchanConnect(w))
  BY DEF NetchanConnect
<1>4. Alike(w, OpenChannel(w))
  BY DEF OpenChannel
<1>5. \A from : Alike(w, PinPeer(w, from))
  BY DEF PinPeer
<1>6. /\ \A c : Alike(w, [w EXCEPT !.al.conn = c])
      /\ \A c, r : Alike(w, [w EXCEPT !.al.conn = c, !.al.rx = r])
  BY ZenonT(30)
<1>7. /\ \A c, a : Alike(w, [w EXCEPT !.al.conn = c, !.al.accepted = a])
      /\ Alike(w, [w EXCEPT !.al.asking = "NOTHING", !.al.watching = "NONE"])
  BY ZenonT(30)
<1> HIDE DEF Shaped, WorldFields, LinkFields, Alike
<1> QED
  BY <1>1, <1>2, <1>3, <1>4, <1>5, <1>6, <1>7, Zenon

LEMMA SendHelloKeeps ==
    ASSUME NEW w, NEW pw, Ready(w, pw)
    PROVE  Keeps(w, SendHello(w), pw)
<1> DEFINE d == [from |-> w.al.addr, to |-> w.al.peer, p |-> Y!Hello(w.al.crypto)]
           v == [w EXCEPT !.net = @ \union {d}]
<1>1. CASE w.al.peer = 0
  BY <1>1, ReadyKeeps DEF SendHello
<1>2. CASE w.al.peer # 0
  <2>1. SendHello(w) = v
    BY <1>2 DEF SendHello
  <2>2. d.p.st \in Nat
    BY DEF Y!Hello, Ready, WorldOK
  <2>3. /\ Shaped(v) /\ v.al = w.al /\ v.net = w.net \union {d} /\ v.q = w.q
        /\ v.known_hosts = w.known_hosts /\ v.supplied = w.supplied /\ v.ups = w.ups
    BY DEF Ready, WorldOK, Shaped, WorldFields
  <2>4. Stamped(v.net)
    BY <2>2, <2>3, SMTT(30) DEF Stamped, Ready, WorldOK
  <2>5. WorldOK(v, pw)
    BY <2>3, <2>4 DEF Ready, WorldOK
  <2> QED
    BY <2>1, <2>3, <2>5 DEF Keeps, Core, Ready
<1> QED
  BY <1>1, <1>2

LEMMA FlushOutKeeps ==
    ASSUME NEW w, NEW pw, Ready(w, pw)
    PROVE  Keeps(w, FlushOut(w), pw)
<1> DEFINE c == C!AfterSend(w.al.conn, Now)
           d == [from |-> w.al.addr, to |-> w.al.conn.peer,
                 p |-> Y!Sealed(w.al.crypto, C!Packet(w.al.conn, w.al.addr))]
           v == [w EXCEPT !.al.conn = c]
           u == [v EXCEPT !.al.crypto = Y!AfterSeal(@), !.net = @ \union {d}]
<1>0. Shaped(w) /\ WorldOK(w, pw)
  BY SMTT(30) DEF Ready, WorldOK
<1>1. Alike(w, v)
  BY <1>0, SmallUpdates, ZenonT(30)
<1>2. Keeps(w, v, pw)
  BY <1>1, ReadyAlike, SMTT(30)
<1>3. Keeps(w, u, pw)
  <2>1. Shaped(v) /\ WorldOK(v, pw) /\ v.al.auth.sent = <<>>
    BY <1>2 DEF Keeps, Ready, WorldOK
  <2>2. /\ DOMAIN u = WorldFields /\ DOMAIN u.al = LinkFields
        /\ u.al.crypto = Y!AfterSeal(v.al.crypto) /\ u.net = v.net \union {d}
        /\ u.al.auth = v.al.auth /\ u.al.server = v.al.server
        /\ u.al.auth_started = v.al.auth_started /\ u.al.up = v.al.up
        /\ u.q = v.q /\ u.known_hosts = v.known_hosts
        /\ u.supplied = v.supplied /\ u.ups = v.ups
    BY <2>1, ZenonT(30) DEF Shaped, WorldFields, LinkFields
  <2>4. d.p.hello = FALSE
    BY DEF Y!Sealed
  <2> HIDE DEF u, v, d
  <2>3. /\ DOMAIN u.al.crypto = CryptoFields
        /\ \A f \in {"have_key", "sid", "st", "require", "peer_static"} : u.al.crypto[f] = v.al.crypto[f]
    BY <2>1, <2>2 DEF Shaped, CryptoFields, Y!AfterSeal
  <2>5. Stamped(u.net)
    BY <2>1, <2>2, <2>4 DEF Stamped, WorldOK
  <2>6. /\ u.al.crypto.have_key = v.al.crypto.have_key /\ u.al.crypto.sid = v.al.crypto.sid
        /\ u.al.crypto.st = v.al.crypto.st /\ u.al.crypto.peer_static = v.al.crypto.peer_static
        /\ u.al.crypto.require = v.al.crypto.require
    BY <2>3, SMTT(30)
  <2>7. HostOK(u.al, u.known_hosts) /\ u.known_hosts \in Seq(HostLines)
    BY <2>1, <2>2, <2>6, SMTT(30) DEF WorldOK, HostOK
  <2>8. Shaped(u)
    BY <2>1, <2>2, <2>3, SMTT(30) DEF Shaped
  <2>9. WorldOK(u, pw)
    BY <2>1, <2>2, <2>5, <2>6, <2>7, <2>8, Carry, ZenonT(30) DEF WorldOK
  <2> QED
    BY <1>2, <2>1, <2>2, <2>6, <2>9, SMTT(30) DEF Keeps, Core, Ready
<1>4. FlushOut(w) \in {w, v, u}
  <2>1. ~C!HasData(w.al.conn) => FlushOut(w) = w
    BY DEF FlushOut
  <2>2. C!HasData(w.al.conn) /\ ~Y!CanSeal(w.al.crypto) => FlushOut(w) = v
    BY DEF FlushOut
  <2>3. C!HasData(w.al.conn) /\ Y!CanSeal(w.al.crypto) => FlushOut(w) = u
    BY DEF FlushOut
  <2> QED
    BY <2>1, <2>2, <2>3
<1> QED
  BY <1>2, <1>3, <1>4, ReadyKeeps, SMTT(30)

LEMMA ChanSendKeeps ==
    ASSUME NEW w, NEW pw, NEW tag, NEW m, Ready(w, pw), w.al.crypto.have_key,
           [tag |-> tag, m |-> m] \in Messages(w.al, w.supplied)
    PROVE  Keeps(w, ChanSend(w, tag, m), pw)
<1> DEFINE x == [tag |-> tag, m |-> m]
           v == [w EXCEPT !.q = Append(@, x)]
<1>1. WorldOK(w, pw) /\ Shaped(w) /\ w.q \in Seq(Messages(w.al, w.supplied))
  BY DEF Ready, WorldOK
<1>2. /\ Shaped(v) /\ v.al = w.al /\ v.q = Append(w.q, x) /\ v.net = w.net
      /\ v.known_hosts = w.known_hosts /\ v.supplied = w.supplied /\ v.ups = w.ups
  BY <1>1 DEF Shaped, WorldFields
<1>3. v.q \in Seq(Messages(w.al, w.supplied))
  BY <1>1, <1>2, SMTT(30)
<1>4. Ready(v, pw) /\ Core(w, v)
  BY <1>1, <1>2, <1>3, ZenonT(30) DEF Ready, WorldOK, Core
<1>5. Keeps(v, FlushOut(v), pw)
  BY <1>4, FlushOutKeeps
<1>6. ChanSend(w, tag, m) = w \/ ChanSend(w, tag, m) = FlushOut(v)
  BY DEF ChanSend
<1> QED
  BY <1>4, <1>5, <1>6, ReadyKeeps, KeepsTransitive DEF Keeps

\* A message that nc_auth emits in the state a, for a link with that dialogue.
Emitted(a, m) ==
    IF a.server THEN m \in [t : {"METHODS", "OK", "FAIL"}, v : SUBSET Methods]
    ELSE \/ m = U!Msg("HELLO", User)
         \/ \E k : m = U!Msg("PUBKEY", U!Signed(a, k))
         \/ \E p : m = U!Msg("PASSWORD", p)

LEMMA AuthOutKeeps ==
    ASSUME NEW w, NEW pw, WorldOK(w, pw), w.al.auth_started,
           w.al.auth.sent = <<>> \/ \E m : w.al.auth.sent = <<m>> /\ Emitted(w.al.auth, m)
    PROVE  Keeps(w, AuthOut(w), pw)
<1>1. CASE w.al.auth.sent = <<>>
  BY <1>1, ReadyKeeps DEF AuthOut, Ready
<1>2. ASSUME NEW m, w.al.auth.sent = <<m>>, Emitted(w.al.auth, m)
      PROVE  Keeps(w, AuthOut(w), pw)
  <2> DEFINE sup == IF m.t \in {"PUBKEY", "PASSWORD"}
                    THEN w.supplied \union {Credential(w.al.auth, m)} ELSE w.supplied
             v == [w EXCEPT !.al.auth.sent = <<>>, !.supplied = sup]
  <2>1. AuthOut(w) = ChanSend(v, "AUTH", m)
    <3>1. w.al.auth.sent # <<>> /\ Head(w.al.auth.sent) = m /\ Tail(w.al.auth.sent) = <<>>
      BY <1>2
    <3> QED
      BY <3>1, ZenonT(30) DEF AuthOut
  <2>2. Shaped(w) /\ w.al.auth.server = w.al.server /\ w.al.server \in BOOLEAN
        /\ w.al.auth.sid = w.al.crypto.sid /\ w.al.crypto.have_key
        /\ (~w.al.server => w.al.auth.user = User)
    BY DEF WorldOK, LoginOK
  <2>3. /\ DOMAIN v = WorldFields /\ DOMAIN v.al = LinkFields
        /\ v.al.crypto = w.al.crypto /\ v.al.auth = [w.al.auth EXCEPT !.sent = <<>>]
        /\ v.al.server = w.al.server /\ v.al.auth_started = w.al.auth_started
        /\ v.al.up = w.al.up /\ v.net = w.net /\ v.known_hosts = w.known_hosts
        /\ v.q = w.q /\ v.supplied = sup /\ v.ups = w.ups
    BY <2>2, ZenonT(30) DEF Shaped, WorldFields, LinkFields
  <2>4. w.supplied \subseteq sup
    OBVIOUS
  <2>5. [tag |-> "AUTH", m |-> m] \in Messages(w.al, sup)
    <3>1. CASE w.al.server
      BY <1>2, <2>2, <3>1, SMTT(30) DEF Messages, ServerMessages, Emitted
    <3>2. CASE ~w.al.server /\ m = U!Msg("HELLO", User)
      BY <3>2, SMTT(30) DEF Messages, ClientMessages
    <3>3. ASSUME ~w.al.server, NEW k, m = U!Msg("PUBKEY", U!Signed(w.al.auth, k))
          PROVE  [tag |-> "AUTH", m |-> m] \in Messages(w.al, sup)
      <4> DEFINE s == Credential(w.al.auth, m)
      <4>1. m.t = "PUBKEY" /\ m.v = U!Signed(w.al.auth, k)
        BY <3>3 DEF U!Msg
      <4>2. s = [sid |-> m.v.sid, user |-> m.v.user, key |-> m.v.key, password |-> U!None]
        BY <4>1 DEF Credential
      <4>3. s \in sup
        BY <4>1
      <4>4. m = U!Msg("PUBKEY", [key |-> s.key, sid |-> s.sid, user |-> s.user])
        BY <3>3, <4>1, <4>2, SMTT(30) DEF U!Msg, U!Signed
      <4> HIDE DEF s
      <4> QED
        BY <3>3, <4>3, <4>4, ZenonT(30) DEF Messages, ClientMessages
    <3>4. ASSUME ~w.al.server, NEW p, m = U!Msg("PASSWORD", p)
          PROVE  [tag |-> "AUTH", m |-> m] \in Messages(w.al, sup)
      <4> DEFINE s == Credential(w.al.auth, m)
      <4>1. m.t = "PASSWORD" /\ m.v = p
        BY <3>4 DEF U!Msg
      <4>2. s = [sid |-> w.al.auth.sid, user |-> w.al.auth.user, key |-> U!None, password |-> p]
        BY <4>1 DEF Credential
      <4>3. s \in {x \in sup : x.sid = w.al.crypto.sid /\ x.user = User}
        BY <2>2, <3>4, <4>1, <4>2
      <4>4. m = U!Msg("PASSWORD", s.password)
        BY <3>4, <4>2
      <4> HIDE DEF s
      <4> QED
        BY <3>4, <4>3, <4>4, ZenonT(30) DEF Messages, ClientMessages
    <3> QED
      BY <1>2, <2>2, <3>1, <3>2, <3>3, <3>4, SMTT(30) DEF Emitted
  <2> HIDE DEF sup, v
  <2>6. Shaped(v) /\ v.al.auth.sent = <<>>
        /\ \A f \in AuthFields \ {"sent"} : v.al.auth[f] = w.al.auth[f]
    BY <2>2, <2>3 DEF Shaped, AuthFields
  <2>7. HostOK(v.al, v.known_hosts)
    BY <2>3 DEF WorldOK, HostOK
  <2>8. Messages(w.al, w.supplied) \subseteq Messages(w.al, sup)
    BY <2>4, MessagesGrow, SMTT(30)
  <2>9. w.q \in Seq(Messages(w.al, sup))
    BY <2>2, <2>8, SMTT(30) DEF WorldOK
  <2>10. \A u \in v.ups : u.server => Proven(u.sid, u.user, v.supplied, pw)
    BY <2>3, <2>4, ProvenGrows, SMTT(30) DEF WorldOK
  <2>11. WorldOK(v, pw)
    BY <2>2, <2>3, <2>4, <2>6, <2>7, <2>9, <2>10, Carry, ZenonT(30) DEF WorldOK
  <2>12. Ready(v, pw) /\ Core(w, v)
    BY <2>3, <2>4, <2>6, <2>11 DEF Ready, Core
  <2>13. [tag |-> "AUTH", m |-> m] \in Messages(v.al, v.supplied)
    BY <2>3, <2>5 DEF Messages
  <2>14. Keeps(v, ChanSend(v, "AUTH", m), pw)
    BY <2>2, <2>3, <2>12, <2>13, ChanSendKeeps, SMTT(30)
  <2> QED
    BY <2>1, <2>12, <2>14, KeepsTransitive, SMTT(30) DEF Keeps
<1> QED
  BY <1>1, <1>2

LEMMA LinkSendKeeps ==
    ASSUME NEW w, NEW pw, Ready(w, pw)
    PROVE  Keeps(w, LinkSend(w, "line"), pw)
<1>1. [tag |-> "APP", m |-> "line"] \in Messages(w.al, w.supplied)
  BY SMTT(30) DEF Messages, ClientMessages, ServerMessages
<1>2. w.al.up => w.al.crypto.have_key
  BY SMTT(30) DEF Ready, WorldOK, LoginOK
<1> QED
  BY <1>1, <1>2, ChanSendKeeps, ReadyKeeps, SMTT(30) DEF LinkSend

\* What LoginOK asks of a dialogue, and at most one message to send.
Sound(w, b, pw) ==
    /\ DOMAIN b = AuthFields
    /\ b.server = w.al.server /\ b.sid = w.al.crypto.sid
    /\ b.state \in {"PENDING", "OK", "DENIED"}
    /\ w.al.server => /\ b.avail \subseteq Methods
                      /\ b.greeted => b.user = User
                      /\ b.state = "OK" => Proven(b.sid, b.user, w.supplied, pw)
    /\ ~w.al.server => b.user = User /\ "PUBKEY" \notin b.avail
    /\ b.sent = <<>> \/ \E m : b.sent = <<m>> /\ Emitted(b, m)

\* Another state of the dialogue, and its message goes out.
LEMMA DialogueKeeps ==
    ASSUME NEW w, NEW v, NEW pw, WorldOK(w, pw), w.al.crypto.have_key,
           Shaped(v), Sound(w, v.al.auth, pw), v.al.auth_started = TRUE,
           v.al.server = w.al.server, v.al.crypto = w.al.crypto,
           v.q = w.q, v.net = w.net, v.known_hosts = w.known_hosts,
           v.supplied = w.supplied, v.ups = w.ups
    PROVE  Keeps(w, AuthOut(v), pw) /\ WorldOK(v, pw)
<1>1. LoginOK(v.al, v.supplied, pw)
  BY SMTT(30) DEF LoginOK, Sound
<1>2. HostOK(v.al, v.known_hosts) /\ Messages(v.al, v.supplied) = Messages(w.al, w.supplied)
  BY SMTT(30) DEF WorldOK, HostOK, Messages
<1>3. WorldOK(v, pw) /\ Core(w, v)
  BY <1>1, <1>2, ZenonT(30) DEF WorldOK, Core
<1>4. Keeps(v, AuthOut(v), pw)
  BY <1>3, AuthOutKeeps DEF Sound
<1> QED
  BY <1>3, <1>4, SMTT(30) DEF Keeps, Core

LEMMA DialogueUpdates ==
    ASSUME NEW w, NEW b, NEW pw, WorldOK(w, pw), w.al.crypto.have_key, Sound(w, b, pw)
    PROVE  /\ \A n : w.al.auth_started = TRUE =>
                     Keeps(w, AuthOut([w EXCEPT !.al.auth = b, !.al.need_fired = n]), pw)
           /\ w.al.auth_started = TRUE => Keeps(w, AuthOut([w EXCEPT !.al.auth = b]), pw)
           /\ Keeps(w, AuthOut([w EXCEPT !.al.auth = b, !.al.auth_started = TRUE]), pw)
<1> DEFINE X(v) == /\ Shaped(v) /\ v.al.auth = b /\ v.al.auth_started = TRUE
                   /\ v.al.server = w.al.server /\ v.al.crypto = w.al.crypto
                   /\ v.q = w.q /\ v.net = w.net /\ v.known_hosts = w.known_hosts
                   /\ v.supplied = w.supplied /\ v.ups = w.ups
<1>1. \A v : X(v) => Keeps(w, AuthOut(v), pw)
  BY DialogueKeeps, ZenonT(30)
<1>2. Shaped(w) /\ DOMAIN b = AuthFields
  BY DEF WorldOK, Sound
<1>3. \A n : w.al.auth_started = TRUE => X([w EXCEPT !.al.auth = b, !.al.need_fired = n])
  BY <1>2, ZenonT(30) DEF Shaped, WorldFields, LinkFields
<1>4. w.al.auth_started = TRUE => X([w EXCEPT !.al.auth = b])
  BY <1>2 DEF Shaped, WorldFields, LinkFields
<1>5. X([w EXCEPT !.al.auth = b, !.al.auth_started = TRUE])
  BY <1>2, ZenonT(30) DEF Shaped, WorldFields, LinkFields
<1> HIDE DEF X
<1> QED
  BY <1>1, <1>3, <1>4, <1>5, Zenon

-----------------------------------------------------------------------------
(* The login. *)

LEMMA DecideKeeps ==
    ASSUME NEW w, NEW pw, Ready(w, pw), w.al.auth_started
    PROVE  Keeps(w, Decide(w), pw)
<1> DEFINE up == [server |-> w.al.server, sid |-> w.al.auth.sid, user |-> w.al.auth.user]
           v == OnUp(w)
<1>1. WorldOK(w, pw) /\ Shaped(w) /\ w.al.auth.state \in {"PENDING", "OK", "DENIED"}
  BY SMTT(30) DEF Ready, WorldOK, LoginOK
<1>2. CASE w.al.auth.state = "OK"
  <2>1. Decide(w) = v
    BY <1>2 DEF Decide
  <2>2. /\ Shaped(v) /\ v.al.server = w.al.server /\ v.al.crypto = w.al.crypto
        /\ v.al.auth = w.al.auth /\ v.al.auth_started = w.al.auth_started
        /\ v.q = w.q /\ v.net = w.net /\ v.known_hosts = w.known_hosts
        /\ v.supplied = w.supplied /\ v.ups = w.ups \union {up}
    BY <1>1, ZenonT(30) DEF OnUp, Shaped, WorldFields, LinkFields
  <2>3. up.server => Proven(up.sid, up.user, w.supplied, pw)
    BY <1>1, <1>2 DEF WorldOK, LoginOK
  <2> HIDE DEF v, up
  <2>4. \A u \in v.ups : u.server => Proven(u.sid, u.user, v.supplied, pw)
    BY <1>1, <2>2, <2>3 DEF WorldOK
  <2>5. HostOK(v.al, v.known_hosts)
    BY <1>1, <2>2, SMTT(30) DEF WorldOK, HostOK
  <2>6. WorldOK(v, pw)
    BY <1>1, <2>2, <2>4, <2>5, Carry, ZenonT(30) DEF WorldOK
  <2> QED
    BY <2>1, <2>2, <2>6, SMTT(30) DEF Keeps, Core, Ready
<1>3. CASE w.al.auth.state = "DENIED"
  <2>1. Decide(w) = FireDown(w, "AUTH")
    BY <1>3 DEF Decide
  <2> QED
    BY <1>1, <2>1, SmallUpdates, ReadyAlike, ZenonT(30)
<1>4. CASE w.al.auth.state = "PENDING"
  <2>1. Decide(w) = w
    BY <1>4 DEF Decide
  <2> QED
    BY <2>1, ReadyKeeps
<1> QED
  BY <1>1, <1>2, <1>3, <1>4

LEMMA AskingKeeps ==
    ASSUME NEW w, NEW pw, Ready(w, pw), NEW what
    PROVE  /\ Keeps(w, Fired(w), pw) /\ Keeps(w, AskSecret(w, what), pw)
           /\ Keeps(w, AskSecret(Fired(w), what), pw)
<1>1. Shaped(w)
  BY SMTT(30) DEF Ready, WorldOK
<1>2. Keeps(w, Fired(w), pw) /\ Keeps(w, AskSecret(w, what), pw)
  BY <1>1, SmallUpdates, ReadyAlike, ZenonT(30)
<1>3. Ready(Fired(w), pw) /\ Shaped(Fired(w))
  BY <1>2, ZenonT(30) DEF Keeps, Ready, WorldOK
<1>4. Keeps(Fired(w), AskSecret(Fired(w), what), pw)
  BY <1>3, SmallUpdates, ReadyAlike, ZenonT(30)
<1> QED
  BY <1>2, <1>4, KeepsTransitive, SMTT(30)

LEMMA SettleSuppliedKeeps ==
    ASSUME NEW w, NEW pw, Ready(w, pw)
    PROVE  Keeps(w, SettleSupplied(w), pw)
<1> DEFINE v == IF w.al.server \/ w.al.auth.need = w.al.need_fired THEN w
                ELSE IF w.al.auth.need = "NOTHING" THEN Fired(w)
                ELSE AskSecret(Fired(w), "PASSWORD")
<1>1. Keeps(w, v, pw)
  BY AskingKeeps, ReadyKeeps
<1>2. SettleSupplied(w) = IF Resting(w) THEN w ELSE Decide(v)
  BY DEF SettleSupplied
<1> HIDE DEF v
<1>3. ~Resting(w) => v.al.auth_started
  BY <1>1 DEF Resting, Keeps, Core
<1>4. ~Resting(w) => Keeps(v, Decide(v), pw)
  BY <1>1, <1>3, DecideKeeps, SMTT(30) DEF Keeps
<1> QED
  BY <1>1, <1>2, <1>4, ReadyKeeps, KeepsTransitive, SMTT(30)

\* The dialogue of a client after a credential is supplied, or declined.
LEMMA TryNextSound ==
    ASSUME NEW w, NEW a, NEW pw, ~w.al.server, DOMAIN a = AuthFields,
           a.server = w.al.server, a.sid = w.al.crypto.sid, a.user = User, a.sent = <<>>,
           a.state \in {"PENDING", "OK", "DENIED"},
           a.state = "PENDING" \/ "PUBKEY" \notin a.avail
    PROVE  Sound(w, U!TryNext(a), pw)
<1> DEFINE Like(c) == /\ DOMAIN c = AuthFields /\ c.server = a.server /\ c.sid = a.sid
                      /\ c.user = a.user /\ c.state \in {a.state, "DENIED"} /\ c.sent = a.sent
                      /\ "PUBKEY" \notin c.avail
<1>1. Like([a EXCEPT !.avail = @ \ {"PUBKEY"}, !.need = "KEY"])
  BY DEF AuthFields
<1>2. "PUBKEY" \notin a.avail =>
        Like(a) /\ Like([a EXCEPT !.avail = @ \ {"PASSWORD"}, !.need = "PASSWORD"])
  BY DEF AuthFields
<1>3. "PUBKEY" \notin a.avail => Like([a EXCEPT !.need = "NOTHING", !.state = "DENIED"])
  BY DEF AuthFields
<1>4. Like(U!TryNext(a))
  <2> HIDE DEF Like
  <2> QED
    BY <1>1, <1>2, <1>3, SMTT(30) DEF U!TryNext
<1>5. \A c : Like(c) => Sound(w, c, pw)
  BY DEF Sound
<1> HIDE DEF Like
<1> QED
  BY <1>4, <1>5

LEMMA EmitSound ==
    ASSUME NEW w, NEW b, NEW m, NEW pw, Sound(w, b, pw), b.sent = <<>>, Emitted(b, m)
    PROVE  Sound(w, U!Emit(b, m), pw)
<1> DEFINE c == U!Emit(b, m)
<1>1. /\ DOMAIN c = AuthFields /\ c.server = b.server /\ c.sid = b.sid /\ c.user = b.user
      /\ c.state = b.state /\ c.avail = b.avail /\ c.greeted = b.greeted /\ c.sent = <<m>>
  BY SMTT(30) DEF Sound, U!Emit, AuthFields
<1>2. Sound(w, c, pw)
  <2> HIDE DEF c
  <2>1. \A k : U!Signed(c, k) = U!Signed(b, k)
    BY <1>1 DEF U!Signed
  <2>2. Emitted(c, m)
    BY <1>1, <2>1, Zenon DEF Emitted
  <2> QED
    BY <1>1, <2>2, SMTT(30) DEF Sound
<1> QED
  BY <1>2

LEMMA SupplySound ==
    ASSUME NEW w, NEW pw, Ready(w, pw), w.al.auth_started, ~w.al.server
    PROVE  /\ \A k : Sound(w, U!SupplyKey(w.al.auth, k), pw)
           /\ \A p : Sound(w, U!SupplyPassword(w.al.auth, p), pw)
<1> DEFINE a == w.al.auth
           b == [a EXCEPT !.need = "NOTHING"]
<1>1. Sound(w, a, pw) /\ DOMAIN a = AuthFields /\ a.sent = <<>> /\ ~a.server
  BY DEF Ready, WorldOK, LoginOK, Shaped, Sound
<1>2. /\ DOMAIN b = AuthFields /\ b.server = a.server /\ b.sid = a.sid /\ b.user = a.user
      /\ b.state = a.state /\ b.avail = a.avail /\ b.sent = <<>>
  BY <1>1, SMTT(30) DEF AuthFields
<1>3. Sound(w, b, pw)
  BY <1>1, <1>2, SMTT(30) DEF Sound
<1> HIDE DEF b
<1>4. Sound(w, U!TryNext(b), pw)
  BY <1>1, <1>2, <1>3, TryNextSound, ZenonT(30) DEF Sound
<1>5. \A m : Emitted(b, m) => Sound(w, U!Emit(b, m), pw)
  BY <1>2, <1>3, EmitSound, SMTT(30)
<1>6. \A k : Emitted(b, U!Msg("PUBKEY", U!Signed(a, k)))
  BY <1>1, <1>2, ZenonT(30) DEF Emitted, U!Signed
<1>7. \A p : Emitted(b, U!Msg("PASSWORD", p))
  BY <1>1, <1>2 DEF Emitted
<1>8. \A k : U!SupplyKey(a, k) \in {a, U!TryNext(b), U!Emit(b, U!Msg("PUBKEY", U!Signed(a, k)))}
  BY DEF U!SupplyKey, b
<1>9. \A p : U!SupplyPassword(a, p) \in {a, U!TryNext(b), U!Emit(b, U!Msg("PASSWORD", p))}
  BY DEF U!SupplyPassword, b
<1> QED
  BY <1>1, <1>4, <1>5, <1>6, <1>7, <1>8, <1>9, SMTT(30)

LEMMA SettledKeeps ==
    ASSUME NEW w, NEW v, NEW pw, Keeps(w, v, pw)
    PROVE  Keeps(w, FlushOut(SettleSupplied(v)), pw)
<1>1. Keeps(v, SettleSupplied(v), pw)
  BY SettleSuppliedKeeps DEF Keeps
<1>2. Keeps(SettleSupplied(v), FlushOut(SettleSupplied(v)), pw)
  BY <1>1, FlushOutKeeps, SMTT(30) DEF Keeps
<1> QED
  BY <1>1, <1>2, KeepsTransitive, SMTT(30)

LEMMA LinkSupplyKeeps ==
    ASSUME NEW w, NEW pw, Ready(w, pw)
    PROVE  /\ \A k : Keeps(w, LinkSupplyKey(w, k), pw)
           /\ \A p : Keeps(w, LinkSupplyPassword(w, p), pw)
<1>1. CASE ~w.al.auth_started \/ w.al.server
  BY <1>1, ReadyKeeps, ZenonT(30) DEF LinkSupplyKey, LinkSupplyPassword
<1>2. CASE w.al.auth_started /\ ~w.al.server
  <2>1. WorldOK(w, pw) /\ w.al.crypto.have_key
    BY <1>2 DEF Ready, WorldOK, LoginOK
  <2>2. \A k : Keeps(w, LinkSupplyKey(w, k), pw)
    <3> TAKE k
    <3> DEFINE v == AuthOut([w EXCEPT !.al.auth = U!SupplyKey(@, k), !.al.need_fired = "NOTHING"])
    <3>1. Sound(w, U!SupplyKey(w.al.auth, k), pw)
      BY <1>2, SupplySound, SMTT(30)
    <3>2. Keeps(w, v, pw)
      BY <1>2, <2>1, <3>1, DialogueUpdates, ZenonT(30)
    <3>3. LinkSupplyKey(w, k) = FlushOut(SettleSupplied(v))
      BY <1>2, SMTT(30) DEF LinkSupplyKey
    <3> QED
      BY <3>2, <3>3, SettledKeeps, SMTT(30)
  <2>3. \A p : Keeps(w, LinkSupplyPassword(w, p), pw)
    <3> TAKE p
    <3> DEFINE v == AuthOut([w EXCEPT !.al.auth = U!SupplyPassword(@, p), !.al.need_fired = "NOTHING"])
    <3>1. Sound(w, U!SupplyPassword(w.al.auth, p), pw)
      BY <1>2, SupplySound, SMTT(30)
    <3>2. Keeps(w, v, pw)
      BY <1>2, <2>1, <3>1, DialogueUpdates, ZenonT(30)
    <3>3. LinkSupplyPassword(w, p) = FlushOut(SettleSupplied(v))
      BY <1>2 DEF LinkSupplyPassword
    <3> QED
      BY <3>2, <3>3, SettledKeeps
  <2> QED
    BY <2>2, <2>3, SMTT(30)
<1> QED
  BY <1>1, <1>2, SMTT(30)

LEMMA SettleAuthKeeps ==
    ASSUME NEW w, NEW pw, Ready(w, pw)
    PROVE  Keeps(w, SettleAuth(w), pw)
<1> DEFINE f == Fired(w)
           v == SettleNeed(w)
<1>1. Keeps(w, f, pw) /\ Ready(f, pw)
  BY AskingKeeps DEF Keeps
<1>2. Keeps(f, SupplyKeyFromFile(f), pw)
  BY <1>1, LinkSupplyKeeps, AskingKeeps, SMTT(30) DEF SupplyKeyFromFile
<1>3. Keeps(f, OnNeed(f, w.al.auth.need), pw)
  BY <1>1, <1>2, AskingKeeps, SMTT(30) DEF OnNeed
<1>4. v \in {w, f, OnNeed(f, w.al.auth.need)}
  BY DEF SettleNeed
<1> HIDE DEF f, v
<1>5. Keeps(w, v, pw)
  BY <1>1, <1>3, <1>4, ReadyKeeps, KeepsTransitive, SMTT(30)
<1>6. SettleAuth(w) = IF Resting(w) THEN w ELSE Decide(v)
  BY SMTT(30) DEF SettleAuth, v
<1>7. ~Resting(w) => v.al.auth_started
  BY <1>5 DEF Resting, Keeps, Core
<1>8. ~Resting(w) => Keeps(v, Decide(v), pw)
  BY <1>5, <1>7, DecideKeeps DEF Keeps
<1> QED
  BY <1>5, <1>6, <1>8, ReadyKeeps, KeepsTransitive

-----------------------------------------------------------------------------
(* nc_auth_feed.  What an end may read is what the other wrote in the same   *)
(* session.                                                                  *)

Incoming(w) == IF w.al.server THEN ClientMessages(w.al.crypto.sid, w.supplied) ELSE ServerMessages

LEMMA ClientFeedSound ==
    ASSUME NEW w, NEW m, NEW pw, Ready(w, pw), w.al.auth_started, ~w.al.server,
           w.al.auth.state = "PENDING"
    PROVE  Sound(w, U!ClientFeed(w.al.auth, m), pw)
<1> DEFINE a == w.al.auth
           e == [a EXCEPT !.avail = {}]
           f == [a EXCEPT !.avail = m.v]
           g == [a EXCEPT !.avail = @ \intersect m.v]
           Like(c) == /\ DOMAIN c = AuthFields /\ c.server = w.al.server
                      /\ c.sid = w.al.crypto.sid /\ c.user = User /\ c.sent = <<>>
<1>1. Like(a) /\ "PUBKEY" \notin a.avail
  BY DEF Ready, WorldOK, LoginOK, Shaped
<1>2. /\ Like(e) /\ e.avail = {} /\ Like(f) /\ f.state = "PENDING"
      /\ Like(g) /\ g.state = "PENDING"
  BY <1>1 DEF AuthFields
<1>3. Like([a EXCEPT !.state = "OK"]) /\ "PUBKEY" \notin [a EXCEPT !.state = "OK"].avail
      /\ [a EXCEPT !.state = "OK"].state = "OK"
  BY <1>1 DEF AuthFields
<1>4. \A c : Like(c) /\ "PUBKEY" \notin c.avail => 
        /\ Like(U!Denied(c)) /\ "PUBKEY" \notin U!Denied(c).avail
        /\ U!Denied(c).state = "DENIED"
  BY SMTT(30) DEF U!Denied, AuthFields
<1>5. \A c : Like(c) /\ "PUBKEY" \notin c.avail /\ c.state \in {"PENDING", "OK", "DENIED"}
        => Sound(w, c, pw)
  BY SMTT(30) DEF Sound
<1>6. Sound(w, U!TryNext(f), pw) /\ Sound(w, U!TryNext(g), pw)
  BY <1>2, TryNextSound, ZenonT(30)
<1>7. Sound(w, U!Denied(e), pw) /\ Sound(w, U!Denied(a), pw) /\ Sound(w, [a EXCEPT !.state = "OK"], pw)
  <2> HIDE DEF Like, e
  <2> QED
    BY <1>1, <1>2, <1>3, <1>4, <1>5, ZenonT(30)
<1> HIDE DEF Like
<1> QED
  BY <1>6, <1>7, SMTT(30) DEF U!ClientFeed

LEMMA ServerFeedSound ==
    ASSUME NEW w, NEW m, Ready(w, passwd), w.al.auth_started, w.al.server,
           w.al.auth.state = "PENDING", [tag |-> "AUTH", m |-> m] \in Incoming(w)
    PROVE  Sound(w, U!ServerFeed(w.al.auth, m), passwd)
<1> DEFINE a == w.al.auth
           mid == w.al.crypto.sid
<1>1. /\ Sound(w, a, passwd) /\ DOMAIN a = AuthFields /\ a.sent = <<>> /\ a.server
      /\ a.avail \subseteq Methods /\ (a.greeted => a.user = User) /\ a.sid = mid
  BY ZenonT(30) DEF Ready, WorldOK, LoginOK, Shaped, Sound
<1>2. \A spent : Sound(w, U!Deny(a, spent), passwd)
  <2> TAKE spent
  <2> DEFINE left == a.avail \ spent
             over == a.tries + 1 >= MaxTries \/ left = {}
             b    == [a EXCEPT !.avail = IF over THEN {} ELSE left, !.tries = @ + 1,
                               !.state = IF over THEN "DENIED" ELSE @]
  <2>1. U!Deny(a, spent) = U!Emit(b, U!Msg("FAIL", b.avail))
    BY DEF U!Deny
  <2>2. /\ DOMAIN b = AuthFields /\ b.server = a.server /\ b.sid = a.sid /\ b.user = a.user
        /\ b.greeted = a.greeted /\ b.sent = a.sent
        /\ b.state \in {"PENDING", "DENIED"} /\ b.avail \subseteq Methods
    <3> HIDE DEF over
    <3> QED
      BY <1>1, ZenonT(30) DEF AuthFields
  <2> HIDE DEF b
  <2>3. Sound(w, b, passwd)
    BY <1>1, <2>2 DEF Sound
  <2>4. Emitted(b, U!Msg("FAIL", b.avail))
    BY <1>1, <2>2, ZenonT(30) DEF Emitted, U!Msg
  <2> QED
    BY <1>1, <2>1, <2>2, <2>3, <2>4, EmitSound, ZenonT(30)
<1>3. Proven(a.sid, a.user, w.supplied, passwd) => Sound(w, U!Grant(a), passwd)
  <2> DEFINE b == [a EXCEPT !.state = "OK"]
  <2>1. /\ DOMAIN b = AuthFields /\ b.server = a.server /\ b.sid = a.sid /\ b.user = a.user
        /\ b.greeted = a.greeted /\ b.sent = a.sent /\ b.state = "OK" /\ b.avail = a.avail
    BY <1>1, ZenonT(30) DEF AuthFields
  <2>2. U!Grant(a) = U!Emit(b, U!Msg("OK", {}))
    BY DEF U!Grant
  <2> HIDE DEF b
  <2>3. Emitted(b, U!Msg("OK", {}))
    BY <1>1, <2>1 DEF Emitted, U!Msg
  <2>4. Proven(a.sid, a.user, w.supplied, passwd) => Sound(w, b, passwd)
    BY <1>1, <2>1, ZenonT(30) DEF Sound
  <2> QED
    BY <1>1, <2>1, <2>2, <2>3, <2>4, EmitSound, SMTT(30)
<1>4. Sound(w, U!Greet(a, User), passwd)
  <2> DEFINE b == [a EXCEPT !.user = User, !.greeted = TRUE, !.avail = Methods]
  <2>1. U!Greet(a, User) = U!Emit(b, U!Msg("METHODS", Methods))
    <3>1. Methods # {}
      BY DEF Methods
    <3>2. DOMAIN a = AuthFields
      BY <1>1
    <3> QED
      BY <3>1, <3>2, ZenonT(30) DEF U!Greet, Methods, AuthFields
  <2>2. /\ DOMAIN b = AuthFields /\ b.server = a.server /\ b.sid = a.sid /\ b.user = User
        /\ b.sent = a.sent /\ b.state = "PENDING" /\ b.avail = Methods
    BY <1>1, ZenonT(30) DEF AuthFields
  <2> HIDE DEF b
  <2>3. Sound(w, b, passwd)
    BY <1>1, <2>2 DEF Sound
  <2>4. Emitted(b, U!Msg("METHODS", Methods))
    BY <1>1, <2>2, ZenonT(30) DEF Emitted, U!Msg
  <2> QED
    BY <1>1, <2>1, <2>2, <2>3, <2>4, EmitSound, ZenonT(30)
<1>5. Sound(w, U!Denied(a), passwd)
  <2>1. /\ DOMAIN U!Denied(a) = AuthFields /\ U!Denied(a).server = a.server
        /\ U!Denied(a).sid = a.sid /\ U!Denied(a).user = a.user /\ U!Denied(a).avail = a.avail
        /\ U!Denied(a).greeted = a.greeted /\ U!Denied(a).sent = a.sent
        /\ U!Denied(a).state = "DENIED"
    BY <1>1, ZenonT(30) DEF U!Denied, AuthFields
  <2> QED
    BY <1>1, <2>1, ZenonT(30) DEF Sound
<1>6. CASE m = U!Msg("HELLO", User)
  <2>1. m.t = "HELLO" /\ m.v = User
    BY <1>6, ZenonT(30) DEF U!Msg
  <2> QED
    BY <1>4, <1>5, <2>1 DEF U!ServerFeed
<1>7. ASSUME NEW s \in w.supplied,
             m = U!Msg("PUBKEY", [key |-> s.key, sid |-> s.sid, user |-> s.user])
      PROVE  Sound(w, U!ServerFeed(a, m), passwd)
  <2>1. m.t = "PUBKEY" /\ m.v = [key |-> s.key, sid |-> s.sid, user |-> s.user]
    BY <1>7 DEF U!Msg
  <2>2. U!ServerFeed(a, m) = IF a.greeted THEN U!TryKey(a, m.v) ELSE U!Denied(a)
    BY <2>1, SMTT(30) DEF U!ServerFeed
  <2>3. ASSUME m.v = U!Signed(a, m.v.key), AuthorizedKey(AuthorizedKeys, a.user, m.v.key)
        PROVE  Proven(a.sid, a.user, w.supplied, passwd)
    <3>1. s.sid = a.sid /\ s.user = a.user /\ m.v.key = s.key
      BY <2>1, <2>3, SMTT(30) DEF U!Signed
    <3> QED
      BY <2>3, <3>1, SMTT(30) DEF Proven
  <2>4. Sound(w, U!TryKey(a, m.v), passwd)
    BY <1>2, <1>3, <2>3, SMTT(30) DEF U!TryKey
  <2> QED
    BY <1>5, <2>2, <2>4, SMTT(30)
<1>8. ASSUME NEW s \in w.supplied, s.sid = mid, s.user = User, m = U!Msg("PASSWORD", s.password)
      PROVE  Sound(w, U!ServerFeed(a, m), passwd)
  <2>1. m.t = "PASSWORD" /\ m.v = s.password
    BY <1>8 DEF U!Msg
  <2>2. U!ServerFeed(a, m) = IF a.greeted THEN U!TryPassword(a, m.v) ELSE U!Denied(a)
    BY <2>1, SMTT(30) DEF U!ServerFeed
  <2>3. a.greeted /\ CheckPassword(passwd, a.user, m.v) => Proven(a.sid, a.user, w.supplied, passwd)
    BY <1>1, <1>8, <2>1, SMTT(30) DEF Proven
  <2>4. a.greeted => Sound(w, U!TryPassword(a, m.v), passwd)
    BY <1>2, <1>3, <2>3, SMTT(30) DEF U!TryPassword
  <2> QED
    BY <1>5, <2>2, <2>4, SMTT(30)
<1>9. \/ m = U!Msg("HELLO", User)
      \/ \E s \in w.supplied : m = U!Msg("PUBKEY", [key |-> s.key, sid |-> s.sid, user |-> s.user])
      \/ \E s \in w.supplied : s.sid = mid /\ s.user = User /\ m = U!Msg("PASSWORD", s.password)
  BY ZenonT(30) DEF Incoming, ClientMessages
<1> QED
  BY <1>6, <1>7, <1>8, <1>9, ZenonT(30)

LEMMA FeedSound ==
    ASSUME NEW w, NEW m, Ready(w, passwd), w.al.auth_started,
           [tag |-> "AUTH", m |-> m] \in Incoming(w)
    PROVE  Sound(w, U!Feed(w.al.auth, m), passwd)
<1>1. Sound(w, w.al.auth, passwd) /\ w.al.auth.server = w.al.server
  BY ZenonT(30) DEF Ready, WorldOK, LoginOK, Shaped, Sound
<1> QED
  BY <1>1, ClientFeedSound, ServerFeedSound DEF U!Feed
=============================================================================
