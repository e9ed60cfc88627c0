---------------------------- MODULE AuthSession ----------------------------
(***************************************************************************)
(* auth_client and auth_server over auth_link: the crypto handshake, the   *)
(* netchan connection inside it, the login on a reliable channel, and the  *)
(* application's lines after it.  Either process may stop at any moment    *)
(* and be started again; the server may come back with a new host key;     *)
(* datagrams are lost, repeated and reordered.                             *)
(*                                                                         *)
(* The reliable channel is the ordered channel of NcFifo, which NcChannel  *)
(* is proved to implement: what an end writes on its channel is a queue    *)
(* the far end reads in order while both still share keys and ids.  A      *)
(* datagram whose last copy is never delivered is a lost one.              *)
(***************************************************************************)
EXTENDS Integers, Sequences, Functions

CONSTANTS
    ConnectRetries,  \* NC_CONNECT_RETRIES
    MaxTries,        \* NC_AUTH_MAX_TRIES
    Window,          \* width of the replay window
    MaxFaults,       \* restarts of the programs and datagrams delivered twice
    MaxLines,        \* lines typed once logged in, over all starts
    MaxBatch         \* datagrams drained by one wakeup

VARIABLES
    al,           \* the link of each end, with its program's own fields
    chanq,        \* messages each end wrote on its channel, not yet read
    net,          \* datagrams in flight
    known_hosts,  \* the client's file
    passwd,       \* the server's file
    host_key,     \* the server's identity, from its host_key file
    starts,       \* times each program was started
    dups, lines,
    supplied,     \* history: credentials put on a channel
    ups           \* history: links whose on_up fired

vars == <<al, chanq, net, known_hosts, passwd, host_key, starts, dups, lines, supplied, ups>>

Ends == {"c", "s"}
Other(e) == IF e = "c" THEN "s" ELSE "c"
Host == "host"
User == "ann"
GoodPassword == "right"
BadPassword == "wrong"
GoodKey == "annkey"
BadKey == "otherkey"
Passphrase == "phrase"
AuthorizedKeys == <<[name |-> User, pk |-> GoodKey]>>
ServerAddr == 1

\* Ephemeral keys and connection ids are new at every start, and so is the
\* client's address.
Eph(e, n) == IF e = "c" THEN 100 + n ELSE 200 + n
Addr(e, n) == IF e = "c" THEN 1 + n ELSE ServerAddr

\* The time, which only netchan_service looks at: see due in Tick.
Now == 1

----------------------------------------------------------------------------
(***************************************************************************)
(* The files of the authentication demo as values: known_hosts,            *)
(* authorized_keys and passwd are sequences of lines, in the order in      *)
(* which the scanners of keystore.c read them; comments and lines that do  *)
(* not parse are skipped by every scanner and are left out.  A password    *)
(* hash and a sealed key open for exactly the secret they were made from.  *)
(***************************************************************************)
Lines(file, name) == {i \in DOMAIN file : file[i].name = name}
FirstLine(file, name) ==
    file[CHOOSE i \in Lines(file, name) : \A j \in Lines(file, name) : i <= j]

\* ks_known_host: the first line of the host decides.
KnownHost(file, host, pk) ==
    IF Lines(file, host) = {} THEN "UNKNOWN"
    ELSE IF FirstLine(file, host).pk = pk THEN "MATCH" ELSE "CHANGED"
KnownHostAdd(file, host, pk) == Append(file, [name |-> host, pk |-> pk])

\* ks_authorized_key: any line of the user will do.
AuthorizedKey(file, user, pk) == \E i \in Lines(file, user) : file[i].pk = pk

UserExists(file, user) == Lines(file, user) # {}

\* ks_check_password: the first line of the user decides.
CheckPassword(file, user, password) ==
    UserExists(file, user) /\ FirstLine(file, user).password = password

\* add_user: refused for a user who has an entry.
PasswdAdd(file, user, password) ==
    IF UserExists(file, user) THEN file
    ELSE Append(file, [name |-> user, password |-> password])

\* ks_keyfile_encrypted and ks_keyfile_load: Unreadable is -1 and a wrong or
\* missing passphrase -2, which the client treats alike.
Unreadable == "none"
KeyfileEncrypted(kf) == kf.present /\ kf.kdf = "argon2id"
KeyfileLoad(kf, passphrase) ==
    IF kf.present /\ (kf.kdf = "none" \/ passphrase = kf.passphrase) THEN kf.key
    ELSE Unreadable

----------------------------------------------------------------------------
Y == INSTANCE NcCrypto WITH CounterMax <- 1000
C == INSTANCE NcConn WITH EventSlots <- 8, CtrlSlots <- 8, MaxChan <- 3, IdSpace <- 8
U == INSTANCE NcAuth WITH Offered <- {"PUBKEY", "PASSWORD"},
        CheckKey <- LAMBDA user, pk : AuthorizedKey(AuthorizedKeys, user, pk),
        CheckPassword <- LAMBDA user, pw : CheckPassword(passwd, user, pw)

-----------------------------------------------------------------------------
(* A handler works on the world of its end: its link, its channel's queue,  *)
(* the datagrams it sends, the files it may write, and the histories.       *)

World(e) == [al |-> al[e], q |-> chanq[e], net |-> {}, known_hosts |-> known_hosts,
             supplied |-> supplied, ups |-> ups]

Keyfiles ==
    {[present |-> FALSE, kdf |-> "none", key |-> BadKey, passphrase |-> Passphrase]}
    \union [present : {TRUE}, kdf : {"none"}, key : {GoodKey, BadKey}, passphrase : {Passphrase}]
    \union [present : {TRUE}, kdf : {"argon2id"}, key : {GoodKey}, passphrase : {Passphrase}]

\* auth_link_open and the fields of struct client, before the first tick.
Link(e, n, hk, kf) ==
    [server |-> e = "s", addr |-> Addr(e, n), conn |-> C!Open(e = "s"),
     crypto |-> IF e = "s" THEN Y!CryptoInit(1, Eph(e, n), hk, FALSE)
                ELSE Y!CryptoInit(0, Eph(e, n), Y!NoKey, TRUE),
     tx |-> FALSE, rx |-> FALSE, peer |-> IF e = "c" THEN ServerAddr ELSE 0,
     connect_sent |-> FALSE, accepted |-> FALSE,
     auth |-> U!ServerInit(Y!NoKey), auth_started |-> FALSE, need_fired |-> "NOTHING",
     up |-> FALSE, down |-> "NO", stop |-> "NO",
     keyfile |-> kf, asking |-> "NOTHING", watching |-> "NONE"]

\* fire_down and the on_down of both programs, which stop the loop.
FireDown(w, why) == IF w.al.down # "NO" THEN w ELSE [w EXCEPT !.al.down = why]

\* send_hello: to the pinned peer.
SendHello(w) ==
    IF w.al.peer = 0 THEN w
    ELSE [w EXCEPT !.net = @ \union {[from |-> w.al.addr, to |-> w.al.peer,
                                      p |-> Y!Hello(w.al.crypto)]}]

\* flush_out: a packet netchan hands over before the keys are ready is gone.
FlushOut(w) ==
    LET c   == w.al.conn
        pkt == C!Packet(c, w.al.addr)
        v   == [w EXCEPT !.al.conn = C!AfterSend(c, Now)]
    IN IF ~C!HasData(c) THEN w
       ELSE IF ~Y!CanSeal(w.al.crypto) THEN v
       ELSE [v EXCEPT !.al.crypto = Y!AfterSeal(@),
                      !.net = @ \union {[from |-> w.al.addr, to |-> c.peer,
                                         p |-> Y!Sealed(w.al.crypto, pkt)]}]

\* chan_send: refused until the channel is there.
ChanSend(w, tag, m) ==
    IF ~w.al.tx THEN w ELSE FlushOut([w EXCEPT !.q = Append(@, [tag |-> tag, m |-> m])])

\* The credential in a message, with what a signature covers.
Credential(a, m) ==
    IF m.t = "PUBKEY" THEN [sid |-> m.v.sid, user |-> m.v.user, key |-> m.v.key, password |-> U!None]
    ELSE [sid |-> a.sid, user |-> a.user, key |-> U!None, password |-> m.v]

\* auth_out for the message nc_auth has emitted: no call of it emits two.  supplied
\* remembers credentials.
AuthOut(w) ==
    LET m == Head(w.al.auth.sent)
    IN IF w.al.auth.sent = <<>> THEN w
       ELSE ChanSend([w EXCEPT !.al.auth.sent = Tail(@),
                               !.supplied = IF m.t \in {"PUBKEY", "PASSWORD"}
                                            THEN @ \union {Credential(w.al.auth, m)} ELSE @],
                     "AUTH", m)

\* auth_link_send.
LinkSend(w, m) == IF ~w.al.up THEN w ELSE ChanSend(w, "APP", m)

-----------------------------------------------------------------------------
(* The login.  settle_need reports a need once; the client's handler may    *)
(* answer at once, from inside the report.                                  *)

Resting(w) == ~w.al.auth_started \/ w.al.up \/ w.al.down # "NO"
Fired(w) == [w EXCEPT !.al.need_fired = w.al.auth.need]
AskSecret(w, what) == [w EXCEPT !.al.asking = what, !.al.watching = "SECRET"]

\* The client's on_up starts to watch the keyboard.
OnUp(w) ==
    [w EXCEPT !.al.up = TRUE, !.al.watching = IF w.al.server THEN @ ELSE "LINES",
              !.ups = @ \union {[server |-> w.al.server, sid |-> w.al.auth.sid, user |-> w.al.auth.user]}]

\* The end of settle_auth: has the dialogue come to a decision?
Decide(w) ==
    CASE w.al.auth.state = "OK"      -> OnUp(w)
      [] w.al.auth.state = "DENIED"  -> FireDown(w, "AUTH")
      [] w.al.auth.state = "PENDING" -> w

\* settle_auth as the supply functions call it.  client_try_next drops PUBKEY as it
\* chooses it, so a need that a supply leaves is not KEY: the report of KEY is never
\* nested in another, and the recursion of the code ends here.
SettleSupplied(w) ==
    LET need == w.al.auth.need
    IN IF Resting(w) THEN w
       ELSE Decide(IF w.al.server \/ need = w.al.need_fired THEN w
                   ELSE IF need = "NOTHING" THEN Fired(w)
                   ELSE AskSecret(Fired(w), "PASSWORD"))

LinkSupplyKey(w, k) ==
    IF ~w.al.auth_started \/ w.al.server THEN w
    ELSE FlushOut(SettleSupplied(AuthOut([w EXCEPT !.al.auth = U!SupplyKey(@, k),
                                                   !.al.need_fired = "NOTHING"])))
LinkSupplyPassword(w, pw) ==
    IF ~w.al.auth_started \/ w.al.server THEN w
    ELSE FlushOut(SettleSupplied(AuthOut([w EXCEPT !.al.auth = U!SupplyPassword(@, pw),
                                                   !.al.need_fired = "NOTHING"])))

\* Mutant: without a key file nothing is supplied.
SupplyKeyFromFileMute(w) ==
    IF ~w.al.keyfile.present THEN w
    ELSE IF KeyfileEncrypted(w.al.keyfile) THEN AskSecret(w, "KEY")
    ELSE LinkSupplyKey(w, KeyfileLoad(w.al.keyfile, U!None))

\* supply_key_from_file.
SupplyKeyFromFile(w) ==
    IF ~w.al.keyfile.present THEN LinkSupplyKey(w, U!None)
    ELSE IF KeyfileEncrypted(w.al.keyfile) THEN AskSecret(w, "KEY")
    ELSE LinkSupplyKey(w, KeyfileLoad(w.al.keyfile, U!None))

OnNeed(w, what) ==
    IF what = "KEY" THEN SupplyKeyFromFile(w) ELSE AskSecret(w, "PASSWORD")

SettleNeed(w) ==
    LET need == w.al.auth.need
    IN IF w.al.server \/ need = w.al.need_fired THEN w
       ELSE IF need = "NOTHING" THEN Fired(w) ELSE OnNeed(Fired(w), need)

SettleAuth(w) == IF Resting(w) THEN w ELSE Decide(SettleNeed(w))

-----------------------------------------------------------------------------
(* advance: each stage waits for the one below it. *)

NetchanConnect(w) ==
    IF w.al.server \/ w.al.connect_sent \/ ~w.al.crypto.have_key THEN w
    ELSE [w EXCEPT !.al.conn = C!Connect(@, w.al.peer, w.al.crypto.eph, Now),
                   !.al.connect_sent = w.al.conn.state = "NEW"]

OpenChannel(w) ==
    IF w.al.tx \/ w.al.conn.state # "CONNECTED" THEN w
    ELSE [w EXCEPT !.al.conn = C!ChanOpen(@), !.al.tx = C!CanOpen(w.al.conn)]

StartAuth(w) ==
    LET sid == w.al.crypto.sid
        a   == IF w.al.server THEN U!ServerInit(sid) ELSE U!Start(U!ClientInit(sid, User))
    IN IF ~w.al.tx \/ w.al.auth_started \/ ~w.al.crypto.have_key THEN w
       ELSE AuthOut([w EXCEPT !.al.auth = a, !.al.auth_started = TRUE])

AdvanceLink(w) ==
    IF w.al.crypto.failed THEN FireDown(w, "HOSTKEY")
    ELSE SettleAuth(StartAuth(OpenChannel(NetchanConnect(w))))

-----------------------------------------------------------------------------
(* pump_events and deliver.  The server's on_data sends the line back.      *)

DeliverMsg(w, msg) ==
    IF msg.tag = "AUTH"
    THEN LET v == IF w.al.auth_started
                  THEN AuthOut([w EXCEPT !.al.auth = U!Feed(@, msg.m)]) ELSE w
         IN SettleAuth(v)
    ELSE IF w.al.up /\ w.al.server THEN LinkSend(w, msg.m) ELSE w

\* r[n]: n messages have been delivered.
DeliverAll(w, msgs) ==
    LET r[n \in 0 .. Len(msgs)] == IF n = 0 THEN w ELSE DeliverMsg(r[n - 1], msgs[n])
    IN r[Len(msgs)]

\* Mutant: one event a call.
PumpEventsOnce(w, msgs) ==
    LET v == IF w.al.conn.events = <<>> THEN w
             ELSE [w EXCEPT !.al.rx = @ \/ Head(w.al.conn.events) = "CHAN_OPEN",
                            !.al.conn.events = Tail(@)]
    IN IF v.al.rx THEN DeliverAll(v, msgs) ELSE v

PumpEvents(w, msgs) ==
    LET evs == Range(w.al.conn.events)
        v   == [w EXCEPT !.al.conn = C!Drained(@),
                         !.al.rx = @ \/ "CHAN_OPEN" \in evs]
        u   == IF "DISCONNECTED" \in evs THEN FireDown(v, "PEER") ELSE v
    IN IF u.al.rx THEN DeliverAll(u, msgs) ELSE u

-----------------------------------------------------------------------------
(* on_readable drains the socket, then pumps, advances and flushes once.    *)

\* verify_host: the known-hosts decision, and the line it may add.
VerifyHost(w, pk) ==
    IF KnownHost(w.known_hosts, Host, pk) = "UNKNOWN"
    THEN [w EXCEPT !.known_hosts = KnownHostAdd(@, Host, pk)] ELSE w
\* Mutant: a changed key is only warned about.
HostVerifiedAlways(w, pk) == TRUE
HostVerified(w, pk) ==
    w.al.server \/ KnownHost(w.known_hosts, Host, pk) \in {"UNKNOWN", "MATCH"}

PinPeer(w, from) ==
    IF w.al.server /\ w.al.peer = 0 THEN [w EXCEPT !.al.peer = from] ELSE w

\* A HELLO: only the first one counts, and the server answers every one.
TakeHello(w, h) ==
    LET c == Y!ConsumeHello(w.al.crypto, h, HostVerified(w, h.st))
        v == IF w.al.crypto.have_key THEN w
             ELSE [IF w.al.server \/ h.st = Y!NoKey THEN w ELSE VerifyHost(w, h.st)
                     EXCEPT !.al.crypto = c]
    IN IF w.al.server THEN SendHello(v) ELSE v

\* Mutant: the server accepts before it has fed the packet.
TakeSealedAcceptFirst(w, p) ==
    IF ~Y!Opens(w.al.crypto, p) THEN w
    ELSE [w EXCEPT !.al.crypto = Y!AfterOpen(@, p),
                   !.al.accepted = w.al.server,
                   !.al.conn = C!Feed(IF w.al.accepted THEN @ ELSE C!Accept(@),
                                      p.body, Now, w.al.crypto.eph)]

\* A sealed packet for netchan.  The server accepts with its first one.
TakeSealed(w, p) ==
    LET v == [w EXCEPT !.al.crypto = Y!AfterOpen(@, p),
                       !.al.conn = C!Feed(@, p.body, Now, w.al.crypto.eph)]
    IN IF ~Y!Opens(w.al.crypto, p) THEN w
       ELSE IF ~w.al.server \/ w.al.accepted THEN v
       ELSE [v EXCEPT !.al.conn = C!Accept(@), !.al.accepted = TRUE]

TakeDatagram(w, d) ==
    LET v == PinPeer(w, d.from)
    IN IF v.al.crypto.failed THEN v
       ELSE IF d.p.hello THEN TakeHello(v, d.p) ELSE TakeSealed(v, d.p)

\* r[n]: n datagrams have been taken.
TakeAll(w, batch) ==
    LET r[n \in 0 .. Len(batch)] == IF n = 0 THEN w ELSE TakeDatagram(r[n - 1], batch[n])
    IN r[Len(batch)]

\* What the sender t has written reaches the receiver r: same keys, the right
\* connection, a channel open at one end and known at the other.
Linked(t, r) ==
    /\ t.tx /\ t.crypto.have_key /\ r.crypto.have_key
    /\ t.crypto.sid = r.crypto.sid
    /\ t.conn.remote_id = r.conn.local_id
    /\ \E ch \in t.conn.chans :
        ch.role = "send" /\ ch.state = "open" /\ C!Known(r.conn, ch.id)

\* The handler's effects.  A link that goes down stops its loop: what is left of
\* the turn is the other descriptors and the timers, or nothing.
Commit(e, w, phase, rest, far) ==
    /\ al' = [al EXCEPT ![e] = IF w.al.down # "NO" THEN [w.al EXCEPT !.stop = phase] ELSE w.al]
    /\ chanq' = [chanq EXCEPT ![e] = w.q, ![Other(e)] = far]
    /\ net' = rest \union w.net
    /\ known_hosts' = w.known_hosts
    /\ supplied' = w.supplied
    /\ ups' = w.ups

\* Restarts and repeated datagrams so far.
Faults == starts["c"] + starts["s"] - 2 + dups

Batches(e) ==
    UNION {Injection(1 .. n, {d \in net : d.to = al[e].addr}) : n \in 0 .. MaxBatch}

Readable(e) ==
    \E b \in Batches(e), n \in 0 .. Len(chanq[Other(e)]), again \in BOOLEAN :
        LET fed == TakeAll(World(e), b)
            got == SubSeq(chanq[Other(e)], 1, n)
        IN /\ b # <<>> \/ n > 0
           /\ al[e].stop = "NO"
           /\ n > 0 => Linked(al[Other(e)], fed.al)
           /\ again => Len(b) = 1 /\ Faults < MaxFaults
           /\ dups' = IF again THEN dups + 1 ELSE dups
           /\ Commit(e, FlushOut(AdvanceLink(PumpEvents(fed, got))), "FDS",
                     IF again THEN net ELSE net \ Range(b),
                     SubSeq(chanq[Other(e)], n + 1, Len(chanq[Other(e)])))
           /\ UNCHANGED <<passwd, host_key, starts, lines>>

-----------------------------------------------------------------------------
(* on_tick. *)

OnTick(w, due) ==
    LET v == IF ~w.al.server /\ ~w.al.crypto.have_key THEN SendHello(w) ELSE w
        u == [v EXCEPT !.al.conn = C!Service(@, due, Now, 1)]
    IN FlushOut(AdvanceLink(PumpEvents(u, <<>>)))

Tick(e) ==
    \E due \in {{}, {"retry"}, {"idle"}} :
        /\ al[e].stop # "TIMERS"
        /\ Commit(e, OnTick(World(e), due), "TIMERS", net, chanq[Other(e)])
        /\ UNCHANGED <<passwd, host_key, starts, dups, lines>>

-----------------------------------------------------------------------------
(* The keyboard of the client. *)

\* on_secret_typed and secret_complete: a whole line, or the end of input.
SecretTyped ==
    \E line \in {GoodPassword, BadPassword, Passphrase, U!None} :
        LET what == al["c"].asking
            w    == [World("c") EXCEPT !.al.asking = "NOTHING", !.al.watching = "NONE"]
            key  == IF line = U!None THEN U!None ELSE KeyfileLoad(w.al.keyfile, line)
        IN /\ al["c"].watching = "SECRET" /\ al["c"].stop # "TIMERS"
           /\ Commit("c", IF what = "KEY" THEN LinkSupplyKey(w, key)
                          ELSE LinkSupplyPassword(w, line), "FDS", net, chanq["s"])
           /\ UNCHANGED <<passwd, host_key, starts, dups, lines>>

\* on_stdin: a line to send, or the end of input, after which the client lingers.
StdinLine ==
    /\ al["c"].watching = "LINES" /\ al["c"].stop # "TIMERS" /\ lines < MaxLines
    /\ lines' = lines + 1
    /\ Commit("c", LinkSend(World("c"), "line"), "FDS", net, chanq["s"])
    /\ UNCHANGED <<passwd, host_key, starts, dups>>
StdinEof ==
    /\ al["c"].watching = "LINES" /\ al["c"].stop # "TIMERS"
    /\ al' = [al EXCEPT !["c"].watching = "NONE"]
    /\ UNCHANGED <<chanq, net, known_hosts, passwd, host_key, starts, dups, lines, supplied, ups>>

-----------------------------------------------------------------------------
(* main: a program ends, whatever it was doing, and is started again.       *)

\* The server finds its host_key file, or, once, makes a new one.
Start(e) ==
    \E kf \in Keyfiles, hk \in {host_key, 2} :
        /\ Faults < MaxFaults
        /\ e = "c" => hk = host_key
        /\ e = "s" => kf = al["s"].keyfile
        /\ host_key' = hk
        /\ starts' = [starts EXCEPT ![e] = @ + 1]
        /\ Commit(e, OnTick([World(e) EXCEPT !.al = Link(e, starts[e] + 1, hk, kf),
                                             !.q = <<>>], {}),
                  "TIMERS", net, chanq[Other(e)])
        /\ UNCHANGED <<passwd, dups, lines>>

\* auth_server --adduser.
AddUser ==
    /\ passwd' = PasswdAdd(passwd, User, GoodPassword)
    /\ UNCHANGED <<al, chanq, net, known_hosts, host_key, starts, dups, lines, supplied, ups>>

Init ==
    /\ \E kf \in Keyfiles : al = [e \in Ends |-> Link(e, 1, 1, kf)]
    /\ chanq = [e \in Ends |-> <<>>]
    /\ net = {}
    /\ known_hosts \in {<<>>} \union {<<[name |-> Host, pk |-> k]>> : k \in 1 .. 2}
    /\ passwd = <<>>
    /\ host_key = 1
    /\ starts = [e \in Ends |-> 1]
    /\ dups = 0 /\ lines = 0
    /\ supplied = {} /\ ups = {}

Next ==
    \/ \E e \in Ends : Readable(e) \/ Tick(e) \/ Start(e)
    \/ SecretTyped \/ StdinLine \/ StdinEof \/ AddUser

Spec == Init /\ [][Next]_vars
-----------------------------------------------------------------------------
(* Properties. *)

TypeOK ==
    \A e \in Ends :
        /\ al[e].conn.state \in C!States
        /\ al[e].auth.state \in {"PENDING", "OK", "DENIED"}
        /\ {al[e].auth.need, al[e].need_fired, al[e].asking} \subseteq {"NOTHING", "KEY", "PASSWORD"}
        /\ al[e].down \in {"NO", "PEER", "AUTH", "HOSTKEY"}
        /\ al[e].auth.tries <= MaxTries
        /\ al[e].auth.sent = <<>> /\ al[e].conn.events = <<>>

\* The server reports a user as authenticated only if a valid credential of that
\* user was put on the channel of this very session (server_feed, settle_auth).
AuthAgreement ==
    \A u \in ups : u.server =>
        \E s \in supplied :
            /\ s.sid = u.sid /\ s.user = u.user
            /\ \/ AuthorizedKey(AuthorizedKeys, u.user, s.key)
               \/ CheckPassword(passwd, u.user, s.password)

\* The two ends never disagree about a login: a client that is up shares its
\* session and user with a server that was, and an end that was refused with no
\* end that was let in.
LoginAgreed ==
    /\ \A u \in ups : ~u.server => [u EXCEPT !.server = TRUE] \in ups
    /\ \A e \in Ends, u \in ups : al[e].down = "AUTH" => u.sid # al[e].auth.sid

\* Nothing is thrown away by deliver: a message that can be read from the channel
\* meets a login that has started, and an application's line a login that has
\* succeeded, although each end starts and finishes its login by itself.
NothingDropped ==
    \A e \in Ends :
        Linked(al[Other(e)], al[e]) /\ chanq[Other(e)] # <<>>
            => /\ al[e].rx /\ al[e].auth_started
               /\ Head(chanq[Other(e)]).tag = "APP" => al[e].up

\* Trust on first use: a client has keys only with the host key its file first
\* named, whatever servers it meets later (verify_host, consume_hello).
HostTrusted ==
    al["c"].crypto.have_key
        => KnownHost(known_hosts, Host, al["c"].crypto.peer_static) = "MATCH"

\* The prompt on the screen is the credential nc_auth waits for, and one that it
\* waits for is prompted for: through nested on_need reports, refusals and
\* declined methods no typed secret is discarded and no login waits unasked.
PromptMatchesNeed ==
    LET c == al["c"]
    IN c.auth_started /\ ~c.up /\ c.down = "NO"
        => (c.watching = "SECRET") = (c.auth.need # "NOTHING") /\ c.asking = c.auth.need

\* The packet with which the server accepts is one netchan_accept agrees to:
\* accepted is set whatever it returned, so a refusal would be final.
AcceptTakes == al["s"].accepted => al["s"].conn.state \in {"CONNECTED", "CLOSED"}
=============================================================================
