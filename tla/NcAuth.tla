------------------------------- MODULE NcAuth -------------------------------
(***************************************************************************)
(* One side of the nc_auth login dialogue as a value, and one operator per *)
(* function of nc_auth.c.  Messages are records [t, v]; the messages a     *)
(* function hands to its send callback are appended to sent.  Malformed    *)
(* lengths do not occur: both sides run this code over a channel that      *)
(* keeps message boundaries.                                               *)
(***************************************************************************)
EXTENDS Integers, Sequences

CONSTANTS
    MaxTries,           \* NC_AUTH_MAX_TRIES
    Offered,            \* the methods srv_methods offers, for every name
    CheckKey(_, _),     \* scb.check_key(user, pk)
    CheckPassword(_, _) \* scb.check_password(user, password)

Msg(t, v) == [t |-> t, v |-> v]
Nobody == "nobody"
Emit(a, m) == [a EXCEPT !.sent = Append(@, m)]

ClientInit(sid, user) ==
    [server |-> FALSE, state |-> "PENDING", need |-> "NOTHING", sid |-> sid,
     user |-> user, avail |-> {}, tries |-> 0, greeted |-> FALSE, sent |-> <<>>]
ServerInit(sid) ==
    [server |-> TRUE, state |-> "PENDING", need |-> "NOTHING", sid |-> sid,
     user |-> Nobody, avail |-> {}, tries |-> 0, greeted |-> FALSE, sent |-> <<>>]

\* nc_auth_start.
Start(a) == IF a.server \/ a.state # "PENDING" THEN a ELSE Emit(a, Msg("HELLO", a.user))

-----------------------------------------------------------------------------
(* The client. *)

\* client_try_next: each method is dropped as it is chosen.
TryNext(a) ==
    IF a.state # "PENDING" THEN a
    ELSE IF "PUBKEY" \in a.avail
    THEN [a EXCEPT !.avail = @ \ {"PUBKEY"}, !.need = "KEY"]
    ELSE IF "PASSWORD" \in a.avail
    THEN [a EXCEPT !.avail = @ \ {"PASSWORD"}, !.need = "PASSWORD"]
    ELSE [a EXCEPT !.need = "NOTHING", !.state = "DENIED"]

\* nc_auth_supply_key.  None is a missing key; the signature covers this
\* session's id, the user and the key.
None == "none"
Signed(a, k) == [key |-> k, sid |-> a.sid, user |-> a.user]
SupplyKey(a, k) ==
    IF a.server \/ a.need # "KEY" THEN a
    ELSE IF k = None THEN TryNext([a EXCEPT !.need = "NOTHING"])
    ELSE Emit([a EXCEPT !.need = "NOTHING"], Msg("PUBKEY", Signed(a, k)))

\* nc_auth_supply_password.  None: the user gave up, or typed too much.
SupplyPassword(a, pw) ==
    IF a.server \/ a.need # "PASSWORD" THEN a
    ELSE IF pw = None THEN TryNext([a EXCEPT !.need = "NOTHING"])
    ELSE Emit([a EXCEPT !.need = "NOTHING"], Msg("PASSWORD", pw))

Denied(a) == [a EXCEPT !.state = "DENIED"]

ClientFeed(a, m) ==
    CASE m.t = "METHODS" -> IF m.v = {} THEN Denied([a EXCEPT !.avail = {}])
                            ELSE TryNext([a EXCEPT !.avail = m.v])
      [] m.t = "OK"      -> [a EXCEPT !.state = "OK"]
      [] m.t = "FAIL"    -> TryNext([a EXCEPT !.avail = @ \intersect m.v])
      [] OTHER           -> Denied(a)

-----------------------------------------------------------------------------
(* The server. *)

\* server_deny: a refused try spends the method and counts.
Deny(a, spent) ==
    LET left == a.avail \ spent
        over == a.tries + 1 >= MaxTries \/ left = {}
        b    == [a EXCEPT !.avail = IF over THEN {} ELSE left, !.tries = @ + 1,
                          !.state = IF over THEN "DENIED" ELSE @]
    IN Emit(b, Msg("FAIL", b.avail))

\* Mutants: the client is told of a failure; the server forgets its own decision.
GrantRepliesFail(a) == Emit([a EXCEPT !.state = "OK"], Msg("FAIL", {}))
GrantForgets(a) == Emit(a, Msg("OK", {}))

Grant(a) == Emit([a EXCEPT !.state = "OK"], Msg("OK", {}))

Greet(a, user) ==
    Emit([a EXCEPT !.user = user, !.greeted = TRUE, !.avail = Offered,
                   !.state = IF Offered = {} THEN "DENIED" ELSE @],
         Msg("METHODS", Offered))

\* Mutant: any password will do.
TryPasswordAny(a, pw) ==
    IF "PASSWORD" \notin a.avail THEN Deny(a, {}) ELSE Grant(a)

\* Possession of the key in this session first, authorisation second.
TryKey(a, s) ==
    IF "PUBKEY" \notin a.avail THEN Deny(a, {})
    ELSE IF s = Signed(a, s.key) /\ CheckKey(a.user, s.key) THEN Grant(a)
    ELSE Deny(a, {"PUBKEY"})
TryPassword(a, pw) ==
    IF "PASSWORD" \notin a.avail THEN Deny(a, {})
    ELSE IF CheckPassword(a.user, pw) THEN Grant(a)
    ELSE Deny(a, {"PASSWORD"})

ServerFeed(a, m) ==
    CASE m.t = "HELLO" /\ ~a.greeted   -> Greet(a, m.v)
      [] m.t = "PUBKEY" /\ a.greeted   -> TryKey(a, m.v)
      [] m.t = "PASSWORD" /\ a.greeted -> TryPassword(a, m.v)
      [] OTHER                         -> Denied(a)

\* nc_auth_feed: nothing is heard after a decision.
Feed(a, m) ==
    IF a.state # "PENDING" THEN a
    ELSE IF a.server THEN ServerFeed(a, m) ELSE ClientFeed(a, m)
=============================================================================
