------------------------------ MODULE NcCrypto ------------------------------
(***************************************************************************)
(* One end of an nc_crypto session as a value: key agreement, sealing with *)
(* a counter as nonce, and opening behind a sliding replay window.         *)
(*                                                                         *)
(* Keys are symbols.  A Diffie-Hellman result is the set of the two public *)
(* keys it comes from, the transcript hash is the record of its inputs,    *)
(* and a sealed packet opens under exactly the key and counter it was      *)
(* sealed with.  nc_crypto_init never makes a low-order ephemeral key, so  *)
(* the refusal of one is not modelled; the pre-shared key is not used.     *)
(***************************************************************************)
EXTENDS Integers

CONSTANTS
    CounterMax,   \* UINT64_MAX: the counter that may not be passed
    Window        \* width of rx_window, 64 in the code

NoKey == 0

DH(a, b) == {a, b}

\* nc_crypto_init: role 0 is the initiator.
CryptoInit(role, eph, st, require) ==
    [role |-> role, eph |-> eph, st |-> st, require |-> require, have_key |-> FALSE,
     failed |-> FALSE, peer_static |-> NoKey, sid |-> NoKey, tx_counter |-> 0,
     rx_max |-> 0, rx_window |-> {}]

\* nc_crypto_handshake_packet.
Hello(c) == [hello |-> TRUE, eph |-> c.eph, st |-> c.st]

\* derive_session: both ends arrive at the same transcript from opposite sides.
\* The static halves are there only if the static key is.
Transcript(init_eph, resp_eph, init_st, resp_st) ==
    [ee |-> DH(init_eph, resp_eph),
     is |-> IF resp_st = NoKey THEN {} ELSE DH(init_eph, resp_st),
     si |-> IF init_st = NoKey THEN {} ELSE DH(resp_eph, init_st),
     s_init |-> init_st, s_resp |-> resp_st]
SessionId(c, eph) ==
    IF c.role = 0 THEN Transcript(c.eph, eph, c.st, c.peer_static)
    ELSE Transcript(eph, c.eph, c.peer_static, c.st)
DeriveSession(c, eph) == [c EXCEPT !.sid = SessionId(c, eph), !.have_key = TRUE]

\* The key of a direction: the transcript under the label of its sender's role.
TxKey(c) == [sid |-> c.sid, label |-> c.role]
RxKey(c) == [sid |-> c.sid, label |-> 1 - c.role]

\* consume_hello.  verified is the answer of the verify_peer callback.
ConsumeHello(c, h, verified) ==
    LET seen == [c EXCEPT !.peer_static = h.st]
    IN IF (c.require /\ h.st = NoKey) \/ ~verified
       THEN [seen EXCEPT !.failed = TRUE]
       ELSE DeriveSession(seen, h.eph)

\* nc_crypto_seal: refused without a key and when the nonce would wrap.
CanSeal(c) == c.have_key /\ c.tx_counter # CounterMax
AfterSeal(c) == [c EXCEPT !.tx_counter = @ + 1]
Sealed(c, body) ==
    [hello |-> FALSE, key |-> TxKey(c), ctr |-> c.tx_counter + 1, body |-> body]

-----------------------------------------------------------------------------
(* replay_check_and_update.  rx_window is the set of its one bits: bit d is  *)
(* packet rx_max - d.                                                        *)

ReplayFresh(max, win, n) ==
    n # 0 /\ (n > max \/ (max - n < Window /\ max - n \notin win))
Slid(win, by) == {d \in 0 .. Window - 1 : d - by \in win}
ReplayMax(max, n) == IF n > max THEN n ELSE max
\* Mutant: the packet that moves the window is not marked in it.
ReplayWindowUnmarked(max, win, n) ==
    IF n > max THEN Slid(win, n - max) ELSE win \union {max - n}

ReplayWindow(max, win, n) ==
    IF n > max THEN Slid(win, n - max) \union {0} ELSE win \union {max - n}

\* nc_crypto_open of a sealed packet: the key first, the window second.
Opens(c, p) ==
    /\ c.have_key
    /\ p.key = RxKey(c)
    /\ ReplayFresh(c.rx_max, c.rx_window, p.ctr)
AfterOpen(c, p) ==
    [c EXCEPT !.rx_max = ReplayMax(@, p.ctr),
              !.rx_window = ReplayWindow(c.rx_max, @, p.ctr)]
=============================================================================
