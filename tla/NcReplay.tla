------------------------------ MODULE NcReplay ------------------------------
(***************************************************************************)
(* The packets of one direction of an nc_crypto session: a sender that     *)
(* seals with a counter, a network that drops, repeats and reorders, and   *)
(* the receiver's replay window.                                           *)
(***************************************************************************)
EXTENDS NcCrypto

ASSUME WindowAssumption == Window \in Nat \ {0} /\ CounterMax \in Nat

VARIABLES
    tx_counter,   \* packets sealed so far
    rx_max,       \* the highest counter opened
    rx_window,    \* the one bits of the window
    opened,       \* history: counters opened
    wrong         \* history: packets opened twice, or refused though new

replayVars == <<tx_counter, rx_max, rx_window, opened, wrong>>

ReplayInit ==
    /\ tx_counter = 0
    /\ rx_max = 0
    /\ rx_window = {}
    /\ opened = {}
    /\ wrong = {}

Seal ==
    /\ tx_counter # CounterMax
    /\ tx_counter' = tx_counter + 1
    /\ UNCHANGED <<rx_max, rx_window, opened, wrong>>

\* Packet n arrives, for the first time or again.  A new packet is one that was
\* not opened before and is not older than the window.
Open(n) ==
    IF ReplayFresh(rx_max, rx_window, n)
    THEN /\ rx_max' = ReplayMax(rx_max, n)
         /\ rx_window' = ReplayWindow(rx_max, rx_window, n)
         /\ opened' = opened \union {n}
         /\ wrong' = IF n \in opened THEN wrong \union {n} ELSE wrong
         /\ UNCHANGED tx_counter
    ELSE /\ wrong' = IF n \notin opened /\ rx_max - n < Window
                     THEN wrong \union {n} ELSE wrong
         /\ UNCHANGED <<tx_counter, rx_max, rx_window, opened>>

ReplayNext == Seal \/ \E n \in 1 .. tx_counter : Open(n)
ReplaySpec == ReplayInit /\ [][ReplayNext]_replayVars

\* The window is exactly the memory of the packets opened among the last Window.
WindowInv ==
    /\ tx_counter \in Nat /\ rx_max \in 0 .. tx_counter
    /\ opened \subseteq 1 .. rx_max
    /\ rx_window = {d \in 0 .. Window - 1 : rx_max - d \in opened}
    /\ wrong = {}

\* replay_check_and_update opens no packet twice and refuses no new packet that
\* is less than Window behind, in whatever order and however often they arrive.
OpenedExactlyOnce == wrong = {}
=============================================================================
