--------------------------- MODULE NcReplayProofs ---------------------------
(***************************************************************************)
(* The replay window of nc_crypto.c, for every window width and any number *)
(* of packets.  The invariant says that the mask is the set of opened      *)
(* counters seen from rx_max; a slide by n - rx_max shifts the view and    *)
(* drops what falls off the end, as (rx_window << shift) does.             *)
(***************************************************************************)
EXTENDS NcReplay, TLAPS

\* A packet at or below rx_max that the window accepts was not opened, and one
\* that it refuses was opened or is too old.
LEMMA FreshMeansNew ==
    ASSUME WindowInv, NEW n \in 1 .. tx_counter
    PROVE  /\ ReplayFresh(rx_max, rx_window, n) => n \notin opened
           /\ ~ReplayFresh(rx_max, rx_window, n) => n \in opened \/ rx_max - n >= Window
<1>1. n \in Nat /\ n # 0 /\ rx_max \in Nat /\ Window \in Nat
  BY WindowAssumption DEF WindowInv
<1>2. CASE n > rx_max
  BY <1>1, <1>2 DEF ReplayFresh, WindowInv
<1>3. CASE n <= rx_max
  <2>1. rx_max - (rx_max - n) = n /\ rx_max - n \in Nat
    BY <1>1, <1>3
  <2>2. rx_max - n < Window => (rx_max - n \in rx_window <=> n \in opened)
    <3>1. SUFFICES ASSUME rx_max - n < Window
                   PROVE  rx_max - n \in rx_window <=> n \in opened
      OBVIOUS
    <3>2. rx_max - n \in 0 .. Window - 1
      BY <2>1, <3>1, <1>1
    <3> QED BY <3>2, <2>1 DEF WindowInv
  <2> QED BY <2>1, <2>2, <1>1, <1>3 DEF ReplayFresh
<1> QED BY <1>1, <1>2, <1>3

\* The slide of replay_check_and_update keeps the mask a view of the opened set.
LEMMA SlideKeepsView ==
    ASSUME WindowInv, NEW n \in 1 .. tx_counter, ReplayFresh(rx_max, rx_window, n)
    PROVE  ReplayWindow(rx_max, rx_window, n)
             = {d \in 0 .. Window - 1 : ReplayMax(rx_max, n) - d \in opened \union {n}}
<1>1. n \in Nat /\ n # 0 /\ rx_max \in Nat /\ Window \in Nat \ {0} /\ opened \subseteq 1 .. rx_max
  BY WindowAssumption DEF WindowInv
<1>w. rx_window = {d \in 0 .. Window - 1 : rx_max - d \in opened}
  BY DEF WindowInv
<1>2. CASE n > rx_max
  <2>1. ReplayMax(rx_max, n) = n
    BY <1>2 DEF ReplayMax
  <2>2. ReplayWindow(rx_max, rx_window, n) = Slid(rx_window, n - rx_max) \union {0}
    BY <1>2 DEF ReplayWindow
  <2>3. ASSUME NEW d \in 0 .. Window - 1
        PROVE  d \in Slid(rx_window, n - rx_max) \union {0} <=> n - d \in opened \union {n}
    <3>1. CASE d = 0
      BY <3>1, <1>1
    <3>2. CASE d # 0
      <4>1. d - (n - rx_max) \in rx_window <=> n - d \in opened
        <5>1. rx_max - (d - (n - rx_max)) = n - d
          BY <1>1
        <5>2. n - d \in opened => d - (n - rx_max) \in 0 .. Window - 1
          BY <1>1, <1>2
        <5> QED BY <5>1, <5>2, <1>w
      <4>2. n - d # n
        BY <3>2, <1>1
      <4> QED BY <4>1, <4>2, <3>2 DEF Slid
    <3> QED BY <3>1, <3>2
  <2>4. 0 \in 0 .. Window - 1
    BY <1>1
  <2>5. Slid(rx_window, n - rx_max) \union {0} \subseteq 0 .. Window - 1
    BY <2>4 DEF Slid
  <2> QED BY <2>1, <2>2, <2>3, <2>5
<1>3. CASE n <= rx_max
  <2>1. ReplayMax(rx_max, n) = rx_max /\ ReplayWindow(rx_max, rx_window, n) = rx_window \union {rx_max - n}
    BY <1>1, <1>3 DEF ReplayMax, ReplayWindow
  <2>2. rx_max - n \in 0 .. Window - 1
    BY <1>1, <1>3 DEF ReplayFresh
  <2>3. ASSUME NEW d \in 0 .. Window - 1
        PROVE  d \in rx_window \union {rx_max - n} <=> rx_max - d \in opened \union {n}
    <3>1. d = rx_max - n <=> rx_max - d = n
      BY <1>1
    <3> QED BY <3>1, <1>w
  <2> QED BY <2>1, <2>2, <2>3, <1>w
<1> QED BY <1>1, <1>2, <1>3

\* WindowInv is inductive: replay_check_and_update keeps the mask exact.
LEMMA WindowStep == WindowInv /\ [ReplayNext]_replayVars => WindowInv'
<1> SUFFICES ASSUME WindowInv, [ReplayNext]_replayVars PROVE WindowInv'
  OBVIOUS
<1>1. CASE Seal
  BY <1>1 DEF Seal, WindowInv
<1>2. ASSUME NEW n \in 1 .. tx_counter, Open(n)
      PROVE  WindowInv'
  <2>0. n \in Nat /\ rx_max \in Nat /\ tx_counter \in Nat /\ n <= tx_counter
    BY DEF WindowInv
  <2>1. CASE ReplayFresh(rx_max, rx_window, n)
    <3>1. /\ rx_max' = ReplayMax(rx_max, n)
          /\ rx_window' = ReplayWindow(rx_max, rx_window, n)
          /\ opened' = opened \union {n}
          /\ tx_counter' = tx_counter
          /\ wrong' = wrong
      BY <1>2, <2>1, FreshMeansNew DEF Open
    <3>2. rx_max' \in 0 .. tx_counter' /\ opened' \subseteq 1 .. rx_max'
      BY <3>1, <2>0 DEF ReplayMax, WindowInv
    <3>3. rx_window' = {d \in 0 .. Window - 1 : rx_max' - d \in opened'}
      BY <3>1, <2>1, SlideKeepsView
    <3> QED BY <3>1, <3>2, <3>3 DEF WindowInv
  <2>2. CASE ~ReplayFresh(rx_max, rx_window, n)
    <3>1. n \in opened \/ rx_max - n >= Window
      BY <2>2, FreshMeansNew
    <3>2. wrong' = wrong
      BY <3>1, <1>2, <2>2, <2>0, WindowAssumption DEF Open
    <3> QED BY <3>2, <1>2, <2>2 DEF Open, WindowInv
  <2> QED BY <2>1, <2>2
<1>3. CASE UNCHANGED replayVars
  BY <1>3 DEF replayVars, WindowInv
<1> QED BY <1>1, <1>2, <1>3 DEF ReplayNext

\* However packets are dropped, repeated and reordered, nc_crypto_open opens each
\* at most once and refuses only repeated ones and ones older than the window.
THEOREM NoReplay == ReplaySpec => []OpenedExactlyOnce
<1>1. ReplayInit => WindowInv
  BY WindowAssumption DEF ReplayInit, WindowInv
<1>2. WindowInv => OpenedExactlyOnce
  BY DEF WindowInv, OpenedExactlyOnce
<1> QED BY <1>1, <1>2, WindowStep, PTL DEF ReplaySpec
=============================================================================
