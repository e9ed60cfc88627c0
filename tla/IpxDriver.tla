------------------------------ MODULE IpxDriver ------------------------------
(***************************************************************************)
(* The IPX transport of netchan for DOS (netchan-ipx/demo/nc_ipx.c): a     *)
(* static pool of event control blocks (ECBs) shared with the resident     *)
(* driver.  The driver completes an ECB at any moment, also between two    *)
(* steps of the scan in nc_ipx_recv; its side (Arrive, Sent) is external   *)
(* and modelled from how nc_ipx.c uses it: a listening ECB is filled once, *)
(* in the order they were posted, and ccode leaves 0xFF when it is.        *)
(***************************************************************************)
EXTENDS Integers, Sequences, SequencesExt

CONSTANTS
    Recv, Send,     \* NC_IPX_RECV, NC_IPX_SEND: sizes of the two pools
    MaxArrive, MaxOut   \* bounds: packets from the network and from the program

VARIABLES
    recv_ecb,   \* slot -> ccode and buffer of a receive ECB
    posted,     \* the receive ECBs the driver holds, oldest first
    next_recv,  \* where the next scan looks first
    scan,       \* ECBs the running nc_ipx_recv has still to look at; 0: none runs
    send_ecb,   \* slot -> ccode and buffer of a send ECB
    arrived,    \* ghost: packets the driver has put into an ECB
    received,   \* ghost: packets nc_ipx_recv has returned
    given,      \* ghost: packets nc_ipx_send has accepted
    wire,       \* ghost: packets that were transmitted
    missed      \* packets that came or went without an ECB, or failed

driverVars == <<recv_ecb, posted, next_recv, scan, send_ecb, arrived, received, given, wire, missed>>

Pending == 255
Idle == 0
Bad == 1
None == 0

\* nc_ipx_open: every receive ECB listens.
DriverInit ==
    /\ recv_ecb = [i \in 0 .. Recv - 1 |-> [ccode |-> Pending, buf |-> None]]
    /\ posted = [k \in 1 .. Recv |-> k - 1]
    /\ next_recv = 0 /\ scan = 0
    /\ send_ecb = [i \in 0 .. Send - 1 |-> [ccode |-> Idle, buf |-> None]]
    /\ arrived = {} /\ received = << >> /\ given = {} /\ wire = << >> /\ missed = {}

\* The driver fills the oldest listening ECB, or has none; a packet may be damaged.
Arrive ==
    LET p == Cardinality(arrived) + Cardinality(missed \cap (1 .. MaxArrive)) + 1
    IN  /\ p <= MaxArrive
        /\ UNCHANGED <<next_recv, scan, send_ecb, received, given, wire>>
        /\ \/ /\ posted # << >>
              /\ recv_ecb' = [recv_ecb EXCEPT ![Head(posted)] = [ccode |-> Idle, buf |-> p]]
              /\ arrived' = arrived \cup {p}
              /\ posted' = Tail(posted)
              /\ UNCHANGED missed
           \/ /\ posted # << >>
              /\ recv_ecb' = [recv_ecb EXCEPT ![Head(posted)].ccode = Bad]
              /\ missed' = missed \cup {p}
              /\ posted' = Tail(posted)
              /\ UNCHANGED arrived
           \/ /\ posted = << >>
              /\ missed' = missed \cup {p}
              /\ UNCHANGED <<recv_ecb, posted, arrived>>

\* post_listen: the ECB is cleared and given to the driver again.
PostListen(i) ==
    /\ recv_ecb' = [recv_ecb EXCEPT ![i] = [ccode |-> Pending, buf |-> recv_ecb[i].buf]]
    /\ posted' = Append(posted, i)

\* nc_ipx_recv is called when the last call has returned.
Scan == scan = 0 /\ scan' = Recv
        /\ UNCHANGED <<recv_ecb, posted, next_recv, send_ecb, arrived, received, given, wire, missed>>

\* One ECB of the scan: skip it, or take its packet and listen again, or only listen.
Look ==
    LET e == recv_ecb[next_recv] IN
    /\ scan > 0
    /\ next_recv' = (next_recv + 1) % Recv
    /\ IF e.ccode = Pending THEN UNCHANGED <<recv_ecb, posted>> ELSE PostListen(next_recv)
    /\ scan' = IF e.ccode = Idle THEN 0 ELSE scan - 1
    /\ received' = IF e.ccode = Idle THEN Append(received, e.buf) ELSE received
    /\ UNCHANGED <<send_ecb, arrived, given, wire, missed>>

\* The slots nc_ipx_send may use.
IdleSlots == {i \in 0 .. Send - 1 : send_ecb[i].ccode # Pending}

FirstOf(slots) == CHOOSE i \in slots : \A j \in slots : i <= j

\* nc_ipx_send: the packet is copied to the first idle slot, or dropped.
SendPacket ==
    LET p == MaxArrive + Cardinality(given) + Cardinality(missed \ (1 .. MaxArrive)) + 1
        dropped == IdleSlots = {}
    IN  /\ scan = 0 /\ p <= MaxArrive + MaxOut
        /\ send_ecb' = IF dropped THEN send_ecb
                       ELSE [send_ecb EXCEPT ![FirstOf(IdleSlots)] = [ccode |-> Pending, buf |-> p]]
        /\ given' = IF dropped THEN given ELSE given \cup {p}
        /\ missed' = IF dropped THEN missed \cup {p} ELSE missed
        /\ UNCHANGED <<recv_ecb, posted, next_recv, scan, arrived, received, wire>>

\* The driver transmits what the buffer of a pending ECB holds.
Sent ==
    \E i \in {j \in 0 .. Send - 1 : send_ecb[j].ccode = Pending} :
        /\ wire' = Append(wire, send_ecb[i].buf)
        /\ send_ecb' = [send_ecb EXCEPT ![i].ccode = Idle]
        /\ UNCHANGED <<recv_ecb, posted, next_recv, scan, arrived, received, given, missed>>

DriverNext == Arrive \/ Scan \/ Look \/ SendPacket \/ Sent
DriverSpec == DriverInit /\ [][DriverNext]_driverVars

----------------------------------------------------------------------------
\* Every packet the driver took is returned once: it is in one ECB or was
\* received, never both, never twice, whenever the driver interrupts the scan; and
\* the wire carries each packet the program gave once, from a buffer that was not
\* reused while the driver held it.
DriverExact ==
    /\ IsInjective(received) /\ IsInjective(wire)
    /\ {recv_ecb[i].buf : i \in {j \in 0 .. Recv - 1 : recv_ecb[j].ccode = Idle}} = arrived \ Range(received)
    /\ Range(received) \subseteq arrived
    /\ {send_ecb[i].buf : i \in {j \in 0 .. Send - 1 : send_ecb[j].ccode = Pending}} = given \ Range(wire)
    /\ Range(wire) \subseteq given
    /\ \A i \in 0 .. Recv - 1 : recv_ecb[i].ccode = Pending <=> i \in Range(posted)
=============================================================================
