------------------------------ MODULE NcFifo ------------------------------
(***************************************************************************)
(* What a reliable netchan channel promises its users: messages written at *)
(* one end come out at the other in the order they were written, each at   *)
(* most once.  A receiver short of buffers may lose some: the channel is   *)
(* ordered, but not gap-free.  Messages are numbered from 0.               *)
(***************************************************************************)
EXTENDS Integers, Sequences

VARIABLES
    written,    \* messages written so far
    passed,     \* the receiver is done with messages below this number
    delivered   \* the messages delivered, in order

fifoVars == <<written, passed, delivered>>

FifoInit == written = 0 /\ passed = 0 /\ delivered = << >>

Write ==
    /\ written' = written + 1
    /\ UNCHANGED <<passed, delivered>>

\* The receiver passes the messages up to n-1, delivering some of them.
Pass(n) ==
    LET old == Len(delivered)
    IN  /\ passed' = n
        /\ Len(delivered') >= old
        /\ SubSeq(delivered', 1, old) = delivered
        /\ \A k \in old+1..Len(delivered') :
             /\ delivered'[k] \in passed..n-1
             /\ k > old + 1 => delivered'[k-1] < delivered'[k]
        /\ UNCHANGED written

FifoNext == Write \/ \E n \in passed+1..written : Pass(n)

FifoSpec == FifoInit /\ [][FifoNext]_fifoVars
===========================================================================
