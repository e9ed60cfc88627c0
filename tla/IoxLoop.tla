------------------------------- MODULE IoxLoop -------------------------------
(***************************************************************************)
(* The poll() loop of iox: descriptors added, changed and removed by the   *)
(* callbacks it is dispatching, and signals that reach their callbacks     *)
(* through a pipe.  Descriptor 0 is the read end of that pipe; the others  *)
(* belong to the program.  Table positions are 1-based here.               *)
(***************************************************************************)
EXTENDS Integers, Sequences, FiniteSets

CONSTANTS
    Fds,         \* the program's descriptors, not 0
    Signals,     \* signal numbers
    MaxFds,      \* IOX_MAX_FDS
    MaxSignals,  \* IOX_MAX_SIGNALS
    PipeRoom,    \* bytes the pipe holds
    BufSize,     \* bytes sig_pipe_cb reads at a time
    MaxCalls,    \* bound: calls of iox_fd_* and iox_signal_* by the program
    MaxRaised    \* bound: signals raised

VARIABLES
    fds,         \* pfds and fds: a sequence of [fd, reg, active, ready]
    compact_needed,
    i, n,        \* of iox_loop_poll
    pipe,        \* signal bytes written and not yet read
    buf,         \* of sig_pipe_cb: bytes read and not yet handed on
    k,           \* of sig_pipe_cb: where the scan of the table stands
    sig_table,   \* a sequence of [signo, active]
    pc,          \* "user": program code; "poll", "fds", "signals": the loop
    caller,      \* where program code returns to
    owed,        \* history: registrations poll() found ready, still to be called
    raised,      \* history: signals raised
    calls,       \* history: calls made by the program
    wrong        \* history: a call that should not have been made, or was missed

loopVars == <<fds, compact_needed, i, n, pipe, buf, k, sig_table, pc, caller,
              owed, raised, calls, wrong>>

\* The first active entry of descriptor d, 0 if there is none.
FindFd(d) ==
    LET at == {j \in 1 .. Len(fds) : fds[j].fd = d /\ fds[j].active}
    IN IF at = {} THEN 0 ELSE CHOOSE j \in at : \A l \in at : j <= l

\* Entry j is overwritten by the last one.
SwapOut(s, j) ==
    LET m == Len(s) IN SubSeq(IF j < m THEN [s EXCEPT ![j] = s[m]] ELSE s, 1, m - 1)

\* compact, from position j on: an entry swapped in is looked at again.
RECURSIVE Compact(_, _)
Compact(s, j) ==
    CASE j > Len(s)  -> s
      [] j <= Len(s) /\ s[j].active -> Compact(s, j + 1)
      [] OTHER       -> Compact(SwapOut(s, j), j)

Handler(s) == \E j \in 1 .. Len(sig_table) : sig_table[j] = [signo |-> s, active |-> TRUE]

LoopInit ==
    /\ fds = <<[fd |-> 0, reg |-> 0, active |-> TRUE, ready |-> FALSE]>>
    /\ compact_needed = FALSE
    /\ i = 0 /\ n = 0 /\ k = 0
    /\ pipe = <<>> /\ buf = <<>>
    /\ sig_table = <<>>
    /\ pc = "user" /\ caller = "poll"
    /\ owed = {} /\ raised = 0 /\ calls = 0
    /\ wrong = {}

\* What program code may do: it is the only code running.
InUser == pc = "user" /\ calls < MaxCalls /\ calls' = calls + 1

\* A descriptor is not registered twice by the programs of this repository.
FdAdd(d) ==
    /\ InUser
    /\ FindFd(d) = 0 /\ Len(fds) < MaxFds
    /\ fds' = Append(fds, [fd |-> d, reg |-> calls + 1, active |-> TRUE, ready |-> FALSE])
    /\ UNCHANGED <<compact_needed, i, n, pipe, buf, k, sig_table, pc, caller, owed, raised, wrong>>

\* A plausible slip: the entry is taken out of the table at once.
FdRemoveNow(d) ==
    /\ InUser
    /\ FindFd(d) # 0
    /\ owed' = owed \ {fds[FindFd(d)].reg}
    /\ fds' = SwapOut(fds, FindFd(d))
    /\ UNCHANGED <<compact_needed, i, n, pipe, buf, k, sig_table, pc, caller, raised, wrong>>

\* During dispatch (that is, in a callback) the entry is only marked.
FdRemove(d) ==
    /\ InUser
    /\ FindFd(d) # 0
    /\ owed' = owed \ {fds[FindFd(d)].reg}
    /\ IF caller # "poll"
       THEN /\ fds' = [fds EXCEPT ![FindFd(d)].active = FALSE]
            /\ compact_needed' = TRUE
       ELSE /\ fds' = SwapOut(fds, FindFd(d))
            /\ UNCHANGED compact_needed
    /\ UNCHANGED <<i, n, pipe, buf, k, sig_table, pc, caller, raised, wrong>>

\* iox_signal_add: slots are only ever appended.
SignalAdd(s) ==
    /\ InUser
    /\ ~Handler(s) /\ Len(sig_table) < MaxSignals
    /\ sig_table' = Append(sig_table, [signo |-> s, active |-> TRUE])
    /\ UNCHANGED <<fds, compact_needed, i, n, pipe, buf, k, pc, caller, owed, raised, wrong>>

SignalRemove(s) ==
    /\ InUser
    /\ Handler(s)
    /\ sig_table' = [j \in 1 .. Len(sig_table) |->
                        IF sig_table[j].signo = s THEN [sig_table[j] EXCEPT !.active = FALSE]
                        ELSE sig_table[j]]
    /\ UNCHANGED <<fds, compact_needed, i, n, pipe, buf, k, pc, caller, owed, raised, wrong>>

\* Program code returns to the loop.
Return ==
    /\ pc = "user"
    /\ pc' = caller
    /\ UNCHANGED <<fds, compact_needed, i, n, pipe, buf, k, sig_table, caller, owed, raised, calls, wrong>>

\* sig_handler interrupts anything: the byte is dropped when the pipe is full.
Raise(s) ==
    /\ Handler(s) /\ raised < MaxRaised
    /\ raised' = raised + 1
    /\ pipe' = IF Len(pipe) < PipeRoom THEN Append(pipe, s) ELSE pipe
    /\ UNCHANGED <<fds, compact_needed, i, n, buf, k, sig_table, pc, caller, owed, calls, wrong>>

\* poll() returns with the pipe readable if it holds a byte, and any others.
Poll ==
    /\ pc = "poll"
    /\ \E R \in SUBSET Fds :
        /\ R \subseteq {fds[j].fd : j \in 1 .. Len(fds)}
        /\ fds' = [j \in 1 .. Len(fds) |->
                     [fds[j] EXCEPT !.ready = IF fds[j].fd = 0 THEN pipe # <<>> ELSE fds[j].fd \in R]]
        /\ owed' = {fds[j].reg : j \in {l \in 1 .. Len(fds) : fds[l].fd \in R}}
        /\ n' = Cardinality(R) + (IF pipe # <<>> THEN 1 ELSE 0)
    /\ i' = 1
    /\ pc' = "fds"
    /\ UNCHANGED <<compact_needed, pipe, buf, k, sig_table, caller, raised, calls, wrong>>

MoreFds == i <= Len(fds) /\ n > 0

\* An entry without events, or removed by an earlier callback, is passed over.
PassOver ==
    /\ pc = "fds" /\ MoreFds
    /\ ~fds[i].ready \/ ~fds[i].active
    /\ n' = IF fds[i].ready THEN n - 1 ELSE n
    /\ i' = i + 1
    /\ UNCHANGED <<fds, compact_needed, pipe, buf, k, sig_table, pc, caller, owed, raised, calls, wrong>>

\* A callback of the program.
Call ==
    /\ pc = "fds" /\ MoreFds /\ fds[i].ready /\ fds[i].active /\ fds[i].fd # 0
    /\ n' = n - 1 /\ i' = i + 1
    /\ wrong' = IF fds[i].reg \in owed THEN wrong ELSE wrong \union {<<"called", fds[i].reg>>}
    /\ owed' = owed \ {fds[i].reg}
    /\ pc' = "user" /\ caller' = "fds"
    /\ UNCHANGED <<fds, compact_needed, pipe, buf, k, sig_table, raised, calls>>

\* sig_pipe_cb reads some bytes and will hand them on last first.
ReadPipe ==
    /\ pc = "fds" /\ MoreFds /\ fds[i].ready /\ fds[i].active /\ fds[i].fd = 0
    /\ n' = n - 1 /\ i' = i + 1
    /\ LET got == IF Len(pipe) < BufSize THEN Len(pipe) ELSE BufSize
       IN /\ buf' = SubSeq(pipe, 1, got)
          /\ pipe' = SubSeq(pipe, got + 1, Len(pipe))
    /\ k' = 1
    /\ pc' = "signals"
    /\ UNCHANGED <<fds, compact_needed, sig_table, caller, owed, raised, calls, wrong>>

\* One step of the scan: the table may have changed under it.
ScanTable ==
    /\ pc = "signals" /\ buf # <<>>
    /\ IF k > Len(sig_table)
       THEN /\ buf' = SubSeq(buf, 1, Len(buf) - 1)
            /\ k' = 1
            /\ UNCHANGED <<pc, caller>>
       ELSE /\ k' = k + 1
            /\ UNCHANGED buf
            /\ IF sig_table[k] = [signo |-> buf[Len(buf)], active |-> TRUE]
               THEN pc' = "user" /\ caller' = "signals"
               ELSE UNCHANGED <<pc, caller>>
    /\ UNCHANGED <<fds, compact_needed, i, n, pipe, sig_table, owed, raised, calls, wrong>>

SignalsDone ==
    /\ pc = "signals" /\ buf = <<>>
    /\ pc' = "fds"
    /\ UNCHANGED <<fds, compact_needed, i, n, pipe, buf, k, sig_table, caller, owed, raised, calls, wrong>>

\* The pass over the table is over; timer and idle callbacks run next.
PassDone ==
    /\ pc = "fds" /\ ~MoreFds
    /\ fds' = IF compact_needed THEN Compact(fds, 1) ELSE fds
    /\ compact_needed' = FALSE
    /\ wrong' = wrong \union {<<"missed", r>> : r \in owed}
    /\ owed' = {}
    /\ pc' = "user" /\ caller' = "poll"
    /\ UNCHANGED <<i, n, pipe, buf, k, sig_table, raised, calls>>

LoopNext ==
    \/ \E d \in Fds : FdAdd(d) \/ FdRemove(d)
    \/ \E s \in Signals : SignalAdd(s) \/ SignalRemove(s) \/ Raise(s)
    \/ Return \/ Poll \/ PassOver \/ Call \/ ReadPipe \/ ScanTable \/ SignalsDone \/ PassDone

LoopSpec == LoopInit /\ [][LoopNext]_loopVars

\* Whatever callbacks add and remove during a pass of iox_loop_poll, the pass calls
\* a registration only if poll() found that very registration ready and it was not
\* removed since, calls every such registration exactly once, and leaves no removed
\* entry behind in the table poll() is given.
CallsExact ==
    /\ wrong = {}
    /\ pc = "poll" => \A j \in 1 .. Len(fds) : fds[j].active
=============================================================================
