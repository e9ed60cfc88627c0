------------------------------ MODULE IoxTimer ------------------------------
(***************************************************************************)
(* The one-shot timers of the event loop: a binary heap on the deadline    *)
(* (pq.h) that callbacks add to and remove from while it is dispatched.    *)
(* Heap positions are 1-based here and 0-based in pq.h.  Deadlines are in  *)
(* nanoseconds and poll() sleeps whole milliseconds: Milli nanoseconds     *)
(* make one.                                                               *)
(***************************************************************************)
EXTENDS Integers, Sequences, FiniteSets

CONSTANTS
    Delays,      \* arguments of iox_timer_add, in milliseconds
    Milli,       \* nanoseconds in a millisecond
    FirstMax,    \* IOX_MAX_TIMERS, the size the heap starts with
    MaxAdds,     \* bound: timers added
    MaxRemoves,  \* bound: timers removed
    MaxNow       \* bound: the clock

VARIABLES
    entry,       \* the heap: a sequence of [deadline, id]
    max,         \* room in the heap
    next_id,     \* id of the next timer
    now,         \* CLOCK_MONOTONIC
    t,           \* the clock as iox_timer_dispatch read it, -1 outside it
    running,     \* a callback of the program is running
    live,        \* history: timers added, neither removed nor fired
    removes,     \* history: removals so far
    early        \* history: a timer fired early, or poll() woke for nothing

timerVars == <<entry, max, next_id, now, t, running, live, removes, early>>

Later(a, b) == a.deadline > b.deadline

\* The hole at i moves up while its parent is later than elm.
RECURSIVE SiftUp(_, _, _)
SiftUp(h, i, elm) ==
    IF i > 1 /\ Later(h[i \div 2], elm)
    THEN SiftUp([h EXCEPT ![i] = h[i \div 2]], i \div 2, elm)
    ELSE [h EXCEPT ![i] = elm]

\* The child of i that belongs higher: the left one on a tie.
Child(h, i) ==
    IF 2 * i + 1 <= Len(h) /\ Later(h[2 * i], h[2 * i + 1]) THEN 2 * i + 1 ELSE 2 * i

\* The hole at i moves down while a child is earlier than elm.
RECURSIVE SiftDown(_, _, _)
SiftDown(h, i, elm) ==
    IF 2 * i <= Len(h) /\ Later(elm, h[Child(h, i)])
    THEN SiftDown([h EXCEPT ![i] = h[Child(h, i)]], Child(h, i), elm)
    ELSE [h EXCEPT ![i] = elm]


Enqueue(h, e) == SiftUp(Append(h, e), Len(h) + 1, e)

\* The last entry fills the hole at i and is sifted whichever way it must go.
Remove(h, i) ==
    LET last == h[Len(h)]
        rest == SubSeq(h, 1, Len(h) - 1)
    IN CASE i = Len(h)                              -> rest
         [] i < Len(h) /\ i > 1 /\ Later(h[i \div 2], last) -> SiftUp(rest, i, last)
         [] OTHER                                   -> SiftDown(rest, i, last)

\* The sleep given to poll(), in milliseconds, rounded up; -1 to wait for ever.
NextMs ==
    IF entry = <<>> THEN -1
    ELSE LET diff == (entry[1].deadline - now + Milli - 1) \div Milli
         IN IF diff < 0 THEN 0 ELSE diff

\* The earliest timer is due at the clock iox_timer_dispatch read.
Due == IF entry = <<>> THEN FALSE ELSE entry[1].deadline <= t

TimerInit ==
    /\ entry = <<>>
    /\ max = FirstMax
    /\ next_id = 0
    /\ now = 0
    /\ t = -1
    /\ running = TRUE
    /\ live = {}
    /\ removes = 0
    /\ early = FALSE

\* iox_timer_add: a full heap is doubled first.
Add(ms) ==
    LET e == [deadline |-> now + ms * Milli, id |-> next_id] IN
    /\ running /\ next_id < MaxAdds
    /\ entry' = Enqueue(entry, e)
    /\ max' = IF Len(entry) >= max THEN 2 * max ELSE max
    /\ next_id' = next_id + 1
    /\ live' = live \union {e}
    /\ UNCHANGED <<now, t, running, removes, early>>

\* iox_timer_remove: the first entry with this id, if the timer has not fired.
RemoveTimer(id) ==
    /\ running /\ removes < MaxRemoves
    /\ removes' = removes + 1
    /\ live' = {e \in live : e.id # id}
    /\ entry' = LET at == {i \in 1 .. Len(entry) : entry[i].id = id}
                IN IF at = {} THEN entry
                   ELSE Remove(entry, CHOOSE i \in at : \A j \in at : i <= j)
    /\ UNCHANGED <<max, next_id, now, t, running, early>>

\* The program gives the thread back to the loop.
Return ==
    /\ running
    /\ running' = FALSE
    /\ UNCHANGED <<entry, max, next_id, now, t, live, removes, early>>

\* poll() sleeps for NextMs, or less when a descriptor is ready, and
\* iox_timer_dispatch reads the clock.  Waking after the whole sleep with no
\* timer due would make the loop spin.
Poll ==
    /\ ~running /\ t = -1
    /\ \E n \in now .. MaxNow :
        /\ entry # <<>> => n <= now + NextMs * Milli
        /\ now' = n
        /\ t' = n
        /\ early' = \/ early
                    \/ /\ entry # <<>>
                       /\ n = now + NextMs * Milli
                       /\ entry[1].deadline > n
    /\ UNCHANGED <<entry, max, next_id, running, live, removes>>

\* The heap's top is due: it is taken off the heap and its callback runs, some
\* time after the clock was read.
Fire ==
    /\ ~running /\ t # -1 /\ Due
    /\ entry' = Remove(entry, 1)
    /\ live' = live \ {entry[1]}
    /\ early' = (early \/ entry[1].deadline > now)
    /\ running' = TRUE
    /\ now' \in {now, now + 1} /\ now' <= MaxNow
    /\ UNCHANGED <<max, next_id, t, removes>>

\* No timer is due any more: the idle callback, or the callbacks of the next
\* poll, run.
Dispatched ==
    /\ ~running /\ t # -1 /\ ~Due
    /\ t' = -1
    /\ running' \in BOOLEAN
    /\ UNCHANGED <<entry, max, next_id, now, live, removes, early>>

TimerNext ==
    \/ \E ms \in Delays : Add(ms)
    \/ \E id \in 0 .. next_id - 1 : RemoveTimer(id)
    \/ Return
    \/ Poll
    \/ Fire
    \/ Dispatched

TimerSpec == TimerInit /\ [][TimerNext]_timerVars

\* However timers are added and removed, from inside a timer callback too, the
\* heap holds exactly the timers that are pending, each once, it is the heap that
\* is_valid asks for, so that its top is the earliest, none fires before its
\* deadline, and a full sleep of poll() always ends with a timer due, so
\* iox_loop_run never spins.
TimersExact ==
    /\ {entry[i] : i \in 1 .. Len(entry)} = live
    /\ Cardinality(live) = Len(entry) /\ Len(entry) <= max
    /\ \A i \in 2 .. Len(entry) : ~Later(entry[i \div 2], entry[i])
    /\ ~early
=============================================================================
