------------------------------ MODULE RateLimit ------------------------------
(***************************************************************************)
(* InMemoryRateLimiter.check (app/core/rate_limit.py) for one key, with    *)
(* what it promises.                                                       *)
(*                                                                         *)
(* The clock is read before the lock is taken, so that calls of several    *)
(* threads enter the bucket in another order than their times: a call may  *)
(* remove events by a later cutoff than the one that comes after it.  The  *)
(* bucket is the tail of the log of all events that were let through.      *)
(***************************************************************************)
EXTENDS Integers, Sequences

CONSTANTS
    Threads,
    Limit,          \* events per window
    Window,
    Delay,          \* the longest a thread may take from the clock to the lock
    MaxTime,        \* bound on the time
    MaxEvents       \* bound on the events let through

VARIABLES
    now,
    log,            \* the times of the events let through, in the order of the bucket
    head,           \* where the bucket begins in the log
    clock           \* what each thread has read; -1 when it is not in check

vars == <<now, log, head, clock>>

Init == now = 0 /\ log = <<>> /\ head = 1 /\ clock = [t \in Threads |-> -1]

Tick ==
    /\ now < MaxTime
    /\ \A t \in Threads : clock[t] = -1 \/ clock[t] > now - Delay
    /\ now' = now + 1
    /\ UNCHANGED <<log, head, clock>>

ReadClock(t) ==
    /\ clock[t] = -1
    /\ clock' = [clock EXCEPT ![t] = now]
    /\ UNCHANGED <<now, log, head>>

\* Faulty: the window is one unit too short.
Older(e, c) == e <= c - Window

Expired(e, c) == e < c - Window

\* The bucket begins at h once the events before the cutoff are removed from its left.
Drained(h, c) ==
    /\ \A i \in head..(h - 1) : Expired(log[i], c)
    /\ h <= Len(log) => ~Expired(log[h], c)

\* Faulty: the event that fills the bucket is let through as well.
OneMore(h) == Len(log) - h + 1 <= Limit

HasRoom(h) == Len(log) - h + 1 < Limit

LetThrough(t) ==
    /\ clock[t] # -1 /\ Len(log) < MaxEvents
    /\ \E h \in head..(Len(log) + 1) : Drained(h, clock[t]) /\ HasRoom(h) /\ head' = h
    /\ log' = Append(log, clock[t])
    /\ clock' = [clock EXCEPT ![t] = -1]
    /\ UNCHANGED now

Refuse(t) ==
    /\ clock[t] # -1
    /\ \E h \in head..(Len(log) + 1) : Drained(h, clock[t]) /\ ~HasRoom(h) /\ head' = h
    /\ clock' = [clock EXCEPT ![t] = -1]
    /\ UNCHANGED <<now, log>>

Next == Tick \/ \E t \in Threads : ReadClock(t) \/ LetThrough(t) \/ Refuse(t)

Spec == Init /\ [][Next]_vars

-----------------------------------------------------------------------------
(* Properties *)

TypeOK ==
    /\ now \in Nat /\ log \in Seq(Nat) /\ head \in 1..(Len(log) + 1)
    /\ clock \in [Threads -> Nat \cup {-1}]

\* Of Limit + 1 successive events the last is more than a window after the first, but for the
\* time that a thread may lose between the clock and the lock.
SpacedOut ==
    \A i \in 1..Len(log) : i + Limit <= Len(log) => log[i + Limit] - log[i] > Window - Delay

\* A refusal has Limit reasons: events let through within the window of the refused call, but for
\* the same time, although the bucket is not sorted and is only emptied from its left.
RefusalsAreJustified ==
    [][\A t \in Threads :
           Refuse(t) => \E h \in 1..(Len(log) + 1) :
                            /\ Len(log) - h + 1 >= Limit
                            /\ \A i \in h..Len(log) : log[i] >= clock[t] - Window - Delay]_vars

-----------------------------------------------------------------------------
(* What the theorems of PeopleProofs take, and the invariant they keep. *)

\* What the theorems take of the constants.
LimiterConstants == Limit \in Nat /\ Window \in Nat /\ Delay \in Nat

\* No clock is older than Delay; an event comes at most Delay before one that precedes it; what
\* has left the bucket is out of every window from now on.
LimiterInv ==
    /\ TypeOK
    /\ \A t \in Threads : clock[t] # -1 => clock[t] <= now /\ clock[t] >= now - Delay
    /\ \A i \in 1..Len(log) : log[i] <= now
    /\ \A i, j \in 1..Len(log) : i < j => log[j] >= log[i] - Delay
    /\ \A i \in 1..(head - 1) : log[i] < now - Window
    /\ SpacedOut
=============================================================================
