-------------------------- MODULE AbstractSemaphore --------------------------
(***************************************************************************)
(* What a counting semaphore promises its callers.  PosixSemaphore         *)
(* (posix_semaphore.rs) implements it.                                     *)
(***************************************************************************)
EXTENDS Naturals

CONSTANTS Threads, MaxValue

VARIABLES
    value,      \* the number of units
    waiting     \* the threads inside sem_wait or sem_timedwait

vars == <<value, waiting>>

Init ==
    /\ value \in 0..MaxValue
    /\ waiting = {}

Post ==
    /\ value < MaxValue
    /\ value' = value + 1
    /\ UNCHANGED waiting

Request(t) ==
    /\ t \notin waiting
    /\ waiting' = waiting \cup {t}
    /\ UNCHANGED value

\* A unit goes to a waiter or at once to a newcomer.
Acquire(t) ==
    /\ value > 0
    /\ value' = value - 1
    /\ waiting' = waiting \ {t}

\* A deadline, a signal or a cancellation ends the wait.
GiveUp(t) ==
    /\ t \in waiting
    /\ waiting' = waiting \ {t}
    /\ UNCHANGED value

Next == Post \/ \E t \in Threads : Request(t) \/ Acquire(t) \/ GiveUp(t)

\* A unit that somebody waits for is taken: no post is lost.
Handoff == WF_vars(\E t \in waiting : Acquire(t))

Spec == Init /\ [][Next]_vars /\ Handoff
=============================================================================
