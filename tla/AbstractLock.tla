---------------------------- MODULE AbstractLock ----------------------------
(***************************************************************************)
(* What every exclusive lock of the runtime promises its callers: at most  *)
(* one holder, and a free lock that somebody waits for is taken again.     *)
(*                                                                         *)
(* MuslLock (musl_lock.rs), PthreadMutex (the normal mutex of              *)
(* pthread_mutex.rs), PrivateLock (the list lock of pthread_cond.rs) and   *)
(* SpinLock (pthread_spin_operations.rs) implement this specification.     *)
(***************************************************************************)
CONSTANT Threads

VARIABLES
    waiting,    \* the threads inside a lock operation
    holders     \* the threads whose lock operation succeeded and that have
                \* not released the lock

vars == <<waiting, holders>>

Init ==
    /\ waiting = {}
    /\ holders = {}

\* A lock operation starts waiting.
Request(t) ==
    /\ t \notin waiting \cup holders
    /\ waiting' = waiting \cup {t}
    /\ UNCHANGED holders

\* The lock is granted, to a waiter or at once to a newcomer.
Acquire(t) ==
    /\ holders = {}
    /\ holders' = {t}
    /\ waiting' = waiting \ {t}

\* A timed lock operation ends without the lock.
GiveUp(t) ==
    /\ t \in waiting
    /\ waiting' = waiting \ {t}
    /\ UNCHANGED holders

Release(t) ==
    /\ t \in holders
    /\ holders' = holders \ {t}
    /\ UNCHANGED waiting

Next == \E t \in Threads : Request(t) \/ Acquire(t) \/ GiveUp(t) \/ Release(t)

Safety == Init /\ [][Next]_vars

\* A free lock with a waiter does not stay free: no wake-up is lost.
Handoff == WF_vars(\E t \in waiting : Acquire(t))

Spec == Safety /\ Handoff
=============================================================================
