---------------------------- MODULE AbstractCond ----------------------------
(***************************************************************************)
(* What a condition variable promises: waiters are woken in the order of   *)
(* their arrival; a wait ends by a signal or by giving up, never by both,  *)
(* so that no deadline and no cancellation takes a wake-up with it; and    *)
(* everyone returns.  PthreadCond (owned_pthread_cond.rs) implements this  *)
(* specification.                                                          *)
(***************************************************************************)
EXTENDS Sequences, SequencesExt

CONSTANT Threads

VARIABLES
    waiting,    \* the waiters no signal has chosen yet, oldest first
    woken,      \* the waiters a signal has chosen and that have not returned
    leaving,    \* the waiters that gave up and have not returned
    cancelled   \* the threads whose wait ended in a cancellation

vars == <<waiting, woken, leaving, cancelled>>

Init ==
    /\ waiting = <<>>
    /\ woken = {} /\ leaving = {} /\ cancelled = {}

Enrol(t) ==
    /\ ~ Contains(waiting, t)
    /\ t \notin woken \cup leaving \cup cancelled
    /\ waiting' = Append(waiting, t)
    /\ UNCHANGED <<woken, leaving, cancelled>>

\* A signal, or one step of a broadcast.
Wake(t) ==
    /\ waiting # <<>>
    /\ t = Head(waiting)
    /\ waiting' = Tail(waiting)
    /\ woken' = woken \cup {t}
    /\ UNCHANGED <<leaving, cancelled>>

\* A deadline or a cancellation ends the wait before any signal does.
GiveUp(t) ==
    /\ Contains(waiting, t)
    /\ waiting' = Remove(waiting, t)
    /\ leaving' = leaving \cup {t}
    /\ UNCHANGED <<woken, cancelled>>

\* A woken waiter returns, and keeps a cancellation for later; one that gave up
\* returns or ends.
Return(t) ==
    /\ t \in woken \cup leaving
    /\ woken' = woken \ {t}
    /\ leaving' = leaving \ {t}
    /\ \/ UNCHANGED cancelled
       \/ t \in leaving /\ cancelled' = cancelled \cup {t}
    /\ UNCHANGED waiting

Next == \E t \in Threads : Enrol(t) \/ Wake(t) \/ GiveUp(t) \/ Return(t)

\* Everyone returns who was woken or gave up.
Spec == Init /\ [][Next]_vars /\ \A t \in Threads : WF_vars(Return(t))
=============================================================================
