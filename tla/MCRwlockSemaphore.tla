------------------------- MODULE MCRwlockSemaphore --------------------------
(***************************************************************************)
(* Model checking of the read-write lock (PthreadRwlock) and of the        *)
(* semaphore.  A behaviour has one of them, chosen at the start; the other *)
(* stays as it was made.  The semaphore has two waiters and two posters or *)
(* three waiters and one poster: one thread has either part.               *)
(***************************************************************************)
EXTENDS PthreadRwlock

CONSTANTS
    Reader,                         \* a thread that locks for reading only
    Timed,                          \* the thread whose waits may be cut short
    Waiters, Posters, MaxValue,     \* of the semaphore
    Either                          \* a thread that waits for it or posts it

VARIABLES object, value, swaiters, spc, sseen, shint

semaphoreVars == <<value, swaiters, spc, sseen, shint>>
allVars == <<object, vars, semaphoreVars>>

Users == Waiters \cup Posters

Semaphore == INSTANCE PosixSemaphore WITH
    Threads <- Users, waiters <- swaiters, pc <- spc, seen <- sseen, hint <- shint

MCInit ==
    /\ Init /\ Semaphore!Init
    /\ \/ object \in {"two posters", "three waiters"}
       \/ object = "rwlock" /\ value.units = 0

\* The first step of sem_wait's loop and of sem_post.
Waits(t) == spc'[t] = "try"
Posts(t) == spc'[t] = "hint"

MCNext ==
    /\ \/ /\ object = "rwlock" /\ Next
          /\ kind'[Reader] # "write" /\ \A t \in Threads \ {Timed} : ~timed'[t]
          /\ UNCHANGED semaphoreVars
       \/ /\ object # "rwlock" /\ Semaphore!Next
          /\ \A t \in Posters \ Waiters : ~Waits(t)
          /\ \A t \in Users \ {Timed} : spc'[t] # "giveup"
          /\ IF object = "two posters" THEN ~Waits(Either) ELSE ~Posts(Either)
          /\ UNCHANGED vars
    /\ UNCHANGED object

MCStep(t) ==
    \/ object = "rwlock" /\ t \in Threads /\ Step(t) /\ UNCHANGED <<object, semaphoreVars>>
    \/ object # "rwlock" /\ Semaphore!Step(t) /\ UNCHANGED <<object, vars>>

MCSpec == MCInit /\ [][MCNext]_allVars /\ \A t \in Users : WF_allVars(MCStep(t))

-----------------------------------------------------------------------------

\* The semaphore implements AbstractSemaphore.
ImplementsSemaphore == Semaphore!ImplementsSemaphore

=============================================================================
