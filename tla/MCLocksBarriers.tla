-------------------------- MODULE MCLocksBarriers ---------------------------
(***************************************************************************)
(* Model checking of the objects that stand on one lock word: the internal *)
(* lock (MuslLock), the 0/1/2 lock, the spin lock, pthread_once, the       *)
(* normal mutex, the process-shared and the private barrier.  A behaviour  *)
(* has one object, chosen at the start.  The objects that are not chosen   *)
(* stay as they were made, so those that begin alike share variables.      *)
(***************************************************************************)
EXTENDS MuslLock

CONSTANTS
    t1, t2, t3, t4, p1, p2,
    MaxAbandons,                \* of pthread_once
    Limits, NoThread,           \* of the shared barrier
    PrivateLimits, NoInstance   \* of the private one

MCThreads == {t1, t2, t3}

\* The threads of the 0/1/2 lock, the spin lock and pthread_once.
Contenders == {t1, t2, t3, t4}

\* Two threads share a process, a third one has its own.
MCProcess == [t \in MCThreads |-> IF t = t3 THEN p2 ELSE p1]

ASSUME LimitsAssumption == Limits \subseteq Nat \ {0, 1}

ASSUME NoThreadAssumption == NoThread \notin Threads

VARIABLES
    object,
    cword, cpc,                             \* of the contenders' objects
    abandons, completed,                    \* ... of pthread_once alone
    lock, waiters, opc,                     \* of the mutex and the barriers
    mlock, observed, mhint, timed,          \* ... of the mutex alone
    limit, count, waiters2, vm, vmWaiters,  \* ... of the shared barrier alone
    phase, seen, hint, members, destroyer,
    plimit, slot, inst, at, role, pmembers  \* ... of the private one alone

wordVars == <<cword, cpc>>
onceVars == <<abandons, completed>>
callVars == <<waiters, opc>>
mutexVars == <<mlock, observed, mhint, timed>>
sharedVars == <<limit, count, waiters2, vm, vmWaiters, phase, seen, hint, members, destroyer>>
privateVars == <<plimit, slot, inst, at, role, pmembers>>

allVars == <<object, vars, wordVars, onceVars, callVars, lock, mutexVars, sharedVars, privateVars>>

Private == INSTANCE PrivateLock WITH Threads <- Contenders, word <- cword, pc <- cpc

Spin == INSTANCE SpinLock WITH Threads <- Contenders, word <- cword, pc <- cpc

Once == INSTANCE PthreadOnce WITH Threads <- Contenders, control <- cword, pc <- cpc

Mutex == INSTANCE PthreadMutex WITH lock <- mlock, pc <- opc, hint <- mhint

SharedBarrier == INSTANCE SharedBarrier WITH Process <- MCProcess, pc <- opc

PrivateBarrier == INSTANCE PthreadBarrier WITH
    Limits <- PrivateLimits, limit <- plimit, pc <- opc, members <- pmembers

MCInit ==
    /\ object \in {"internal", "private", "spin", "once", "mutex", "shared barrier", "barrier"}
    /\ Init /\ Private!Init /\ Spin!Init /\ Once!Init
    /\ Mutex!Init /\ SharedBarrier!Init /\ PrivateBarrier!Init
    /\ object # "shared barrier" => limit = 2
    /\ object # "barrier" => plimit = 1

\* What each object leaves alone.
KeptBy(o) ==
    /\ UNCHANGED object
    /\ o # "internal" => UNCHANGED vars
    /\ o \notin {"private", "spin", "once"} => UNCHANGED wordVars
    /\ o # "once" => UNCHANGED onceVars
    /\ o \notin {"mutex", "shared barrier", "barrier"} => UNCHANGED callVars
    /\ o \notin {"shared barrier", "barrier"} => UNCHANGED lock
    /\ o # "mutex" => UNCHANGED mutexVars
    /\ o # "shared barrier" => UNCHANGED sharedVars
    /\ o # "barrier" => UNCHANGED privateVars

\* A barrier may wait for its threads for ever; the other objects never stop.
MCNext ==
    \/ object = "internal" /\ Next /\ KeptBy("internal")
    \/ object = "private" /\ Private!Next /\ KeptBy("private")
    \/ object = "spin" /\ Spin!Next /\ KeptBy("spin")
    \/ object = "once" /\ Once!Next /\ KeptBy("once")
    \/ object = "mutex" /\ Mutex!Next /\ KeptBy("mutex")
    \/ object = "shared barrier" /\ SharedBarrier!Next /\ KeptBy("shared barrier")
    \/ object = "barrier" /\ PrivateBarrier!Next /\ KeptBy("barrier")
    \/ object \in {"shared barrier", "barrier"} /\ UNCHANGED allVars

MCStep(t) ==
    \/ object = "internal" /\ t \in Threads /\ Step(t) /\ KeptBy("internal")
    \/ object = "private" /\ Private!Step(t) /\ KeptBy("private")
    \/ object = "spin" /\ Spin!Step(t) /\ KeptBy("spin")
    \/ object = "once" /\ Once!Step(t) /\ KeptBy("once")
    \/ object = "mutex" /\ t \in Threads /\ Mutex!Step(t) /\ KeptBy("mutex")
    \/ object = "shared barrier" /\ t \in Threads /\ SharedBarrier!Step(t) /\ KeptBy("shared barrier")
    \/ object = "barrier" /\ t \in Threads /\ PrivateBarrier!Step(t) /\ KeptBy("barrier")

MCSpec == MCInit /\ [][MCNext]_allVars /\ \A t \in Contenders : WF_allVars(MCStep(t))

-----------------------------------------------------------------------------

\* The lock that the behaviour has; none, if it has another object.
TheLock == INSTANCE AbstractLock WITH
    Threads <- Contenders,
    waiting <- CASE object = "internal" -> Requesters
                 [] object = "private" -> Private!Requesters
                 [] object = "spin" -> Spin!Requesters
                 [] object = "mutex" -> Mutex!Requesters
                 [] OTHER -> {},
    holders <- CASE object = "internal" -> Holders
                 [] object = "private" -> Private!Holders
                 [] object = "spin" -> Spin!Holders
                 [] object = "mutex" -> Mutex!Holders
                 [] OTHER -> {}

\* The four locks implement AbstractLock: one holder at a time, and a free lock that
\* somebody waits for is taken again.
LocksImplementLock == TheLock!Spec

\* pthread_once: no call returns before the routine has returned once.
ReturnsAfterCompletion == object = "once" => Once!ReturnsAfterCompletion

\* pthread_once: every call ends, whoever is cancelled in the routine.
EveryCallEnds == \A t \in Contenders : []<>(object = "once" => cpc[t] = "idle")

\* No thread gets past either barrier before enough threads have come.
NobodyIsEarly ==
    /\ object = "shared barrier" => SharedBarrier!NoEarlyRelease
    /\ object = "barrier" => PrivateBarrier!NoEarlyRelease

\* No thread touches a barrier after its destroy has returned, nor the instance in
\* the frame of a thread that has left the private barrier.
NothingDangles ==
    /\ object = "shared barrier" => SharedBarrier!UntouchedAfterDestroy
    /\ object = "barrier" => PrivateBarrier!InstanceOutlivesUsers

\* The thread has to return from the barrier.
Draining(t) ==
    /\ opc[t] # "idle"
    /\ \/ object = "shared barrier" /\ SharedBarrier!Draining(t)
       \/ object = "barrier" /\ PrivateBarrier!Draining(t)

\* As many threads as a round of the private barrier needs are inside its wait.
\* (Its threads are alike: one group of each size stands for all.)
Meeting ==
    /\ object = "barrier"
    /\ PrivateBarrier!Meeting(IF plimit = 1 THEN {t1, t2} ELSE {t1, t2, t3})

\* A complete round drains, on either barrier, and destroy returns: the meetings, the
\* last decrement and the guard lose no wake-up.  When enough threads are inside the
\* private barrier's wait, one of them returns.  (Each condition lasts until the
\* return, so that "leads to" and "not for ever" are the same.)
RoundsDrain == (\A t \in Threads : []<>~Draining(t)) /\ []<>~Meeting

=============================================================================
