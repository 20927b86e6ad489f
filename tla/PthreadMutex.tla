---------------------------- MODULE PthreadMutex ----------------------------
(***************************************************************************)
(* The normal mutex of pthread_mutex.rs: pthread_mutex_lock, _timedlock,   *)
(* _trylock and _unlock on one private or process-shared object.           *)
(*                                                                         *)
(* Two words carry the protocol: the lock word, and a count of contenders  *)
(* that unlock() reads before it releases.  Each action is one atomic      *)
(* access or one futex call.  The spin loops before the first retry only   *)
(* read, so they are the time a thread may stay at "try".  A local        *)
(* variable returns to its initial value where it goes out of scope.       *)
(***************************************************************************)
EXTENDS TaskCount

VARIABLES
    lock,       \* the lock word: 0, EBUSY, or EBUSY with MUTEX_WAITER_BIT
    waiters,    \* the contender count, a hint for unlock()
    pc,         \* where each thread is
    observed,   \* the lock word as a contender last read it
    hint,       \* the count as unlock() last read it
    timed       \* whether the thread's call is pthread_mutex_timedlock

vars == <<lock, waiters, pc, observed, hint, timed>>

LockWords == {"free", "held", "marked"}

\* idle     outside                  try      about to compare-and-swap
\* enrol    about to count itself    observe  about to read the lock word
\* mark     about to set the bit     wait     about to call FUTEX_WAIT
\* asleep   inside FUTEX_WAIT        drop     about to uncount itself and retry
\* giveup   about to uncount itself and return the error of the timed wait
\* cs       holds the mutex          release  has read the hint, still holds
\* wake     has released, about to call FUTEX_WAKE
Labels == {"idle", "try", "enrol", "observe", "mark", "wait", "asleep",
           "drop", "giveup", "cs", "release", "wake"}

TypeOK ==
    /\ lock \in LockWords
    /\ waiters \in Nat
    /\ pc \in [Threads -> Labels]
    /\ observed \in [Threads -> LockWords]
    /\ hint \in [Threads -> Nat]
    /\ timed \in [Threads -> BOOLEAN]

\* pthread_mutex_init zeroes the object.
Init ==
    /\ lock = "free"
    /\ waiters = 0
    /\ pc = [t \in Threads |-> "idle"]
    /\ observed = [t \in Threads |-> "free"]
    /\ hint = [t \in Threads |-> 0]
    /\ timed = [t \in Threads |-> FALSE]

Goto(t, label) == pc' = [pc EXCEPT ![t] = label]

\* try_lock_selected_normal_mutex_record: the compare-and-swap from 0.
TryLock(t, failed) ==
    IF lock = "free"
      THEN /\ lock' = "held"
           /\ Goto(t, "cs")
      ELSE /\ Goto(t, failed)
           /\ UNCHANGED lock

\* pthread_mutex_trylock
Trylock(t) ==
    /\ pc[t] = "idle"
    /\ TryLock(t, "idle")
    /\ UNCHANGED <<waiters, observed, hint, timed>>

\* The first attempt of pthread_mutex_lock and pthread_mutex_timedlock.
LockFast(t) ==
    /\ pc[t] = "idle"
    /\ TryLock(t, "try")
    /\ \E b \in BOOLEAN : timed' = [timed EXCEPT ![t] = b /\ lock # "free"]
    /\ UNCHANGED <<waiters, observed, hint>>

\* The head of the contended loop.
Retry(t) ==
    /\ pc[t] = "try"
    /\ TryLock(t, "enrol")
    /\ timed' = [timed EXCEPT ![t] = @ /\ lock # "free"]
    /\ UNCHANGED <<waiters, observed, hint>>

Enrol(t) ==
    /\ pc[t] = "enrol"
    /\ waiters' = waiters + 1
    /\ Goto(t, "observe")
    /\ UNCHANGED <<lock, observed, hint, timed>>

\* A free mutex is never marked: there would be no owner to wake the sleeper.
Observe(t) ==
    /\ pc[t] = "observe"
    /\ observed' = [observed EXCEPT ![t] = lock]
    /\ Goto(t, IF lock = "free" THEN "drop" ELSE "mark")
    /\ UNCHANGED <<lock, waiters, hint, timed>>

Mark(t) ==
    /\ pc[t] = "mark"
    /\ IF lock = observed[t]
         THEN lock' = "marked" /\ Goto(t, "wait")
         ELSE Goto(t, "drop") /\ UNCHANGED lock
    /\ observed' = [observed EXCEPT ![t] = "free"]
    /\ UNCHANGED <<waiters, hint, timed>>

\* futex_wait and timed_futex_wait: the kernel puts the thread to sleep only
\* if the word is still marked.
FutexWait(t) ==
    /\ pc[t] = "wait"
    /\ Goto(t, IF lock = "marked" THEN "asleep" ELSE "drop")
    /\ UNCHANGED <<lock, waiters, observed, hint, timed>>

\* A signal ends the sleep; both loops ignore EINTR.
Interrupt(t) ==
    /\ pc[t] = "asleep"
    /\ Goto(t, "drop")
    /\ UNCHANGED <<lock, waiters, observed, hint, timed>>

\* timed_futex_wait fails: the deadline is invalid or past before the system
\* call, or passes during it.
Expire(t) ==
    /\ timed[t]
    /\ pc[t] \in {"wait", "asleep"}
    /\ Goto(t, "giveup")
    /\ UNCHANGED <<lock, waiters, observed, hint, timed>>

\* The contender no longer needs a wake.
Drop(t) ==
    /\ pc[t] \in {"drop", "giveup"}
    /\ waiters' = waiters - 1
    /\ Goto(t, IF pc[t] = "drop" THEN "try" ELSE "idle")
    /\ timed' = [timed EXCEPT ![t] = @ /\ pc[t] = "drop"]
    /\ UNCHANGED <<lock, observed, hint>>

\* unlock_selected_normal_mutex_record reads the hint while it holds.
UnlockHint(t) ==
    /\ pc[t] = "cs"
    /\ hint' = [hint EXCEPT ![t] = waiters]
    /\ Goto(t, "release")
    /\ UNCHANGED <<lock, waiters, observed, timed>>

UnlockSwap(t) ==
    /\ pc[t] = "release"
    /\ lock' = "free"
    /\ Goto(t, IF lock = "marked" \/ hint[t] > 0 THEN "wake" ELSE "idle")
    /\ hint' = [hint EXCEPT ![t] = 0]
    /\ UNCHANGED <<waiters, observed, timed>>

\* wake_normal_mutex_waiter: at most one sleeper returns.
UnlockWake(t) ==
    /\ pc[t] = "wake"
    /\ IF \E s \in Threads : pc[s] = "asleep"
         THEN \E s \in Threads :
                /\ pc[s] = "asleep"
                /\ pc' = [pc EXCEPT ![t] = "idle", ![s] = "drop"]
         ELSE Goto(t, "idle")
    /\ UNCHANGED <<lock, waiters, observed, hint, timed>>

\* The steps of a call in progress that need nobody's help.
Step(t) ==
    \/ Retry(t)
    \/ Enrol(t)
    \/ Observe(t)
    \/ Mark(t)
    \/ FutexWait(t)
    \/ Drop(t)
    \/ UnlockSwap(t)
    \/ UnlockWake(t)

Next ==
    \E t \in Threads :
        \/ Trylock(t)
        \/ LockFast(t)
        \/ Step(t)
        \/ UnlockHint(t)
        \/ Interrupt(t)
        \/ Expire(t)

\* Every runnable thread is scheduled.  Nothing obliges a thread to lock or
\* unlock, a signal to arrive or a deadline to pass.
Fairness == \A t \in Threads : WF_vars(Step(t))

Spec == Init /\ [][Next]_vars

FairSpec == Spec /\ Fairness

-----------------------------------------------------------------------------

Holders == {t \in Threads : pc[t] \in {"cs", "release"}}
Sleepers == {t \in Threads : pc[t] = "asleep"}
Counted == {t \in Threads :
              pc[t] \in {"observe", "mark", "wait", "asleep", "drop", "giveup"}}

\* At most one thread is between a successful lock operation and the exchange
\* of unlock(), and the lock word is 0 exactly when there is none: no
\* contender ever marks a mutex that nobody holds.
MutualExclusion ==
    /\ \A s, t \in Holders : s = t
    /\ lock = "free" <=> Holders = {}

\* The hint counts exactly the contenders between their increment and their
\* decrement, on the error paths of the timed wait as well: an idle mutex
\* does not pay for a wake.
HintCountsContenders == waiters = Cardinality(Counted)

\* A contender asleep in FUTEX_WAIT is never left behind on a free mutex: a
\* wake is still to come, or a contender that a wake reached will retry.  A
\* timed waiter that gives up does not take a wake with it.
NoStrandedSleeper ==
    Sleepers # {} /\ lock = "free" =>
        \E t \in Threads : pc[t] \in {"wake", "drop", "try"}

\* What unlock() knows once it has read the hint.
HintCoversSleepers ==
    \A h \in Threads :
        pc[h] = "release" /\ Sleepers # {} => hint[h] > 0 \/ lock = "marked"

\* A contender marks only what it has seen held.
MarksHeld == \A t \in Threads : pc[t] = "mark" => observed[t] # "free"

\* The inductive invariant behind the safety properties.
IInv ==
    /\ TypeOK
    /\ MutualExclusion
    /\ HintCountsContenders
    /\ NoStrandedSleeper
    /\ HintCoversSleepers
    /\ MarksHeld

\* The threads inside a lock operation, as the abstract lock sees them.
Requesters == Counted \cup {t \in Threads : pc[t] \in {"try", "enrol"}}

Lock == INSTANCE AbstractLock WITH waiting <- Requesters, holders <- Holders
=============================================================================
