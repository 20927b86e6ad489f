----------------------------- MODULE SharedCond -----------------------------
(***************************************************************************)
(* owned_pthread_cond.rs, the process-shared condition variable: a         *)
(* sequence word to sleep on, and a count of waiters that destroy drains.  *)
(*                                                                         *)
(* It is used as POSIX prescribes: consumers wait, under a mutex, for an   *)
(* item or for the end; producers add items and signal, with or without    *)
(* the mutex; one of them may announce the end and destroy the object.     *)
(* The mutex is taken as correct (PthreadMutex, OwnerMutex).               *)
(***************************************************************************)
EXTENDS Integers, Sequences, SequencesExt, FiniteSets, FiniteSetsExt

CONSTANTS
    Consumers, Producers,
    MaxItems,       \* bound: how many items the producers add
    MaxBreaks,      \* bound: how many sleeps a signal, deadline or cancellation ends
    None

VARIABLES
    mutex,      \* the holder of the mutex, or None
    items, closed,      \* what the consumers wait for
    sequence, waiters, latch,   \* SHARED_SEQUENCE_WORD, SHARED_WAITERS_WORD and its sign
    queue,      \* the sleepers on the sequence word, in the kernel's order
    pc,         \* where each thread is
    expected,   \* the word a thread is about to sleep on, as it read it
    error,      \* what its last sleep returned
    made, breaks,       \* the bounds' counters
    freed,      \* history: destroy has returned
    left        \* history: the sleepers that a wake meant for all did not reach

vars == <<mutex, items, closed, sequence, waiters, latch, queue, pc, expected, error,
          made, breaks, freed, left>>

Callers == Consumers \cup Producers

\* lock, test, done         the consumer around its wait
\* enrol, count, unlock, futex, asleep, check, recheck, leave, notify   wait()
\* idle, add                a producer
\* signal, bump, wake, and broadcast, bbump, bwake     signal()
\* close, over              the end, before its broadcast and after it
\* destroy, dbump, dwake, drain, dfutex, dasleep       destroy()
Labels == {"lock", "test", "done", "enrol", "count", "unlock", "futex", "asleep",
           "check", "recheck", "leave", "notify", "idle", "add", "signal", "bump",
           "wake", "close", "broadcast", "bbump", "bwake", "over", "destroy",
           "dbump", "dwake", "drain", "dfutex", "dasleep"}

TypeOK ==
    /\ mutex \in Callers \cup {None}
    /\ items \in 0..MaxItems /\ closed \in BOOLEAN
    /\ sequence \in Nat /\ waiters \in 0..Cardinality(Consumers) /\ latch \in BOOLEAN
    /\ queue \in Seq(Consumers)
    /\ pc \in [Callers -> Labels]
    /\ expected \in [Callers -> Nat]
    /\ error \in [Consumers -> {"none", "EINTR", "ETIMEDOUT", "ECANCELED"}]
    /\ made \in 0..MaxItems /\ breaks \in 0..MaxBreaks
    /\ freed \in BOOLEAN /\ left \subseteq Consumers

Init ==
    /\ mutex = None
    /\ items = 0 /\ closed = FALSE
    /\ sequence = 0 /\ waiters = 0 /\ latch = FALSE
    /\ queue = <<>>
    /\ pc = [t \in Callers |-> IF t \in Consumers THEN "lock" ELSE "idle"]
    /\ expected = [t \in Callers |-> 0]
    /\ error = [t \in Consumers |-> "none"]
    /\ made = 0 /\ breaks = 0
    /\ freed = FALSE /\ left = {}

Goto(t, label) == pc' = [pc EXCEPT ![t] = label]

user == <<items, closed, made>>
words == <<sequence, waiters, latch>>
mine == <<expected, error>>

-----------------------------------------------------------------------------
(* The consumer, and the mutex *)

Lock(t) ==
    /\ pc[t] \in {"lock", "add", "close"}
    /\ mutex = None
    /\ mutex' = t
    /\ CASE pc[t] = "lock" -> Goto(t, "test") /\ UNCHANGED user
         [] pc[t] = "add" -> /\ items' = items + 1 /\ made' = made + 1
                             /\ Goto(t, "signal")
                             /\ UNCHANGED closed
         [] pc[t] = "close" -> /\ closed' = TRUE
                               /\ Goto(t, "broadcast")
                               /\ UNCHANGED <<items, made>>
    /\ UNCHANGED <<words, queue, mine, breaks, freed, left>>

\* The loop around the wait: a cancelled consumer ends in its cleanup handler, one
\* that timed out looks once more.
Test(t) ==
    /\ pc[t] = "test"
    /\ \/ /\ error[t] # "ECANCELED" /\ items > 0
          /\ items' = items - 1
          /\ mutex' = None
          /\ Goto(t, "done")
       \/ /\ error[t] = "ECANCELED" \/ (items = 0 /\ (closed \/ error[t] = "ETIMEDOUT"))
          /\ mutex' = None
          /\ Goto(t, "done")
          /\ UNCHANGED items
       \/ /\ error[t] = "none" /\ items = 0 /\ ~closed
          /\ Goto(t, "enrol")
          /\ UNCHANGED <<mutex, items>>
    /\ error' = [error EXCEPT ![t] = "none"]
    /\ expected' = [expected EXCEPT ![t] = 0]
    /\ UNCHANGED <<closed, made, words, queue, breaks, freed, left>>

-----------------------------------------------------------------------------
(* wait() *)

\* The sequence is read, then the waiter counted, both under the mutex.
Enrol(t) ==
    /\ pc[t] = "enrol"
    /\ expected' = [expected EXCEPT ![t] = sequence]
    /\ Goto(t, "count")
    /\ UNCHANGED <<mutex, user, words, queue, error, breaks, freed, left>>

Count(t) ==
    /\ pc[t] = "count"
    /\ waiters' = waiters + 1
    /\ Goto(t, "unlock")
    /\ UNCHANGED <<mutex, user, sequence, latch, queue, mine, breaks, freed, left>>

Unlock(t) ==
    /\ pc[t] = "unlock"
    /\ mutex' = None
    /\ Goto(t, "futex")
    /\ UNCHANGED <<user, words, queue, mine, breaks, freed, left>>

FutexWait(t) ==
    /\ pc[t] = "futex"
    /\ IF sequence = expected[t]
       THEN queue' = Append(queue, t) /\ Goto(t, "asleep")
       ELSE UNCHANGED queue /\ Goto(t, "check")
    /\ error' = [error EXCEPT ![t] = "none"]
    /\ UNCHANGED <<mutex, user, words, expected, breaks, freed, left>>

\* A signal handler, the deadline or a cancellation ends the sleep, or comes
\* before it.
Break(t) ==
    /\ pc[t] \in {"futex", "asleep"}
    /\ breaks < MaxBreaks
    /\ breaks' = breaks + 1
    /\ error' \in {[error EXCEPT ![t] = e] : e \in {"EINTR", "ETIMEDOUT", "ECANCELED"}}
    /\ queue' = SelectSeq(queue, LAMBDA s : s # t)
    /\ Goto(t, "check")
    /\ UNCHANGED <<mutex, user, words, expected, freed, left>>

\* The end of the wait loop.
Check(t) ==
    /\ pc[t] = "check"
    /\ IF sequence = expected[t] /\ error[t] \in {"none", "EINTR"}
       THEN Goto(t, "futex") /\ UNCHANGED error
       ELSE /\ error' = [error EXCEPT ![t] = IF @ = "EINTR" THEN "none" ELSE @]
            /\ Goto(t, IF error[t] = "ECANCELED" THEN "recheck" ELSE "leave")
    /\ UNCHANGED <<mutex, user, words, queue, expected, breaks, freed, left>>

\* A cancellation that a signal has overtaken is put off.
Recheck(t) ==
    /\ pc[t] = "recheck"
    /\ error' = [error EXCEPT ![t] = IF sequence # expected[t] THEN "none" ELSE @]
    /\ Goto(t, "leave")
    /\ UNCHANGED <<mutex, user, words, queue, expected, breaks, freed, left>>

\* Fault: the count is given back after the mutex has been locked again.
LeaveLast(t) ==
    /\ pc[t] = "leave"
    /\ mutex = None
    /\ waiters' = waiters - 1
    /\ Goto(t, IF latch /\ waiters = 1 THEN "notify" ELSE "lock")
    /\ UNCHANGED <<mutex, user, sequence, latch, queue, mine, breaks, freed, left>>

\* The last access to the object; the wake only uses its address.
Leave(t) ==
    /\ pc[t] = "leave"
    /\ waiters' = waiters - 1
    /\ Goto(t, IF latch /\ waiters = 1 THEN "notify" ELSE "lock")
    /\ UNCHANGED <<mutex, user, sequence, latch, queue, mine, breaks, freed, left>>

Notify(t) ==
    /\ pc[t] = "notify"
    /\ pc' = [s \in Callers |->
                IF s = t THEN "lock" ELSE IF pc[s] = "dasleep" THEN "drain" ELSE pc[s]]
    /\ UNCHANGED <<mutex, user, words, queue, mine, breaks, freed, left>>

-----------------------------------------------------------------------------
(* signal() *)

Produce(t) ==
    /\ pc[t] = "idle" /\ mutex # t
    /\ ~closed
    /\ \A p \in Producers \ {t} : pc[p] # "close"
    /\ made + Cardinality({p \in Producers : pc[p] = "add"}) < MaxItems
    /\ Goto(t, "add")
    /\ UNCHANGED <<mutex, user, words, queue, mine, breaks, freed, left>>

\* The mutex is unlocked before or after the signal.
Release(t) ==
    /\ mutex = t
    /\ pc[t] \in {"signal", "broadcast", "over", "destroy", "idle"}
    /\ mutex' = None
    /\ UNCHANGED <<user, pc, words, queue, mine, breaks, freed, left>>

\* The load of the waiter count, for signal and for broadcast.
Signal(t) ==
    /\ pc[t] \in {"signal", "broadcast"}
    /\ Goto(t, CASE pc[t] = "signal" -> IF waiters = 0 /\ ~latch THEN "idle" ELSE "bump"
                 [] OTHER -> IF waiters = 0 /\ ~latch THEN "over" ELSE "bbump")
    /\ UNCHANGED <<mutex, user, words, queue, mine, breaks, freed, left>>

Bump(t) ==
    /\ pc[t] \in {"bump", "bbump"}
    /\ sequence' = sequence + 1
    /\ Goto(t, IF pc[t] = "bump" THEN "wake" ELSE "bwake")
    /\ UNCHANGED <<mutex, user, waiters, latch, queue, mine, breaks, freed, left>>

\* FUTEX_WAKE, in a step that takes t to label.  The kernel compares the number of
\* threads it has woken with the signed count after each one: a count of -1, which
\* wake() hands on as it is, is reached by the first.
FutexWake(t, count, label) ==
    LET woken == SubSeq(queue, 1, Min({Len(queue), Max({count, 1})}))
    IN  /\ pc' = [s \in Callers |->
                    CASE s = t -> label
                      [] s \in ToSet(woken) -> "check"
                      [] OTHER -> pc[s]]
        /\ queue' = SubSeq(queue, Len(woken) + 1, Len(queue))

Wake(t) ==
    /\ \/ /\ pc[t] = "wake"
          /\ FutexWake(t, 1, "idle")
          /\ UNCHANGED left
       \/ /\ pc[t] = "bwake"
          /\ FutexWake(t, -1, "over")
          /\ left' = left \cup ToSet(queue')
    /\ UNCHANGED <<mutex, user, words, mine, breaks, freed>>

-----------------------------------------------------------------------------
(* destroy() *)

\* Nobody else signals any more; the consumers see the end under the mutex.
Close(t) ==
    /\ pc[t] = "idle" /\ mutex # t
    /\ ~closed
    /\ \A p \in Producers : pc[p] = "idle"
    /\ Goto(t, "close")
    /\ UNCHANGED <<mutex, user, words, queue, mine, breaks, freed, left>>

\* destroy is called after the broadcast, or in place of it: it wakes the waiters
\* too.
Destroy(t) ==
    /\ pc[t] \in {"broadcast", "over"}
    /\ Goto(t, "destroy")
    /\ UNCHANGED <<mutex, user, words, queue, mine, breaks, freed, left>>

\* The load of the count, and the loop that sets the sign: a waiter that leaves in
\* between only changes the count that the drain will see.
Latch(t) ==
    /\ pc[t] = "destroy"
    /\ IF waiters = 0 THEN /\ freed' = TRUE
                           /\ Goto(t, "done")
                           /\ mutex' = IF mutex = t THEN None ELSE mutex
                           /\ UNCHANGED latch
                      ELSE /\ latch' = TRUE
                           /\ Goto(t, "dbump")
                           /\ UNCHANGED <<mutex, freed>>
    /\ UNCHANGED <<user, sequence, waiters, queue, mine, breaks, left>>

DestroyBump(t) ==
    /\ pc[t] = "dbump"
    /\ sequence' = sequence + 1
    /\ Goto(t, "dwake")
    /\ UNCHANGED <<mutex, user, waiters, latch, queue, mine, breaks, freed, left>>

DestroyWake(t) ==
    /\ pc[t] = "dwake"
    /\ FutexWake(t, -1, "drain")
    /\ left' = left \cup ToSet(queue')
    /\ UNCHANGED <<mutex, user, words, mine, breaks, freed>>

\* Fault: the drain is one wait, not a loop that looks at the count.
DrainOnce(t) ==
    /\ pc[t] = "drain"
    /\ freed' = TRUE
    /\ Goto(t, "done")
    /\ mutex' = IF mutex = t THEN None ELSE mutex
    /\ UNCHANGED <<user, words, queue, mine, breaks, left>>

Drain(t) ==
    /\ pc[t] = "drain"
    /\ IF waiters = 0 THEN /\ freed' = TRUE
                           /\ Goto(t, "done")
                           /\ mutex' = IF mutex = t THEN None ELSE mutex
                           /\ UNCHANGED expected
                      ELSE /\ expected' = [expected EXCEPT ![t] = waiters]
                           /\ Goto(t, "dfutex")
                           /\ UNCHANGED <<mutex, freed>>
    /\ UNCHANGED <<user, words, queue, error, breaks, left>>

DrainWait(t) ==
    /\ pc[t] = "dfutex"
    /\ Goto(t, IF waiters = expected[t] THEN "dasleep" ELSE "drain")
    /\ UNCHANGED <<mutex, user, words, queue, mine, breaks, freed, left>>

-----------------------------------------------------------------------------

Step ==
    \/ \E t \in Consumers :
        \/ Lock(t) \/ Test(t) \/ Enrol(t) \/ Count(t) \/ Unlock(t) \/ FutexWait(t)
        \/ Check(t) \/ Recheck(t) \/ Leave(t) \/ Notify(t)
    \/ \E t \in Producers :
        \/ Lock(t) \/ Release(t) \/ Signal(t) \/ Bump(t) \/ Wake(t)
        \/ Latch(t) \/ DestroyBump(t) \/ DestroyWake(t) \/ Drain(t) \/ DrainWait(t)

Next ==
    \/ Step
    \/ \E t \in Consumers : Break(t)
    \/ \E t \in Producers : Produce(t) \/ Close(t) \/ Destroy(t)

Spec == Init /\ [][Next]_vars

\* A call that has begun goes on; nobody has to produce, to end, to
\* destroy the object, or to time out.
FairSpec == Spec /\ WF_vars(Step)

-----------------------------------------------------------------------------

\* Once destroy has returned no thread is in a wait that will still read or write
\* the object, whether or not the waiters were signalled before.
UntouchedAfterDestroy ==
    freed => \A t \in Consumers : pc[t] \in {"lock", "test", "notify", "done"}

\* A thread with nothing left to do, or with good reason to sleep.
Settled(t) ==
    \/ pc[t] = "done"
    \/ pc[t] \in {"idle", "over"} /\ mutex # t
    \/ pc[t] = "asleep" /\ items = 0 /\ ~closed

\* No signal is lost: no consumer sleeps for ever beside an item, whether the
\* signal was sent with the mutex or without, came before the sleep, or met a
\* deadline or a cancellation; the end reaches the last sleeper, and destroy ends
\* even when it is called with the mutex that the waiters need to return.  The one
\* exception are the behaviours of BroadcastReachesAll, in which a wake that was
\* meant for all has found more than one sleeper.
NobodyIsForgotten == <>[](\A t \in Callers : Settled(t)) \/ <>(left # {})

\* A thread that sleeps when a broadcast gets to its FUTEX_WAKE does not sleep for
\* ever (signal() of owned_pthread_cond.rs with a count of minus one).
BroadcastReachesAll ==
    \A t \in Consumers :
        (pc[t] = "asleep" /\ \E p \in Producers : pc[p] = "bwake") ~> pc[t] # "asleep"

=============================================================================
