------------------------------ MODULE MuslLock ------------------------------
(***************************************************************************)
(* musl_lock.rs: the internal one-word lock of the C library (musl's       *)
(* __lock/__unlock).  The word is LOCK_FLAG while somebody holds the lock  *)
(* plus the number of threads in or waiting for the critical section.      *)
(*                                                                         *)
(* Each action is one atomic access to the word (or one futex call); cur   *)
(* is the local variable `current` of lock().                              *)
(***************************************************************************)
EXTENDS TaskCount

CONSTANT
    Spins       \* iterations of the optimistic loop of lock(); 10 in the code

\* i32::MIN: the count occupies the bits below the flag.
LOCK_FLAG == -MaxTasks - 1
LOCKED_ONE == LOCK_FLAG + 1

ASSUME SpinsAssumption == Spins \in Nat

VARIABLES
    word,   \* the lock word
    pc,     \* where each thread is in lock()/unlock()
    cur,    \* lock()'s local `current`
    spins   \* iterations left of lock()'s optimistic loop

vars == <<word, pc, cur, spins>>

\* idle    outside            spin   in the optimistic loop
\* wait    head of the futex loop     asleep  inside FUTEX_WAIT
\* cas     about to try the acquiring compare-and-swap
\* cs      holds the lock     wake   released, about to FUTEX_WAKE
Labels == {"idle", "spin", "wait", "asleep", "cas", "cs", "wake"}

TypeOK ==
    /\ word \in Int
    /\ pc \in [Threads -> Labels]
    /\ cur \in [Threads -> Int]
    /\ spins \in [Threads -> 0..Spins]

Init ==
    /\ word = 0
    /\ pc = [t \in Threads |-> "idle"]
    /\ cur = [t \in Threads |-> 0]
    /\ spins = [t \in Threads |-> 0]

Goto(t, label) == pc' = [pc EXCEPT ![t] = label]

\* The value lock() expects to find once the present holder is gone.
Unflagged(v) == IF v < 0 THEN v - LOCKED_ONE ELSE v

\* The first compare-and-swap of lock().
LockFast(t) ==
    /\ pc[t] = "idle"
    /\ IF word = 0
         THEN /\ word' = LOCKED_ONE
              /\ Goto(t, "cs")
              /\ UNCHANGED <<cur, spins>>
         ELSE /\ cur' = [cur EXCEPT ![t] = word]
              /\ spins' = [spins EXCEPT ![t] = Spins]
              /\ Goto(t, "spin")
              /\ UNCHANGED word

\* One iteration of the optimistic loop: it counts itself and takes the lock
\* in one compare-and-swap.
LockSpin(t) ==
    /\ pc[t] = "spin"
    /\ spins[t] > 0
    /\ IF word = Unflagged(cur[t])
         THEN /\ word' = LOCK_FLAG + (word + 1)
              /\ Goto(t, "cs")
              /\ UNCHANGED <<cur, spins>>
         ELSE /\ cur' = [cur EXCEPT ![t] = word]
              /\ spins' = [spins EXCEPT ![t] = @ - 1]
              /\ UNCHANGED <<word, pc>>

\* Spinning failed: the thread counts itself as a waiter.
LockEnrol(t) ==
    /\ pc[t] = "spin"
    /\ spins[t] = 0
    /\ word' = word + 1
    /\ cur' = [cur EXCEPT ![t] = word + 1]
    /\ Goto(t, "wait")
    /\ UNCHANGED spins

\* futex_wait when the lock was seen held: the kernel puts the thread to
\* sleep only if the word still has the value seen.
LockWait(t) ==
    /\ pc[t] = "wait"
    /\ IF cur[t] < 0 /\ word = cur[t]
         THEN /\ Goto(t, "asleep")
              /\ UNCHANGED cur
         ELSE /\ Goto(t, "cas")
              /\ cur' = [cur EXCEPT ![t] = Unflagged(@)]
    /\ UNCHANGED <<word, spins>>

\* A signal ends the sleep; the result is ignored.
Interrupt(t) ==
    /\ pc[t] = "asleep"
    /\ Goto(t, "cas")
    /\ cur' = [cur EXCEPT ![t] = Unflagged(@)]
    /\ UNCHANGED <<word, spins>>

\* The acquiring compare-and-swap of an enrolled waiter.
LockRetry(t) ==
    /\ pc[t] = "cas"
    /\ IF word = cur[t]
         THEN /\ word' = LOCK_FLAG + cur[t]
              /\ Goto(t, "cs")
              /\ UNCHANGED cur
         ELSE /\ cur' = [cur EXCEPT ![t] = word]
              /\ Goto(t, "wait")
              /\ UNCHANGED word
    /\ UNCHANGED spins

\* Fault: unlock() forgets that a thread may have gone to sleep since the lock
\* was taken.
UnlockWithoutWake(t) ==
    /\ pc[t] = "cs"
    /\ word' = word - LOCKED_ONE
    /\ Goto(t, "idle")
    /\ UNCHANGED <<cur, spins>>

\* unlock(): the word is negative while the caller holds it, so the load and
\* the fetch_add are one step.
Unlock(t) ==
    /\ pc[t] = "cs"
    /\ IF word < 0
         THEN /\ word' = word - LOCKED_ONE
              /\ Goto(t, IF word # LOCKED_ONE THEN "wake" ELSE "idle")
         ELSE /\ Goto(t, "idle")
              /\ UNCHANGED word
    /\ UNCHANGED <<cur, spins>>

\* futex_wake: at most one sleeper returns.
UnlockWake(t) ==
    /\ pc[t] = "wake"
    /\ IF \E s \in Threads : pc[s] = "asleep"
         THEN \E s \in Threads :
                /\ pc[s] = "asleep"
                /\ pc' = [pc EXCEPT ![t] = "idle", ![s] = "cas"]
                /\ cur' = [cur EXCEPT ![s] = Unflagged(@)]
         ELSE /\ Goto(t, "idle")
              /\ UNCHANGED cur
    /\ UNCHANGED <<word, spins>>

\* The steps of a call in progress that need nobody's help.
Step(t) ==
    \/ LockSpin(t)
    \/ LockEnrol(t)
    \/ LockWait(t)
    \/ LockRetry(t)
    \/ UnlockWake(t)

Next ==
    \E t \in Threads : LockFast(t) \/ Step(t) \/ Unlock(t) \/ Interrupt(t)

\* Every runnable thread is scheduled.  Nothing obliges a thread to call lock()
\* or unlock(), nor a signal to arrive.
Fairness == \A t \in Threads : WF_vars(Step(t))

Spec == Init /\ [][Next]_vars

FairSpec == Spec /\ Fairness

-----------------------------------------------------------------------------

Holders == {t \in Threads : pc[t] = "cs"}
Enrolled == {t \in Threads : pc[t] \in {"wait", "asleep", "cas"}}
Tasks == Holders \cup Enrolled
Sleepers == {t \in Threads : pc[t] = "asleep"}

\* At most one task is between lock() and unlock().
MutualExclusion == \A s, t \in Holders : s = t

\* The word is exactly the flag of the holder plus the number of tasks in or
\* enrolled for the critical section: no path of lock() or unlock() counts a
\* task twice or forgets one.
WordCountsTasks ==
    word = (IF Holders = {} THEN 0 ELSE LOCK_FLAG) + Cardinality(Tasks)

\* A task asleep in lock()'s FUTEX_WAIT is never left behind on a free word:
\* either the releasing task is still to call futex_wake, or another enrolled
\* task is awake and will take the lock (and wake the sleeper in its turn).
NoStrandedSleeper ==
    Sleepers # {} /\ Holders = {} =>
        \E t \in Threads : pc[t] \in {"wake", "wait", "cas"}

\* What lock() has last read of the word, or the value it expects next.
CurWasRead ==
    \A t \in Threads :
        /\ pc[t] \in {"spin", "wait", "asleep"} => cur[t] >= LOCKED_ONE
        /\ pc[t] = "cas" => cur[t] >= 0

\* The inductive invariant behind the safety properties: the count and the
\* flag of the word determine whether a compare-and-swap on a value that was
\* once read can meet a held lock.
IInv ==
    /\ TypeOK
    /\ MutualExclusion
    /\ WordCountsTasks
    /\ NoStrandedSleeper
    /\ CurWasRead

\* The threads inside lock(), as the abstract lock sees them.
Requesters == Enrolled \cup {t \in Threads : pc[t] = "spin"}

Lock == INSTANCE AbstractLock WITH waiting <- Requesters, holders <- Holders
=============================================================================
