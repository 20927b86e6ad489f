---------------------------- MODULE PrivateLock ----------------------------
(***************************************************************************)
(* private_lock and private_unlock of pthread_cond.rs: the 0/1/2 lock that *)
(* guards a condition variable's list of waiters.                          *)
(*                                                                         *)
(* Each action is one atomic access or one futex call; the load before     *)
(* FUTEX_WAIT is part of the call, and spinning is time spent at "wait".   *)
(***************************************************************************)
EXTENDS Integers, FiniteSets

CONSTANT Threads

VARIABLES
    word,   \* the lock word
    pc      \* where each thread is

vars == <<word, pc>>

UNLOCKED == 0
LOCKED == 1
CONTENDED == 2

\* idle  outside                      mark    about to set CONTENDED
\* wait  about to FUTEX_WAIT          asleep  inside it
\* take  about to compare-and-swap from UNLOCKED to CONTENDED
\* cs    holds the lock               wake    about to FUTEX_WAKE
Labels == {"idle", "mark", "wait", "asleep", "take", "cs", "wake"}

TypeOK ==
    /\ word \in {UNLOCKED, LOCKED, CONTENDED}
    /\ pc \in [Threads -> Labels]

Init ==
    /\ word = UNLOCKED
    /\ pc = [t \in Threads |-> "idle"]

Goto(t, label) == pc' = [pc EXCEPT ![t] = label]

LockFast(t) ==
    /\ pc[t] = "idle"
    /\ IF word = UNLOCKED
         THEN word' = LOCKED /\ Goto(t, "cs")
         ELSE Goto(t, "mark") /\ UNCHANGED word

Mark(t) ==
    /\ pc[t] = "mark"
    /\ word' = IF word = LOCKED THEN CONTENDED ELSE word
    /\ Goto(t, "wait")

\* Fault: the comparison of wait_private_while is inverted.
WaitInverted(t) ==
    /\ pc[t] = "wait"
    /\ Goto(t, IF word = CONTENDED THEN "take" ELSE "wait")
    /\ UNCHANGED word

\* wait_private_while
Wait(t) ==
    /\ pc[t] = "wait"
    /\ Goto(t, IF word = CONTENDED THEN "asleep" ELSE "take")
    /\ UNCHANGED word

Interrupt(t) ==
    /\ pc[t] = "asleep"
    /\ Goto(t, "wait")
    /\ UNCHANGED word

\* A waiter takes the lock as contended: others may be asleep.
Take(t) ==
    /\ pc[t] = "take"
    /\ IF word = UNLOCKED
         THEN word' = CONTENDED /\ Goto(t, "cs")
         ELSE Goto(t, "wait") /\ UNCHANGED word

Unlock(t) ==
    /\ pc[t] = "cs"
    /\ word' = UNLOCKED
    /\ Goto(t, IF word = CONTENDED THEN "wake" ELSE "idle")

UnlockWake(t) ==
    /\ pc[t] = "wake"
    /\ IF \E s \in Threads : pc[s] = "asleep"
         THEN \E s \in Threads :
                /\ pc[s] = "asleep"
                /\ pc' = [pc EXCEPT ![t] = "idle", ![s] = "wait"]
         ELSE Goto(t, "idle")
    /\ UNCHANGED word

\* The steps of a call in progress.
Step(t) == Mark(t) \/ Wait(t) \/ Take(t) \/ UnlockWake(t)

Next == \E t \in Threads : LockFast(t) \/ Step(t) \/ Unlock(t) \/ Interrupt(t)

Spec == Init /\ [][Next]_vars

\* Every runnable thread is scheduled.
Fairness == \A t \in Threads : WF_vars(Step(t))

FairSpec == Spec /\ Fairness

-----------------------------------------------------------------------------

Holders == {t \in Threads : pc[t] = "cs"}
Sleepers == {t \in Threads : pc[t] = "asleep"}

\* At most one thread is between private_lock and private_unlock, and the word
\* is UNLOCKED exactly when there is none.
MutualExclusion ==
    /\ \A s, t \in Holders : s = t
    /\ word = UNLOCKED <=> Holders = {}

\* A sleeper is always accounted for: the word says CONTENDED, or private_unlock
\* is still to wake, or a thread that was woken will set CONTENDED again.
NoStrandedSleeper ==
    Sleepers # {} =>
        word = CONTENDED \/ \E t \in Threads : pc[t] \in {"wake", "wait", "take"}

\* The inductive invariant behind the safety properties.
IInv == TypeOK /\ MutualExclusion /\ NoStrandedSleeper

\* The threads inside private_lock, as the abstract lock sees them; PthreadCond
\* uses the list lock as such.
Requesters == {t \in Threads : pc[t] \in {"mark", "wait", "asleep", "take"}}

Lock == INSTANCE AbstractLock WITH waiting <- Requesters, holders <- Holders
=============================================================================
