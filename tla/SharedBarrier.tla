---------------------------- MODULE SharedBarrier ----------------------------
(***************************************************************************)
(* The process-shared barrier of pthread_barrier.rs (shared_barrier_wait   *)
(* for more than one thread, and pthread_barrier_destroy) with the         *)
(* process-local lifetime guard of pthread_vmlock.rs.                      *)
(*                                                                         *)
(* A thread takes the lock word for the whole round (0 to the number of    *)
(* threads), counts itself and, unless it is the last one, hands the lock  *)
(* on.  The threads meet when the count is reset to 0, leave by counting   *)
(* it down, meet again at 0, and each takes one off the lock word.         *)
(*                                                                         *)
(* Each action is one atomic access or one futex call; a load that is      *)
(* followed by FUTEX_WAIT on the value loaded is part of the call.  phase  *)
(* is the loop that called wait_while, and the label it goes back to.      *)
(***************************************************************************)
EXTENDS Integers, FiniteSets

CONSTANTS
    Threads,    \* the threads that use the barrier
    Process,    \* the process of each thread
    Limits,     \* the numbers of threads the barrier may be made for, above one
    NoThread    \* not a thread

Processes == {Process[t] : t \in Threads}

VARIABLES
    limit,      \* the number of threads of a round
    lock,       \* the lock word: threads that hold it, destroy's bit
    waiters,    \* the threads counted as waiting for the lock
    count,      \* the count word
    waiters2,   \* the threads counted as waiting for the count
    vm,         \* vmlock[0] of each process: its holders
    vmWaiters,  \* vmlock[1] of each process: its waiters
    pc,         \* where each thread is
    phase,      \* the loop each thread is in
    seen,       \* the value it has read in that loop
    hint,       \* the unlock loop has seen waiters
    members,    \* the threads that have entered the round (history)
    destroyer   \* the thread that called pthread_barrier_destroy

barrierWords == <<lock, waiters, count, waiters2>>
guardWords == <<vm, vmWaiters>>
history == <<members, destroyer>>
vars == <<limit, barrierWords, guardWords, pc, phase, seen, hint, history>>

\* SHARED_BARRIER_BIT, i32::MIN
FLAG == -2147483647 - 1

\* The lock word without destroy's bit.
Held(w) == IF w < 0 THEN w - FLAG ELSE w

\* idle, admit, enter, release, meet, vmlock, leave, leaving, vmunlock: about
\*           to take the step of that name
\* spin      wait_while is reading        wait    counted, about to FUTEX_WAIT
\* asleep    inside FUTEX_WAIT            drop    about to uncount itself
\* relcheck, relwake    after release     reset, rcheck, rwake   last thread
\* unlock, unhint, uncas, unwake          the loop that takes one off the lock
\* vcheck, vwake        after vmunlock
\* destroy, flag, drain, vmwait           pthread_barrier_destroy
Labels == {"idle", "admit", "enter", "release", "relcheck", "relwake", "meet",
           "reset", "rcheck", "rwake", "vmlock", "leave", "leaving", "unlock",
           "unhint", "uncas", "unwake", "vmunlock", "vcheck", "vwake",
           "destroy", "flag", "drain", "vmwait",
           "spin", "wait", "asleep", "drop"}

Phases == {"none", "admit", "meet", "leaving", "drain", "vmwait"}

TypeOK ==
    /\ limit \in Limits
    /\ Held(lock) \in 0..limit
    /\ waiters \in Nat
    /\ count \in -limit..limit
    /\ waiters2 \in Nat
    /\ vm \in [Processes -> Nat]
    /\ vmWaiters \in [Processes -> Nat]
    /\ pc \in [Threads -> Labels]
    /\ phase \in [Threads -> Phases]
    /\ seen \in [Threads -> Int]
    /\ hint \in [Threads -> BOOLEAN]
    /\ members \subseteq Threads
    /\ destroyer \in Threads \cup {NoThread}

Init ==
    /\ limit \in Limits
    /\ lock = 0
    /\ waiters = 0
    /\ count = 0
    /\ waiters2 = 0
    /\ vm = [p \in Processes |-> 0]
    /\ vmWaiters = [p \in Processes |-> 0]
    /\ pc = [t \in Threads |-> "idle"]
    /\ phase = [t \in Threads |-> "none"]
    /\ seen = [t \in Threads |-> 0]
    /\ hint = [t \in Threads |-> FALSE]
    /\ members = {}
    /\ destroyer = NoThread

Goto(t, label) == pc' = [pc EXCEPT ![t] = label]

\* A step that uses none of the loop's local variables.
Move(t, label) == Goto(t, label) /\ UNCHANGED <<phase, seen, hint>>

\* The loop `head` calls wait_while for another value than the one it read.
WaitWhile(t, head, observed) ==
    /\ Goto(t, "spin")
    /\ phase' = [phase EXCEPT ![t] = head]
    /\ seen' = [seen EXCEPT ![t] = observed]
    /\ UNCHANGED hint

\* The loop is left; its local variables go out of scope.
Exit(t, label) ==
    /\ Goto(t, label)
    /\ phase' = [phase EXCEPT ![t] = "none"]
    /\ seen' = [seen EXCEPT ![t] = 0]
    /\ hint' = [hint EXCEPT ![t] = FALSE]

-----------------------------------------------------------------------------
(* wait_while, and the loop of pthread_vmlock::wait *)

\* The word that a thread in a loop waits for.
Watched(t) ==
    CASE phase[t] \in {"admit", "drain"} -> lock
      [] phase[t] \in {"meet", "leaving"} -> count
      [] phase[t] = "vmwait" -> vm[Process[t]]

Count(t, n) ==
    /\ waiters' = IF phase[t] = "admit" THEN waiters + n ELSE waiters
    /\ waiters2' = IF phase[t] \in {"meet", "leaving"} THEN waiters2 + n ELSE waiters2
    /\ vmWaiters' = IF phase[t] = "vmwait"
                      THEN [vmWaiters EXCEPT ![Process[t]] = @ + n] ELSE vmWaiters

\* The spin ends because the word has changed and, where there is a waiter
\* count, nobody was counted; pthread_vmlock does not spin.
Spin(t) ==
    /\ pc[t] = "spin"
    /\ Watched(t) # seen[t]
    /\ CASE phase[t] = "admit" -> waiters = 0
         [] phase[t] \in {"meet", "leaving"} -> waiters2 = 0
         [] phase[t] = "drain" -> TRUE
         [] phase[t] = "vmwait" -> FALSE
    /\ Move(t, phase[t])
    /\ UNCHANGED <<barrierWords, guardWords, history>>

Enrol(t) ==
    /\ pc[t] = "spin"
    /\ Count(t, 1)
    /\ Move(t, "wait")
    /\ UNCHANGED <<lock, count, vm, history>>

FutexWait(t) ==
    /\ pc[t] = "wait"
    /\ Move(t, IF Watched(t) = seen[t] THEN "asleep" ELSE "drop")
    /\ UNCHANGED <<barrierWords, guardWords, history>>

\* A signal ends FUTEX_WAIT; every wait is in a loop.
Interrupt(t) ==
    /\ pc[t] = "asleep"
    /\ Move(t, "wait")
    /\ UNCHANGED <<barrierWords, guardWords, history>>

Drop(t) ==
    /\ pc[t] = "drop"
    /\ Count(t, -1)
    /\ Move(t, phase[t])
    /\ UNCHANGED <<lock, count, vm, history>>

\* FUTEX_WAKE of every thread, or of one, that sleeps in one of the loops; the
\* caller goes on.
WakeAll(t, loops, label) ==
    pc' = [s \in Threads |-> IF s = t THEN label
                             ELSE IF pc[s] = "asleep" /\ phase[s] \in loops
                               THEN "wait"
                             ELSE pc[s]]

WakeOne(t, loops, label) ==
    LET sleepers == {s \in Threads : pc[s] = "asleep" /\ phase[s] \in loops} IN
    \E woken \in IF sleepers = {} THEN {{}} ELSE {{s} : s \in sleepers} :
        pc' = [s \in Threads |-> IF s = t THEN label
                                 ELSE IF s \in woken THEN "wait"
                                 ELSE pc[s]]

-----------------------------------------------------------------------------
(* shared_barrier_wait *)

\* No call starts once the barrier is being destroyed.
Arrive(t) ==
    /\ pc[t] = "idle"
    /\ destroyer = NoThread
    /\ Move(t, "admit")
    /\ UNCHANGED <<barrierWords, guardWords, history>>

Admit(t) ==
    /\ pc[t] = "admit"
    /\ IF lock = 0
         THEN lock' = limit /\ Exit(t, "enter")
         ELSE WaitWhile(t, "admit", lock) /\ UNCHANGED lock
    /\ UNCHANGED <<waiters, count, waiters2, guardWords, history>>

\* The thread counts itself; the last one keeps the lock for the round.
Enter(t) ==
    /\ pc[t] = "enter"
    /\ count' = count + 1
    /\ members' = members \cup {t}
    /\ Goto(t, IF count + 1 = limit THEN "reset" ELSE "release")
    /\ phase' = [phase EXCEPT ![t] = "meet"]
    /\ UNCHANGED <<lock, waiters, waiters2, guardWords, seen, hint, destroyer>>

Release(t) ==
    /\ pc[t] = "release"
    /\ lock' = 0
    /\ Move(t, "relcheck")
    /\ UNCHANGED <<waiters, count, waiters2, guardWords, history>>

ReleaseCheck(t) ==
    /\ pc[t] = "relcheck"
    /\ Move(t, IF waiters # 0 THEN "relwake" ELSE "meet")
    /\ UNCHANGED <<barrierWords, guardWords, history>>

ReleaseWake(t) ==
    /\ pc[t] = "relwake"
    /\ WakeOne(t, {"admit", "drain"}, "meet")
    /\ UNCHANGED <<barrierWords, guardWords, phase, seen, hint, history>>

\* Fault: a thread is released as soon as it is not alone.
MeetEarly(t) ==
    /\ pc[t] = "meet"
    /\ IF count # 1
         THEN Exit(t, "vmlock")
         ELSE WaitWhile(t, "meet", count)
    /\ UNCHANGED <<barrierWords, guardWords, history>>

\* The first meeting: the count is 0 or already counts threads that leave.
Meet(t) ==
    /\ pc[t] = "meet"
    /\ IF count <= 0
         THEN Exit(t, "vmlock")
         ELSE WaitWhile(t, "meet", count)
    /\ UNCHANGED <<barrierWords, guardWords, history>>

\* The last thread of either meeting resets the count and wakes the others.
Reset(t) ==
    /\ pc[t] = "reset"
    /\ count' = 0
    /\ Move(t, "rcheck")
    /\ UNCHANGED <<lock, waiters, waiters2, guardWords, history>>

AfterReset(t) == IF phase[t] = "meet" THEN "vmlock" ELSE "unlock"

ResetCheck(t) ==
    /\ pc[t] = "rcheck"
    /\ Move(t, IF waiters2 # 0 THEN "rwake" ELSE AfterReset(t))
    /\ UNCHANGED <<barrierWords, guardWords, history>>

ResetWake(t) ==
    /\ pc[t] = "rwake"
    /\ WakeAll(t, {"meet", "leaving"}, AfterReset(t))
    /\ UNCHANGED <<barrierWords, guardWords, phase, seen, hint, history>>

\* pthread_vmlock::lock
VmLock(t) ==
    /\ pc[t] = "vmlock"
    /\ vm' = [vm EXCEPT ![Process[t]] = @ + 1]
    /\ Move(t, "leave")
    /\ UNCHANGED <<barrierWords, vmWaiters, history>>

\* The second meeting: every thread takes one off the count.
Leave(t) ==
    /\ pc[t] = "leave"
    /\ count' = count - 1
    /\ Goto(t, IF count = 1 - limit THEN "reset" ELSE "leaving")
    /\ phase' = [phase EXCEPT ![t] = "leaving"]
    /\ UNCHANGED <<lock, waiters, waiters2, guardWords, seen, hint, history>>

Leaving(t) ==
    /\ pc[t] = "leaving"
    /\ IF count = 0
         THEN Move(t, "unlock")
         ELSE WaitWhile(t, "leaving", count)
    /\ UNCHANGED <<barrierWords, guardWords, history>>

\* The loop that takes one off the lock word reads it, then the waiter count.
Unlock(t) ==
    /\ pc[t] = "unlock"
    /\ seen' = [seen EXCEPT ![t] = lock]
    /\ Goto(t, "unhint")
    /\ UNCHANGED <<barrierWords, guardWords, phase, hint, history>>

UnlockHint(t) ==
    /\ pc[t] = "unhint"
    /\ hint' = [hint EXCEPT ![t] = waiters # 0]
    /\ Goto(t, "uncas")
    /\ UNCHANGED <<barrierWords, guardWords, phase, seen, history>>

\* The last one wakes destroy, or a thread of the next round.
MustWake(w, h) == w = FLAG + 1 \/ (w = 1 /\ h)

UnlockCas(t) ==
    /\ pc[t] = "uncas"
    /\ IF lock # seen[t]
         THEN Move(t, "unlock") /\ UNCHANGED <<lock, members>>
         ELSE /\ lock' = IF lock = FLAG + 1 THEN 0 ELSE lock - 1
              /\ members' = IF Held(lock) = 1 THEN {} ELSE members
              /\ Exit(t, IF MustWake(lock, hint[t]) THEN "unwake" ELSE "vmunlock")
    /\ UNCHANGED <<waiters, count, waiters2, guardWords, destroyer>>

UnlockWake(t) ==
    /\ pc[t] = "unwake"
    /\ WakeOne(t, {"admit", "drain"}, "vmunlock")
    /\ UNCHANGED <<barrierWords, guardWords, phase, seen, hint, history>>

\* pthread_vmlock::unlock
VmUnlock(t) ==
    /\ pc[t] = "vmunlock"
    /\ vm' = [vm EXCEPT ![Process[t]] = @ - 1]
    /\ Move(t, IF vm[Process[t]] = 1 THEN "vcheck" ELSE "idle")
    /\ UNCHANGED <<barrierWords, vmWaiters, history>>

VmCheck(t) ==
    /\ pc[t] = "vcheck"
    /\ Move(t, IF vmWaiters[Process[t]] # 0 THEN "vwake" ELSE "idle")
    /\ UNCHANGED <<barrierWords, guardWords, history>>

VmWake(t) ==
    /\ pc[t] = "vwake"
    /\ pc' = [s \in Threads |->
                IF s = t THEN "idle"
                ELSE IF /\ pc[s] = "asleep" /\ phase[s] = "vmwait"
                        /\ Process[s] = Process[t] THEN "wait"
                ELSE pc[s]]
    /\ UNCHANGED <<barrierWords, guardWords, phase, seen, hint, history>>

-----------------------------------------------------------------------------
(* pthread_barrier_destroy *)

\* The threads between the second meeting and the end of their call.
Drained(t) ==
    \/ pc[t] \in {"unlock", "unhint", "uncas", "unwake", "vmunlock", "vcheck", "vwake"}
    \/ phase[t] = "leaving"

\* The callers' contract: the barrier is destroyed after a round (a thread may
\* do so as soon as it has returned), and nobody waits for the next one.
Destroy(t) ==
    /\ pc[t] = "idle"
    /\ destroyer = NoThread
    /\ \A s \in Threads : pc[s] = "idle" \/ Drained(s)
    /\ destroyer' = t
    /\ Move(t, "destroy")
    /\ UNCHANGED <<barrierWords, guardWords, members>>

DestroyLoad(t) ==
    /\ pc[t] = "destroy"
    /\ Move(t, IF lock # 0 THEN "flag" ELSE "vmwait")
    /\ UNCHANGED <<barrierWords, guardWords, history>>

\* fetch_or
DestroyFlag(t) ==
    /\ pc[t] = "flag"
    /\ lock' = IF lock < 0 THEN lock ELSE FLAG + lock
    /\ Move(t, "drain")
    /\ UNCHANGED <<waiters, count, waiters2, guardWords, history>>

Drain(t) ==
    /\ pc[t] = "drain"
    /\ IF Held(lock) = 0
         THEN Exit(t, "vmwait")
         ELSE WaitWhile(t, "drain", lock)
    /\ UNCHANGED <<barrierWords, guardWords, history>>

\* pthread_vmlock::wait, at the end of which destroy returns.
VmWait(t) ==
    /\ pc[t] = "vmwait"
    /\ IF vm[Process[t]] = 0
         THEN Exit(t, "idle")
         ELSE WaitWhile(t, "vmwait", vm[Process[t]])
    /\ UNCHANGED <<barrierWords, guardWords, history>>

-----------------------------------------------------------------------------

\* The steps of a call in progress.
Proceed(t) ==
    \/ Spin(t) \/ Enrol(t) \/ FutexWait(t) \/ Drop(t)
    \/ Admit(t) \/ Enter(t) \/ Release(t) \/ ReleaseCheck(t) \/ ReleaseWake(t)
    \/ Meet(t) \/ Reset(t) \/ ResetCheck(t) \/ ResetWake(t)
    \/ VmLock(t) \/ Leave(t) \/ Leaving(t)
    \/ Unlock(t) \/ UnlockHint(t) \/ UnlockCas(t) \/ UnlockWake(t)
    \/ VmUnlock(t) \/ VmCheck(t) \/ VmWake(t)
    \/ DestroyLoad(t) \/ DestroyFlag(t) \/ Drain(t) \/ VmWait(t)

\* Only pthread_barrier_init writes the limit.
Step(t) == Proceed(t) /\ UNCHANGED limit

Next ==
    \/ \E t \in Threads : Step(t)
    \/ /\ \E t \in Threads : Arrive(t) \/ Interrupt(t) \/ Destroy(t)
       /\ UNCHANGED limit

Spec == Init /\ [][Next]_vars

\* Every runnable thread is scheduled; nothing obliges a thread to arrive or to
\* destroy the barrier, nor a signal to be sent.
Fairness == \A t \in Threads : WF_vars(Step(t))

FairSpec == Spec /\ Fairness

-----------------------------------------------------------------------------

\* The threads that have passed the first meeting and still hold the lock.
Released(t) ==
    \/ pc[t] \in {"vmlock", "leave", "unlock", "unhint", "uncas"}
    \/ phase[t] = "leaving"

\* Nobody gets past the barrier before the round is complete, and no round
\* starts before the last one has let go of the lock word: a thread that was
\* released is one of exactly `limit` threads that have entered.
NoEarlyRelease ==
    \A t \in Threads :
        Released(t) => t \in members /\ Cardinality(members) = limit

\* When destroy has returned, no thread of any process still reads or writes
\* the barrier, and no thread of the same process even uses its address for a
\* FUTEX_WAKE: the caller may unmap it.
UntouchedAfterDestroy ==
    destroyer # NoThread /\ pc[destroyer] = "idle" =>
        \A t \in Threads :
            \/ pc[t] \in {"idle", "vcheck", "vwake"}
            \/ Process[t] # Process[destroyer] /\ pc[t] \in {"unwake", "vmunlock"}

\* The thread is in a complete round, or has been, or destroys the barrier: it
\* stays so until its call returns.
Draining(t) ==
    \/ Released(t) \/ Drained(t)
    \/ phase[t] = "meet" /\ Cardinality(members) = limit
    \/ t = destroyer

\* When as many threads as a round needs are inside pthread_barrier_wait, one
\* of them returns from it.
Meets(group) ==
    (Cardinality(group) = limit /\ \A t \in group : pc[t] # "idle")
        ~> (\E t \in group : pc[t] = "idle")

EnoughThreadsMeet ==
    \A group \in {g \in SUBSET Threads : Cardinality(g) > 1} : Meets(group)
=============================================================================
