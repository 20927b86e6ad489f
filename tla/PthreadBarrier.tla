--------------------------- MODULE PthreadBarrier ---------------------------
(***************************************************************************)
(* The process-private barrier of pthread_barrier.rs (pthread_barrier_wait *)
(* with a limit above 0).                                                  *)
(*                                                                         *)
(* The first thread of a round puts the round's instance on its own stack  *)
(* and publishes the pointer under the barrier's lock; the last one clears *)
(* the pointer, so the next round may start while this one drains.  The    *)
(* instance lives until its owner returns; a frame is named by its thread, *)
(* so a thread's next instance has the same address.                       *)
(*                                                                         *)
(* Each action is one atomic access or one futex call; a load that is      *)
(* followed by FUTEX_WAIT on the value loaded is part of the call.  The    *)
(* spin loops only read: they end at once when the word has changed, or    *)
(* the thread goes on to sleep.                                            *)
(***************************************************************************)
EXTENDS Integers, FiniteSets

CONSTANTS
    Threads,    \* the threads that use the barrier
    Limits,     \* the limits pthread_barrier_init may have stored, from 1
    NoInstance  \* the null pointer

VARIABLES
    limit,      \* the stored limit: one less than the threads of a round
    lock,       \* the barrier's lock word
    waiters,    \* the threads counted as waiting for the lock
    slot,       \* _b_inst: the owner of the open instance
    inst,       \* the instance in each thread's frame
    pc,         \* where each thread is
    at,         \* the instance each thread takes part in
    role,       \* first (the owner), middle or last thread of the instance
    members     \* the threads that have entered each instance (history)

vars == <<limit, lock, waiters, slot, inst, pc, at, role, members>>

NewInstance == [count |-> 0, last |-> 0, waiters |-> 0, finished |-> 0]

\* swap     about to exchange the lock word
\* lspin    reading the lock word         lwait    counted, about to FUTEX_WAIT
\* lasleep  inside FUTEX_WAIT             ldrop    about to uncount itself
\* locked   holds the lock                store    about to release it
\* check    about to read the lock's waiter count
\* lwake    about to FUTEX_WAKE the lock
\* ospin    owner: about to announce that it waits
\* owait    owner: about to FUTEX_WAIT    oasleep  inside FUTEX_WAIT
\* exit     owner: about to return
\* fspin    follower: reading `last`      fwait    counted, about to FUTEX_WAIT
\* fasleep  inside FUTEX_WAIT             fdrop    about to uncount itself
\* publish  last thread: about to set `last`
\* pcheck   ... to read the instance's waiter count
\* pwake    ... to FUTEX_WAKE the followers
\* leave    about to decrement the instance's count
\* finish   last to leave: about to increment `finished`
\* owake    ... to FUTEX_WAKE the owner
Labels == {"idle", "swap", "lspin", "lwait", "lasleep", "ldrop", "locked",
           "store", "check", "lwake", "ospin", "owait", "oasleep", "exit",
           "fspin", "fwait", "fasleep", "fdrop", "publish", "pcheck", "pwake",
           "leave", "finish", "owake"}

TypeOK ==
    /\ limit \in Limits
    /\ lock \in 0..1
    /\ waiters \in Nat
    /\ slot \in Threads \cup {NoInstance}
    /\ inst \in [Threads -> [count : 0..limit, last : 0..1,
                          waiters : Nat, finished : 0..2]]
    /\ pc \in [Threads -> Labels]
    /\ at \in [Threads -> Threads \cup {NoInstance}]
    /\ role \in [Threads -> {"none", "first", "middle", "last"}]
    /\ members \in [Threads -> SUBSET Threads]

Init ==
    /\ limit \in Limits
    /\ lock = 0
    /\ waiters = 0
    /\ slot = NoInstance
    /\ inst = [t \in Threads |-> NewInstance]
    /\ pc = [t \in Threads |-> "idle"]
    /\ at = [t \in Threads |-> NoInstance]
    /\ role = [t \in Threads |-> "none"]
    /\ members = [t \in Threads |-> {}]

Goto(t, label) == pc' = [pc EXCEPT ![t] = label]

Arrive(t) ==
    /\ pc[t] = "idle"
    /\ Goto(t, "swap")
    /\ UNCHANGED <<lock, waiters, slot, inst, at, role, members>>

LockSwap(t) ==
    /\ pc[t] = "swap"
    /\ lock' = 1
    /\ Goto(t, IF lock = 0 THEN "locked" ELSE "lspin")
    /\ UNCHANGED <<waiters, slot, inst, at, role, members>>

\* wait_while on the lock word: it has changed, or the thread counts itself.
LockSpin(t) ==
    /\ pc[t] = "lspin"
    /\ \/ waiters = 0 /\ lock # 1 /\ Goto(t, "swap") /\ UNCHANGED waiters
       \/ waiters' = waiters + 1 /\ Goto(t, "lwait")
    /\ UNCHANGED <<lock, slot, inst, at, role, members>>

LockWait(t) ==
    /\ pc[t] = "lwait"
    /\ Goto(t, IF lock = 1 THEN "lasleep" ELSE "ldrop")
    /\ UNCHANGED <<lock, waiters, slot, inst, at, role, members>>

LockDrop(t) ==
    /\ pc[t] = "ldrop"
    /\ waiters' = waiters - 1
    /\ Goto(t, "swap")
    /\ UNCHANGED <<lock, slot, inst, at, role, members>>

\* The first thread of a round publishes its instance.
EnterOwner(t) ==
    /\ pc[t] = "locked"
    /\ slot = NoInstance
    /\ slot' = t
    /\ inst' = [inst EXCEPT ![t] = NewInstance]
    /\ at' = [at EXCEPT ![t] = t]
    /\ role' = [role EXCEPT ![t] = "first"]
    /\ members' = [members EXCEPT ![t] = {t}]
    /\ Goto(t, "store")
    /\ UNCHANGED <<lock, waiters>>

\* The incremented count reaches the limit.
Completes(n) == n = limit

\* Every other thread counts itself; the last one closes the round.
EnterFollower(t) ==
    /\ pc[t] = "locked"
    /\ slot # NoInstance
    /\ LET n == inst[slot].count + 1 IN
         /\ inst' = [inst EXCEPT ![slot].count = n]
         /\ slot' = IF Completes(n) THEN NoInstance ELSE slot
         /\ role' = [role EXCEPT ![t] = IF Completes(n) THEN "last" ELSE "middle"]
    /\ at' = [at EXCEPT ![t] = slot]
    /\ members' = [members EXCEPT ![slot] = @ \cup {t}]
    /\ Goto(t, "store")
    /\ UNCHANGED <<lock, waiters>>

\* unlock_private_barrier
LockStore(t) ==
    /\ pc[t] = "store"
    /\ lock' = 0
    /\ Goto(t, "check")
    /\ UNCHANGED <<waiters, slot, inst, at, role, members>>

\* Where the thread goes once it has released the lock.
AfterUnlock(t) ==
    CASE role[t] = "first" -> "ospin"
      [] role[t] = "middle" -> "fspin"
      [] role[t] = "last" -> "publish"

\* Fault: a thread that waits alone is overlooked.
LockCheckMany(t) ==
    /\ pc[t] = "check"
    /\ Goto(t, IF waiters > 1 THEN "lwake" ELSE AfterUnlock(t))
    /\ UNCHANGED <<lock, waiters, slot, inst, at, role, members>>

LockCheck(t) ==
    /\ pc[t] = "check"
    /\ Goto(t, IF waiters # 0 THEN "lwake" ELSE AfterUnlock(t))
    /\ UNCHANGED <<lock, waiters, slot, inst, at, role, members>>

\* FUTEX_WAKE of one thread.
LockWake(t) ==
    /\ pc[t] = "lwake"
    /\ LET asleep == {s \in Threads : pc[s] = "lasleep"} IN
         IF asleep = {}
           THEN Goto(t, AfterUnlock(t))
           ELSE \E s \in asleep :
                  pc' = [pc EXCEPT ![t] = AfterUnlock(t), ![s] = "lwait"]
    /\ UNCHANGED <<lock, waiters, slot, inst, at, role, members>>

\* The owner announces that it waits for the others to leave.
Announce(t) ==
    /\ pc[t] = "ospin"
    /\ inst' = [inst EXCEPT ![t].finished = @ + 1]
    /\ Goto(t, "owait")
    /\ UNCHANGED <<lock, waiters, slot, at, role, members>>

OwnerWait(t) ==
    /\ pc[t] = "owait"
    /\ Goto(t, IF inst[t].finished = 1 THEN "oasleep" ELSE "exit")
    /\ UNCHANGED <<lock, waiters, slot, inst, at, role, members>>

\* The owner's frame, and the instance in it, is gone.
Exit(t) ==
    /\ pc[t] = "exit"
    /\ inst' = [inst EXCEPT ![t] = NewInstance]
    /\ at' = [at EXCEPT ![t] = NoInstance]
    /\ role' = [role EXCEPT ![t] = "none"]
    /\ members' = [members EXCEPT ![t] = {}]
    /\ Goto(t, "idle")
    /\ UNCHANGED <<lock, waiters, slot>>

\* wait_while on the instance's `last`.
FollowerSpin(t) ==
    /\ pc[t] = "fspin"
    /\ \/ inst[at[t]].last # 0 /\ Goto(t, "leave") /\ UNCHANGED inst
       \/ /\ inst' = [inst EXCEPT ![at[t]].waiters = @ + 1]
          /\ Goto(t, "fwait")
    /\ UNCHANGED <<lock, waiters, slot, at, role, members>>

FollowerWait(t) ==
    /\ pc[t] = "fwait"
    /\ Goto(t, IF inst[at[t]].last = 0 THEN "fasleep" ELSE "fdrop")
    /\ UNCHANGED <<lock, waiters, slot, inst, at, role, members>>

FollowerDrop(t) ==
    /\ pc[t] = "fdrop"
    /\ inst' = [inst EXCEPT ![at[t]].waiters = @ - 1]
    /\ Goto(t, "leave")
    /\ UNCHANGED <<lock, waiters, slot, at, role, members>>

\* The last thread releases the round.
Publish(t) ==
    /\ pc[t] = "publish"
    /\ inst' = [inst EXCEPT ![at[t]].last = 1]
    /\ Goto(t, "pcheck")
    /\ UNCHANGED <<lock, waiters, slot, at, role, members>>

PublishCheck(t) ==
    /\ pc[t] = "pcheck"
    /\ Goto(t, IF inst[at[t]].waiters # 0 THEN "pwake" ELSE "leave")
    /\ UNCHANGED <<lock, waiters, slot, inst, at, role, members>>

\* FUTEX_WAKE of every follower of the instance.
PublishWake(t) ==
    /\ pc[t] = "pwake"
    /\ pc' = [s \in Threads |->
                CASE s = t -> "leave"
                  [] s # t /\ pc[s] = "fasleep" /\ at[s] = at[t] -> "fwait"
                  [] OTHER -> pc[s]]
    /\ UNCHANGED <<lock, waiters, slot, inst, at, role, members>>

\* The thread is outside the barrier again.
Depart(t) ==
    /\ Goto(t, "idle")
    /\ at' = [at EXCEPT ![t] = NoInstance]
    /\ role' = [role EXCEPT ![t] = "none"]

\* Fault: the first follower to leave hands the instance back.
LeaveFirst(t) ==
    /\ pc[t] = "leave"
    /\ inst' = [inst EXCEPT ![at[t]].count = @ - 1]
    /\ IF inst[at[t]].count = limit
         THEN Goto(t, "finish") /\ UNCHANGED <<at, role>>
         ELSE Depart(t)
    /\ UNCHANGED <<lock, waiters, slot, members>>

\* A follower leaves the instance; the last one hands it back to the owner.
Leave(t) ==
    /\ pc[t] = "leave"
    /\ inst' = [inst EXCEPT ![at[t]].count = @ - 1]
    /\ IF inst[at[t]].count = 1
         THEN Goto(t, "finish") /\ UNCHANGED <<at, role>>
         ELSE Depart(t)
    /\ UNCHANGED <<lock, waiters, slot, members>>

Finish(t) ==
    /\ pc[t] = "finish"
    /\ inst' = [inst EXCEPT ![at[t]].finished = @ + 1]
    /\ IF inst[at[t]].finished # 0
         THEN Goto(t, "owake") /\ UNCHANGED <<at, role>>
         ELSE Depart(t)
    /\ UNCHANGED <<lock, waiters, slot, members>>

\* FUTEX_WAKE of the owner: only the address is used, whose frame may be gone
\* or hold the instance of a later round by now.
OwnerWake(t) ==
    /\ pc[t] = "owake"
    /\ LET o == at[t] IN
         pc' = [pc EXCEPT ![t] = "idle",
                          ![o] = IF @ = "oasleep" THEN "owait" ELSE @]
    /\ at' = [at EXCEPT ![t] = NoInstance]
    /\ role' = [role EXCEPT ![t] = "none"]
    /\ UNCHANGED <<lock, waiters, slot, inst, members>>

\* A signal ends a FUTEX_WAIT; every wait is in a loop.
Interrupt(t) ==
    /\ pc[t] \in {"lasleep", "oasleep", "fasleep"}
    /\ Goto(t, CASE pc[t] = "lasleep" -> "lwait"
                 [] pc[t] = "oasleep" -> "owait"
                 [] pc[t] = "fasleep" -> "fwait")
    /\ UNCHANGED <<lock, waiters, slot, inst, at, role, members>>

\* The steps of a call in progress.
Proceed(t) ==
    \/ LockSwap(t) \/ LockSpin(t) \/ LockWait(t) \/ LockDrop(t)
    \/ EnterOwner(t) \/ EnterFollower(t)
    \/ LockStore(t) \/ LockCheck(t) \/ LockWake(t)
    \/ Announce(t) \/ OwnerWait(t) \/ Exit(t)
    \/ FollowerSpin(t) \/ FollowerWait(t) \/ FollowerDrop(t)
    \/ Publish(t) \/ PublishCheck(t) \/ PublishWake(t)
    \/ Leave(t) \/ Finish(t) \/ OwnerWake(t)

\* Only pthread_barrier_init writes the limit.
Step(t) == Proceed(t) /\ UNCHANGED limit

Next ==
    \/ \E t \in Threads : Step(t)
    \/ (\E t \in Threads : Arrive(t) \/ Interrupt(t)) /\ UNCHANGED limit

Spec == Init /\ [][Next]_vars

\* Every runnable thread is scheduled; nothing obliges a thread to arrive, nor
\* a signal to be sent.
Fairness == \A t \in Threads : WF_vars(Step(t))

FairSpec == Spec /\ Fairness

-----------------------------------------------------------------------------

\* The threads that still read or write the instance of o.
Users(o) ==
    {t \in Threads : /\ at[t] = o
                     /\ t # o
                     /\ pc[t] \in {"store", "check", "lwake", "fspin", "fwait",
                                   "fasleep", "fdrop", "publish", "pcheck",
                                   "pwake", "leave", "finish"}}

\* Nobody gets past the barrier before the round is complete: the threads that
\* were released, as owner or as follower, see limit + 1 threads in it.
NoEarlyRelease ==
    \A t \in Threads :
        pc[t] \in {"leave", "finish", "exit"} =>
            Cardinality(members[at[t]]) = limit + 1

\* The instance outlives its users: while a follower still has to touch an
\* instance, or the barrier still points to it, its owner is inside
\* pthread_barrier_wait and has not decided to return.
InstanceOutlivesUsers ==
    \A o \in Threads :
        Users(o) # {} \/ slot = o =>
            at[o] = o /\ pc[o] \in {"store", "check", "lwake", "ospin", "owait", "oasleep"}

\* The thread, owner or follower, is in a round whose `last` has been set, or
\* wakes the owner of one: it stays so until its call returns.
Draining(t) ==
    \/ at[t] # NoInstance /\ inst[at[t]].last = 1
    \/ pc[t] = "owake"

\* As many threads as a round needs are inside pthread_barrier_wait.
Meeting(group) == Cardinality(group) = limit + 1 /\ \A t \in group : pc[t] # "idle"
=============================================================================
