---------------------------- MODULE PthreadCond ----------------------------
(***************************************************************************)
(* The process-private condition variable of owned_pthread_cond.rs and     *)
(* pthread_cond.rs, used with a private normal mutex: wait, timedwait,     *)
(* signal and broadcast.  The mutex is PthreadMutex itself.                *)
(*                                                                         *)
(* A waiter's node lives in the frame of its wait() and is named by its    *)
(* thread.  The list runs from the newest node (head) to the oldest        *)
(* (tail); `next` points to the older neighbour, `prev` to the newer one.  *)
(* The list lock is PrivateLock; a stretch of code under it that touches   *)
(* only what the lock protects is one action.                              *)
(***************************************************************************)
EXTENDS Integers, Sequences, SequencesExt

CONSTANTS
    Threads,    \* the threads that use the condition variable
    Budget,     \* how many calls of lock, wait, signal each thread makes
    Null        \* the null pointer

ASSUME BudgetAssumption == Budget \in [Threads -> Nat]

ASSUME NullAssumption == Null \notin Threads

VARIABLES
    lock, waiters, pc, observed, hint, timed,   \* the mutex
    head, tail,     \* the list of waiters
    guard,          \* the holder of the list lock
    node,           \* the Waiter in each thread's frame
    stage,          \* where each thread is in its wait() or signal()
    error,          \* wait()'s local `error`
    requeued,       \* the threads whose FUTEX_WAIT was moved to the mutex word
    call,           \* the frame of each thread's signal()
    budget,         \* the calls each thread may still make
    queue           \* the nodes that are WAITING, oldest first (history)

mutexVars == <<lock, waiters, pc, observed, hint, timed>>
listVars == <<head, tail, guard, queue>>
vars == <<mutexVars, listVars, node, stage, error, requeued, call, budget>>

Mutex == INSTANCE PthreadMutex

Pointers == Threads \cup {Null}

\* PRIVATE_UNLOCKED, PRIVATE_LOCKED, PRIVATE_CONTENDED
UNLOCKED == 0
LOCKED == 1
CONTENDED == 2

EmptyNode ==
    [prev |-> Null, next |-> Null, state |-> "WAITING",
     barrier |-> CONTENDED, notify |-> Null]

NoCall == [cur |-> Null, first |-> Null, left |-> 0, ref |-> 0]

\* out      in neither call                  dead     cancelled
\* enrol    wait: about to link the node     unlock   unlocking the mutex
\* futex    about to FUTEX_WAIT              asleep   inside it
\* leave    about to compare-and-swap `state`
\* remove   leaving: about to unlink         notify   about to release `notify`
\* nwake    about to FUTEX_WAKE the signaler
\* block    signaled: about to lock the own barrier
\* bwait    about to FUTEX_WAIT on it        basleep  inside it
\* relock   locking the mutex
\* hinc     about to increment the mutex's hint
\* hmark    about to mark the mutex          hopen    about to open prev's barrier
\* hqueue   about to FUTEX_REQUEUE           hdec     about to decrement the hint
\* slock    signal: about to lock the list   visit    in the loop over the nodes
\* sref     about to wait for the leaving    sasleep  inside FUTEX_WAIT
\* sopen    about to open first's barrier    swake    about to FUTEX_WAKE it
WaitStages == {"unlock", "futex", "asleep", "leave", "remove", "notify",
               "nwake", "block", "bwait", "basleep", "relock", "hinc",
               "hmark", "hopen", "hqueue", "hdec"}
SignalStages == {"visit", "sref", "sasleep", "sopen", "swake"}
Stages == {"out", "dead", "enrol", "slock"} \cup WaitStages \cup SignalStages

TypeOK ==
    /\ Mutex!TypeOK
    /\ {head, tail, guard} \subseteq Pointers
    /\ node \in [Threads -> [prev : Pointers, next : Pointers,
                             state : {"WAITING", "SIGNALED", "LEAVING"},
                             barrier : 0..2, notify : Pointers]]
    /\ stage \in [Threads -> Stages]
    /\ error \in [Threads -> {"none", "timeout", "cancel"}]
    /\ requeued \subseteq Threads
    /\ call \in [Threads -> [cur : Pointers, first : Pointers,
                             left : -1..1, ref : Nat]]
    /\ budget \in [Threads -> Nat]
    /\ queue \in Seq(Threads)

Init ==
    /\ Mutex!Init
    /\ head = Null /\ tail = Null /\ guard = Null
    /\ node = [t \in Threads |-> EmptyNode]
    /\ stage = [t \in Threads |-> "out"]
    /\ error = [t \in Threads |-> "none"]
    /\ requeued = {}
    /\ call = [t \in Threads |-> NoCall]
    /\ budget = Budget
    /\ queue = <<>>

Goto(t, label) == stage' = [stage EXCEPT ![t] = label]

Spend(t) == budget[t] > 0 /\ budget' = [budget EXCEPT ![t] = @ - 1]

-----------------------------------------------------------------------------
\* The mutex: the caller's lock and unlock, and the two calls that wait() makes.

\* pthread_mutex_lock by the caller, before it waits or signals.
Lock(t) ==
    /\ stage[t] = "out"
    /\ Mutex!LockFast(t)
    /\ timed' = timed
    /\ Spend(t)
    /\ UNCHANGED <<listVars, node, stage, error, requeued, call>>

\* pthread_mutex_unlock by the caller or its cleanup handler, or mutex.unlock()
\* in wait().
Unlock(t) ==
    /\ stage[t] \in {"out", "dead", "unlock"}
    /\ Mutex!UnlockHint(t)
    /\ UNCHANGED <<listVars, node, stage, error, requeued, call, budget>>

\* mutex.lock() in wait().
Relock(t) ==
    /\ stage[t] = "relock"
    /\ Mutex!LockFast(t)
    /\ timed' = timed
    /\ UNCHANGED <<listVars, node, stage, error, requeued, call, budget>>

\* The mutex's FUTEX_WAKE takes a contender or a requeued waiter.
WakeRequeued(t) ==
    /\ pc[t] = "wake"
    /\ \E s \in requeued :
         /\ requeued' = requeued \ {s}
         /\ stage' = [stage EXCEPT ![s] = IF @ = "asleep" THEN "futex" ELSE "bwait"]
    /\ pc' = [pc EXCEPT ![t] = "idle"]
    /\ UNCHANGED <<lock, waiters, observed, hint, timed>>
    /\ UNCHANGED <<listVars, node, error, call, budget>>

\* The other steps of the mutex.
MutexStep(t) ==
    /\ Mutex!Step(t)
    /\ pc[t] = "wake" => Mutex!Sleepers # {} \/ requeued = {}
    /\ UNCHANGED <<listVars, node, stage, error, requeued, call, budget>>

-----------------------------------------------------------------------------
\* pthread_cond_wait and pthread_cond_timedwait.

Wait(t) ==
    /\ stage[t] = "out"
    /\ pc[t] = "cs"
    /\ Spend(t)
    /\ Goto(t, "enrol")
    /\ UNCHANGED <<mutexVars, listVars, node, error, requeued, call>>

\* The node becomes the head of the list.
Enrol(t) ==
    /\ stage[t] = "enrol"
    /\ guard = Null
    /\ head' = t
    /\ tail' = IF tail = Null THEN t ELSE tail
    /\ node' = [s \in Threads |->
                  CASE s = t -> [EmptyNode EXCEPT !.next = head]
                    [] s # t /\ s = head /\ tail # Null -> [node[s] EXCEPT !.prev = t]
                    [] OTHER -> node[s]]
    /\ queue' = Append(queue, t)
    /\ Goto(t, "unlock")
    /\ UNCHANGED <<mutexVars, guard, error, requeued, call, budget>>

\* mutex.unlock() has returned.
Unlocked(t) ==
    /\ stage[t] = "unlock"
    /\ pc[t] = "idle"
    /\ Goto(t, "futex")
    /\ UNCHANGED <<mutexVars, listVars, node, error, requeued, call, budget>>

\* timed_wait on the node's barrier, and the test of the barrier after it.
FutexWait(t) ==
    /\ stage[t] = "futex"
    /\ Goto(t, IF node[t].barrier = CONTENDED THEN "asleep" ELSE "leave")
    /\ UNCHANGED <<mutexVars, listVars, node, error, requeued, call, budget>>

\* The deadline passes or a cancellation arrives, before or during the sleep.
GiveUp(t) ==
    /\ stage[t] \in {"futex", "asleep"}
    /\ \E e \in {"timeout", "cancel"} : error' = [error EXCEPT ![t] = e]
    /\ requeued' = requeued \ {t}
    /\ Goto(t, "leave")
    /\ UNCHANGED <<mutexVars, listVars, node, call, budget>>

\* A signal handler ends a FUTEX_WAIT; every wait is in a loop.
Interrupt(t) ==
    /\ stage[t] \in {"asleep", "basleep", "sasleep"}
    /\ requeued' = requeued \ {t}
    /\ Goto(t, CASE stage[t] = "asleep" -> "futex"
                 [] stage[t] = "basleep" -> "bwait"
                 [] stage[t] = "sasleep" -> "sref")
    /\ UNCHANGED <<mutexVars, listVars, node, error, call, budget>>

\* Fault: a store in place of the compare-and-swap on `state`.
LeaveStore(t) ==
    /\ stage[t] = "leave"
    /\ node' = [node EXCEPT ![t].state = "LEAVING"]
    /\ queue' = Remove(queue, t)
    /\ Goto(t, "remove")
    /\ UNCHANGED <<mutexVars, head, tail, guard, error, requeued, call, budget>>

\* The compare-and-swap on `state` decides between the signal and the waiter.
Leave(t) ==
    /\ stage[t] = "leave"
    /\ IF node[t].state = "WAITING"
         THEN /\ node' = [node EXCEPT ![t].state = "LEAVING"]
              /\ queue' = Remove(queue, t)
              /\ Goto(t, "remove")
         ELSE /\ Goto(t, "block")
              /\ UNCHANGED <<node, queue>>
    /\ UNCHANGED <<mutexVars, head, tail, guard, error, requeued, call, budget>>

\* remove_waiter_locked
Unlink(t) ==
    /\ stage[t] = "remove"
    /\ guard = Null
    /\ LET prev == node[t].prev
           next == node[t].next
       IN /\ head' = IF head = t THEN next ELSE head
          /\ tail' = IF tail = t THEN prev ELSE tail
          /\ node' = [s \in Threads |->
                [node[s] EXCEPT
                   !.next = IF s = prev /\ head # t THEN next ELSE @,
                   !.prev = IF s = next /\ tail # t THEN prev ELSE @]]
    /\ Goto(t, "notify")
    /\ UNCHANGED <<mutexVars, guard, queue, error, requeued, call, budget>>

\* The signaler that met this node as LEAVING may go on.
Notify(t) ==
    /\ stage[t] = "notify"
    /\ LET s == node[t].notify IN
         IF s = Null
           THEN Goto(t, "relock") /\ UNCHANGED call
           ELSE /\ call' = [call EXCEPT ![s].ref = @ - 1]
                /\ Goto(t, IF call[s].ref = 1 THEN "nwake" ELSE "relock")
    /\ UNCHANGED <<mutexVars, listVars, node, error, requeued, budget>>

NotifyWake(t) ==
    /\ stage[t] = "nwake"
    /\ stage' = [s \in Threads |->
                   CASE s = t -> "relock"
                     [] s = node[t].notify /\ stage[s] = "sasleep" -> "sref"
                     [] OTHER -> stage[s]]
    /\ UNCHANGED <<mutexVars, listVars, node, error, requeued, call, budget>>

\* private_lock on the own barrier: open already, or the loop that sleeps.
Block(t) ==
    /\ stage[t] = "block"
    /\ IF node[t].barrier = UNLOCKED
         THEN /\ node' = [node EXCEPT ![t].barrier = LOCKED]
              /\ Goto(t, "relock")
         ELSE /\ Goto(t, "bwait")
              /\ UNCHANGED node
    /\ UNCHANGED <<mutexVars, listVars, error, requeued, call, budget>>

BarrierWait(t) ==
    /\ stage[t] = "bwait"
    /\ IF node[t].barrier = CONTENDED
         THEN /\ Goto(t, "basleep")
              /\ UNCHANGED node
         ELSE /\ node' = [node EXCEPT ![t].barrier = CONTENDED]
              /\ Goto(t, "relock")
    /\ UNCHANGED <<mutexVars, listVars, error, requeued, call, budget>>

\* A cancellation that lost against a signal stays pending.
Cancelled(t) == error[t] = "cancel" /\ node[t].state # "SIGNALED"

\* The frame of wait() is gone: it returns, or the thread ends in its cleanup
\* handlers, with the mutex locked in both cases.
Return(t) ==
    /\ node' = [node EXCEPT ![t] = EmptyNode]
    /\ error' = [error EXCEPT ![t] = "none"]
    /\ Goto(t, IF Cancelled(t) THEN "dead" ELSE "out")

\* mutex.lock() has returned.
Relocked(t) ==
    /\ stage[t] = "relock"
    /\ pc[t] = "cs"
    /\ CASE node[t].state = "LEAVING" -> Return(t)
         [] node[t].state = "SIGNALED" ->
              /\ Goto(t, IF node[t].next = Null THEN "hinc"
                         ELSE IF node[t].prev # Null THEN "hmark" ELSE "hdec")
              /\ UNCHANGED <<node, error>>
    /\ UNCHANGED <<mutexVars, listVars, requeued, call, budget>>

\* The oldest waiter of the group announces the ones that will be requeued.
HintUp(t) ==
    /\ stage[t] = "hinc"
    /\ waiters' = waiters + 1
    /\ Goto(t, IF node[t].prev # Null THEN "hmark" ELSE "hdec")
    /\ UNCHANGED <<lock, pc, observed, hint, timed>>
    /\ UNCHANGED <<listVars, node, error, requeued, call, budget>>

\* Only a contender's mark can come between the load and the compare-and-swap.
MarkMutex(t) ==
    /\ stage[t] = "hmark"
    /\ lock' = "marked"
    /\ Goto(t, "hopen")
    /\ UNCHANGED <<waiters, pc, observed, hint, timed>>
    /\ UNCHANGED <<listVars, node, error, requeued, call, budget>>

\* private_unlock_requeue: the exchange, and then the system call.
OpenNext(t) ==
    /\ stage[t] = "hopen"
    /\ node' = [node EXCEPT ![node[t].prev].barrier = UNLOCKED]
    /\ Goto(t, "hqueue")
    /\ UNCHANGED <<mutexVars, listVars, error, requeued, call, budget>>

Requeue(t) ==
    /\ stage[t] = "hqueue"
    /\ LET s == node[t].prev IN
         requeued' = IF stage[s] \in {"asleep", "basleep"}
                       THEN requeued \cup {s} ELSE requeued
    /\ Return(t)
    /\ UNCHANGED <<mutexVars, listVars, call, budget>>

\* The newest waiter of the group takes the hint back, if it is also the oldest.
HintDown(t) ==
    /\ stage[t] = "hdec"
    /\ waiters' = IF node[t].next = Null THEN waiters - 1 ELSE waiters
    /\ Return(t)
    /\ UNCHANGED <<lock, pc, observed, hint, timed>>
    /\ UNCHANGED <<listVars, requeued, call, budget>>

-----------------------------------------------------------------------------
\* pthread_cond_signal (count 1) and pthread_cond_broadcast (count -1).

Signal(t, count) ==
    /\ stage[t] = "out"
    /\ pc[t] \in {"idle", "cs"}
    /\ Spend(t)
    /\ call' = [call EXCEPT ![t].left = count]
    /\ Goto(t, "slock")
    /\ UNCHANGED <<mutexVars, listVars, node, error, requeued>>

LockList(t) ==
    /\ stage[t] = "slock"
    /\ guard = Null
    /\ guard' = t
    /\ call' = [call EXCEPT ![t].cur = tail]
    /\ Goto(t, "visit")
    /\ UNCHANGED <<mutexVars, head, tail, queue, node, error, requeued, budget>>

\* Fault: a leaving waiter uses up the count.
VisitCountingLeavers(t) ==
    /\ stage[t] = "visit"
    /\ call[t].left # 0
    /\ call[t].cur # Null
    /\ LET w == call[t].cur
           chosen == node[w].state = "WAITING"
       IN /\ node' = IF chosen THEN [node EXCEPT ![w].state = "SIGNALED"]
                     ELSE [node EXCEPT ![w].notify = t]
          /\ call' = [call EXCEPT
               ![t].cur = node[w].prev,
               ![t].first = IF chosen /\ @ = Null THEN w ELSE @,
               ![t].ref = IF chosen THEN @ ELSE @ + 1,
               ![t].left = IF @ = 1 THEN 0 ELSE @]
          /\ queue' = IF chosen THEN Remove(queue, w) ELSE queue
    /\ UNCHANGED <<mutexVars, head, tail, guard, stage, error, requeued, budget>>

\* One turn of the loop, from the oldest waiter on.
Visit(t) ==
    /\ stage[t] = "visit"
    /\ call[t].left # 0
    /\ call[t].cur # Null
    /\ LET w == call[t].cur IN
         IF node[w].state = "WAITING"
           THEN /\ node' = [node EXCEPT ![w].state = "SIGNALED"]
                /\ call' = [call EXCEPT
                     ![t].cur = node[w].prev,
                     ![t].first = IF @ = Null THEN w ELSE @,
                     ![t].left = IF @ = 1 THEN 0 ELSE @]
                /\ queue' = Remove(queue, w)
           ELSE /\ node' = [node EXCEPT ![w].notify = t]
                /\ call' = [call EXCEPT ![t].cur = node[w].prev, ![t].ref = @ + 1]
                /\ UNCHANGED queue
    /\ UNCHANGED <<mutexVars, head, tail, guard, stage, error, requeued, budget>>

\* The group is cut off the list, and the list lock released.
Split(t) ==
    /\ stage[t] = "visit"
    /\ call[t].left = 0 \/ call[t].cur = Null
    /\ LET w == call[t].cur IN
         /\ head' = IF w = Null THEN Null ELSE head
         /\ tail' = w
         /\ node' = [s \in Threads |->
               [node[s] EXCEPT
                  !.prev = IF w # Null /\ s = node[w].next THEN Null ELSE @,
                  !.next = IF s = w THEN Null ELSE @]]
    /\ guard' = Null
    /\ call' = [call EXCEPT ![t].cur = Null, ![t].left = 0]
    /\ Goto(t, "sref")
    /\ UNCHANGED <<mutexVars, queue, error, requeued, budget>>

\* Fault: the group may run while nodes of it are being unlinked.
AwaitNobody(t) ==
    /\ stage[t] = "sref"
    /\ Goto(t, IF call[t].first # Null THEN "sopen" ELSE "out")
    /\ UNCHANGED <<mutexVars, listVars, node, error, requeued, call, budget>>

\* The nodes met as LEAVING must be unlinked before the group may run.
AwaitLeavers(t) ==
    /\ stage[t] = "sref"
    /\ Goto(t, CASE call[t].ref # 0 -> "sasleep"
                 [] call[t].ref = 0 /\ call[t].first # Null -> "sopen"
                 [] OTHER -> "out")
    /\ UNCHANGED <<mutexVars, listVars, node, error, requeued, call, budget>>

\* private_unlock on the oldest waiter's barrier.
OpenFirst(t) ==
    /\ stage[t] = "sopen"
    /\ node' = [node EXCEPT ![call[t].first].barrier = UNLOCKED]
    /\ Goto(t, "swake")
    /\ UNCHANGED <<mutexVars, listVars, error, requeued, call, budget>>

\* Only the address of the barrier is used: the frame may be gone by now.
WakeFirst(t) ==
    /\ stage[t] = "swake"
    /\ LET w == call[t].first IN
         stage' = [s \in Threads |->
            CASE s = t -> "out"
              [] s = w /\ s \notin requeued /\ stage[s] = "asleep" -> "futex"
              [] s = w /\ s \notin requeued /\ stage[s] = "basleep" -> "bwait"
              [] OTHER -> stage[s]]
    /\ call' = [call EXCEPT ![t] = NoCall]
    /\ UNCHANGED <<mutexVars, listVars, node, error, requeued, budget>>

-----------------------------------------------------------------------------

\* The steps of a call in progress.
Step(t) ==
    \/ Relock(t) \/ WakeRequeued(t) \/ MutexStep(t)
    \/ (stage[t] = "unlock" /\ Unlock(t))
    \/ Enrol(t) \/ Unlocked(t) \/ FutexWait(t) \/ Leave(t) \/ Unlink(t)
    \/ Notify(t) \/ NotifyWake(t) \/ Block(t) \/ BarrierWait(t)
    \/ Relocked(t) \/ HintUp(t) \/ MarkMutex(t) \/ OpenNext(t) \/ Requeue(t)
    \/ HintDown(t)
    \/ LockList(t) \/ Visit(t) \/ Split(t) \/ AwaitLeavers(t)
    \/ OpenFirst(t) \/ WakeFirst(t)

Next ==
    \E t \in Threads :
        \/ Lock(t) \/ Wait(t) \/ Signal(t, 1) \/ Signal(t, -1)
        \/ Unlock(t)
        \/ Step(t)
        \/ GiveUp(t) \/ Interrupt(t)

Spec == Init /\ [][Next]_vars

\* Every runnable thread is scheduled, and the caller's critical sections end.
\* Nothing obliges a thread to start a call, a deadline to pass or a signal
\* handler to run.
Fairness == \A t \in Threads : WF_vars(Step(t) \/ Unlock(t))

FairSpec == Spec /\ Fairness

-----------------------------------------------------------------------------

Waiting(t) == stage[t] \in WaitStages

\* The waiter is on the list, or in a detached group and not yet unlinked.
Linked(t) ==
    /\ Waiting(t)
    /\ node[t].state # "SIGNALED"
    /\ stage[t] \notin {"notify", "nwake", "relock"}

Chosen(t) == Waiting(t) /\ node[t].state = "SIGNALED"

\* No pointer that will still be followed leads to a frame that is gone: those
\* of the list, the newer neighbour a signaled waiter has to release, the
\* signaler's position and its first waiter, and a leaving waiter's `notify`.
FramesOutliveUsers ==
    /\ \A p \in {head, tail} \ {Null} : Waiting(p)
    /\ \A t \in Threads :
         /\ Linked(t) => \A p \in {node[t].prev, node[t].next} \ {Null} : Waiting(p)
         /\ Chosen(t) /\ node[t].prev # Null => Waiting(node[t].prev)
         /\ call[t].cur # Null => Waiting(call[t].cur)
         /\ stage[t] \in {"visit", "sref", "sasleep", "sopen"} /\ call[t].first # Null =>
              Chosen(call[t].first)
         /\ Waiting(t) /\ stage[t] \in {"remove", "notify"} /\ node[t].notify # Null =>
              stage[node[t].notify] \in {"visit", "sref", "sasleep"}

\* A signal is not lost: when private_cond_signal cuts its group off, a signal
\* that chose nobody, and a broadcast in any case, leaves nobody WAITING, however
\* many waiters of the group were leaving on their own.
LeavesNobody ==
    \A t \in Threads :
        stage[t] = "visit" /\ stage'[t] = "sref"
                           /\ (call[t].first = Null \/ call[t].left = -1) =>
            queue = <<>>

NoLostSignal == [][LeavesNobody]_vars

\* The mutex's hint is balanced: with no call in progress it counts nobody.
HintIsTemporary ==
    (\A t \in Threads : stage[t] \in {"out", "dead"} /\ pc[t] \in {"idle", "cs"}) => waiters = 0

Cond == INSTANCE AbstractCond WITH
            waiting <- queue,
            woken <- {t \in Threads : Chosen(t)},
            leaving <- {t \in Threads : Waiting(t) /\ node[t].state = "LEAVING"},
            cancelled <- {t \in Threads : stage[t] = "dead"}

\* wait(), signal() and broadcast() implement the abstract condition variable: the
\* oldest waiter is chosen first; when a deadline or a cancellation meets a signal
\* one of them wins, and a waiter that a signal chose never ends in its
\* cancellation; and everyone who was chosen or gave up gets out.
ImplementsCond == Cond!Spec
=============================================================================
