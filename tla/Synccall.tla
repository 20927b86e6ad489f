------------------------------ MODULE Synccall ------------------------------
(***************************************************************************)
(* owned_synccall.rs: the thread-list lock, the rendezvous that runs a     *)
(* callback on every thread (synccall) and the signal broadcast that       *)
(* emulates membarrier, composed with everything that takes the same locks *)
(* in pthread_create_join.rs: creation, exit, a change of the registry     *)
(* (join, detach) and pthread_kill.                                        *)
(*                                                                         *)
(* A thread has a program counter pc for its call and a second one, hpc,   *)
(* for the SIGSYNCCALL handler that interrupts it.  The rendezvous         *)
(* semaphores are counters: a post always wakes, and a wait rereads.       *)
(***************************************************************************)
EXTENDS Naturals, FiniteSets

CONSTANTS
    Threads,    \* the tasks the process may have
    Initial,    \* the initial thread; its record is not in the registry
    Starts,     \* the sets of tasks that may run at the start
    MaxCalls,   \* bound: how many calls are made
    None        \* no thread

ASSUME TasksAssumption ==
    /\ IsFiniteSet(Threads) /\ None \notin Threads
    /\ Starts \subseteq {running \in SUBSET Threads : Initial \in running}

VARIABLES
    pc,         \* where each thread is in its call
    hpc,        \* where each thread is in the SIGSYNCCALL handler
    op,         \* the call each thread makes
    arg,        \* the thread a creation or a pthread_kill is about
    task,       \* SelectedRuntimeTaskState of each task
    list,       \* THREAD_LIST_LOCK, its waiters, and the owner each one saw
    registry,   \* SELECTED_WORKER_REGISTRY_LOCK: the writer bit, the readers
    killLock,   \* signal_target_lock of each task
    action,     \* the disposition of SIGSYNCCALL
    pending,    \* the threads with SIGSYNCCALL pending
    sem,        \* the rendezvous semaphores
    targetTid,  \* TARGET_TID
    callback,   \* CALLBACK
    frame,      \* locals of the lock holder: targets to signal, count, run
    ran,        \* history: how often each task ran the callback
    calls       \* how many calls have been made

locks == <<list, registry, killLock>>
meeting == <<action, pending, sem, targetTid, callback, frame, ran>>
tasks == <<op, arg, task, calls>>
vars == <<pc, hpc, locks, meeting, tasks>>

\* Calls that take the thread-list lock; only the first two then block every
\* signal, SIGSYNCCALL included.
Meetings == {"synccall", "membarrier"}
ListOps == Meetings \cup {"create", "exit"}

\* ask     about to look its own record up       told   holds the registry shared
\* cas, add, futex, asleep, sub   lock_thread_list
\* start   holds the list, about to block every signal and install the handler
\* collect, signal, catch         gathering the targets
\* serial, served, self, leave    running the callback, releasing the targets
\* claim, drain, write            the registry, exclusively
\* clone, retire                  creation and exit, still under the list lock
\* aim, shot                      pthread_kill, with the target's lock
\* unlock, hint                   unlock_thread_list
\* final   the last task, in exit
Labels == {"idle", "ask", "told", "cas", "add", "futex", "asleep", "sub",
           "start", "collect", "signal", "catch", "serial", "served", "self",
           "leave", "claim", "drain", "write", "clone", "retire", "aim",
           "shot", "unlock", "hint", "final"}

Semaphores == {"target", "caller", "exit", "barrier"}

Frames == [todo : SUBSET Threads, count : Nat, left : Nat, run : {"user", "dummy"}]

TypeOK ==
    /\ pc \in [Threads -> Labels]
    /\ hpc \in [Threads -> {"none", "target", "call", "exit"}]
    /\ op \in [Threads -> ListOps \cup {"withdraw", "final", "update", "kill"}]
    /\ arg \in [Threads -> Threads]
    /\ task \in [Threads -> {"none", "linked", "active", "committed"}]
    /\ list \in [owner : Threads \cup {None}, waiters : Nat,
                seen : [Threads -> Threads \cup {None}]]
    /\ registry \in [writer : Threads \cup {None}, readers : SUBSET Threads]
    /\ killLock \in [Threads -> Threads \cup {None}]
    /\ action \in {"ignore", "handler", "broadcast"}
    /\ pending \subseteq Threads
    /\ sem \in [Semaphores -> Nat]
    /\ targetTid \in Threads \cup {None}
    /\ callback \in {"user", "dummy"}
    /\ frame \in Frames
    /\ ran \in [Threads -> Nat]
    /\ calls \in Nat

NoFrame == [todo |-> {}, count |-> 0, left |-> 0, run |-> "dummy"]

Init ==
    /\ pc = [t \in Threads |-> "idle"]
    /\ hpc = [t \in Threads |-> "none"]
    /\ op = [t \in Threads |-> "update"]
    /\ arg = [t \in Threads |-> t]
    /\ \E running \in Starts :
           task = [t \in Threads |-> IF t \in running THEN "active" ELSE "none"]
    /\ list = [owner |-> None, waiters |-> 0, seen |-> [t \in Threads |-> None]]
    /\ registry = [writer |-> None, readers |-> {}]
    /\ killLock = [t \in Threads |-> None]
    /\ action = "ignore"
    /\ pending = {}
    /\ sem = [s \in Semaphores |-> 0]
    /\ targetTid = None
    /\ callback = "dummy"
    /\ frame = NoFrame
    /\ ran = [t \in Threads |-> 0]
    /\ calls = 0

At(t, label) == hpc[t] = "none" /\ pc[t] = label

Goto(t, label) == pc' = [pc EXCEPT ![t] = label] /\ UNCHANGED hpc

Post(s) == sem' = [sem EXCEPT ![s] = @ + 1]

\* RendezvousSemaphore::wait, once it succeeds.
Take(s) == sem[s] > 0 /\ sem' = [sem EXCEPT ![s] = @ - 1]

Active == {t \in Threads : task[t] = "active"}

-----------------------------------------------------------------------------
(* The calls *)

\* Fault: a task commits its exit under the registry lock alone.
AskUnlisted(t, o, u) ==
    IF o \in {"update", "exit"} THEN "claim"
    ELSE IF o = "kill" THEN (IF u = Initial THEN "aim" ELSE "ask")
    ELSE IF t = Initial THEN "cas" ELSE "ask"

\* current_runtime_task_linux_id needs the registry for a worker only, and
\* with_selected_pthread_signal_target for a worker as the target only.
Ask(t, o, u) ==
    IF o = "update" THEN "claim"
    ELSE IF o = "kill" THEN (IF u = Initial THEN "aim" ELSE "ask")
    ELSE IF t = Initial THEN "cas" ELSE "ask"

\* The tasks whose control a creation has allocated and not yet linked.
InCreation == {arg[s] : s \in {s \in Threads : op[s] = "create" /\ pc[s] # "idle"}}

\* A running task calls synccall, membarrier, pthread_create, pthread_exit,
\* pthread_kill, or join or detach ("update").
Call(t) ==
    /\ At(t, "idle") /\ task[t] = "active" /\ calls < MaxCalls
    /\ \E o \in ListOps \cup {"update", "kill"}, u \in Threads :
        /\ \/ o = "create" /\ task[u] = "none" /\ u \notin InCreation
           \/ o = "kill" /\ u # t /\ task[u] \in {"active", "committed"}
           \/ o \notin {"create", "kill"} /\ u = t
        /\ op' = [op EXCEPT ![t] = o]
        /\ arg' = [arg EXCEPT ![t] = u]
        /\ Goto(t, Ask(t, o, u))
    /\ calls' = calls + 1
    /\ UNCHANGED <<task, locks, meeting>>

-----------------------------------------------------------------------------
(* The registry lock *)

ReadRegistry(t) ==
    /\ At(t, "ask") /\ registry.writer = None
    /\ registry' = [registry EXCEPT !.readers = @ \cup {t}]
    /\ Goto(t, "told")
    /\ UNCHANGED <<list, killLock, meeting, tasks>>

ReleaseShared(t) ==
    /\ At(t, "told")
    /\ registry' = [registry EXCEPT !.readers = @ \ {t}]
    /\ Goto(t, IF op[t] = "kill" THEN "aim" ELSE "cas")
    /\ UNCHANGED <<list, killLock, meeting, tasks>>

\* The writer bit is claimed first and stops new readers.
ClaimRegistry(t) ==
    /\ At(t, "claim") /\ registry.writer = None
    /\ registry' = [registry EXCEPT !.writer = t]
    /\ Goto(t, "drain")
    /\ UNCHANGED <<list, killLock, meeting, tasks>>

DrainReaders(t) ==
    /\ At(t, "drain") /\ registry.readers = {}
    /\ Goto(t, "write")
    /\ UNCHANGED <<locks, meeting, tasks>>

\* selected_worker_is_final_runtime_task and its twin for the initial thread:
\* no other task is active; a control linked before its clone counts.
IsFinal(t) == \A u \in Threads \ {t} : task[u] \notin {"linked", "active"}

\* What each exclusive holder does before it releases the registry: publish
\* or withdraw the new control, commit the exit, or change some other record.
WriteRegistry(t) ==
    /\ At(t, "write")
    /\ registry' = [registry EXCEPT !.writer = None]
    /\ \/ /\ op[t] = "create"
          /\ task' = [task EXCEPT ![arg[t]] = "linked"]
          /\ Goto(t, "clone")
       \/ /\ op[t] = "withdraw"
          /\ task' = [task EXCEPT ![arg[t]] = "none"]
          /\ Goto(t, "unlock")
       \/ /\ op[t] = "exit"
          /\ task' = [task EXCEPT ![t] = "committed"]
          /\ Goto(t, IF IsFinal(t) THEN "unlock" ELSE "retire")
       \/ /\ op[t] = "update"
          /\ Goto(t, "idle")
          /\ UNCHANGED task
    /\ op' = IF op[t] = "exit" /\ IsFinal(t) THEN [op EXCEPT ![t] = "final"] ELSE op
    /\ UNCHANGED <<list, killLock, meeting, arg, calls>>

-----------------------------------------------------------------------------
(* The thread-list lock *)

\* Where the holder goes on.
Inside(t) == IF op[t] \in Meetings THEN "start" ELSE "claim"

LockThreadList(t) ==
    /\ At(t, "cas")
    /\ \/ /\ list.owner = None
          /\ list' = [list EXCEPT !.owner = t]
          /\ Goto(t, Inside(t))
       \/ /\ list.owner # None
          /\ list' = [list EXCEPT !.seen[t] = list.owner]
          /\ Goto(t, "add")
    /\ UNCHANGED <<registry, killLock, meeting, tasks>>

AddWaiter(t) ==
    /\ At(t, "add")
    /\ list' = [list EXCEPT !.waiters = @ + 1]
    /\ Goto(t, "futex")
    /\ UNCHANGED <<registry, killLock, meeting, tasks>>

\* The reload before FUTEX_WAIT makes the same comparison once more.
FutexWait(t) ==
    /\ At(t, "futex")
    /\ Goto(t, IF list.owner = list.seen[t] THEN "asleep" ELSE "sub")
    /\ UNCHANGED <<locks, meeting, tasks>>

SubWaiter(t) ==
    /\ At(t, "sub")
    /\ list' = [list EXCEPT !.waiters = @ - 1, !.seen[t] = None]
    /\ Goto(t, "cas")
    /\ UNCHANGED <<registry, killLock, meeting, tasks>>

\* unlock_thread_list; its last instruction is the FUTEX_WAKE of "hint".
UnlockThreadList(t) ==
    /\ At(t, "unlock")
    /\ list' = [list EXCEPT !.owner = None]
    /\ Goto(t, "hint")
    /\ UNCHANGED <<registry, killLock, meeting, tasks>>

\* The caller of a rendezvous restores its mask, a committed task leaves through
\* SYS_exit, the last one runs exit(0).
WakeOne(t) ==
    /\ At(t, "hint")
    /\ LET next == IF op[t] = "final" THEN "final" ELSE "idle"
           sleepers == {u \in Threads : At(u, "asleep")}
       IN  IF list.waiters = 0 \/ sleepers = {}
           THEN Goto(t, next)
           ELSE \E u \in sleepers :
                    /\ pc' = [pc EXCEPT ![t] = next, ![u] = "sub"]
                    /\ UNCHANGED hpc
    /\ task' = IF op[t] = "exit" THEN [task EXCEPT ![t] = "none"] ELSE task
    /\ UNCHANGED <<locks, meeting, op, arg, calls>>

-----------------------------------------------------------------------------
(* Creation, exit and pthread_kill *)

\* The clone of create_selected_worker_with_attributes; when it fails the
\* control is withdrawn before the list lock is released.
Clone(t) ==
    /\ At(t, "clone")
    /\ \/ /\ task' = [task EXCEPT ![arg[t]] = "active"]
          /\ Goto(t, "unlock")
          /\ UNCHANGED op
       \/ /\ op' = [op EXCEPT ![t] = "withdraw"]
          /\ Goto(t, "claim")
          /\ UNCHANGED task
    /\ UNCHANGED <<locks, meeting, arg, calls>>

\* retire_selected_worker_signal_target: the record loses its TID.
Retire(t) ==
    /\ At(t, "retire") /\ killLock[t] = None
    /\ Goto(t, "unlock")
    /\ UNCHANGED <<locks, meeting, tasks>>

Aim(t) ==
    /\ At(t, "aim") /\ killLock[arg[t]] = None
    /\ killLock' = [killLock EXCEPT ![arg[t]] = t]
    /\ Goto(t, "shot")
    /\ UNCHANGED <<list, registry, meeting, tasks>>

Shoot(t) ==
    /\ At(t, "shot")
    /\ killLock' = [killLock EXCEPT ![arg[t]] = None]
    /\ Goto(t, "idle")
    /\ UNCHANGED <<list, registry, meeting, tasks>>

-----------------------------------------------------------------------------
(* The caller of a rendezvous or a broadcast *)

\* Every signal is blocked, the semaphores are reset, the handler is installed.
\* The broadcast gives up when that fails.
Start(t) ==
    /\ At(t, "start")
    /\ \/ /\ op[t] = "synccall"
          /\ sem' = [sem EXCEPT !["target"] = 0, !["caller"] = 0, !["exit"] = 0]
          /\ callback' = "user"
          /\ action' = "handler"
          /\ Goto(t, "collect")
       \/ /\ op[t] = "membarrier"
          /\ sem' = [sem EXCEPT !["barrier"] = 0]
          /\ \/ action' = "broadcast" /\ Goto(t, "collect")
             \/ UNCHANGED action /\ Goto(t, "unlock")
          /\ UNCHANGED callback
    /\ frame' = [NoFrame EXCEPT !.run = "user"]
    /\ ran' = [u \in Threads |-> 0]
    /\ UNCHANGED <<pending, targetTid, locks, tasks>>

\* TargetList::collect, under a shared hold of the registry that nothing can
\* interrupt; a long list may not be mapped.
Collect(t) ==
    /\ At(t, "collect") /\ registry.writer = None
    /\ \/ /\ frame' = [frame EXCEPT !.todo = Active \ {t}]
          /\ Goto(t, "signal")
       \/ /\ frame' = [frame EXCEPT !.run = "dummy"]
          /\ Goto(t, "serial")
    /\ UNCHANGED <<action, pending, sem, targetTid, callback, ran, locks, tasks>>

\* Fault: an aborted rendezvous spares the caller only.
SignalHalf(t) ==
    /\ At(t, "signal") /\ op[t] = "synccall"
    /\ \/ \E u \in frame.todo :
            /\ frame' = [frame EXCEPT !.todo = @ \ {u}]
            /\ targetTid' = u
            /\ pending' = pending \cup {u}
            /\ Goto(t, "catch")
       \/ /\ frame' = [frame EXCEPT !.todo = {}, !.left = frame.count,
                            !.run = IF frame.todo = {} THEN @ ELSE "dummy"]
          /\ targetTid' = None
          /\ Goto(t, "serial")
          /\ UNCHANGED pending
    /\ UNCHANGED <<callback, action, sem, ran, locks, tasks>>

\* synccall signals one target, and waits until it is caught before the next; a
\* tkill that fails turns the callback into a no-op.
Signal(t) ==
    /\ At(t, "signal") /\ op[t] = "synccall"
    /\ \/ \E u \in frame.todo :
            /\ frame' = [frame EXCEPT !.todo = @ \ {u}]
            /\ targetTid' = u
            /\ pending' = pending \cup {u}
            /\ Goto(t, "catch")
            /\ UNCHANGED callback
       \/ /\ frame.todo # {}
          /\ frame' = [frame EXCEPT !.todo = {}, !.run = "dummy", !.left = frame.count]
          /\ callback' = "dummy"
          /\ targetTid' = None
          /\ Goto(t, "serial")
          /\ UNCHANGED pending
       \/ /\ frame.todo = {}
          /\ frame' = [frame EXCEPT !.left = frame.count]
          /\ targetTid' = None
          /\ Goto(t, "serial")
          /\ UNCHANGED <<callback, pending>>
    /\ UNCHANGED <<action, sem, ran, locks, tasks>>

Catch(t) ==
    /\ At(t, "catch")
    /\ Take("caller")
    /\ frame' = [frame EXCEPT !.count = @ + 1]
    /\ Goto(t, "signal")
    /\ UNCHANGED <<action, pending, targetTid, callback, ran, locks, tasks>>

\* The broadcast signals every target at once, and waits for as many as the
\* kernel accepted a signal for.
Broadcast(t) ==
    /\ At(t, "signal") /\ op[t] = "membarrier"
    /\ \/ \E u \in frame.todo :
            \/ /\ frame' = [frame EXCEPT !.todo = @ \ {u}, !.left = @ + 1]
               /\ pending' = pending \cup {u}
               /\ UNCHANGED pc
            \/ /\ frame' = [frame EXCEPT !.todo = @ \ {u}]
               /\ UNCHANGED <<pending, pc>>
       \/ /\ frame.todo = {}
          /\ pc' = [pc EXCEPT ![t] = "serial"]
          /\ UNCHANGED <<frame, pending>>
    /\ UNCHANGED <<hpc, action, sem, targetTid, callback, ran, locks, tasks>>

\* Fault: the caller runs the callback when the targets have been caught.
SerializeLast(t) ==
    /\ At(t, "serial")
    /\ \/ /\ op[t] = "synccall"
          /\ sem' = [sem EXCEPT !["target"] = @ + frame.left]
          /\ Goto(t, "self")
          /\ UNCHANGED <<action, frame>>
       \/ /\ frame.left > 0 /\ op[t] = "membarrier"
          /\ Take("barrier")
          /\ frame' = [frame EXCEPT !.left = @ - 1]
          /\ UNCHANGED <<pc, hpc, action>>
       \/ /\ frame.left = 0 /\ op[t] = "membarrier"
          /\ action' = "ignore"
          /\ Goto(t, "unlock")
          /\ UNCHANGED <<sem, frame>>
    /\ UNCHANGED <<pending, targetTid, callback, ran, locks, tasks>>

\* One target at a time runs the callback.  When all have, or all broadcast
\* handlers have answered, the signal is ignored again.
Serialize(t) ==
    /\ At(t, "serial")
    /\ \/ /\ frame.left > 0 /\ op[t] = "synccall"
          /\ Post("target")
          /\ Goto(t, "served")
          /\ UNCHANGED <<action, frame>>
       \/ /\ frame.left > 0 /\ op[t] = "membarrier"
          /\ Take("barrier")
          /\ frame' = [frame EXCEPT !.left = @ - 1]
          /\ UNCHANGED <<pc, hpc, action>>
       \/ /\ frame.left = 0
          /\ action' = "ignore"
          /\ Goto(t, IF op[t] = "synccall" THEN "self" ELSE "unlock")
          /\ UNCHANGED <<sem, frame>>
    /\ UNCHANGED <<pending, targetTid, callback, ran, locks, tasks>>

Served(t) ==
    /\ At(t, "served")
    /\ Take("caller")
    /\ frame' = [frame EXCEPT !.left = @ - 1]
    /\ Goto(t, "serial")
    /\ UNCHANGED <<action, pending, targetTid, callback, ran, locks, tasks>>

\* The caller runs the callback last, then releases everyone.
RunSelf(t) ==
    /\ At(t, "self")
    /\ ran' = IF frame.run = "user" THEN [ran EXCEPT ![t] = @ + 1] ELSE ran
    /\ sem' = [sem EXCEPT !["exit"] = @ + frame.count]
    /\ frame' = [frame EXCEPT !.left = frame.count]
    /\ Goto(t, "leave")
    /\ UNCHANGED <<action, pending, targetTid, callback, locks, tasks>>

\* Fault: the caller does not wait for the last answer of its targets.
LeaveAtOnce(t) ==
    /\ At(t, "leave")
    /\ Goto(t, "unlock")
    /\ UNCHANGED <<meeting, locks, tasks>>

\* Each target has said that it will not touch the shared state again.
Leave(t) ==
    /\ At(t, "leave")
    /\ \/ /\ frame.left > 0
          /\ Take("caller")
          /\ frame' = [frame EXCEPT !.left = @ - 1]
          /\ UNCHANGED <<pc, hpc>>
       \/ /\ frame.left = 0
          /\ Goto(t, "unlock")
          /\ UNCHANGED <<sem, frame>>
    /\ UNCHANGED <<action, pending, targetTid, callback, ran, locks, tasks>>

-----------------------------------------------------------------------------
(* The interrupted threads *)

\* Fault: pthread_kill blocks every signal, as musl's does.
BlockedInKill(t) ==
    \/ hpc[t] # "none"
    \/ op[t] = "kill" /\ pc[t] \in {"ask", "told", "aim", "shot"}
    \/ op[t] \in Meetings /\ pc[t] \in {"collect", "signal", "catch", "serial",
                            "served", "self", "leave", "unlock", "hint"}

\* SIGSYNCCALL is blocked in its own handler, and from the acquisition of the
\* list lock by a caller of synccall or membarrier until it restores its mask.
Blocked(t) ==
    \/ hpc[t] # "none"
    \/ op[t] \in Meetings /\ pc[t] \in {"collect", "signal", "catch", "serial",
                            "served", "self", "leave", "unlock", "hint"}

\* The kernel delivers the signal: handler, broadcast_barrier, or nothing.  An
\* interrupted FUTEX_WAIT starts again after the handler.
Deliver(t) ==
    /\ t \in pending /\ ~Blocked(t) /\ task[t] = "active"
    /\ pending' = pending \ {t}
    /\ pc' = IF pc[t] = "asleep" THEN [pc EXCEPT ![t] = "futex"] ELSE pc
    /\ IF action = "handler" /\ targetTid = t
       THEN Post("caller") /\ hpc' = [hpc EXCEPT ![t] = "target"]
       ELSE IF action = "broadcast" THEN Post("barrier") /\ UNCHANGED hpc
       ELSE UNCHANGED <<sem, hpc>>
    /\ UNCHANGED <<action, targetTid, callback, frame, ran, locks, tasks>>

Caught(t) ==
    /\ hpc[t] = "target"
    /\ Take("target")
    /\ hpc' = [hpc EXCEPT ![t] = "call"]
    /\ UNCHANGED <<pc, action, pending, targetTid, callback, frame, ran, locks, tasks>>

RunCallback(t) ==
    /\ hpc[t] = "call"
    /\ ran' = IF callback = "user" THEN [ran EXCEPT ![t] = @ + 1] ELSE ran
    /\ Post("caller")
    /\ hpc' = [hpc EXCEPT ![t] = "exit"]
    /\ UNCHANGED <<pc, action, pending, targetTid, callback, frame, locks, tasks>>

LeaveHandler(t) ==
    /\ hpc[t] = "exit" /\ sem["exit"] > 0
    /\ sem' = [sem EXCEPT !["exit"] = @ - 1, !["caller"] = @ + 1]
    /\ hpc' = [hpc EXCEPT ![t] = "none"]
    /\ UNCHANGED <<pc, action, pending, targetTid, callback, frame, ran, locks, tasks>>

-----------------------------------------------------------------------------

Step(t) ==
    \/ ReadRegistry(t) \/ ReleaseShared(t)
    \/ ClaimRegistry(t) \/ DrainReaders(t) \/ WriteRegistry(t)
    \/ LockThreadList(t) \/ AddWaiter(t) \/ FutexWait(t) \/ SubWaiter(t)
    \/ UnlockThreadList(t) \/ WakeOne(t)
    \/ Clone(t) \/ Retire(t) \/ Aim(t) \/ Shoot(t)
    \/ Start(t) \/ Collect(t) \/ Signal(t) \/ Catch(t) \/ Broadcast(t)
    \/ Serialize(t) \/ Served(t) \/ RunSelf(t) \/ Leave(t)

Handle(t) == Deliver(t) \/ Caught(t) \/ RunCallback(t) \/ LeaveHandler(t)

Next == \E t \in Threads : Call(t) \/ Step(t) \/ Handle(t)

\* While some thread can go on, or some signal can be delivered, one does.  (A
\* turn of a spin loop that finds its lock taken is not a step.)
Fairness == WF_vars(\E t \in Threads : Step(t) \/ Handle(t))

Spec == Init /\ [][Next]_vars

FairSpec == Spec /\ Fairness

-----------------------------------------------------------------------------

\* The callback runs alone, with the world stopped: while a caught thread or the
\* caller is about to run it, every other task that still runs code of its own
\* is held in the handler.
WorldStops ==
    \A t \in Threads :
        (hpc[t] = "call" /\ callback = "user") \/ (pc[t] = "self" /\ frame.run = "user") =>
            \A u \in Active \ {t} :
                /\ hpc[u] \in {"target", "exit"} \/ list.owner = u
                /\ pc[u] # "self"

\* When synccall returns, every live task has run the callback exactly once, or
\* the rendezvous was aborted and no task has: credentials never differ between
\* threads.
AllOrNone ==
    \A t \in Threads :
        op[t] = "synccall" /\ pc[t] \in {"leave", "unlock"} =>
            \/ \A u \in Active : ran[u] = 1
            \/ \A u \in Threads : ran[u] = 0

\* The lock holder only ever signals tasks that are alive: none of its targets
\* has committed its exit or been released since they were collected.
TargetsStayAlive == frame.todo \cup pending \subseteq Active

\* A rendezvous leaves nothing behind for the next one: while nobody holds the
\* list lock no thread is caught, no signal pending, every semaphore at zero.
NothingLeftBehind ==
    list.owner = None =>
        /\ pending = {}
        /\ \A t \in Threads : hpc[t] = "none"
        /\ \A s \in DOMAIN sem : sem[s] = 0

\* Every call ends: two callers, a caller and a thread that waits for the
\* registry, or a caller and an exiting thread, never wait for each other.
CallsEnd ==
    <>[](\A t \in Threads : pc[t] \in {"idle", "final"} /\ hpc[t] = "none")

=============================================================================
