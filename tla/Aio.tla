-------------------------------- MODULE Aio ---------------------------------
(***************************************************************************)
(* owned_aio.rs: asynchronous I/O on one descriptor number.  A request has *)
(* a detached worker thread and a record on that worker's stack, linked in *)
(* the descriptor's queue; the queue is found through a map and freed with *)
(* its last reference.  The users submit requests, cancel them (one or     *)
(* all), close the descriptor and wait for completions.                    *)
(*                                                                         *)
(* The queue mutex, its condition variable and the map's read-write lock   *)
(* are taken as correct (PthreadMutex, PthreadCond, PthreadRwlock).  What  *)
(* happens under the queue mutex alone is one step.  A closed descriptor   *)
(* number is open again at once, as another file.                          *)
(***************************************************************************)
EXTENDS Integers, Sequences, SequencesExt, FiniteSets, FiniteSetsExt

CONSTANTS
    Users,      \* the application's threads
    Reqs,       \* the requests: each one a control block, a worker and its record
    Queues,     \* the queue allocations
    Ops,        \* the operations considered, among "read", "write", "sync"
    MaxCalls,   \* bound: how many calls the users make
    None

Actors == Users \cup Reqs

VARIABLES
    slot,       \* the map's entry for the descriptor: a queue or None
    writer, readers,    \* the map's lock
    lock,       \* the holder of each queue's mutex
    refs, list, \* each queue's references and nodes, newest first
    life,       \* "unused", "live" or "freed", for each queue
    append,     \* whether each queue's file appends, once its first worker has asked
    pc,         \* where each user and each worker is
    queue,      \* the queue an actor works on
    op,         \* a request's operation
    running, pins,      \* a worker's running and cancel_waiters
    pending,    \* the workers with a pending cancellation
    word,       \* a control block's error word: in progress (marked by a waiter) or over
    futex,      \* AIO_FUTEX: None or the thread that set it
    call,       \* a user's call
    target,     \* the list of the requests it is about
    worker,     \* the worker that a canceller has pinned, or the word a waiter sleeps on
    calls,      \* how many calls were made
    astray,     \* history: requests whose descriptor was closed during the submission
    missed,     \* history: a cancel has returned before a request it was to end
    prior       \* history: the unfinished writes submitted before each write or sync

queueVars == <<lock, refs, list, life, append>>
mapVars == <<slot, writer, readers>>
workerVars == <<op, running, pins, pending, word, futex>>
userVars == <<call, target, worker, calls, astray, missed, prior>>
vars == <<mapVars, queueVars, pc, queue, workerVars, userVars>>

\* A user:    look, create, enter     get_queue
\*            clone, handoff          submit
\*            await, parked, relock, walk     aio_cancel, at a pinned worker
\*            detach, detachq         close
\*            suspend, mark, recheck, futex, asleep     aio_suspend
\* A worker:  new, start, cond, condlock, io    io_thread
\*            clean, publish, complete, unlink, drain, dparked, drainlock
\*                                    cleanup_worker
\* Both:      unref, umap, uqueue     unref_queue
UserLabels == {"idle", "look", "create", "enter", "clone", "handoff", "await", "parked",
               "relock", "walk", "detach", "detachq", "suspend", "mark", "recheck",
               "futex", "asleep"}
WorkerLabels == {"new", "start", "cond", "condlock", "io", "clean", "publish",
                 "complete", "unlink", "drain", "dparked", "drainlock", "gone"}
UnrefLabels == {"unref", "umap", "uqueue"}

\* A file that cannot seek, or was opened with O_APPEND, or neither.
Files == {"appends", "positions"}

TypeOK ==
    /\ slot \in Queues \cup {None}
    /\ writer \in Actors \cup {None} /\ readers \subseteq Users
    /\ lock \in [Queues -> Actors \cup {None}]
    /\ refs \in [Queues -> 0..Cardinality(Actors)]
    /\ list \in [Queues -> Seq(Actors)]
    /\ life \in [Queues -> {"unused", "live", "freed"}]
    /\ append \in [Queues -> {"unread"} \cup Files]
    /\ \A u \in Users : pc[u] \in UserLabels \cup UnrefLabels
    /\ \A r \in Reqs : pc[r] \in WorkerLabels \cup UnrefLabels
    /\ queue \in [Actors -> Queues \cup {None}]
    /\ op \in [Reqs -> {"none", "read", "write", "sync"}]
    /\ running \in [Reqs -> {-1, 0, 1}]
    /\ pins \in [Reqs -> 0..Cardinality(Users)]
    /\ pending \subseteq Reqs
    /\ word \in [Reqs -> {"none", "inprogress", "marked", "over"}]
    /\ futex \in Users \cup {None}
    /\ call \in [Users -> {"none", "submit", "cancel", "cancelone", "close", "any", "all"}]
    /\ target \in [Users -> Seq(Reqs)]
    /\ worker \in [Users -> Reqs \cup Users \cup {None}]
    /\ calls \in 0..MaxCalls
    /\ astray \subseteq Reqs
    /\ missed \in BOOLEAN
    /\ prior \in [Reqs -> SUBSET Reqs]

Init ==
    /\ slot = None /\ writer = None /\ readers = {}
    /\ lock = [q \in Queues |-> None]
    /\ refs = [q \in Queues |-> 0]
    /\ list = [q \in Queues |-> <<>>]
    /\ life = [q \in Queues |-> "unused"]
    /\ append = [q \in Queues |-> "unread"]
    /\ pc = [a \in Actors |-> IF a \in Users THEN "idle" ELSE "new"]
    /\ queue = [a \in Actors |-> None]
    /\ op = [r \in Reqs |-> "none"]
    /\ running = [r \in Reqs |-> 1]
    /\ pins = [r \in Reqs |-> 0]
    /\ pending = {}
    /\ word = [r \in Reqs |-> "none"]
    /\ futex = None
    /\ call = [u \in Users |-> "none"]
    /\ target = [u \in Users |-> <<>>]
    /\ worker = [u \in Users |-> None]
    /\ calls = 0
    /\ astray = {}
    /\ missed = FALSE
    /\ prior = [r \in Reqs |-> {}]

Goto(a, label) == pc' = [pc EXCEPT ![a] = label]

Completed(r) == word[r] = "over"

\* The end of a user's call.
Return(u) ==
    /\ Goto(u, "idle")
    /\ call' = [call EXCEPT ![u] = "none"]
    /\ target' = [target EXCEPT ![u] = <<>>]
    /\ worker' = [worker EXCEPT ![u] = None]
    /\ queue' = [queue EXCEPT ![u] = None]
    /\ UNCHANGED calls

Stay(u, label) ==
    /\ Goto(u, label)
    /\ UNCHANGED <<call, target, worker, queue, calls>>

\* What a cancel leaves behind when it returns.
Judge(u) == missed' = (missed \/ \E r \in ToSet(target[u]) \ astray : ~Completed(r))

-----------------------------------------------------------------------------
(* get_queue *)

\* Under the map's read lock: with a queue the lock is kept until the queue's
\* mutex is taken; without one a submission goes for the write lock.
Look(u) ==
    /\ pc[u] = "look"
    /\ writer = None
    /\ \/ /\ slot # None
          /\ readers' = readers \cup {u}
          /\ queue' = [queue EXCEPT ![u] = slot]
          /\ Goto(u, "enter")
          /\ UNCHANGED userVars
       \/ /\ slot = None /\ call[u] = "submit"
          /\ Stay(u, "create")
          /\ UNCHANGED <<readers, astray, missed, prior>>
       \/ /\ slot = None /\ call[u] \in {"cancel", "cancelone"}      \* AIO_ALLDONE
          /\ Return(u)
          /\ Judge(u)
          /\ UNCHANGED <<readers, astray, prior>>
       \/ /\ slot = None /\ call[u] = "close"
          /\ Stay(u, "detach")
          /\ UNCHANGED <<readers, astray, missed, prior>>
    /\ UNCHANGED <<slot, writer, queueVars, workerVars>>

\* Under the write lock: the queue that is there by now, or a new one.
Create(u) ==
    /\ pc[u] = "create"
    /\ writer = None /\ readers = {}
    /\ writer' = u
    /\ IF slot # None
       THEN /\ queue' = [queue EXCEPT ![u] = slot]
            /\ UNCHANGED <<slot, life>>
       ELSE LET q == CHOOSE q \in Queues : life[q] = "unused"
            IN  /\ life' = [life EXCEPT ![q] = "live"]
                /\ slot' = q
                /\ queue' = [queue EXCEPT ![u] = q]
    /\ Goto(u, "enter")
    /\ UNCHANGED <<readers, lock, refs, list, append, workerVars, userVars>>

\* The map's lock is given back once the queue's mutex is held.
LeaveMap(u) ==
    /\ readers' = readers \ {u}
    /\ writer' = IF writer = u THEN None ELSE writer
    /\ UNCHANGED slot

-----------------------------------------------------------------------------
(* submit *)

Refer(u) ==
    /\ pc[u] = "enter" /\ call[u] = "submit"
    /\ lock[queue[u]] = None
    /\ LeaveMap(u)
    /\ refs' = [refs EXCEPT ![queue[u]] = @ + 1]
    /\ Stay(u, "clone")
    /\ UNCHANGED <<lock, list, life, append, workerVars, astray, missed, prior>>

\* EINPROGRESS, then the worker, or EAGAIN and the way back.
Clone(u) ==
    /\ pc[u] = "clone"
    /\ LET r == Head(target[u])
       IN  /\ word' = [word EXCEPT ![r] = "inprogress"]
           /\ \/ /\ pc' = [pc EXCEPT ![u] = "handoff", ![r] = "start"]
                 /\ queue' = [queue EXCEPT ![r] = queue[u]]
              \/ /\ Goto(u, "unref")
                 /\ UNCHANGED queue
    /\ UNCHANGED <<mapVars, queueVars, op, running, pins, pending, futex, userVars>>

\* The semaphore that the worker posts under the queue's mutex.
Handoff(u) ==
    /\ pc[u] = "handoff"
    /\ pc[Head(target[u])] # "start"
    /\ Return(u)
    /\ UNCHANGED <<mapVars, queueVars, workerVars, astray, missed, prior>>

-----------------------------------------------------------------------------
(* io_thread *)

\* A sync, or a write to a file that appends, waits for the writes before it.
MustWait(r, file, nodes) ==
    /\ op[r] # "read" /\ (op[r] # "write" \/ file = "appends")
    /\ \E n \in ToSet(nodes) \cap Reqs : op[n] = "write"

\* Posting, linking, what the first worker finds out about the file, and the first
\* look at the predecessors.
Start(r) ==
    LET q == queue[r]
    IN  /\ pc[r] = "start"
        /\ lock[q] = None
        /\ list' = [list EXCEPT ![q] = <<r>> \o @]
        /\ \E file \in Files :
            append' = [append EXCEPT ![q] = IF @ = "unread" THEN file ELSE @]
        /\ Goto(r, IF MustWait(r, append'[q], list[q]) THEN "cond" ELSE "io")
        /\ UNCHANGED <<mapVars, lock, refs, life, queue, workerVars, userVars>>

\* The nodes older than r.
Older(r, nodes) == SubSeq(nodes, SelectInSeq(nodes, LAMBDA n : n = r) + 1, Len(nodes))

\* Fault: the worker takes the broadcast for its turn.
RecheckOnce(r) ==
    LET q == queue[r]
    IN  /\ pc[r] = "condlock"
        /\ lock[q] = None
        /\ Goto(r, "io")
        /\ UNCHANGED <<mapVars, queueVars, queue, workerVars, userVars>>

\* The wait for the condition has returned with the mutex.
Recheck(r) ==
    LET q == queue[r]
    IN  /\ pc[r] = "condlock"
        /\ lock[q] = None
        /\ Goto(r, IF MustWait(r, append[q], Older(r, list[q])) THEN "cond" ELSE "io")
        /\ UNCHANGED <<mapVars, queueVars, queue, workerVars, userVars>>

\* A cancelled wait for the condition takes the mutex again before the cleanup.
CancelWait(r) ==
    /\ pc[r] = "cond" /\ r \in pending
    /\ lock[queue[r]] = None
    /\ lock' = [lock EXCEPT ![queue[r]] = r]
    /\ Goto(r, "publish")
    /\ UNCHANGED <<mapVars, refs, list, life, append, queue, workerVars, userVars>>

\* The system call ends by itself.
DoIO(r) ==
    /\ pc[r] = "io"
    /\ Goto(r, "clean")
    /\ UNCHANGED <<mapVars, queueVars, queue, op, running, pins, pending, word, futex,
                   userVars>>

\* The system call is a cancellation point.
CancelIO(r) ==
    /\ pc[r] = "io" /\ r \in pending
    /\ Goto(r, "clean")
    /\ UNCHANGED <<mapVars, queueVars, queue, workerVars, userVars>>

-----------------------------------------------------------------------------
(* cleanup_worker: the stores that others see without the mutex are made one *)
(* by one, with the mutex held.                                              *)

\* Fault: the worker publishes before it takes the mutex, as the original did.
CleanLate(r) ==
    /\ pc[r] = "clean"
    /\ Goto(r, "publish")
    /\ UNCHANGED <<mapVars, queueVars, queue, workerVars, userVars>>

Clean(r) ==
    /\ pc[r] = "clean"
    /\ lock[queue[r]] = None
    /\ lock' = [lock EXCEPT ![queue[r]] = r]
    /\ Goto(r, "publish")
    /\ UNCHANGED <<mapVars, refs, list, life, append, queue, workerVars, userVars>>

\* running becomes 0; a canceller that waits for it is woken.
Publish(r) ==
    /\ pc[r] = "publish"
    /\ running' = [running EXCEPT ![r] = 0]
    /\ pc' = [a \in Actors |->
                IF a = r THEN "complete"
                ELSE IF a \in Users /\ pc[a] = "parked" /\ worker[a] = r THEN "await"
                ELSE pc[a]]
    /\ UNCHANGED <<mapVars, queueVars, queue, op, pins, pending, word, futex,
                   userVars>>

\* The users asleep on a word, woken.
Woken(w) == {u \in Users : pc[u] = "asleep" /\ worker[u] = w}

Complete(r) ==
    /\ pc[r] = "complete"
    /\ word' = [word EXCEPT ![r] = "over"]
    /\ astray' = astray \ {r}
    /\ prior' = [n \in Reqs |-> IF n = r THEN {} ELSE prior[n] \ {r}]
    /\ pc' = [a \in Actors |->
                IF a = r THEN "unlink"
                ELSE IF word[r] = "marked" /\ a \in Woken(r) THEN "suspend"
                ELSE pc[a]]
    /\ UNCHANGED <<mapVars, queueVars, queue, op, running, pins, pending, futex,
                   call, target, worker, calls, missed>>

\* AIO_FUTEX is cleared, for those who wait for several requests; then, out of
\* sight behind the mutex, the record leaves the queue and those after it look again.
Unlink(r) ==
    LET q == queue[r]
    IN  /\ pc[r] = "unlink"
        /\ futex' = None
        /\ list' = [list EXCEPT ![q] = SelectSeq(@, LAMBDA n : n # r)]
        /\ lock' = [lock EXCEPT ![q] = IF pins[r] = 0 THEN @ ELSE None]
        /\ pc' = [a \in Actors |->
                    IF a = r THEN IF pins[r] = 0 THEN "unref" ELSE "drain"
                    ELSE IF \E u \in Users : futex # None /\ a \in Woken(u) THEN "suspend"
                    ELSE IF pc[a] = "cond" /\ queue[a] = q THEN "condlock"
                    ELSE pc[a]]
        /\ UNCHANGED <<mapVars, refs, life, append, queue, op, running, pins, pending, word,
                       userVars>>

Drain(r) ==
    /\ pc[r] = "drain"
    /\ Goto(r, IF pins[r] = 0 THEN "drainlock" ELSE "dparked")
    /\ UNCHANGED <<mapVars, queueVars, queue, workerVars, userVars>>

DrainLock(r) ==
    /\ pc[r] = "drainlock"
    /\ lock[queue[r]] = None
    /\ IF pins[r] = 0
       THEN lock' = [lock EXCEPT ![queue[r]] = r] /\ Goto(r, "unref")
       ELSE UNCHANGED lock /\ Goto(r, "drain")
    /\ UNCHANGED <<mapVars, refs, list, life, append, queue, workerVars, userVars>>

-----------------------------------------------------------------------------
(* unref_queue, by a worker or by a submission without one *)

\* A submission without a worker stores its error now; a worker that is gone leaves
\* only its control block.
Ended(a) ==
    IF a \in Users
    THEN /\ word' = [word EXCEPT ![Head(target[a])] = "over"]
         /\ Return(a)
         /\ UNCHANGED pending
    ELSE /\ Goto(a, "gone")
         /\ queue' = [queue EXCEPT ![a] = None]
         /\ pending' = pending \ {a}
         /\ UNCHANGED <<word, call, target, worker, calls>>

Unref(a) ==
    LET q == queue[a]
    IN  /\ pc[a] = "unref"
        /\ lock[q] \in {None, a}
        /\ lock' = [lock EXCEPT ![q] = None]
        /\ \/ /\ refs[q] > 1
              /\ refs' = [refs EXCEPT ![q] = @ - 1]
              /\ Ended(a)
           \/ /\ refs[q] <= 1
              /\ Goto(a, "umap")
              /\ UNCHANGED <<refs, queue, pending, word, call, target, worker, calls>>
        /\ UNCHANGED <<mapVars, list, life, append, op, running, pins, futex, astray,
                       missed, prior>>

UnrefMap(a) ==
    /\ pc[a] = "umap"
    /\ writer = None /\ readers = {}
    /\ writer' = a
    /\ Goto(a, "uqueue")
    /\ UNCHANGED <<slot, readers, queueVars, queue, workerVars, userVars>>

\* Fault: a queue that a close has detached from the map is not freed.
UnrefVisibleQueue(a) ==
    LET q == queue[a]
    IN  /\ pc[a] = "uqueue"
        /\ lock[q] = None
        /\ writer' = None
        /\ refs' = [refs EXCEPT ![q] = @ - 1]
        /\ IF refs[q] = 1 /\ slot = q
           THEN slot' = None /\ life' = [life EXCEPT ![q] = "freed"]
           ELSE UNCHANGED <<slot, life>>
        /\ Ended(a)
        /\ UNCHANGED <<readers, lock, list, append, op, running, pins, futex, astray,
                       missed, prior>>

\* The last reference frees the queue; the slot is cleared only if it still has it.
UnrefQueue(a) ==
    LET q == queue[a]
    IN  /\ pc[a] = "uqueue"
        /\ lock[q] = None
        /\ writer' = None
        /\ refs' = [refs EXCEPT ![q] = @ - 1]
        /\ life' = [life EXCEPT ![q] = IF refs[q] = 1 THEN "freed" ELSE @]
        /\ slot' = IF refs[q] = 1 /\ slot = q THEN None ELSE slot
        /\ Ended(a)
        /\ UNCHANGED <<readers, lock, list, append, op, running, pins, futex, astray,
                       missed, prior>>
-----------------------------------------------------------------------------
(* aio_cancel and close *)

Without(nodes, n) == SelectSeq(nodes, LAMBDA m : m # n)

Matches(u, r) == call[u] = "cancelone" => r = Head(target[u])

\* advance_cancel_cursor and pin_worker_cancellation, over the whole list: where
\* the next live worker is that the cursor of u has to stop behind.
Stops(u, nodes) ==
    {i \in 1..Len(nodes) :
        /\ nodes[i] \in Reqs
        /\ i > SelectInSeq(nodes, LAMBDA n : n = u)
        /\ Matches(u, nodes[i])
        /\ running[nodes[i]] # 0}

\* One unlocked interval of the traversal to the next, from a list with the
\* cursor in it.
Walk(u, nodes) ==
    LET q == queue[u]
        stops == Stops(u, nodes)
        w == nodes[Min(stops)]
    IN  IF stops = {}
        THEN /\ list' = [list EXCEPT ![q] = Without(nodes, u)]
             /\ IF call[u] = "close" THEN Stay(u, "detach") ELSE Return(u)
             /\ Judge(u)
             /\ UNCHANGED <<running, pins, pending>>
        ELSE /\ list' = [list EXCEPT ![q] = InsertAt(Without(nodes, u), Min(stops), u)]
             /\ running' = [running EXCEPT ![w] = -1]
             /\ pending' = IF running[w] = 1 THEN pending \cup {w} ELSE pending
             /\ pins' = [pins EXCEPT ![w] = @ + 1]
             /\ worker' = [worker EXCEPT ![u] = w]
             /\ Goto(u, "await")
             /\ UNCHANGED <<queue, call, target, calls, missed>>

Enter(u) ==
    /\ pc[u] = "enter" /\ call[u] # "submit"
    /\ lock[queue[u]] = None
    /\ LeaveMap(u)
    /\ Walk(u, <<u>> \o list[queue[u]])
    /\ UNCHANGED <<lock, refs, life, append, op, word, futex, astray, prior>>

\* wait_while_equal on the worker's running.
Await(u) ==
    /\ pc[u] = "await"
    /\ Goto(u, IF running[worker[u]] = -1 THEN "parked" ELSE "relock")
    /\ UNCHANGED <<mapVars, queueVars, queue, workerVars, userVars>>

\* Reading the worker's error, then the queue's mutex again; the last pin wakes the
\* worker.
Relock(u) ==
    LET w == worker[u]
    IN  /\ pc[u] = "relock"
        /\ lock[queue[u]] = None
        /\ lock' = [lock EXCEPT ![queue[u]] = u]
        /\ pins' = [pins EXCEPT ![w] = @ - 1]
        /\ pc' = [a \in Actors |->
                    IF a = u THEN "walk"
                    ELSE IF a = w /\ pins[w] = 1 /\ pc[w] = "dparked" THEN "drain"
                    ELSE pc[a]]
        /\ UNCHANGED <<mapVars, refs, list, life, append, queue, op, running, pending,
                       word, futex, userVars>>

WalkOn(u) ==
    /\ pc[u] = "walk"
    /\ lock' = [lock EXCEPT ![queue[u]] = None]
    /\ Walk(u, list[queue[u]])
    /\ UNCHANGED <<mapVars, refs, life, append, op, word, futex, astray, prior>>

DetachMap(u) ==
    /\ pc[u] = "detach"
    /\ writer = None /\ readers = {}
    /\ IF slot = None
       THEN Return(u) /\ UNCHANGED writer
       ELSE writer' = u /\ Stay(u, "detachq")
    /\ UNCHANGED <<slot, readers, queueVars, workerVars, astray, missed, prior>>

Detach(u) ==
    /\ pc[u] = "detachq"
    /\ lock[slot] = None
    /\ slot' = None
    /\ writer' = None
    /\ Return(u)
    /\ astray' = astray \cup {r \in Reqs : queue[r] = slot /\ ~Completed(r)}
    /\ UNCHANGED <<readers, queueVars, workerVars, missed, prior>>
-----------------------------------------------------------------------------
(* aio_suspend ("any"), and lio_wait ("all"), which drops the completed        *)
(* requests at the head of its list and calls aio_suspend for the rest.  While *)
(* one at the head is in progress and a later one is over, aio_suspend returns *)
(* at once, and lio_wait calls it again.                                       *)

Ends(requests) == \E r \in ToSet(requests) : Completed(r)

Suspend(u) ==
    LET going == {i \in 1..Len(target[u]) : ~Completed(target[u][i])}
        rest == IF call[u] = "any" THEN target[u]
                ELSE SubSeq(target[u], Min(going \cup {Len(target[u]) + 1}), Len(target[u]))
    IN  /\ pc[u] = "suspend"
        /\ IF rest = <<>> \/ (call[u] = "any" /\ Ends(rest))
           THEN Return(u)
           ELSE /\ target' = [target EXCEPT ![u] = rest]
                /\ Goto(u, IF Ends(rest) THEN "suspend" ELSE "mark")
                /\ UNCHANGED <<call, worker, queue, calls>>
        /\ UNCHANGED <<mapVars, queueVars, workerVars, astray, missed, prior>>

\* One request: its own word is marked.  Several: the waiter joins AIO_FUTEX.
Mark(u) ==
    /\ pc[u] = "mark"
    /\ IF Len(target[u]) = 1
       THEN /\ word' = [word EXCEPT ![target[u][1]] = IF @ = "inprogress" THEN "marked" ELSE @]
            /\ worker' = [worker EXCEPT ![u] = target[u][1]]
            /\ Goto(u, "futex")
            /\ UNCHANGED futex
       ELSE /\ futex' = IF futex = None THEN u ELSE futex
            /\ worker' = [worker EXCEPT ![u] = IF futex = None THEN u ELSE futex]
            /\ Goto(u, "recheck")
            /\ UNCHANGED word
    /\ UNCHANGED <<mapVars, queueVars, queue, op, running, pins, pending, call,
                   target, calls, astray, missed, prior>>

\* Fault: nobody looks again after joining AIO_FUTEX.
LookAgainNot(u) ==
    /\ pc[u] = "recheck"
    /\ Goto(u, "futex")
    /\ UNCHANGED <<mapVars, queueVars, queue, workerVars, userVars>>

LookAgain(u) ==
    /\ pc[u] = "recheck"
    /\ Goto(u, IF Ends(target[u]) THEN "suspend" ELSE "futex")
    /\ UNCHANGED <<mapVars, queueVars, queue, workerVars, userVars>>

FutexWait(u) ==
    LET w == worker[u]
    IN  /\ pc[u] = "futex"
        /\ Goto(u, IF (IF w \in Reqs THEN word[w] = "marked" ELSE futex = w)
                   THEN "asleep" ELSE "suspend")
        /\ UNCHANGED <<mapVars, queueVars, queue, workerVars, userVars>>

\* The deadline, a signal or a cancellation.
TimeOut(u) ==
    /\ pc[u] = "asleep"
    /\ Return(u)
    /\ UNCHANGED <<mapVars, queueVars, workerVars, astray, missed, prior>>

-----------------------------------------------------------------------------
(* The users' calls *)

\* The requests that are submitted on the file now open, or are over.
Submitted == {r \in Reqs : pc[r] \notin {"new", "start"} /\ (queue[r] = slot \/ Completed(r))}

Begin(u, c, requests, label) ==
    /\ pc[u] = "idle"
    /\ calls < MaxCalls
    /\ calls' = calls + 1
    /\ call' = [call EXCEPT ![u] = c]
    /\ target' = [target EXCEPT ![u] = requests]
    /\ Goto(u, label)
    /\ UNCHANGED <<mapVars, queueVars, queue, running, pins, pending, word, futex, worker,
                   astray, missed>>

\* Any control block not used yet: they are all alike.
Submit(u) ==
    LET unused == {r \in Reqs : op[r] = "none"}
        r == CHOOSE r \in unused : TRUE
        writes == {w \in Reqs : op[w] = "write" /\ pc[w] \notin {"new", "start"} /\ ~Completed(w)}
    IN  /\ unused # {}
        /\ \E o \in Ops :
            /\ op' = [op EXCEPT ![r] = o]
            /\ prior' = [prior EXCEPT ![r] = IF o = "read" THEN {} ELSE writes]
        /\ Begin(u, "submit", <<r>>, "look")

Cancel(u) ==
    /\ \/ Begin(u, "cancel", SetToSeq(Submitted), "look")
       \/ \E r \in Submitted : Begin(u, "cancelone", <<r>>, "look")
    /\ UNCHANGED <<op, prior>>

Close(u) == Begin(u, "close", SetToSeq(Submitted), "look") /\ UNCHANGED <<op, prior>>

Wait(u) ==
    /\ \/ \E reqs \in SUBSET Submitted \ {{}} : Begin(u, "any", SetToSeq(reqs), "suspend")
       \/ \E reqs \in SUBSET Submitted : \E requests \in SetToSeqs(reqs) :
            /\ Len(requests) > 1         \* one is the same for both
            /\ Begin(u, "all", requests, "suspend")
    /\ UNCHANGED <<op, prior>>

-----------------------------------------------------------------------------

Step ==
    \/ \E u \in Users :
        \/ Look(u) \/ Create(u) \/ Refer(u) \/ Clone(u) \/ Handoff(u)
        \/ Enter(u) \/ Await(u) \/ Relock(u) \/ WalkOn(u) \/ DetachMap(u) \/ Detach(u)
        \/ Suspend(u) \/ Mark(u) \/ LookAgain(u) \/ FutexWait(u)
    \/ \E r \in Reqs :
        \/ Start(r) \/ Recheck(r) \/ CancelWait(r) \/ CancelIO(r)
        \/ Clean(r) \/ Publish(r) \/ Complete(r) \/ Unlink(r)
        \/ Drain(r) \/ DrainLock(r)
    \/ \E a \in Actors : Unref(a) \/ UnrefMap(a) \/ UnrefQueue(a)

Next ==
    \/ Step
    \/ \E u \in Users : Submit(u) \/ Cancel(u) \/ Close(u) \/ Wait(u) \/ TimeOut(u)
    \/ \E r \in Reqs : DoIO(r)

Spec == Init /\ [][Next]_vars

\* The threads go on; a system call that nobody cancels need not end.
FairSpec == Spec /\ WF_vars(Step)

-----------------------------------------------------------------------------

\* Nothing is freed while it is in use, across closes and new submissions, and
\* everything is freed in the end.  A canceller that has left the mutex to wait for
\* a worker, or comes back to unpin it, finds the worker's stack in place; a queue
\* lives while a thread has or will take its mutex, is linked in it, or can find it
\* in the map, and no longer than the last worker and the last call.
LifetimesAreExact ==
    /\ \A u \in Users :
        pc[u] \in {"await", "parked", "relock"} =>
            pc[worker[u]] \notin {"unref", "umap", "uqueue", "gone"}
    /\ slot # None => life[slot] = "live"
    /\ \A a \in Actors :
        /\ a \in Users => (pc[a] \notin {"idle", "handoff", "detach", "detachq"} /\ queue[a] # None
                              => life[queue[a]] = "live")
        /\ a \in Reqs => (pc[a] \notin {"new", "gone"} => life[queue[a]] = "live")
    /\ \A q \in Queues : life[q] = "freed" => list[q] = <<>> /\ lock[q] = None
    /\ (/\ \A u \in Users : pc[u] = "idle"
        /\ \A r \in Reqs : pc[r] \in {"new", "gone"})
       => \A q \in Queues : life[q] # "live"

\* aio_cancel and close return only when the requests that were submitted before
\* the call, and are in its scope, have published their completion (but for those
\* whose submission another thread's close overtook).
CancelIsComplete == ~missed

\* A sync, or a write to a file that appends, does its I/O only when every write to the
\* file that was under way when it was submitted is over.
WritesInOrder ==
    \A r \in Reqs :
        /\ pc[r] = "io"
        /\ op[r] = "sync" \/ (op[r] = "write" /\ append[queue[r]] = "appends")
        => \A w \in prior[r] : queue[w] # queue[r]

\* A wait for requests in progress; lio_wait's, for the first one of its list.
Waits(u) ==
    \/ pc[u] = "asleep" /\ ~Ends(target[u])
    \/ pc[u] = "suspend" /\ call[u] = "all" /\ target[u] # <<>> /\ ~Completed(target[u][1])

Settled(a) ==
    \/ pc[a] \in {"idle", "new", "gone"}
    \/ a \in Users /\ Waits(a)
    \/ pc[a] \in {"io", "cond"} /\ a \notin pending

\* Every call ends, except a wait for requests that are all still in progress and
\* lio_wait's for the first one that is:
\* cancelling a request that waits for its turn does not deadlock with it, two
\* cancellers do not hold each other up, and no completion is missed by a waiter,
\* whether it waits for one request or for several.
CallsEnd == <>[](\A a \in Actors : Settled(a))

=============================================================================
