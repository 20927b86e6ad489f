-------------------------- MODULE ThreadLifecycle --------------------------
(***************************************************************************)
(* pthread_create_join.rs: who owns a worker's control record, from        *)
(* pthread_create to the munmap that a joiner, a reaper of detached        *)
(* workers or a failed creation makes.                                     *)
(*                                                                         *)
(* A control is named by its worker, and every worker is created once.     *)
(* The registry lock makes each lookup, claim and withdrawal one step      *)
(* (Synccall models the lock itself and the thread-list lock).  A handle   *)
(* may be used by any thread at any time after it is known, stale or not:  *)
(* nothing is assumed of the callers.                                      *)
(***************************************************************************)
EXTENDS Naturals, FiniteSets

CONSTANTS
    Workers,    \* the workers the process may create
    Main,       \* the initial thread, whose record is static
    MaxCalls    \* bound: how many calls are made

Tasks == Workers \cup {Main}

VARIABLES
    pc,         \* where each thread is
    call,       \* the call it makes: which one, about whom
    reaped,     \* the control it reaps
    ctl,        \* the ThreadControl of each worker, the statics of Main
    known,      \* the threads whose handle is known
    calls       \* how many calls have been made

vars == <<pc, call, reaped, ctl, known, calls>>

\* A pthread_join is a timed join whose deadline does not pass.
Joins == {"timedjoin", "tryjoin"}
Calls == Joins \cup {"create", "detach", "kill"}

\* none, new, failed   not created, being created, creation failed
\* idle     in user code                      gone   the kernel task has ended
\* build, clone, sched, abort, adrain, handle        pthread_create
\* ready, swait, sasleep, sread, told                worker_entry, its beginning
\* finish, commit, retire, exit, final               the end of a thread
\* reap, rdrain                                      reaping detached workers
\* try, claim, handed, wait, result, jdrain          the joins
\* detach                                            pthread_detach
\* lease, lock, kill, unlock, unlease                pthread_kill
Labels == {"none", "new", "failed", "idle", "gone", "build", "clone", "sched",
           "abort", "adrain", "handle", "ready", "swait", "sasleep", "sread",
           "told", "finish", "commit", "retire", "exit", "final", "reap",
           "rdrain", "try", "claim", "handed", "wait", "result", "jdrain",
           "detach", "lease", "lock", "kill", "unlock", "unlease"}

Controls ==
    [mapped : BOOLEAN,      \* the memory is mapped
     linked : BOOLEAN,      \* in the registry
     life : {"joinable", "joinClaimed", "detached", "reclaiming"},
     active : BOOLEAN,      \* SelectedRuntimeTaskState
     childTid : BOOLEAN,    \* the clear-child-tid word: the kernel task lives
     workerTid : {"unset", "set", "retired"},
     handoff : BOOLEAN,     \* creator_handoff_pending
     sched : 0..3,          \* scheduler_control
     finished : BOOLEAN,    \* the result is published
     leases : 0..Cardinality(Tasks),  \* signal_target_leases
     killLock : BOOLEAN]    \* signal_target_lock

TypeOK ==
    /\ pc \in [Tasks -> Labels]
    /\ \A t \in Tasks : call[t].op \in Calls /\ call[t].who \in Tasks
    /\ reaped \in [Tasks -> Tasks]
    /\ \A t \in Tasks : ctl[t] \in Controls
    /\ known \subseteq Tasks
    /\ calls \in 0..MaxCalls

\* The record pthread_create writes, and the statics of the initial thread.
Fresh(life, sched) ==
    [mapped |-> TRUE, linked |-> TRUE, life |-> life, active |-> TRUE,
     childTid |-> FALSE, workerTid |-> "unset", handoff |-> TRUE, sched |-> sched,
     finished |-> FALSE, leases |-> 0, killLock |-> FALSE]

Unmapped == [Fresh("joinable", 0) EXCEPT !.mapped = FALSE, !.linked = FALSE,
                                         !.active = FALSE]

Statics == [Fresh("joinable", 0) EXCEPT !.linked = FALSE, !.childTid = TRUE,
                                        !.workerTid = "set", !.handoff = FALSE]

NoCall(t) == [op |-> "kill", who |-> t]

Init ==
    /\ pc = [t \in Tasks |-> IF t = Main THEN "idle" ELSE "none"]
    /\ call = [t \in Tasks |-> NoCall(t)]
    /\ reaped = [t \in Tasks |-> t]
    /\ ctl = [t \in Tasks |-> IF t = Main THEN Statics ELSE Unmapped]
    /\ known = {Main}
    /\ calls = 0

Ended == {"idle", "gone", "final"}

\* A thread that leaves the library forgets its call.
Goto(t, label) ==
    /\ pc' = [pc EXCEPT ![t] = label]
    /\ call' = IF label \in Ended THEN [call EXCEPT ![t] = NoCall(t)] ELSE call

Who(t) == call[t].who

\* A registry lookup by handle, and the lookup of the static record.
Found(w) == ctl[w].linked \/ w = Main

Same == UNCHANGED <<reaped, known, calls>>

-----------------------------------------------------------------------------
(* The calls *)

Begin(t, o, u, label) ==
    /\ pc[t] = "idle" /\ calls < MaxCalls
    /\ pc' = [pc EXCEPT ![t] = label, ![u] = IF o = "create" THEN "new" ELSE @]
    /\ call' = [call EXCEPT ![t] = [op |-> o, who |-> u]]
    /\ calls' = calls + 1
    /\ UNCHANGED <<reaped, ctl, known>>

\* Creations and joins of workers reap first; tryjoin looks before it joins.
\* The initial thread does not join itself.
CallCreate(t, w) == pc[w] = "none" /\ Begin(t, "create", w, "reap")

CallJoin(t, o, u) ==
    /\ u \in known
    /\ IF o = "tryjoin" THEN Begin(t, o, u, "try")
       ELSE IF u # Main THEN Begin(t, o, u, "reap")
       ELSE t # Main /\ Begin(t, o, u, "claim")

CallDetach(t, u) == u \in known /\ Begin(t, "detach", u, "detach")

CallKill(t, u) ==
    u \in known /\ Begin(t, "kill", u, IF u = Main THEN "lock" ELSE "lease")

-----------------------------------------------------------------------------
(* pthread_create *)

\* The record is written and linked before the clone.
Publish(t) ==
    /\ pc[t] = "build"
    /\ \E life \in {"joinable", "detached"}, sched \in {0, 1} :
           ctl' = [ctl EXCEPT ![Who(t)] = Fresh(life, sched)]
    /\ Goto(t, "clone")
    /\ Same

\* CLONE_PARENT_SETTID writes the TID before the child runs.  After a failure
\* the control is withdrawn and unmapped.
Clone(t) ==
    /\ pc[t] = "clone"
    /\ LET w == Who(t)
       IN  \/ /\ ctl' = [ctl EXCEPT ![w].childTid = TRUE]
              /\ pc' = [pc EXCEPT ![t] = IF ctl[w].sched = 1 THEN "sched" ELSE "handle",
                                  ![w] = "ready"]
              /\ UNCHANGED call
           \/ /\ ctl' = [ctl EXCEPT ![w] = Unmapped]
              /\ pc' = [pc EXCEPT ![t] = "idle", ![w] = "failed"]
              /\ call' = [call EXCEPT ![t] = NoCall(t)]
    /\ Same

\* Fault: the child is woken only when the scheduler call failed.
SetSchedulerQuietly(t) ==
    /\ pc[t] = "sched"
    /\ LET w == Who(t)
       IN  \E new \in {0, 3} :
            /\ ctl' = [ctl EXCEPT ![w].sched = new]
            /\ pc' = [pc EXCEPT
                        ![t] = IF new = 0 THEN "handle" ELSE "abort",
                        ![w] = IF new = 3 /\ @ = "sasleep" THEN "sread" ELSE @]
    /\ UNCHANGED call /\ Same

\* sched_setscheduler, the exchange that tells the child, and its FUTEX_WAKE.
SetScheduler(t) ==
    /\ pc[t] = "sched"
    /\ LET w == Who(t)
       IN  \E new \in {0, 3} :
            /\ ctl' = [ctl EXCEPT ![w].sched = new]
            /\ pc' = [pc EXCEPT
                        ![t] = IF new = 0 THEN "handle" ELSE "abort",
                        ![w] = IF ctl[w].sched = 2 /\ @ = "sasleep" THEN "sread" ELSE @]
    /\ UNCHANGED call /\ Same

\* A refused child ends by itself; the creator waits for that and withdraws it.
Abort(t) ==
    /\ pc[t] = "abort" /\ ~ctl[Who(t)].childTid
    /\ ctl' = [ctl EXCEPT ![Who(t)].linked = FALSE]
    /\ Goto(t, "adrain")
    /\ Same

\* The handle is stored, and the creator is done with the control.
HandOver(t) ==
    /\ pc[t] = "handle"
    /\ ctl' = [ctl EXCEPT ![Who(t)].handoff = FALSE]
    /\ known' = known \cup {Who(t)}
    /\ Goto(t, "idle")
    /\ UNCHANGED <<reaped, calls>>

-----------------------------------------------------------------------------
(* worker_entry *)

\* The compare-and-swap from 1 to 2 announces that the child waits.
Ready(t) ==
    /\ pc[t] = "ready"
    /\ ctl' = IF ctl[t].sched = 1 THEN [ctl EXCEPT ![t].sched = 2] ELSE ctl
    /\ Goto(t, CASE ctl[t].sched = 0 -> "told"
                 [] ctl[t].sched = 1 -> "swait"
                 [] ctl[t].sched = 3 -> "sread")
    /\ Same

SchedulerWait(t) ==
    /\ pc[t] = "swait"
    /\ Goto(t, IF ctl[t].sched = 2 THEN "sasleep" ELSE "sread")
    /\ UNCHANGED ctl /\ Same

\* commit_unstarted_worker_exit, when the creator has refused the child.
SchedulerRead(t) ==
    /\ pc[t] = "sread"
    /\ IF ctl[t].sched = 0
       THEN Goto(t, "told") /\ UNCHANGED ctl
       ELSE Goto(t, "exit") /\ ctl' = [ctl EXCEPT ![t].active = FALSE]
    /\ Same

\* The worker publishes its TID; from then on user code may tell its handle.
Told(t) ==
    /\ pc[t] = "told"
    /\ ctl' = [ctl EXCEPT ![t].workerTid = "set"]
    /\ known' = known \cup {t}
    /\ Goto(t, "idle")
    /\ UNCHANGED <<reaped, calls>>

-----------------------------------------------------------------------------
(* The end of a thread: a return, pthread_exit, or cancellation *)

FirstOfExit(t) == IF t = Main THEN "commit" ELSE "finish"

Exit(t) ==
    /\ pc[t] = "idle"
    /\ Goto(t, FirstOfExit(t))
    /\ UNCHANGED ctl /\ Same

PublishResult(t) ==
    /\ pc[t] = "finish"
    /\ ctl' = [ctl EXCEPT ![t].finished = TRUE]
    /\ Goto(t, "commit")
    /\ Same

\* The last active task runs exit(0) instead.
Commit(t) ==
    /\ pc[t] = "commit"
    /\ ctl' = [ctl EXCEPT ![t].active = FALSE]
    /\ Goto(t, IF \E u \in Tasks \ {t} : ctl[u].active THEN "retire" ELSE "final")
    /\ Same

\* Fault: the TID is withdrawn without the target's lock.
RetireUnlocked(t) ==
    /\ pc[t] = "retire"
    /\ ctl' = [ctl EXCEPT ![t].workerTid = "retired"]
    /\ Goto(t, "exit")
    /\ Same

Retire(t) ==
    /\ pc[t] = "retire" /\ ~ctl[t].killLock
    /\ ctl' = [ctl EXCEPT ![t].workerTid = "retired"]
    /\ Goto(t, "exit")
    /\ Same

\* SYS_exit: the kernel clears the TID word and wakes a joiner.  The initial
\* thread does both itself, in publish_selected_initial_thread_exit.
KernelExit(t) ==
    /\ pc[t] = "exit"
    /\ ctl' = [ctl EXCEPT ![t].childTid = FALSE,
                          ![t].finished = IF t = Main THEN TRUE ELSE @]
    /\ Goto(t, "gone")
    /\ Same

-----------------------------------------------------------------------------
(* Reclamation *)

\* Fault: the reaper does not wait for the creator to store the handle.
ReapEarly(t) ==
    /\ pc[t] = "reap"
    /\ LET dead == {w \in Workers : /\ ctl[w].linked /\ ctl[w].life = "detached"
                                    /\ ~ctl[w].childTid /\ ctl[w].finished}
       IN  \/ \E w \in dead :
                /\ ctl' = [ctl EXCEPT ![w].linked = FALSE, ![w].life = "reclaiming"]
                /\ reaped' = [reaped EXCEPT ![t] = w]
                /\ Goto(t, "rdrain")
           \/ /\ dead = {}
              /\ Goto(t, IF call[t].op = "create" THEN "build" ELSE "claim")
              /\ UNCHANGED <<ctl, reaped>>
    /\ UNCHANGED <<known, calls>>

\* claim_finished_detached_selected_worker, until none is left.
Reap(t) ==
    /\ pc[t] = "reap"
    /\ LET dead == {w \in Workers : /\ ctl[w].linked /\ ctl[w].life = "detached"
                                    /\ ~ctl[w].handoff /\ ~ctl[w].childTid}
       IN  \/ \E w \in dead :
                /\ ctl' = [ctl EXCEPT ![w].linked = FALSE, ![w].life = "reclaiming"]
                /\ reaped' = [reaped EXCEPT ![t] = w]
                /\ Goto(t, "rdrain")
           \/ /\ dead = {}
              /\ Goto(t, IF call[t].op = "create" THEN "build" ELSE "claim")
              /\ UNCHANGED <<ctl, reaped>>
    /\ UNCHANGED <<known, calls>>

\* reclaim_withdrawn_selected_worker: the leases drain, then TLS, stack and control
\* are unmapped.  (They are the leases on a signal's target; those of a canceller's
\* wake, taken and drained in the same way, and an munmap that fails are not
\* modelled.)
Reclaim(t) ==
    /\ pc[t] \in {"rdrain", "jdrain", "adrain"}
    /\ LET w == IF pc[t] = "rdrain" THEN reaped[t] ELSE Who(t)
       IN  ctl[w].leases = 0 /\ ctl' = [ctl EXCEPT ![w].mapped = FALSE]
    /\ Goto(t, IF pc[t] = "rdrain" THEN "reap" ELSE "idle")
    /\ reaped' = [reaped EXCEPT ![t] = t]
    /\ UNCHANGED <<known, calls>>

-----------------------------------------------------------------------------
(* pthread_join, pthread_timedjoin_np, pthread_tryjoin_np, pthread_detach *)

\* selected_worker_tryjoin_preflight.
TryJoin(t) ==
    /\ pc[t] = "try"
    /\ LET c == ctl[Who(t)]
       IN  Goto(t, CASE Who(t) = Main -> IF c.childTid \/ t = Main THEN "idle" ELSE "claim"
                     [] Who(t) # Main ->
                            IF c.linked /\ c.life = "joinable" /\ ~c.handoff /\ ~c.childTid
                            THEN "reap" ELSE "idle")
    /\ UNCHANGED ctl /\ Same

Claim(t) ==
    /\ pc[t] = "claim"
    /\ LET w == Who(t)
       IN  IF Found(w) /\ ctl[w].life = "joinable"
           THEN /\ ctl' = [ctl EXCEPT ![w].life = "joinClaimed"]
                /\ Goto(t, "handed")
           ELSE UNCHANGED ctl /\ Goto(t, "idle")
    /\ Same

\* wait_for_creator_handoff.
Handed(t) ==
    /\ pc[t] = "handed" /\ ~ctl[Who(t)].handoff
    /\ Goto(t, "wait")
    /\ UNCHANGED ctl /\ Same

\* FUTEX_WAIT on the TID word until the kernel has cleared it.  The record of
\* the initial thread stays.
WaitForExit(t) ==
    /\ pc[t] = "wait" /\ ~ctl[Who(t)].childTid
    /\ Goto(t, IF Who(t) = Main THEN "idle" ELSE "result")
    /\ UNCHANGED ctl /\ Same

Unclaim(w) ==
    ctl' = [ctl EXCEPT ![w].life = IF @ = "joinClaimed" THEN "joinable" ELSE @]

TimeOut(t) ==
    /\ pc[t] = "wait" /\ call[t].op = "timedjoin" /\ ctl[Who(t)].childTid
    /\ Unclaim(Who(t))
    /\ Goto(t, "idle")
    /\ Same

\* The joiner is cancelled: cancel_selected_worker_join, then its own exit.
CancelJoin(t) ==
    /\ pc[t] \in {"handed", "wait"}
    /\ Unclaim(Who(t))
    /\ Goto(t, FirstOfExit(t))
    /\ Same

\* The result is read and the record withdrawn, with cancellation disabled.
TakeResult(t) ==
    /\ pc[t] = "result" /\ ctl[Who(t)].finished
    /\ ctl' = [ctl EXCEPT ![Who(t)].linked = FALSE]
    /\ Goto(t, "jdrain")
    /\ Same

Detach(t) ==
    /\ pc[t] = "detach"
    /\ LET w == Who(t)
       IN  ctl' = IF Found(w) /\ ctl[w].life = "joinable"
                  THEN [ctl EXCEPT ![w].life = "detached"] ELSE ctl
    /\ Goto(t, "idle")
    /\ Same

-----------------------------------------------------------------------------
(* with_selected_pthread_signal_target *)

Lease(t) ==
    /\ pc[t] = "lease"
    /\ IF ctl[Who(t)].linked
       THEN ctl' = [ctl EXCEPT ![Who(t)].leases = @ + 1] /\ Goto(t, "lock")
       ELSE UNCHANGED ctl /\ Goto(t, "idle")
    /\ Same

LockTarget(t) ==
    /\ pc[t] = "lock" /\ ~ctl[Who(t)].killLock
    /\ ctl' = [ctl EXCEPT ![Who(t)].killLock = TRUE]
    /\ Goto(t, IF ctl[Who(t)].workerTid = "retired" THEN "unlock" ELSE "kill")
    /\ Same

\* tgkill, or the update of the cancellation state.
Kill(t) ==
    /\ pc[t] = "kill"
    /\ Goto(t, "unlock")
    /\ UNCHANGED ctl /\ Same

UnlockTarget(t) ==
    /\ pc[t] = "unlock"
    /\ ctl' = [ctl EXCEPT ![Who(t)].killLock = FALSE]
    /\ Goto(t, IF Who(t) = Main THEN "idle" ELSE "unlease")
    /\ Same

Unlease(t) ==
    /\ pc[t] = "unlease"
    /\ ctl' = [ctl EXCEPT ![Who(t)].leases = @ - 1]
    /\ Goto(t, "idle")
    /\ Same

-----------------------------------------------------------------------------

Call(t) ==
    \E u \in Tasks :
        \/ CallCreate(t, u)
        \/ \E o \in Joins : CallJoin(t, o, u)
        \/ CallDetach(t, u)
        \/ CallKill(t, u)

Step(t) ==
    \/ Publish(t) \/ Clone(t) \/ SetScheduler(t) \/ Abort(t) \/ HandOver(t)
    \/ Ready(t) \/ SchedulerWait(t) \/ SchedulerRead(t) \/ Told(t)
    \/ PublishResult(t) \/ Commit(t) \/ Retire(t) \/ KernelExit(t)
    \/ Reap(t) \/ Reclaim(t) \/ TryJoin(t) \/ Claim(t) \/ Handed(t)
    \/ WaitForExit(t) \/ TakeResult(t) \/ Detach(t)
    \/ Lease(t) \/ LockTarget(t) \/ Kill(t) \/ UnlockTarget(t) \/ Unlease(t)

Next == \E t \in Tasks : Call(t) \/ Step(t) \/ Exit(t) \/ TimeOut(t) \/ CancelJoin(t)

\* While some thread inside the library can go on, one does.  Nothing obliges a
\* thread to make a call or to end, a timeout or a cancellation to come.
Fairness == WF_vars(\E t \in Tasks : Step(t))

Spec == Init /\ [][Next]_vars

FairSpec == Spec /\ Fairness

-----------------------------------------------------------------------------

\* The controls a thread reads or writes in its next step; in "exit" it is the
\* kernel that clears the TID word.
Touches(t) ==
    CASE pc[t] \in {"clone", "sched", "abort", "adrain", "handle", "handed", "wait",
                    "result", "jdrain", "lock", "kill", "unlock", "unlease"} -> {Who(t)}
      [] pc[t] = "rdrain" -> {reaped[t]}
      [] pc[t] \in {"ready", "swait", "sasleep", "sread", "told", "finish", "commit",
                    "retire", "exit"} -> {t}
      [] OTHER -> {}

\* The threads that own a worker's end of life.
Owners(w) ==
    {t \in Tasks :
        \/ pc[t] \in {"handed", "wait", "result", "jdrain", "abort", "adrain"} /\ Who(t) = w
        \/ pc[t] = "rdrain" /\ reaped[t] = w}

\* A control is unmapped once, by one thread, after its last use.  Nobody touches
\* one that is unmapped: not the creator that still has the handle to store, not a
\* sender of a signal, a joiner, the worker or the kernel, whoever joins, detaches
\* and reaps meanwhile.  One thread at most joins or reclaims a worker, and one out
\* of the registry is about to be unmapped by it: no timeout, cancellation or lost
\* race leaves it behind.
ControlsEndOnce ==
    /\ \A t \in Tasks : \A w \in Touches(t) : ctl[w].mapped
    /\ \A w \in Tasks : \A s, t \in Owners(w) : s = t
    /\ \A w \in Workers : ctl[w].mapped /\ ~ctl[w].linked => Owners(w) # {}

\* A signal is sent to a kernel task that lives: its TID cannot have been given
\* to another thread.
SignalsHitTheirTask == \A t \in Tasks : pc[t] = "kill" => ctl[Who(t)].childTid

\* Every call ends, except a join of a thread that does not.
CallsSettle ==
    <>[](\A t \in Tasks :
            \/ pc[t] \in Ended \cup {"none", "failed"}
            \/ pc[t] = "wait" /\ ctl[Who(t)].childTid)
=============================================================================
