---------------------------- MODULE Cancellation ----------------------------
(***************************************************************************)
(* owned_syscall_cancel.rs and pthread_cancel.rs: one thread that makes    *)
(* system calls at cancellation points, others that cancel it, and the     *)
(* signal SIGCANCEL between them.                                          *)
(*                                                                         *)
(* The thread runs the topmost of its frames: the program and, over it, a  *)
(* signal handler of the application.  Each frame has the interrupted      *)
(* program counter and signal mask the kernel keeps for it.  The handler   *)
(* of SIGCANCEL runs with all signals blocked and is one step.             *)
(***************************************************************************)
EXTENDS Integers, Sequences

CONSTANTS
    Requesters,     \* threads that call pthread_cancel
    MaxRequests     \* how many such calls there are

VARIABLES
    pending,    \* the request
    state,      \* pthread_setcancelstate
    async,      \* pthread_setcanceltype
    queue,      \* how many SIGCANCEL the kernel holds for the thread
    frames,     \* the program's frame, and a handler's
    req,        \* where each requester is
    requests    \* how many requests were made

vars == <<pending, state, async, queue, frames, req, requests>>

\* run     application code            check  cp_begin: about to load pending
\* enter   at the syscall instruction  asleep inside a call that blocks
\* done    cp_end, the call has had its effect
\* eintr   cp_end with EINTR           cancel cp_cancel, or the call of it
\* raw     in a call that is no cancellation point
\* exit    in exit_selected_pthread_worker
Labels == {"run", "check", "enter", "asleep", "done", "eintr", "cancel", "raw", "exit"}

Frame == [pc : Labels, close : BOOLEAN, blocked : BOOLEAN]

TypeOK ==
    /\ pending \in BOOLEAN /\ async \in BOOLEAN
    /\ state \in {"enable", "disable", "masked"}
    /\ queue \in 0..MaxRequests
    /\ frames \in Seq(Frame) /\ Len(frames) \in 1..2
    /\ req \in [Requesters -> {"idle", "shoot", "again"}]
    /\ requests \in 0..MaxRequests

Init ==
    /\ pending = FALSE /\ state = "enable" /\ async = FALSE
    /\ queue = 0
    /\ frames = <<[pc |-> "run", close |-> FALSE, blocked |-> FALSE]>>
    /\ req = [r \in Requesters |-> "idle"]
    /\ requests = 0

Top == frames[Len(frames)]
Put(frame) == frames' = [frames EXCEPT ![Len(frames)] = frame]
Goto(label) == Put([Top EXCEPT !.pc = label])

requesterVars == <<req, requests>>

----------------------------------------------------------------------------
(* The thread.  The cancellation functions are not for signal handlers: a  *)
(* handler only makes system calls.                                        *)

\* exit_selected_pthread_worker begins by disabling cancellation.
Exit == state' = "disable" /\ async' = FALSE /\ Goto("exit")

SetState(s) ==
    /\ Top.pc = "run" /\ Len(frames) = 1
    /\ state' = s
    /\ UNCHANGED <<pending, async, queue, frames, requesterVars>>

\* pthread_setcanceltype tests for a request when it turns asynchronous.
SetType(a) ==
    /\ Top.pc = "run" /\ Len(frames) = 1
    /\ IF a /\ pending /\ state = "enable"
         THEN Exit
         ELSE async' = a /\ UNCHANGED <<state, frames>>
    /\ UNCHANGED <<pending, queue, requesterVars>>

\* pthread_testcancel
TestCancel ==
    /\ Top.pc = "run" /\ Len(frames) = 1
    /\ pending /\ state = "enable"
    /\ Exit
    /\ UNCHANGED <<pending, queue, requesterVars>>

\* pthread_cancel of the calling thread: no signal.
SelfCancel ==
    /\ Top.pc = "run" /\ Len(frames) = 1
    /\ pending' = TRUE
    /\ IF state = "enable" /\ async THEN Exit ELSE UNCHANGED <<state, async, frames>>
    /\ UNCHANGED <<queue, requesterVars>>

\* syscall_cp; `close` is the call that must not be undone.
Call(close) ==
    /\ Top.pc = "run"
    /\ Put([Top EXCEPT !.close = close,
                       !.pc = IF state = "disable" \/ (state = "masked" /\ close)
                                THEN "raw" ELSE "check"])
    /\ UNCHANGED <<pending, state, async, queue, requesterVars>>

Check ==
    /\ Top.pc = "check"
    /\ Goto(IF pending THEN "cancel" ELSE "enter")
    /\ UNCHANGED <<pending, state, async, queue, requesterVars>>

\* The kernel completes the call, at once or after a sleep.
Enter ==
    /\ Top.pc = "enter"
    /\ Goto("done") \/ Goto("asleep")
    /\ UNCHANGED <<pending, state, async, queue, requesterVars>>

Finish ==
    /\ Top.pc = "asleep"
    /\ Goto("done")
    /\ UNCHANGED <<pending, state, async, queue, requesterVars>>

\* The end of syscall_cp: an interrupted call is cancelled, except close.
Return ==
    /\ Top.pc \in {"done", "eintr", "raw"}
    /\ IF Top.pc = "eintr" /\ ~Top.close /\ pending /\ state # "disable"
         THEN Goto("cancel")
         ELSE Put([Top EXCEPT !.pc = "run", !.close = FALSE])
    /\ UNCHANGED <<pending, state, async, queue, requesterVars>>

\* __crabc_x86_cancel: exit, or ECANCELED once under the masked state.
Cancel ==
    /\ Top.pc = "cancel"
    /\ IF state = "enable" \/ async
         THEN Exit
         ELSE /\ state' = "disable"
              /\ Put([Top EXCEPT !.pc = "run", !.close = FALSE])
              /\ UNCHANGED async
    /\ UNCHANGED <<pending, queue, requesterVars>>

----------------------------------------------------------------------------
(* Signals.                                                                *)

\* Where a frame is when a signal interrupts it: a call that sleeps starts
\* again or fails with EINTR, and close has then closed its descriptor.
Interrupted(frame) ==
    IF frame.pc # "asleep" THEN {frame}
    ELSE {[frame EXCEPT !.pc = w] : w \in {"eintr"} \cup (IF frame.close THEN {} ELSE {"enter"})}

\* Fault: the window ends behind the system call.
WindowWide == {"check", "enter", "done", "eintr"}

\* The program counters from cp_begin up to cp_end.
Window == {"check", "enter"}

\* Fault: the signal is not sent again.
DeliverOnce ==
    /\ queue > 0 /\ ~Top.blocked
    /\ queue' = queue - 1
    /\ \E frame \in Interrupted(Top) :
         CASE ~pending \/ state = "disable" ->
                Put(frame) /\ UNCHANGED <<state, async>>
           [] pending /\ state # "disable" /\ async -> Exit
           [] pending /\ state # "disable" /\ ~async ->
                /\ Put([frame EXCEPT !.blocked = TRUE,
                                     !.pc = IF @ \in Window THEN "cancel" ELSE @])
                /\ UNCHANGED <<state, async>>
    /\ UNCHANGED <<pending, requesterVars>>

\* cancel_handler: ignore the signal, exit, redirect a thread in the window to
\* cp_cancel, or leave SIGCANCEL blocked in the interrupted frame and send it
\* again, so that it comes back when the frame below resumes.
Deliver ==
    /\ queue > 0 /\ ~Top.blocked
    /\ \E frame \in Interrupted(Top) :
         CASE ~pending \/ state = "disable" ->
                Put(frame) /\ queue' = queue - 1 /\ UNCHANGED <<state, async>>
           [] pending /\ state # "disable" /\ async ->
                Exit /\ queue' = queue - 1
           [] pending /\ state # "disable" /\ ~async ->
                /\ Put([frame EXCEPT !.blocked = TRUE,
                                     !.pc = IF @ \in Window THEN "cancel" ELSE @])
                /\ queue' = IF frame.pc \in Window THEN queue - 1 ELSE queue
                /\ UNCHANGED <<state, async>>
    /\ UNCHANGED <<pending, requesterVars>>

\* A handler of the application interrupts the program, and returns to it.
HandlerIn ==
    /\ Len(frames) = 1 /\ Top.pc # "exit"
    /\ \E frame \in Interrupted(Top) :
         frames' = <<frame, [pc |-> "run", close |-> FALSE, blocked |-> frame.blocked]>>
    /\ UNCHANGED <<pending, state, async, queue, requesterVars>>

HandlerOut ==
    /\ Len(frames) = 2 /\ Top.pc = "run"
    /\ frames' = <<frames[1]>>
    /\ UNCHANGED <<pending, state, async, queue, requesterVars>>

----------------------------------------------------------------------------
(* request: under the target's signal lock, the mark and then the signal.  *)

Request(r) ==
    /\ req[r] = "idle" /\ requests < MaxRequests
    /\ requests' = requests + 1
    /\ pending' = TRUE
    /\ req' = [req EXCEPT ![r] = "shoot"]
    /\ UNCHANGED <<state, async, queue, frames>>

Shoot(r) ==
    /\ req[r] = "shoot"
    /\ queue' = queue + 1
    /\ req' = [req EXCEPT ![r] = "again"]
    /\ UNCHANGED <<pending, state, async, frames, requests>>

\* request_selected_pthread_cancellation marks the same request once more.
Again(r) ==
    /\ req[r] = "again"
    /\ pending' = TRUE
    /\ req' = [req EXCEPT ![r] = "idle"]
    /\ UNCHANGED <<state, async, queue, frames, requests>>

----------------------------------------------------------------------------
\* What the thread, the kernel and the requesters do without being asked.
Step ==
    \/ Check \/ Enter \/ Return \/ Cancel \/ Deliver
    \/ \E r \in Requesters : Shoot(r) \/ Again(r)

Next ==
    \/ Step \/ Finish
    \/ \E s \in {"enable", "disable", "masked"} : SetState(s)
    \/ \E b \in BOOLEAN : SetType(b) \/ Call(b)
    \/ TestCancel \/ SelfCancel
    \/ HandlerIn \/ HandlerOut
    \/ \E r \in Requesters : Request(r)

\* While something of this can happen, something does.  No call has to complete,
\* and no handler has to come or to return.
Fairness == WF_vars(Step)

Spec == Init /\ [][Next]_vars /\ Fairness

----------------------------------------------------------------------------
\* A request reaches a thread that sleeps at a cancellation point: whether it
\* comes before the load of `pending`, between the load and the system call,
\* during the sleep, or while a handler of the application runs over it, the
\* thread does not sleep on with cancellation enabled.
RequestIsServed ==
    ~<>[](Top.pc = "asleep" /\ Len(frames) = 1 /\ pending /\ state # "disable")

\* A call that has had its effect (or a close, which has it even when it is
\* interrupted) returns its result: cancellation never acts after it.
NoEffectIsLost ==
    [][\A i \in DOMAIN frames \cap DOMAIN frames' :
          (frames[i].pc = "done" \/ (frames[i].pc = "eintr" /\ frames[i].close)) =>
              frames'[i].pc # "cancel"]_vars
=============================================================================
