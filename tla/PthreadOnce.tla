---------------------------- MODULE PthreadOnce ----------------------------
(***************************************************************************)
(* pthread_once.rs: pthread_once and call_once on one control word.        *)
(*                                                                         *)
(* A caller that finds the word INITIAL runs the routine; cancellation or  *)
(* thread exit inside the routine resets the word through a cleanup        *)
(* handler.  Each action is one atomic access or one futex call; the spin  *)
(* loop of wait_selected_once only reads, so it is the time a thread may   *)
(* stay at "wait".  A thread that exits makes room for a new one with the  *)
(* same name.                                                              *)
(***************************************************************************)
EXTENDS Naturals, FiniteSets

CONSTANTS
    Threads,        \* the threads that share the control word
    MaxAbandons     \* bound: how often the routine is cancelled

VARIABLES
    control,    \* the control word
    pc,         \* where each thread is in run_selected_once
    abandons,   \* how often the routine has been cancelled
    completed   \* how often the routine has returned

vars == <<control, pc, abandons, completed>>

INITIAL == 0
INITIALIZING == 1
COMPLETE == 2
WAITERS == 3

\* idle    outside               cas     about to compare-and-swap
\* mark    about to announce a waiter    wait   about to read the word again
\* futex   about to FUTEX_WAIT   asleep  inside FUTEX_WAIT
\* init    in the routine        wake    published, about to FUTEX_WAKE
\* undone  reset the word, about to FUTEX_WAKE
\* return  about to return 0
Labels == {"idle", "cas", "mark", "wait", "futex", "asleep", "init", "wake",
           "undone", "return"}

TypeOK ==
    /\ control \in {INITIAL, INITIALIZING, COMPLETE, WAITERS}
    /\ pc \in [Threads -> Labels]
    /\ abandons \in Nat
    /\ completed \in 0..1

Init ==
    /\ control = INITIAL
    /\ pc = [t \in Threads |-> "idle"]
    /\ abandons = 0
    /\ completed = 0

Goto(t, label) == pc' = [pc EXCEPT ![t] = label]

\* Fault: the fast path takes any nonzero word for completion.
CallNonzero(t) ==
    /\ pc[t] = "idle"
    /\ Goto(t, IF control # INITIAL THEN "return" ELSE "cas")
    /\ UNCHANGED <<control, abandons, completed>>

\* The completed fast path.
Call(t) ==
    /\ pc[t] = "idle"
    /\ Goto(t, IF control = COMPLETE THEN "return" ELSE "cas")
    /\ UNCHANGED <<control, abandons, completed>>

\* The compare-and-swap at the head of the loop, and what it finds.  The
\* winner pushes undo_selected_once and enters the routine.
Cas(t) ==
    /\ pc[t] = "cas"
    /\ \/ /\ control = INITIAL
          /\ control' = INITIALIZING
          /\ Goto(t, "init")
       \/ /\ control # INITIAL
          /\ Goto(t, CASE control = INITIALIZING -> "mark"
                       [] control = WAITERS -> "wait"
                       [] control = COMPLETE -> "return")
          /\ UNCHANGED control
    /\ UNCHANGED <<abandons, completed>>

\* The result of this compare-and-swap is ignored.
Mark(t) ==
    /\ pc[t] = "mark"
    /\ control' = IF control = INITIALIZING THEN WAITERS ELSE control
    /\ Goto(t, "wait")
    /\ UNCHANGED <<abandons, completed>>

\* Fault: a waiter waits for completion, not for the end of the attempt.
WaitForCompletion(t) ==
    /\ pc[t] = "wait"
    /\ Goto(t, CASE control = WAITERS -> "futex"
                 [] control = COMPLETE -> "cas"
                 [] OTHER -> "wait")
    /\ UNCHANGED <<control, abandons, completed>>

\* wait_selected_once reads the word before every FUTEX_WAIT.
Wait(t) ==
    /\ pc[t] = "wait"
    /\ Goto(t, IF control = WAITERS THEN "futex" ELSE "cas")
    /\ UNCHANGED <<control, abandons, completed>>

FutexWait(t) ==
    /\ pc[t] = "futex"
    /\ Goto(t, IF control = WAITERS THEN "asleep" ELSE "wait")
    /\ UNCHANGED <<control, abandons, completed>>

\* A signal ends the sleep; the result is ignored.
Interrupt(t) ==
    /\ pc[t] = "asleep"
    /\ Goto(t, "wait")
    /\ UNCHANGED <<control, abandons, completed>>

\* The routine returns; the handler is popped and the word exchanged.
Publish(t) ==
    /\ pc[t] = "init"
    /\ completed' = completed + 1
    /\ control' = COMPLETE
    /\ Goto(t, IF control = WAITERS THEN "wake" ELSE "return")
    /\ UNCHANGED abandons

\* The routine is cancelled or calls pthread_exit: undo_selected_once.
Abandon(t) ==
    /\ pc[t] = "init"
    /\ abandons < MaxAbandons
    /\ abandons' = abandons + 1
    /\ control' = INITIAL
    /\ Goto(t, IF control = WAITERS THEN "undone" ELSE "idle")
    /\ UNCHANGED completed

\* wake_selected_once_waiters: every sleeper returns.
Wake(t) ==
    /\ pc[t] \in {"wake", "undone"}
    /\ pc' = [s \in Threads |->
                IF s = t THEN IF pc[t] = "wake" THEN "return" ELSE "idle"
                ELSE IF pc[s] = "asleep" THEN "wait"
                ELSE pc[s]]
    /\ UNCHANGED <<control, abandons, completed>>

Return(t) ==
    /\ pc[t] = "return"
    /\ Goto(t, "idle")
    /\ UNCHANGED <<control, abandons, completed>>

\* The steps of a call in progress that need nobody's help.
Step(t) ==
    \/ Cas(t)
    \/ Mark(t)
    \/ Wait(t)
    \/ FutexWait(t)
    \/ Publish(t)
    \/ Wake(t)
    \/ Return(t)

Next == \E t \in Threads : Call(t) \/ Step(t) \/ Interrupt(t) \/ Abandon(t)

\* Every runnable thread is scheduled, and the routine ends (the contract of
\* pthread_once).  Nothing obliges a thread to call, a signal or a
\* cancellation to arrive.
Fairness == \A t \in Threads : WF_vars(Step(t))

Spec == Init /\ [][Next]_vars

FairSpec == Spec /\ Fairness

-----------------------------------------------------------------------------

Initializers == {t \in Threads : pc[t] = "init"}
Sleepers == {t \in Threads : pc[t] = "asleep"}

\* One caller at a time runs the routine, and never again once it has returned.
OneInitializer ==
    /\ \A s, t \in Initializers : s = t
    /\ completed = 1 => Initializers = {}

\* What the word tells about the routine.
WordTells ==
    /\ control \in {INITIALIZING, WAITERS} <=> Initializers # {}
    /\ control = COMPLETE <=> completed = 1

\* No call returns before the routine has returned, whoever ran it and however
\* often it was cancelled before.
ReturnsAfterCompletion ==
    \A t \in Threads : pc[t] \in {"return", "wake"} => completed = 1

\* A caller sleeps only while the word promises it a wake, or that wake is
\* about to be made: neither completion nor cancellation forgets a sleeper,
\* even when the next initializer has started already.
NoStrandedSleeper ==
    Sleepers # {} =>
        \/ control = WAITERS
        \/ \E t \in Threads : pc[t] \in {"wake", "undone"}

\* Completion is never undone by a late waiter or a late cancellation.
CompletionIsFinal == [][control = COMPLETE => control' = COMPLETE]_vars

\* Every call ends: no caller waits for an initializer that is gone.
EveryCallEnds == \A t \in Threads : pc[t] # "idle" ~> pc[t] = "idle"

\* The inductive invariant behind the safety properties.
IInv ==
    /\ TypeOK
    /\ OneInitializer
    /\ WordTells
    /\ ReturnsAfterCompletion
    /\ NoStrandedSleeper
=============================================================================
