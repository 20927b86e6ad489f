------------------------------ MODULE MCThreads -----------------------------
(***************************************************************************)
(* Model checking of what belongs to a thread: its creation, join, detach  *)
(* and end (ThreadLifecycle), its cancellation (Cancellation) and its      *)
(* values (ThreadData).  A behaviour is about one of the three.            *)
(***************************************************************************)
EXTENDS ThreadData

CONSTANTS
    Workers, Main, MaxCalls,    \* of ThreadLifecycle
    First,                      \* the worker that is created first: they are alike
    Requesters, MaxRequests     \* of Cancellation

VARIABLES
    object,
    lpc, call, reaped, ctl, known, calls,
    pending, state, async, queue, frames, req, requests

lifecycleVars == <<lpc, call, reaped, ctl, known, calls>>
cancelVars == <<pending, state, async, queue, frames, req, requests>>
allVars == <<object, vars, lifecycleVars, cancelVars>>

Lifecycle == INSTANCE ThreadLifecycle WITH pc <- lpc
Cancelling == INSTANCE Cancellation

MCInit ==
    /\ object \in {"data", "lifecycle", "cancel"}
    /\ Init /\ Lifecycle!Init /\ Cancelling!Init

MCNext ==
    /\ UNCHANGED object
    /\ \/ object = "data" /\ Next /\ UNCHANGED <<lifecycleVars, cancelVars>>
       \/ /\ object = "lifecycle" /\ Lifecycle!Next
          /\ lpc'[First] = "none" => \A w \in Workers : lpc'[w] = "none"
          /\ UNCHANGED <<vars, cancelVars>>
       \/ object = "cancel" /\ Cancelling!Next /\ UNCHANGED <<vars, lifecycleVars>>

\* The steps that both fairness conditions are about.
MCStep ==
    \/ /\ object = "lifecycle" /\ \E t \in Workers \cup {Main} : Lifecycle!Step(t)
       /\ UNCHANGED <<object, vars, cancelVars>>
    \/ /\ object = "cancel" /\ Cancelling!Step
       /\ UNCHANGED <<object, vars, lifecycleVars>>

MCSpec == MCInit /\ [][MCNext]_allVars /\ WF_allVars(MCStep)

-----------------------------------------------------------------------------
\* Each control is unmapped once, by one thread, after its last use.
ControlsEndOnce == Lifecycle!ControlsEndOnce

\* A signal is sent to a kernel task that lives.
SignalsHitTheirTask == Lifecycle!SignalsHitTheirTask

\* Every call ends, except a join of a thread that does not.
CallsSettle == Lifecycle!CallsSettle

\* A cancellation request reaches a thread asleep at a cancellation point.
RequestIsServed == Cancelling!RequestIsServed

\* No cancellation acts after the effect of a system call.
NoEffectIsLost == Cancelling!NoEffectIsLost
=============================================================================
