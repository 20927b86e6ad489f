---------------------------- MODULE MCMutexCond -----------------------------
(***************************************************************************)
(* Model checking, for safety, of a mutex that knows its owner             *)
(* (OwnerMutex) or of a private condition variable with its mutex          *)
(* (PthreadCond).  A behaviour has one of them, chosen at the start; the   *)
(* other stays as it was made.                                             *)
(***************************************************************************)
EXTENDS MCOwnerMutex

CONSTANTS Null

VARIABLES
    object,
    clock, cwaiters, cpc, observed, chint, timed,
    head, tail, guard, node, stage, error, requeued, call, budget, queue

condVars == <<clock, cwaiters, cpc, observed, chint, timed, head, tail, guard, node,
              stage, error, requeued, call, budget, queue>>
allVars == <<object, vars, condVars>>

\* Every thread may play every part: lock and wait, signal twice, or lock and
\* signal.
AnyPart == [t \in Threads |-> 2]

Private == INSTANCE PthreadCond WITH
    Budget <- AnyPart, lock <- clock, waiters <- cwaiters, pc <- cpc, hint <- chint

MCInit ==
    /\ Init /\ Private!Init
    /\ \/ object = "mutex"
       \/ object = "cond" /\ kind = CHOOSE k \in Kinds : TRUE

\* Bounds: one thread at a time locks the mutex with a deadline; no wait for the
\* condition is cancelled in a behaviour that uses up all the calls.
OneDeadline == Cardinality({t \in Threads : op[t] = "timedlock"}) <= 1

CancelledEarly ==
    \/ \E t \in Threads : budget[t] > 0
    \/ \A t \in Threads : error[t] # "cancel" /\ stage[t] # "dead"

MCNext ==
    /\ \/ object = "mutex" /\ Next /\ OneDeadline' /\ UNCHANGED condVars
       \/ object = "cond" /\ Private!Next /\ CancelledEarly' /\ UNCHANGED vars
    /\ UNCHANGED object

MCSpec == MCInit /\ [][MCNext]_allVars

-----------------------------------------------------------------------------

\* The condition variable: no pointer that will still be followed leads to the
\* frame of a thread that has left wait() or signal().
FramesOutliveUsers == Private!FramesOutliveUsers

\* A signal that chose nobody, and a broadcast in any case, leaves nobody WAITING.
NoLostSignal == [][Private!LeavesNobody]_condVars

=============================================================================
