----------------------------- MODULE MCCondLive -----------------------------
(***************************************************************************)
(* Model checking, for liveness, of a private condition variable           *)
(* (PthreadCond) or of a process-shared one (SharedCond).  A behaviour has *)
(* one of them, chosen at the start; the other stays as it was made.       *)
(***************************************************************************)
EXTENDS PthreadCond

CONSTANTS Consumers, Producers, MaxItems, MaxBreaks, None   \* of the shared one
CONSTANTS Sleeper, Signaler      \* of the private one

VARIABLES object, mutex, items, closed, sequence, swaiters, latch, squeue, spc,
    expected, serror, made, breaks, freed, left

sharedVars == <<mutex, items, closed, sequence, swaiters, latch, squeue, spc,
                expected, serror, made, breaks, freed, left>>
allVars == <<object, vars, sharedVars>>

\* Signaler may only signal or broadcast, and Sleeper only wait; the third
\* thread may have either part.  Sleeper's wait has a deadline, and the third
\* thread is the one that may be cancelled.
OneSignal == [t \in Threads |-> IF t = Signaler THEN 1 ELSE 2]

Shared == INSTANCE SharedCond WITH
    waiters <- swaiters, queue <- squeue, pc <- spc, error <- serror

MCInit == object \in {"private", "shared"} /\ Init /\ Shared!Init

MCNext ==
    /\ \/ /\ object = "private" /\ Next
          /\ stage'[Sleeper] # "slock" /\ error'[Sleeper] # "cancel"
          /\ \A t \in Threads \ {Sleeper} : error'[t] # "timeout"
          /\ UNCHANGED sharedVars
       \/ object = "shared" /\ Shared!Next /\ UNCHANGED vars
    /\ UNCHANGED object

MCSpec ==
    /\ MCInit /\ [][MCNext]_allVars
    /\ Fairness
    /\ WF_allVars(object = "shared" /\ Shared!Step /\ UNCHANGED <<object, vars>>)

-----------------------------------------------------------------------------

\* The shared condition variable: once destroy has returned no thread is in a wait
\* that will still read or write the object.
UntouchedAfterDestroy == Shared!UntouchedAfterDestroy

\* No consumer sleeps for ever beside an item, and destroy ends, unless a wake that
\* was meant for all has found more than one sleeper.
NobodyIsForgotten == object = "shared" => Shared!NobodyIsForgotten

=============================================================================
