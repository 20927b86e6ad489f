--------------------------- MODULE PosixSemaphore ---------------------------
(***************************************************************************)
(* posix_semaphore.rs: sem_wait, sem_timedwait, sem_trywait, sem_post and  *)
(* the wait of the asynchronous-I/O hand-off on one semaphore.             *)
(*                                                                         *)
(* The value word carries the units and a bit that a waiter sets before it *)
(* sleeps on exactly "no units, bit set"; a second word counts the waiters *)
(* about to sleep.  Each action is one atomic access or one futex call.  A *)
(* load followed by a successful compare-and-swap on the value loaded is   *)
(* one step (trywait_raw); the spin loops only read, so they are the time  *)
(* a thread may stay at "try".  A local variable returns to its initial    *)
(* value where it goes out of scope.                                       *)
(***************************************************************************)
EXTENDS Integers, FiniteSets

CONSTANTS
    Threads,    \* the threads that share the semaphore
    Posters,    \* those of them that may call sem_post
    MaxValue    \* SEM_VALUE_MAX, 2^31 - 1 in the code

VARIABLES
    value,      \* the value word: units and waiter bit
    waiters,    \* the waiter count
    pc,         \* where each thread is
    seen,       \* the value word as sem_post last read it
    hint        \* the waiter count as sem_post last read it

vars == <<value, waiters, pc, seen, hint>>

Words == [units : 0..MaxValue, marked : BOOLEAN]

Empty == [units |-> 0, marked |-> FALSE]

\* idle    outside                  try     about to try to take a unit
\* enrol   about to count itself    mark    about to set the bit
\* wait    about to FUTEX_WAIT      asleep  inside FUTEX_WAIT
\* drop    about to uncount itself and retry
\* giveup  about to uncount itself and return an error, or to run the cleanup
\*         handler of a cancelled wait
\* hint    sem_post has read the value      cas  ... and the waiter count
\* wake    sem_post is about to call FUTEX_WAKE
Labels == {"idle", "try", "enrol", "mark", "wait", "asleep", "drop",
           "giveup", "hint", "cas", "wake"}

TypeOK ==
    /\ value \in Words
    /\ waiters \in Nat
    /\ pc \in [Threads -> Labels]
    /\ seen \in [Threads -> Words]
    /\ hint \in [Threads -> Nat]

\* sem_init accepts every value up to SEM_VALUE_MAX.
Init ==
    /\ \E n \in 0..MaxValue : value = [Empty EXCEPT !.units = n]
    /\ waiters = 0
    /\ pc = [t \in Threads |-> "idle"]
    /\ seen = [t \in Threads |-> Empty]
    /\ hint = [t \in Threads |-> 0]

Goto(t, label) == pc' = [pc EXCEPT ![t] = label]

\* trywait_raw, keeping the waiter bit.
TryWait(t, failed) ==
    IF value.units > 0
      THEN value' = [value EXCEPT !.units = @ - 1] /\ Goto(t, "idle")
      ELSE Goto(t, failed) /\ UNCHANGED value

\* sem_trywait, and the first attempt of the waiting forms.
Wait(t) ==
    /\ pc[t] = "idle"
    /\ \E failed \in {"idle", "try"} : TryWait(t, failed)
    /\ UNCHANGED <<waiters, seen, hint>>

\* Fault: the loop waits for an empty semaphore and takes no unit itself.
TryNothing(t) ==
    /\ pc[t] = "try"
    /\ value.units = 0
    /\ Goto(t, "enrol")
    /\ UNCHANGED <<value, waiters, seen, hint>>

\* The head of the waiting loop.
Try(t) ==
    /\ pc[t] = "try"
    /\ TryWait(t, "enrol")
    /\ UNCHANGED <<waiters, seen, hint>>

Enrol(t) ==
    /\ pc[t] = "enrol"
    /\ waiters' = waiters + 1
    /\ Goto(t, "mark")
    /\ UNCHANGED <<value, seen, hint>>

\* The result of the compare-and-swap is ignored: FUTEX_WAIT compares again.
Mark(t) ==
    /\ pc[t] = "mark"
    /\ value' = IF value = Empty THEN [Empty EXCEPT !.marked = TRUE] ELSE value
    /\ Goto(t, "wait")
    /\ UNCHANGED <<waiters, seen, hint>>

FutexWait(t) ==
    /\ pc[t] = "wait"
    /\ Goto(t, IF value = [Empty EXCEPT !.marked = TRUE] THEN "asleep" ELSE "drop")
    /\ UNCHANGED <<value, waiters, seen, hint>>

\* A signal without an interrupting handler ends the sleep and is ignored.
Interrupt(t) ==
    /\ pc[t] = "asleep"
    /\ Goto(t, "drop")
    /\ UNCHANGED <<value, waiters, seen, hint>>

\* semaphore_timedwait_result fails (invalid or past deadline, timeout, a
\* signal with a handler), or the cancellable system call is cancelled.
Abort(t) ==
    /\ pc[t] \in {"wait", "asleep"}
    /\ Goto(t, "giveup")
    /\ UNCHANGED <<value, waiters, seen, hint>>

\* cleanup_semaphore_waiter
Drop(t) ==
    /\ pc[t] \in {"drop", "giveup"}
    /\ waiters' = waiters - 1
    /\ Goto(t, IF pc[t] = "drop" THEN "try" ELSE "idle")
    /\ UNCHANGED <<value, seen, hint>>

\* sem_post reads the value, then the waiter count.
PostLoad(t) ==
    /\ t \in Posters
    /\ pc[t] = "idle"
    /\ seen' = [seen EXCEPT ![t] = value]
    /\ Goto(t, "hint")
    /\ UNCHANGED <<value, waiters, hint>>

\* A full semaphore refuses the post (EOVERFLOW).
PostHint(t) ==
    /\ pc[t] = "hint"
    /\ IF seen[t].units = MaxValue
         THEN /\ seen' = [seen EXCEPT ![t] = Empty]
              /\ Goto(t, "idle")
              /\ UNCHANGED hint
         ELSE /\ hint' = [hint EXCEPT ![t] = waiters]
              /\ Goto(t, "cas")
              /\ UNCHANGED seen
    /\ UNCHANGED <<value, waiters>>

\* The bit survives only when at least two waiters were seen.
Posted(w, h) == [units |-> w.units + 1, marked |-> w.marked /\ h > 1]

MustWake(w, h) == w.marked \/ h # 0

PostCas(t) ==
    /\ pc[t] = "cas"
    /\ IF value # seen[t]
         THEN seen' = [seen EXCEPT ![t] = value] /\ Goto(t, "hint") /\ UNCHANGED value
         ELSE /\ value' = Posted(value, hint[t])
              /\ seen' = [seen EXCEPT ![t] = Empty]
              /\ Goto(t, IF MustWake(value, hint[t]) THEN "wake" ELSE "idle")
    /\ hint' = [hint EXCEPT ![t] = IF value = seen[t] /\ MustWake(value, @)
                                     THEN @ ELSE 0]
    /\ UNCHANGED waiters

\* One waiter, or all of them when at most one was seen: the bit is gone then.
WakesAll(h) == h <= 1

PostWake(t) ==
    LET sleepers == {s \in Threads : pc[s] = "asleep"} IN
    /\ pc[t] = "wake"
    /\ \E woken \in IF WakesAll(hint[t]) \/ sleepers = {}
                      THEN {sleepers}
                      ELSE {{s} : s \in sleepers} :
         pc' = [s \in Threads |-> IF s = t THEN "idle"
                                  ELSE IF s \in woken THEN "drop"
                                  ELSE pc[s]]
    /\ hint' = [hint EXCEPT ![t] = 0]
    /\ UNCHANGED <<value, waiters, seen>>

\* The steps of a call in progress that need nobody's help.
Step(t) ==
    \/ Try(t)
    \/ Enrol(t)
    \/ Mark(t)
    \/ FutexWait(t)
    \/ Drop(t)
    \/ PostHint(t)
    \/ PostCas(t)
    \/ PostWake(t)

Next ==
    \E t \in Threads :
        Wait(t) \/ PostLoad(t) \/ Step(t) \/ Interrupt(t) \/ Abort(t)

\* Every runnable thread is scheduled.  Nothing obliges a thread to wait or to
\* post, a signal or a cancellation to arrive, or a deadline to pass.
Fairness == \A t \in Threads : WF_vars(Step(t))

Spec == Init /\ [][Next]_vars

FairSpec == Spec /\ Fairness

-----------------------------------------------------------------------------

Counted == {t \in Threads : pc[t] \in {"mark", "wait", "asleep", "drop", "giveup"}}

Semaphore == INSTANCE AbstractSemaphore WITH
    value <- value.units,
    waiting <- Counted \cup {t \in Threads : pc[t] \in {"try", "enrol"}}

\* The semaphore implements the abstract one: units are neither lost nor
\* invented, and a unit that somebody waits for is taken.
ImplementsSemaphore == Semaphore!Spec
=============================================================================
