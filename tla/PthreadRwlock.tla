--------------------------- MODULE PthreadRwlock ---------------------------
(***************************************************************************)
(* pthread_rwlock.rs: rdlock, wrlock, their try and timed forms, unlock.   *)
(*                                                                         *)
(* The lock word holds the number of readers or the writer's sentinel, and *)
(* a bit that a thread sets before it sleeps; a second word counts the     *)
(* threads about to sleep.  Each action is one atomic access or one futex  *)
(* call.  A load followed by a successful compare-and-swap on the value    *)
(* loaded is one step (try_read_lock); the spin loops only read, so they   *)
(* are the time a thread may stay at "try".  A local variable returns to   *)
(* its initial value where it goes out of scope.                           *)
(***************************************************************************)
EXTENDS Integers, FiniteSets

CONSTANTS
    Threads,    \* the threads that share the lock
    MaxReaders  \* RWLOCK_READER_MAX, 2^31 - 2 in the code

ASSUME ThreadsAssumption == IsFiniteSet(Threads)

ASSUME MaxReadersAssumption == MaxReaders \in Nat \ {0}

VARIABLES
    lock,       \* the lock word: reader count or sentinel, waiter bit
    waiters,    \* _rw_waiters
    pc,         \* where each thread is
    kind,       \* whether its call locks for reading or for writing
    timed,      \* whether its call has a deadline
    seen,       \* the lock word as the thread last read it
    hint        \* _rw_waiters as unlock last read it

vars == <<lock, waiters, pc, kind, timed, seen, hint>>

WRITER == MaxReaders + 1

Words == [count : 0..WRITER, marked : BOOLEAN]

Free == [count |-> 0, marked |-> FALSE]

Marked(w) == [w EXCEPT !.marked = TRUE]

\* idle    outside                  try     about to try to acquire
\* look    about to read the word   enrol   about to count itself
\* mark    about to set the bit     wait    about to call FUTEX_WAIT
\* asleep  inside FUTEX_WAIT        drop    about to uncount itself and retry
\* giveup  about to uncount itself and return the error of the timed wait
\* held    holds the lock           hint    unlock has read the word
\* cas     unlock has read the hint wake    released, about to FUTEX_WAKE
Labels == {"idle", "try", "look", "enrol", "mark", "wait", "asleep", "drop",
           "giveup", "held", "hint", "cas", "wake"}

TypeOK ==
    /\ lock \in Words
    /\ waiters \in Nat
    /\ pc \in [Threads -> Labels]
    /\ kind \in [Threads -> {"none", "read", "write"}]
    /\ timed \in [Threads -> BOOLEAN]
    /\ seen \in [Threads -> Words]
    /\ hint \in [Threads -> Nat]

Init ==
    /\ lock = Free
    /\ waiters = 0
    /\ pc = [t \in Threads |-> "idle"]
    /\ kind = [t \in Threads |-> "none"]
    /\ timed = [t \in Threads |-> FALSE]
    /\ seen = [t \in Threads |-> Free]
    /\ hint = [t \in Threads |-> 0]

Goto(t, label) == pc' = [pc EXCEPT ![t] = label]

\* The call returns without the lock.
Fail(t) ==
    /\ Goto(t, "idle")
    /\ kind' = [kind EXCEPT ![t] = "none"]
    /\ timed' = [timed EXCEPT ![t] = FALSE]

\* The call returns with the lock.
Succeed(t, k) ==
    /\ Goto(t, "held")
    /\ kind' = [kind EXCEPT ![t] = k]
    /\ timed' = [timed EXCEPT ![t] = FALSE]

ReadSlots(w) == w.count < MaxReaders

\* try_read_lock succeeds, keeping the waiter bit, or finds no slot (EAGAIN).
TryRead(t) ==
    /\ lock.count # WRITER
    /\ IF ReadSlots(lock)
         THEN lock' = [lock EXCEPT !.count = @ + 1] /\ Succeed(t, "read")
         ELSE Fail(t) /\ UNCHANGED lock

FreeForWriter(w) == w = Free

\* try_write_lock succeeds: the word is exactly 0.
TryWrite(t) ==
    /\ FreeForWriter(lock)
    /\ lock' = [count |-> WRITER, marked |-> FALSE]
    /\ Succeed(t, "write")

\* Both try functions answer EBUSY.
Busy(k) ==
    IF k = "read" THEN lock.count = WRITER ELSE ~FreeForWriter(lock)

\* tryrdlock, trywrlock and the first attempt of the waiting forms.
Request(t) ==
    /\ pc[t] = "idle"
    /\ \/ TryRead(t)
       \/ TryWrite(t)
       \/ \E k \in {"read", "write"}, b \in BOOLEAN :
            /\ Busy(k)
            /\ Goto(t, "try")
            /\ kind' = [kind EXCEPT ![t] = k]
            /\ timed' = [timed EXCEPT ![t] = b]
            /\ UNCHANGED lock
    /\ UNCHANGED <<waiters, seen, hint>>

\* The head of the waiting loop of timed_read_lock and timed_write_lock.
Try(t) ==
    /\ pc[t] = "try"
    /\ \/ kind[t] = "read" /\ TryRead(t)
       \/ kind[t] = "write" /\ TryWrite(t)
       \/ /\ Busy(kind[t])
          /\ Goto(t, "look")
          /\ UNCHANGED <<lock, kind, timed>>
    /\ UNCHANGED <<waiters, seen, hint>>

\* A reader waits only for a writer; nobody waits for a free lock.
MustWait(k, w) ==
    IF k = "read" THEN w.count = WRITER ELSE w # Free

\* Fault: a contender that meets a free lock keeps looking.
LookForever(t) ==
    /\ pc[t] = "look"
    /\ MustWait(kind[t], lock)
    /\ seen' = [seen EXCEPT ![t] = lock]
    /\ Goto(t, "enrol")
    /\ UNCHANGED <<lock, waiters, kind, timed, hint>>

Look(t) ==
    /\ pc[t] = "look"
    /\ IF MustWait(kind[t], lock)
         THEN seen' = [seen EXCEPT ![t] = lock] /\ Goto(t, "enrol")
         ELSE Goto(t, "try") /\ UNCHANGED seen
    /\ UNCHANGED <<lock, waiters, kind, timed, hint>>

Enrol(t) ==
    /\ pc[t] = "enrol"
    /\ waiters' = waiters + 1
    /\ Goto(t, "mark")
    /\ UNCHANGED <<lock, kind, timed, seen, hint>>

\* The result of the compare-and-swap is ignored: FUTEX_WAIT compares again.
Mark(t) ==
    /\ pc[t] = "mark"
    /\ lock' = IF lock = seen[t] THEN Marked(lock) ELSE lock
    /\ Goto(t, "wait")
    /\ UNCHANGED <<waiters, kind, timed, seen, hint>>

\* timed_futex_wait sleeps only on the marked value.
FutexWait(t) ==
    /\ pc[t] = "wait"
    /\ Goto(t, IF lock = Marked(seen[t]) THEN "asleep" ELSE "drop")
    /\ seen' = [seen EXCEPT ![t] = Free]
    /\ UNCHANGED <<lock, waiters, kind, timed, hint>>

\* A signal ends the sleep; EINTR is ignored.
Interrupt(t) ==
    /\ pc[t] = "asleep"
    /\ Goto(t, "drop")
    /\ UNCHANGED <<lock, waiters, kind, timed, seen, hint>>

\* timed_futex_wait fails: the deadline is invalid or past before the system
\* call, or passes during it.
Expire(t) ==
    /\ timed[t]
    /\ pc[t] \in {"wait", "asleep"}
    /\ Goto(t, "giveup")
    /\ seen' = [seen EXCEPT ![t] = Free]
    /\ UNCHANGED <<lock, waiters, kind, timed, hint>>

Drop(t) ==
    /\ \/ pc[t] = "drop" /\ Goto(t, "try") /\ UNCHANGED <<kind, timed>>
       \/ pc[t] = "giveup" /\ Fail(t)
    /\ waiters' = waiters - 1
    /\ UNCHANGED <<lock, seen, hint>>

\* unlock reads the word, then the hint.
UnlockLoad(t) ==
    /\ pc[t] = "held"
    /\ seen' = [seen EXCEPT ![t] = lock]
    /\ Goto(t, "hint")
    /\ UNCHANGED <<lock, waiters, kind, timed, hint>>

UnlockHint(t) ==
    /\ pc[t] = "hint"
    /\ hint' = [hint EXCEPT ![t] = waiters]
    /\ Goto(t, "cas")
    /\ UNCHANGED <<lock, waiters, kind, timed, seen>>

\* The last hold clears the word with its bit; another reader keeps the bit.
AfterRelease(w) ==
    IF w.count \in {WRITER, 1} THEN Free ELSE [w EXCEPT !.count = @ - 1]

MustWake(w, h) == AfterRelease(w) = Free /\ (h # 0 \/ w.marked)

UnlockCas(t) ==
    /\ pc[t] = "cas"
    /\ IF lock = seen[t]
         THEN /\ lock' = AfterRelease(lock)
              /\ kind' = [kind EXCEPT ![t] = "none"]
              /\ IF MustWake(lock, hint[t])
                   THEN Goto(t, "wake") /\ UNCHANGED seen
                   ELSE Goto(t, "idle") /\ seen' = [seen EXCEPT ![t] = Free]
         ELSE /\ Goto(t, "held")
              /\ seen' = [seen EXCEPT ![t] = Free]
              /\ UNCHANGED <<lock, kind>>
    /\ hint' = [hint EXCEPT ![t] = 0]
    /\ UNCHANGED <<waiters, timed>>

\* futex_wake passes the count that was released: the sentinel wakes everyone.
WakesAll(w) == w.count = WRITER

UnlockWake(t) ==
    LET sleepers == {s \in Threads : pc[s] = "asleep"} IN
    /\ pc[t] = "wake"
    /\ \E woken \in IF WakesAll(seen[t]) \/ sleepers = {}
                      THEN {sleepers}
                      ELSE {{s} : s \in sleepers} :
         pc' = [s \in Threads |-> IF s = t THEN "idle"
                                  ELSE IF s \in woken THEN "drop"
                                  ELSE pc[s]]
    /\ seen' = [seen EXCEPT ![t] = Free]
    /\ UNCHANGED <<lock, waiters, kind, timed, hint>>

\* The steps of a call in progress that need nobody's help.
Step(t) ==
    \/ Try(t)
    \/ Look(t)
    \/ Enrol(t)
    \/ Mark(t)
    \/ FutexWait(t)
    \/ Drop(t)
    \/ UnlockHint(t)
    \/ UnlockCas(t)
    \/ UnlockWake(t)

Next ==
    \E t \in Threads :
        \/ Request(t)
        \/ Step(t)
        \/ UnlockLoad(t)
        \/ Interrupt(t)
        \/ Expire(t)

\* Every runnable thread is scheduled.  Nothing obliges a thread to lock or
\* unlock, a signal to arrive or a deadline to pass.
Fairness == \A t \in Threads : WF_vars(Step(t))

Spec == Init /\ [][Next]_vars

FairSpec == Spec /\ Fairness

-----------------------------------------------------------------------------

Holding(k) == {t \in Threads : pc[t] \in {"held", "hint", "cas"} /\ kind[t] = k}
Readers == Holding("read")
Writers == Holding("write")
Waiting(k) == {t \in Threads :
    /\ pc[t] \in {"try", "look", "enrol", "mark", "wait", "asleep", "drop", "giveup"}
    /\ kind[t] = k}

Rwlock == INSTANCE AbstractRwlock WITH
              wantRead <- Waiting("read"), wantWrite <- Waiting("write"),
              readers <- Readers, writers <- Writers

\* The lock implements the abstract reader-writer lock: exclusion, readers
\* wait for writers only, and no wake is lost.
ImplementsRwlock == Rwlock!Spec
=============================================================================
