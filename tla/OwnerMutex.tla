----------------------------- MODULE OwnerMutex -----------------------------
(***************************************************************************)
(* pthread_mutex.rs: the mutexes that know their owner (recursive,         *)
(* error-checking, robust; private or process-shared), with the owner's    *)
(* death: an orderly thread exit, which walks the robust list itself, or   *)
(* the kill of a process that shares the mutex, at any instruction, after  *)
(* which the kernel walks the list and its pending slot.                   *)
(*                                                                         *)
(* The kind is chosen at the start and never changes.  A thread that       *)
(* shares the mutex between processes is a process of its own.  The spin   *)
(* before the first sleep only reads, and is left out.                     *)
(***************************************************************************)
EXTENDS TaskCount

CONSTANTS
    Kinds,      \* the kinds considered: records [base, robust, shared]
    MaxCount,   \* c_int::MAX, where the recursion depth ends
    None,       \* owner field 0
    Unrecoverable   \* owner field MUTEX_OWNER_MASK

ASSUME OwnersAssumption == None # Unrecoverable /\ {None, Unrecoverable} \cap Threads = {}

ASSUME KindsAssumption ==
    Kinds \subseteq [base : {"normal", "recursive", "errorcheck"},
                     robust : BOOLEAN, shared : BOOLEAN]

ASSUME CountAssumption == MaxCount \in Nat

VARIABLES
    kind,       \* the type word
    lock,       \* the lock word: owner, owner-died bit, waiter bit
    waiters,    \* the waiter count
    count,      \* _m_count
    linked,     \* the threads whose robust list has the mutex
    pending,    \* the threads whose pending slot has the mutex
    pc,         \* where each thread is
    op,         \* the call it makes
    word,       \* the lock word as it last saw it
    hint,       \* whether it last saw a waiter count
    held,       \* history: what the owner was told: a clean mutex, or a dead owner
    data,       \* history: the protected state: good, suspect (an owner died), lost
    owing       \* history: a process was killed that had yet to pass a wake on

vars == <<kind, lock, waiters, count, linked, pending, pc, op, word, hint, held,
          data, owing>>

Words == [owner : Threads \cup {None, Unrecoverable}, died : BOOLEAN, waiting : BOOLEAN]

Free == [owner |-> None, died |-> FALSE, waiting |-> FALSE]
OWNER_DIED == [owner |-> None, died |-> TRUE, waiting |-> FALSE]
NOT_RECOVERABLE == [owner |-> Unrecoverable, died |-> TRUE, waiting |-> FALSE]

\* idle    in user code
\* try, prep, cas, link          one attempt to acquire
\* look, add, mark, futex, asleep, sub, timeout   waiting
\* unlink, swap, clear, wake     unlocking
\* xhint, xswap, xclear, xwake   the end of a thread that owns it
\* gone    the thread has ended
Labels == {"idle", "try", "prep", "cas", "link", "look", "add", "mark", "futex",
           "asleep", "sub", "timeout", "unlink", "swap", "clear", "wake",
           "xhint", "xswap", "xclear", "xwake", "gone"}

TypeOK ==
    /\ kind \in Kinds
    /\ lock \in Words
    /\ waiters \in Nat
    /\ count \in 0..MaxCount
    /\ linked \subseteq Threads /\ pending \subseteq Threads
    /\ pc \in [Threads -> Labels]
    /\ op \in [Threads -> {"trylock", "lock", "timedlock"}]
    /\ word \in [Threads -> Words]
    /\ hint \in [Threads -> BOOLEAN]
    /\ held \in [Threads -> {"no", "clean", "recover"}]
    /\ data \in {"good", "suspect", "lost"}
    /\ owing \in BOOLEAN

Init ==
    /\ kind \in Kinds
    /\ lock = Free
    /\ waiters = 0
    /\ count = 0
    /\ linked = {} /\ pending = {}
    /\ pc = [t \in Threads |-> "idle"]
    /\ op = [t \in Threads |-> "lock"]
    /\ word = [t \in Threads |-> Free]
    /\ hint = [t \in Threads |-> FALSE]
    /\ held = [t \in Threads |-> "no"]
    /\ data = "good"
    /\ owing = FALSE

\* A thread back in user code, or at its end, has no locals.
Goto(t, label) ==
    /\ pc' = [pc EXCEPT ![t] = label]
    /\ op' = IF label \in {"idle", "gone"} THEN [op EXCEPT ![t] = "lock"] ELSE op

See(t, w) == word' = [word EXCEPT ![t] = w]

Forget(t) == See(t, Free) /\ hint' = [hint EXCEPT ![t] = FALSE]

history == <<held, data, owing>>
lists == <<linked, pending>>

-----------------------------------------------------------------------------
(* try_lock_selected_owned_owner_mutex_record *)

\* EBUSY ends a trylock and sends a lock into its wait.
Busy(t) == IF op[t] = "trylock" THEN "idle" ELSE "look"

\* The first load decides: recursion, EBUSY, ENOTRECOVERABLE, or an attempt.
Try(t) ==
    /\ pc[t] = "try"
    /\ \/ /\ lock.owner = t /\ kind.base = "recursive"
          /\ count' = IF count >= MaxCount THEN count ELSE count + 1
          /\ Goto(t, "idle")
          /\ UNCHANGED word
       \/ /\ lock.owner = t /\ kind.base # "recursive"
          /\ Goto(t, Busy(t))
          /\ UNCHANGED <<count, word>>
       \/ /\ lock.owner = Unrecoverable
          /\ Goto(t, "idle")
          /\ UNCHANGED <<count, word>>
       \/ /\ lock.owner \notin {t, Unrecoverable}
          /\ \/ lock.owner # None
             \/ lock # Free /\ ~kind.robust
          /\ Goto(t, Busy(t))
          /\ UNCHANGED <<count, word>>
       \/ /\ lock.owner = None
          /\ lock = Free \/ kind.robust
          /\ Goto(t, "prep")
          /\ See(t, lock)
          /\ UNCHANGED count
    /\ UNCHANGED <<kind, lock, waiters, lists, hint, history>>

\* begin_shared_robust_transition, and the read of the waiter count: a shared
\* owner keeps the waiter bit for the kernel.
Prepare(t) ==
    /\ pc[t] = "prep"
    /\ pending' = IF kind.shared THEN pending \cup {t} ELSE pending
    /\ hint' = [hint EXCEPT ![t] = kind.shared /\ waiters # 0]
    /\ Goto(t, "cas")
    /\ UNCHANGED <<kind, lock, waiters, count, linked, word, history>>

\* Fault: a new owner takes over the word of a dead one without its mark.
CasForgets(t) ==
    /\ pc[t] = "cas"
    /\ \/ /\ lock = word[t]
          /\ lock' = [owner |-> t, died |-> FALSE, waiting |-> hint[t]]
          /\ Goto(t, "link")
          /\ UNCHANGED <<pending, word, hint>>
       \/ /\ lock # word[t]
          /\ pending' = pending \ {t}
          /\ Goto(t, Busy(t))
          /\ Forget(t)
          /\ UNCHANGED lock
    /\ UNCHANGED <<kind, waiters, count, linked, history>>

Cas(t) ==
    /\ pc[t] = "cas"
    /\ \/ /\ lock = word[t]
          /\ lock' = [owner |-> t, died |-> word[t].died, waiting |-> hint[t]]
          /\ Goto(t, "link")
          /\ UNCHANGED <<pending, word, hint>>
       \/ /\ lock # word[t]
          /\ pending' = pending \ {t}
          /\ Goto(t, Busy(t))
          /\ Forget(t)
          /\ UNCHANGED lock
    /\ UNCHANGED <<kind, waiters, count, linked, history>>

\* Fault: the slot is emptied before the mutex is on the list.
LinkLate(t) ==
    /\ pc[t] = "link"
    /\ IF t \in pending
       THEN /\ pending' = pending \ {t}
            /\ UNCHANGED <<linked, count, held, pc, op, word, hint>>
       ELSE /\ linked' = linked \cup {t}
            /\ count' = IF word[t] # Free THEN 0 ELSE count
            /\ held' = [held EXCEPT ![t] = IF word[t] # Free THEN "recover" ELSE "clean"]
            /\ Goto(t, "idle")
            /\ Forget(t)
            /\ UNCHANGED pending
    /\ UNCHANGED <<kind, lock, waiters, data, owing>>

\* The mutex joins the robust list before it leaves the pending slot; the call
\* returns 0 or EOWNERDEAD.
Link(t) ==
    /\ pc[t] = "link"
    /\ linked' = linked \cup {t}
    /\ pending' = pending \ {t}
    /\ count' = IF word[t] # Free THEN 0 ELSE count
    /\ held' = [held EXCEPT ![t] = IF word[t] # Free THEN "recover" ELSE "clean"]
    /\ Goto(t, "idle")
    /\ Forget(t)
    /\ UNCHANGED <<kind, lock, waiters, data, owing>>

-----------------------------------------------------------------------------
(* timed_lock_selected_owned_owner_mutex_record *)

\* A normal mutex is not locked again by its owner: it would wait for itself.
Call(t) ==
    /\ pc[t] = "idle"
    /\ kind.base = "normal" => held[t] = "no"
    /\ \E o \in {"trylock", "lock", "timedlock"} :
        /\ pc' = [pc EXCEPT ![t] = "try"]
        /\ op' = [op EXCEPT ![t] = o]
    /\ UNCHANGED <<kind, lock, waiters, count, lists, word, hint, history>>

Look(t) ==
    /\ pc[t] = "look"
    /\ \/ /\ lock.owner = None /\ (lock = Free \/ kind.robust)
          /\ Goto(t, "try")
          /\ UNCHANGED word
       \/ /\ lock.owner = t /\ kind.base = "errorcheck"     \* EDEADLK
          /\ Goto(t, "idle")
          /\ UNCHANGED word
       \/ /\ ~(lock.owner = None /\ (lock = Free \/ kind.robust))
          /\ ~(lock.owner = t /\ kind.base = "errorcheck")
          /\ Goto(t, "add")
          /\ See(t, lock)
    /\ UNCHANGED <<kind, lock, waiters, count, lists, hint, history>>

AddWaiter(t) ==
    /\ pc[t] = "add"
    /\ waiters' = waiters + 1
    /\ Goto(t, "mark")
    /\ UNCHANGED <<kind, lock, count, lists, word, hint, history>>

Marked(w) == [w EXCEPT !.waiting = TRUE]

Mark(t) ==
    /\ pc[t] = "mark"
    /\ IF lock = word[t]
       THEN lock' = Marked(lock) /\ See(t, Marked(lock)) /\ Goto(t, "futex")
       ELSE UNCHANGED <<lock, word>> /\ Goto(t, "sub")
    /\ UNCHANGED <<kind, waiters, count, lists, hint, history>>

FutexWait(t) ==
    /\ pc[t] = "futex"
    /\ Goto(t, IF lock = word[t] THEN "asleep" ELSE "sub")
    /\ UNCHANGED <<kind, lock, waiters, count, lists, word, hint, history>>

\* The deadline has passed before the sleep or passes in it, or a signal ends it.
TimeOut(t) ==
    /\ pc[t] \in {"futex", "asleep"}
    /\ \/ op[t] = "timedlock" /\ Goto(t, "timeout")
       \/ pc[t] = "asleep" /\ Goto(t, "sub")
    /\ UNCHANGED <<kind, lock, waiters, count, lists, word, hint, history>>

SubWaiter(t) ==
    /\ pc[t] \in {"sub", "timeout"}
    /\ waiters' = waiters - 1
    /\ Goto(t, IF pc[t] = "sub" THEN "try" ELSE "idle")
    /\ See(t, Free)
    /\ UNCHANGED <<kind, lock, count, lists, hint, history>>

-----------------------------------------------------------------------------
(* unlock_selected_owned_owner_mutex_record; a caller that is not the owner *)
(* gets EPERM and nothing changes.                                          *)

\* The waiter hint is read while the mutex is still owned.
Unlock(t) ==
    /\ pc[t] = "idle"
    /\ lock.owner = t
    /\ IF kind.base = "recursive" /\ count # 0
       THEN /\ count' = count - 1
            /\ UNCHANGED <<pending, pc, hint>>
       ELSE /\ hint' = [hint EXCEPT ![t] = waiters # 0]
            /\ pending' = IF kind.shared THEN pending \cup {t} ELSE pending
            /\ pc' = [pc EXCEPT ![t] = "unlink"]
            /\ UNCHANGED count
    /\ UNCHANGED <<kind, lock, waiters, linked, op, word, history>>

Unlink(t) ==
    /\ pc[t] = "unlink"
    /\ linked' = linked \ {t}
    /\ Goto(t, "swap")
    /\ UNCHANGED <<kind, lock, waiters, count, pending, word, hint, history>>

\* What the release leaves in the lock word.
Released == IF kind.robust /\ lock.died THEN NOT_RECOVERABLE ELSE Free

\* Fault: the release trusts the waiter bit, which a private owner drops.
SwapWithoutHint(t) ==
    /\ pc[t] = "swap"
    /\ lock' = Released
    /\ hint' = [hint EXCEPT ![t] = lock.waiting]
    /\ held' = [held EXCEPT ![t] = "no"]
    /\ data' = IF data = "suspect" THEN "lost" ELSE data
    /\ Goto(t, "clear")
    /\ UNCHANGED <<kind, waiters, count, lists, word, owing>>

Swap(t) ==
    /\ pc[t] = "swap"
    /\ lock' = Released
    /\ hint' = [hint EXCEPT ![t] = hint[t] \/ lock.waiting]
    /\ held' = [held EXCEPT ![t] = "no"]
    /\ data' = IF data = "suspect" THEN "lost" ELSE data
    /\ Goto(t, "clear")
    /\ UNCHANGED <<kind, waiters, count, lists, word, owing>>

ClearPending(t) ==
    /\ pc[t] \in {"clear", "xclear"}
    /\ pending' = pending \ {t}
    /\ Goto(t, IF hint[t] THEN (IF pc[t] = "clear" THEN "wake" ELSE "xwake")
               ELSE IF pc[t] = "clear" THEN "idle" ELSE "gone")
    /\ hint' = [hint EXCEPT ![t] = FALSE]
    /\ UNCHANGED <<kind, lock, waiters, count, linked, word, history>>

Sleepers == {t \in Threads : pc[t] = "asleep"}

\* FUTEX_WAKE of one sleeper, in a step that takes t to label.
WakeOne(t, label) ==
    LET at(s) == [pc EXCEPT ![t] = label, ![s] = "sub"]
    IN  IF Sleepers \ {t} = {} THEN pc' = [pc EXCEPT ![t] = label]
        ELSE \E s \in Sleepers \ {t} : pc' = at(s)

Wake(t) ==
    /\ pc[t] \in {"wake", "xwake"}
    /\ WakeOne(t, IF pc[t] = "wake" THEN "idle" ELSE "gone")
    /\ UNCHANGED <<kind, lock, waiters, count, lists, op, word, hint, history>>

\* pthread_mutex_consistent, by the owner that was told of the death.
Consistent(t) ==
    /\ pc[t] = "idle"
    /\ kind.robust /\ lock.owner = t /\ lock.died
    /\ lock' = [lock EXCEPT !.died = FALSE]
    /\ held' = [held EXCEPT ![t] = "clean"]
    /\ data' = "good"
    /\ UNCHANGED <<kind, waiters, count, lists, pc, op, word, hint, owing>>

-----------------------------------------------------------------------------
(* The end of a thread *)

\* mark_current_selected_robust_mutexes_owner_dead: the hint, then the pending
\* slot, then the list head.
Exit(t) ==
    /\ pc[t] = "idle"
    /\ IF t \in linked
       THEN /\ hint' = [hint EXCEPT ![t] = waiters # 0]
            /\ pending' = pending \cup {t}
            /\ Goto(t, "xhint")
       ELSE /\ Goto(t, "gone")
            /\ UNCHANGED <<hint, pending>>
    /\ UNCHANGED <<kind, lock, waiters, count, linked, word, history>>

ExitUnlink(t) ==
    /\ pc[t] = "xhint"
    /\ linked' = linked \ {t}
    /\ Goto(t, "xswap")
    /\ UNCHANGED <<kind, lock, waiters, count, pending, word, hint, history>>

ExitSwap(t) ==
    /\ pc[t] = "xswap"
    /\ lock' = OWNER_DIED
    /\ hint' = [hint EXCEPT ![t] = hint[t] \/ lock.waiting]
    /\ held' = [held EXCEPT ![t] = "no"]
    /\ data' = "suspect"
    /\ Goto(t, "xclear")
    /\ UNCHANGED <<kind, waiters, count, lists, word, owing>>

\* Where a thread has a wake to give, or has been woken and owns nothing yet, and
\* the kernel would not see it: the pending slot is empty, or the word in it has
\* another owner by now.
Owing(t) ==
    \/ pc[t] \in {"wake", "xwake", "sub", "timeout", "try", "prep", "look", "add",
                  "mark", "futex"}
    \/ pc[t] \in {"cas", "clear", "xclear"} /\ lock.owner # None

\* The kernel ends a killed process: it marks the lock words the dead task owns
\* on its list and in its pending slot, keeping the waiter bit, and wakes one
\* waiter of a marked word or of a pending word without an owner.
Crash(t) ==
    LET reached == t \in linked \cup pending
        owned == reached /\ lock.owner = t
    IN  /\ kind.shared
        /\ pc[t] # "gone"
        /\ lock' = IF owned THEN [OWNER_DIED EXCEPT !.waiting = lock.waiting] ELSE lock
        /\ IF (owned /\ lock.waiting) \/ (t \in pending /\ lock.owner = None)
           THEN WakeOne(t, "gone")
           ELSE pc' = [pc EXCEPT ![t] = "gone"]
        /\ linked' = linked \ {t}
        /\ pending' = pending \ {t}
        /\ op' = [op EXCEPT ![t] = "lock"]
        /\ Forget(t)
        /\ held' = [held EXCEPT ![t] = "no"]
        /\ data' = IF owned THEN "suspect" ELSE data
        /\ owing' = (owing \/ Owing(t))
        /\ UNCHANGED <<kind, waiters, count>>

-----------------------------------------------------------------------------

Step(t) ==
    \/ Try(t) \/ Prepare(t) \/ Cas(t) \/ Link(t)
    \/ Look(t) \/ AddWaiter(t) \/ Mark(t) \/ FutexWait(t) \/ SubWaiter(t)
    \/ Unlink(t) \/ Swap(t) \/ ClearPending(t) \/ Wake(t)
    \/ ExitUnlink(t) \/ ExitSwap(t)

Next ==
    \E t \in Threads :
        \/ Call(t) \/ Unlock(t) \/ Consistent(t) \/ Exit(t)
        \/ Step(t) \/ TimeOut(t) \/ Crash(t)

Spec == Init /\ [][Next]_vars

-----------------------------------------------------------------------------

Owners == {t \in Threads : held[t] # "no" \/ pc[t] = "link"}

\* At most one thread has the mutex, the lock word names it, and a word that
\* names a thread names a living one that has it: wherever a thread or a process
\* ends, its ownership ends with it, because the robust list or the pending slot
\* leads to the mutex from the compare-and-swap to the swap.
WordNamesTheOwner ==
    /\ \A t \in Owners : lock.owner = t
    /\ lock.owner \in Threads => lock.owner \in Owners

\* An owner is told what state it finds: the first owner after a death gets
\* EOWNERDEAD, everyone after a pthread_mutex_consistent gets 0, and after an
\* unlock without it nobody gets the mutex again.
DeathIsReported ==
    \A t \in Threads :
        /\ held[t] = "clean" => data = "good"
        /\ held[t] = "recover" => data = "suspect"

\* Somebody will look at a mutex that a thread sleeps on.
Attended ==
    Sleepers # {} =>
        \/ lock.owner \in Threads
        \/ \E t \in Threads : pc[t] \notin {"idle", "asleep", "gone"}

\* No thread sleeps on a mutex that nobody owns and nobody is about to release:
\* an unlock, an orderly end of the owner and, from the compare-and-swap to the
\* end of the unlock's pending interval, the kill of its process all wake a
\* waiter.  Left out: a mutex that can no longer be locked, and a process killed
\* where it had a wake to pass on.
NoStrandedSleeper ==
    ~owing /\ data # "lost" /\ (kind.robust \/ data = "good") => Attended

\* pthread_mutex.rs on a robust mutex: a recovery owner must call
\* pthread_mutex_consistent before unlock "or the next owner sees
\* ENOTRECOVERABLE": the threads that wait for it get to see it.
LossIsReported == ~owing /\ kind.robust => Attended

=============================================================================
