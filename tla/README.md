# TLA+ verification of the crabc runtime

This directory holds TLA+ models of crabc, TLC configurations that check them
on small instances, and theorems checked by TLAPS. Source paths are relative
to the repository root; `x86_64/` stands for `src/libc/src/c_abi/x86_64/`.

## 1. The system

crabc is a Unix runtime in Rust without the standard library: a C library with
musl's ABI, a dynamic linker, startup objects, a memory allocator and a Rust
facade. The x86-64 product (`cfg(crabc_x86_owned_runtime)`) is the live target
and the one that is modelled; the AArch64 code is paused and the frozen
archive route repeats the same algorithms with fewer features.

Its parts, the state each one owns and the behaviour that is hard to get right:

| part | source | state | what is hard |
|---|---|---|---|
| internal lock | `x86_64/musl_lock.rs` | one word: flag bit + number of tasks | the count and the flag share a word; lost wake-ups |
| mutex | `x86_64/pthread_mutex.rs` | lock word, waiter hint, type, depth, robust list node | hint and mark are two words; owner death; recursion; PI hand-off |
| condition variable | `x86_64/owned_pthread_cond.rs`, `pthread_cond.rs` | list of waiters on their stacks, list lock, per-waiter barrier | signal racing timeout and cancellation; stack lifetime; requeue |
| read-write lock | `x86_64/pthread_rwlock.rs` | reader count / writer sentinel + mark bit, hint | readers barging past a marked word; saturation; hint read before release |
| semaphore | `x86_64/posix_semaphore.rs` | value + mark bit, hint | mark cleared by a stale hint; overflow |
| barrier | `x86_64/pthread_barrier.rs` | lock, instance on the first waiter's stack; shared counters | the instance dies with its owner's frame; reuse while leaving |
| once | `x86_64/pthread_once.rs` | one word with four states | initializer cancelled while others wait |
| spin lock | `x86_64/pthread_spin_operations.rs` | one word | a look and a compare-and-swap that others get between |
| lifetime guard | `x86_64/pthread_vmlock.rs` | holder count, hint | destroy of a process-shared object racing its last user |
| all-thread call | `x86_64/owned_synccall.rs` | thread-list lock, three semaphores, target | callers, exiting and new threads waiting for each other; a failed signal |
| thread lifecycle | `x86_64/pthread_create_join.rs` | registry, control mapping, join/detach state | join against detach against exit; reclaiming a live stack |
| cancellation | `x86_64/pthread_cancel.rs`, `owned_syscall_cancel.rs` | pending bit, state, cleanup chain | request racing the blocking system call, also under a signal handler |
| thread-specific data | `x86_64/pthread_tsd.rs` | key table, per-thread values | destructor that sets values again; key reuse |
| fork | `x86_64/pthread_atfork.rs` | handler list, lock resets | child that inherits a lock whose owner is gone |
| asynchronous I/O | `x86_64/owned_aio.rs` | queues, workers, requests | cancellation against completion; close against submission; two locks of which one must be dropped |
| dynamic linker | `src/ldso/src/` | object graph, TLS registry, runtime registry | relocation order; dlclose against dlopen |
| allocator | `src/crabc-mimalloc/src/` | heaps, pages, thread-free lists, abandoned bitmaps | remote free against owner exit and adoption |
| Rust facade | `src/crabc-rs/src/`, `src/crabc-core/src/` | thin wrappers | mostly stateless |
| startup and builtins | `src/crt/`, `src/builtins/`, `src/unwinder/` | none that is shared | pure code generation and arithmetic |
| stdio, locale, resolver, text | remaining files of `x86_64/` | per-call or per-FILE state | sequential string processing |

The synchronization primitives are the core: everything above them (stdio,
threads, the linker's registry, the allocator's locks) relies on their
guarantees, their code is short but every line is a race, and tests can only
sample the interleavings.

Common to all of them: a thread sleeps in the kernel on a word (`FUTEX_WAIT`
returns at once if the word no longer has the expected value), a releasing
thread decides by what it reads whether to call `FUTEX_WAKE`, and any sleep
may end early because of a signal. Whether a wake-up can be lost depends on
the order of three or four atomic accesses of two threads.

How the parts interact: the condition variable unlocks and relocks the mutex,
writes its waiter hint and its mark, and moves sleepers from a waiter's
barrier word to the mutex word (`FUTEX_REQUEUE`); its list is protected by the
0/1/2 lock. Cancellation ends the sleep of a semaphore or condition wait and
abandons an initializer of `once`. Process-shared barriers and robust mutexes
use the lifetime guard. The all-thread call holds the thread-list lock, which
thread creation and exit also take, and reads the thread registry, whose lock
join, detach, kill and cancel take; who may hold which with which signals
blocked is what keeps it from deadlock. Asynchronous I/O is built from the
other primitives and cancels its workers. The allocator uses none of them on
its fast paths: ownership of a page moves by atomic accesses to its head word.

## 2. Modules

| module | models | abstract specification |
|---|---|---|
| `MuslLock` | `musl_lock.rs`: `lock`, `unlock` | `AbstractLock` |
| `PrivateLock` | `pthread_cond.rs`: `private_lock`, `private_unlock` | `AbstractLock` |
| `SpinLock` | `pthread_spin_operations.rs`: `lock`, `trylock`, `unlock` | `AbstractLock` |
| `PthreadMutex` | `pthread_mutex.rs`: normal mutex, try / plain / timed | `AbstractLock` |
| `OwnerMutex` | `pthread_mutex.rs`: recursive, error-checking and robust mutexes, owner death, recovery | - |
| `PthreadRwlock` | `pthread_rwlock.rs`: all lock operations and `unlock` | `AbstractRwlock` |
| `PosixSemaphore` | `posix_semaphore.rs`: try / plain / timed wait, post | `AbstractSemaphore` |
| `PthreadOnce` | `pthread_once.rs`: the four-state word, abandoned initializers | - |
| `PthreadBarrier` | `pthread_barrier.rs`: the process-private barrier | - |
| `SharedBarrier` | `pthread_barrier.rs`: the process-shared barrier and `destroy`, composed with `pthread_vmlock.rs` of each process | - |
| `PthreadCond` | `owned_pthread_cond.rs`, `pthread_cond.rs`: process-private condition variable; instantiates `PthreadMutex` on shared variables | `AbstractCond` |
| `SharedCond` | `owned_pthread_cond.rs`: process-shared condition variable, `destroy`, and callers with a predicate | - |
| `Synccall` | `owned_synccall.rs` with the parts of `pthread_create_join.rs` and `pthread_signal.rs` that share its two locks | - |
| `ThreadLifecycle` | `pthread_create_join.rs`: create, exit, join, detach, kill, reaper | - |
| `Cancellation` | `owned_syscall_cancel.rs`, `pthread_cancel.rs` | - |
| `ThreadData` | `pthread_tsd.rs`: keys, values, destructor passes | - |
| `Aio` | `owned_aio.rs`: submission, workers, cancel, close, suspend | - |
| `AbandonedPage` | `crabc-mimalloc`: one page between owner, remote frees, adopters and heap deletion | - |
| `TaskCount` | the assumption that the threads fit the count of a lock word | - |

`MC*` modules give the constants small values; `*Proofs` and `*Lemmas` modules
hold the theorems and the inductive invariants they need.
`PROJECT.json` maps every definition to the lines it models.
`MCLocksBarriers`, `MCRwlockSemaphore`, `MCMutexCond`, `MCCondLive` and
`MCThreads` hold several independent components: the variable `object` says
which of them a behaviour is about, the others keep their initial state, so
that their state spaces add up and do not multiply.

Conventions, the same in every module:

- `pc` (in `PthreadCond` also `stage`) says where each thread is in the
  source; every action is one atomic access to shared memory or one system
  call. All atomic accesses of this code that write are locked instructions or
  `xchg` (`store_word` in `pthread_barrier.rs` too), so an interleaving
  semantics is the machine's.
- `FUTEX_WAIT` compares and goes to sleep in one step; a load directly before
  it that decides whether to call it at all is part of the step. `FUTEX_WAKE`
  picks its sleepers nondeterministically.
- A signal may end any sleep (`Interrupt`), a deadline may pass at any time
  while a timed call is in its wait (`Expire`, `Abort`, `GiveUp`).
- Local variables of a call return to their initial value when they are dead.
  A stack frame is named by its thread, so that a later frame of the same
  thread has the same address, as on a real stack.
- Spin loops that only read are the time a thread may spend before its next
  action. The optimistic loop of `MuslLock` is modelled turn by turn, because
  it takes the lock by itself.
- A definition introduced by `Fault:` is a plausible mistake in the definition
  below it. It is not part of the specification; replacing the definition by
  it must break the property it is listed with.

Points worth knowing when comparing with the source:

- `MuslLock` keeps the integer encoding of the word (flag bit plus count), as
  the properties are about that arithmetic. The other modules represent the
  mark bit of a word as a field or a third value.
- `PthreadMutex` merges the plain and the timed loop, which differ only in the
  error return (`timed`).
- In `PthreadCond` the list lock is the variable `guard`: a stretch of code
  under it that touches only what it protects is one action. That
  `private_lock` gives exclusion and hands over is what `PrivateLock` shows.
  The loop of `private_cond_signal` is not atomic, because waiters change
  their `state` without the lock.
- `queue` in `PthreadCond` and `members` in both barriers are history
  variables for stating properties; no guard reads them. `destroyer` of
  `SharedBarrier` states the callers' contract: one `destroy`, after which no
  wait begins, while nobody is before the second meeting of a round.
- `SharedBarrier` keeps the integer encoding of the lock word (`destroy`'s bit
  plus the number of holders) and gives every process its own `vmlock`. What
  it assumes of its constants is stated in `MCLocksBarriers`.
- `OwnerMutex` is the route of the owned runtime (lines 1370-1555); the frozen
  one (1198-1358) follows the same protocol. `Crash` is a killed process: the
  kernel walks its robust list and the pending slot. `data` is what the mutex
  protects, as its owners know it: good, suspect after a death, lost after an
  unlock without recovery. `owing` marks a process killed in the windows where
  it had a wake to pass on; there a sleeper can be left behind, which no user
  code can prevent (the kernel wakes only for words that still name the dead
  task), and `NoStrandedSleeper` leaves it out. The windows are those of a
  thread about to wake another one, and of a woken contender until it owns the
  word or sleeps again: the wake of an unlock was spent on it.
- `SharedCond` puts callers around the condition variable: consumers that test
  a predicate in a loop, producers that change it, and one that closes it and
  destroys the object. The futex wakes its sleepers oldest first, as Linux
  does; `signal` relies on that to reach a thread that waited before it.
  `FutexWake` takes the count as the kernel does: it is signed and compared
  after each thread woken, so that the -1 of broadcast and `destroy` wakes one
  thread. `left` records who was asleep and not reached. `Latch` is the load of
  the count and the compare-and-swap loop that sets its sign in one step: a
  waiter that leaves in between changes only the count the drain reads again.
- `AbstractCond` keeps apart who was woken (`woken`), who gave up (`leaving`)
  and whose wait ended in a cancellation (`cancelled`): a step of `PthreadCond`
  that cancels a thread a signal has chosen is no step of it.
- `Synccall` counts a task as active from its clone to the commit of its exit.
  `Blocked` says which signals a thread has blocked where; a signal that is
  blocked stays pending. `Call` also covers join and detach ("update"), which
  matter here only as holders of the registry lock. A creation is of a task of
  its own (`InCreation`), as every `pthread_create` writes a new control.
- `ThreadLifecycle` takes a critical section of the registry lock as one
  action, which `Synccall` models in detail. `child_tid` is the word that the
  kernel clears when the task has left its stack. `Reclaim` waits for the
  leases that `pthread_kill` holds on its target; those of a canceller's wake,
  taken and drained alike, are not modelled. A plain join is the timed one
  whose deadline does not pass.
- `Cancellation` has one thread with a stack of frames (the interrupted code
  below, signal handlers above) and the threads that cancel it. Its contract:
  signal handlers make system calls but do not call the cancellation functions,
  which POSIX does not list as async-signal-safe.
- `ThreadData` numbers the creations of keys, so that a value tells which
  creation it was stored under. The key-table lock makes each call one action.
- `Aio` has one descriptor, which `close` and a new submission give several
  queues in turn. Each request has an operation of its own (`op`), chosen when
  it is submitted; `append` is what the first worker of a queue read from the
  descriptor, and decides with `op` which requests wait for which
  (`MustWait`). `Suspend` models the list of `lio_listio` in its order: it
  drops leading controls that are complete and looks at the next. `missed`,
  `astray` and `prior` (the writes not over when a write or sync was submitted) are history
  variables.
- `AbandonedPage`: each action is one atomic access and the private work that
  follows it. The loops that compare-and-swap the head word are one step, as
  what they write depends only on the word they replace. `Kept` are the blocks
  freed without collection. The two free lists of the owner are one set. A heap
  deletion (`Move`) runs, by its contract, when no thread is at work on the page.

## 3. What the runs check

| run | instance | distinct states | properties |
|---|---|---|---|
| `locks_barriers` | internal lock, mutex: 3 threads; 0/1/2 lock, spin lock, once: 4; 1 spin, 2 abandoned initializers; barriers: 3 threads, rounds of 2 and of 3, the shared one in 2 processes, with `destroy` | 204 442 | `NoStrandedSleeper`: a sleeper on a free internal lock has somebody who will wake it; `LocksImplementLock`: the four locks implement `AbstractLock` with its hand-off; `ReturnsAfterCompletion`, `EveryCallEnds`: `pthread_once` returns, and not before a completion; `NobodyIsEarly`; `NothingDangles`: neither the instance on a dead frame nor a destroyed object is touched; `RoundsDrain`: complete rounds and `destroy` end, and on the private barrier enough threads meet |
| `rwlock_semaphore` | lock: 3 threads, 1 of them only reads, 1 may have a deadline, 2 readers at most; semaphore: 2 waiters and 2 posters or 3 waiters and 1 poster, 1 wait may be cut short, value at most 2 | 167 614 | `ImplementsRwlock`, `ImplementsSemaphore`: the abstract specifications, hand-off to sleepers included |
| `mutex_cond` | 3 threads; robust, recursive, error-checking mutexes, 1 deadline at a time; 2 condition calls each | 580 508 | `WordNamesTheOwner`, `DeathIsReported`, `NoStrandedSleeper` of the robust mutex under exit and kill; `FramesOutliveUsers`, `NoLostSignal` of the private condition variable |
| `cond_live` | private: 1 waiter, 1 signaler, 1 thread that is either; shared: 2 consumers, 2 producers, 2 items, 1 broken sleep | 179 295 | `ImplementsCond`: order of wake-ups, everyone returns, and no wait ends both by a signal and in a cancellation; `UntouchedAfterDestroy`; `NobodyIsForgotten`: no consumer sleeps for ever beside an item, and `destroy` ends, unless a broadcast has left somebody asleep (section 6) |
| `synccall` | 3 threads, of which 2 or 3 exist at first, 3 calls | 538 204 | `WorldStops`: during the callback nobody else runs application code; `AllOrNone`; `TargetsStayAlive`; `NothingLeftBehind`: no semaphore value or request survives the call; `CallsEnd` |
| `threads` | data: 2 threads, 2 slots, 2 passes, 3 creations; lifecycle: 2 workers and the initial thread, 4 calls; cancellation: 2 requests | 417 699 | `ValuesBelongToTheirKey`, `NoValueOverlooked`; `ControlsEndOnce`, `SignalsHitTheirTask`, `CallsSettle`; `RequestIsServed`, `NoEffectIsLost` |
| `aio` | 2 users, 3 requests, 3 queues in turn, 4 calls: 2 reads with every call, or up to 3 writes and syncs that wait for each other with a cancellation or a close | 385 092 | `LifetimesAreExact`, `CancelIsComplete`; `WritesInOrder`: nothing that has to wait transfers before the writes submitted ahead of it are over; `CallsEnd` |
| `abandoned_page` | 3 threads, 4 blocks, 1 of them freed without collection | 67 212 | `OneOwner`, `EveryBlockOnce`, `NothingUsesReleased`, `QuietPage`, `NoErrorReturn`, `CallsEnd` |

Four more runs show a disagreement between a comment and the code, see
section 6.

**Bounds.** Every race of the locks is between a releasing thread, a thread
that goes to sleep and a third one that takes the word in between; three
threads produce all of them. Two posts that each see one of two waiters need
four, of which two post; a post that leaves the mark for two more sleepers needs
three that wait. A wait that ends early only takes back what it has written
itself, so one thread with a deadline is enough for the lock and for the
semaphore; it may read or write. A barrier for two lets a later round complete while a
thread is still leaving an earlier one, a barrier for three has a thread that
is neither first nor last. (`PrivateLimits` are the code's `limit`, one less
than the count.) The reader limit and the maximal value are 2 so that the
threads reach them. `Spins` is 10 in the code; one turn already fails and
succeeds in every way. Two condition calls per thread include two signals in
parallel, a broadcast to two waiters with one of them leaving, and a signal by
a thread that waited. Waits are cancelled in the behaviours of at most five of
the six calls, where two waiters and a signal fit; a wait that times out takes
the same path up to its return and is in all of them. In `cond_live` one thread
times out and another is cancelled, and the thread that waits or signals makes
two signalers race. Two items and two consumers are enough for one consumer
to take what another was woken for. In `synccall` three threads are a caller, a
target and one that exits or is created meanwhile, or two callers and a
target; a budget of three calls lets a second rendezvous follow or race the
first. Two key slots and three creations reuse a slot; two passes of
destructors leave one for what a destructor stores. The first call
of `aio` is a submission (before it there is no queue to cancel or close), and
what is submitted decides how it goes on. With reads there are two requests, and
three queues for a descriptor that is closed and used again; one user cancels
everything and waits for any of its requests, the other cancels one, waits for
all of its own and closes, so that every pair of calls of the two users that
differ still meets. With writes one user submits up to three requests, each
while the earlier ones are in the queue: a write on a descriptor that appends
or is positioned, another write, and a write, a sync or (behind one write) a
read. A third request that waits for two writes is what a worker that looks
at its predecessors only once gets wrong. The other user cancels a request or
closes the descriptor, once, at any time; threads can always be created in
this half. Four blocks are one the list keeps, one that arrives
during a collection, one with a client and one free; three threads are owner,
free and adopter. Workers are alike,
so one of them is always the first to be created. Threads that use locks for
ever are not bounded: those state
spaces are finite by themselves.

**Symmetry** is used in `mutex_cond` and the safety runs of section 6;
none of them checks liveness. **Deadlock** is checked in `locks_barriers` and
`rwlock_semaphore`; a barrier that waits for its threads may stay as it is. In the others a behaviour may end: calls are bounded, all
threads may wait for a signal nobody sends, or `destroy` ends the object's
life. There the liveness properties say which calls must not be stuck.

**Fairness.** A thread that can take the next step of a call it has begun
takes it: the kernel schedules runnable threads. Nothing obliges a thread to
call, to unlock, a signal to arrive or a deadline to pass. For the locks,
barriers, private condition variables and the allocator's page it is weak
fairness per thread (`WF_vars(Step(t))`). `Synccall`, `ThreadLifecycle`,
`Cancellation`, `Aio` and `SharedCond` assume only that some begun call goes on
while one can, which is weaker and enough, as their calls are bounded. Three
additions are contracts of the callers or of the kernel: in `PthreadOnce` the
routine ends; in `PthreadCond` a critical section ends (`Unlock(t)` is among
the steps that fairness is about), without which a woken waiter cannot get the
mutex back;
`Handle` in `Synccall` delivers a pending signal that is not blocked. Nowhere is
strong fairness assumed, so the liveness of the locks is about hand-off (a free
lock somebody waits for is taken again, by anybody), not about starvation of
one thread, which the code does not promise. `CallsEnd` of `AbandonedPage` has
an exception for the same reason: the spin on a bitmap bit ends unless readers
keep taking the bit for ever.

## 4. What is proved

The theorems hold for every set of threads the assumptions allow, and any
number of spins, abandoned initializers, slots, passes and blocks.

| module | theorems |
|---|---|
| `LockProofs` | internal lock: `TypeCorrect`, `MutualExclusionHolds`, `WordCountsTasksHolds`, `NoStrandedSleeperHolds`, `ImplementsLockSafety`; normal mutex: the same with the prefix `Mutex`, with `MutexHintCountsContendersHolds` for the count; 0/1/2 lock: `PrivateMutualExclusionHolds`, `PrivateNoStrandedSleeperHolds`, `PrivateImplementsLockSafety`; once: `OnceOneInitializerHolds`, `OnceReturnsAfterCompletionHolds`, `OnceNoStrandedSleeperHolds`, `OnceCompletionIsFinalHolds` |
| `OwnerMutexProofs` (over `OwnerMutexLemmas`) | `WordNamesTheOwnerHolds`, `DeathIsReportedHolds`, `NoStrandedSleeperHolds` |
| `SynccallProofs` (over `SynccallLemmas`) | `WorldStopsHolds`, `AllOrNoneHolds`, `TargetsStayAliveHolds`, `NothingLeftBehindHolds` |
| `ThreadDataProofs` | `ValuesBelongToTheirKeyHolds`, `NoValueOverlookedHolds` |
| `AbandonedPageProofs` (over `AbandonedPageLemmas`) | `OneOwnerHolds`, `EveryBlockOnceHolds`, `NothingUsesReleasedHolds`, `QuietPageHolds`, `NoErrorReturnHolds` |

Each proof goes through an inductive invariant `IInv`, of the component's
module or defined beside its lemmas, and derives the theorems from
`Spec => []IInv`. TLC finds each `IInv` invariant on an instance of the size of section 3.
`LockProofs` holds four components: the internal lock is the module it
extends, the others are instances with variables of their own.

- `MuslLock`: exclusion alone is not inductive, since a compare-and-swap on a
  stale value could succeed on a held word. That the word is exactly flag +
  number of tasks, and that the expected values are never negative
  (`CurWasRead`), excludes it. Assumption: the threads fit into the count
  below the flag bit (`ThreadsAssumption`).
- `PthreadMutex`: for the stranded sleeper one needs what a releasing thread
  knows after it has read the hint (`HintCoversSleepers`), and for that the
  hint must be an exact count (`HintCountsContenders`); a word is never marked
  when free because a contender marks only what it has seen held
  (`MarksHeld`).
- `PthreadOnce`: the state of the word is tied to the initializer and to the
  number of completions; a sleeper exists only while the word is `WAITERS` or
  a wake is due.
- `PrivateLock`: the word is 0 exactly when there is no holder, and a sleeper
  implies a contended word, a pending wake or a thread about to take the lock
  as contended.
- `OwnerMutex`: `Owning` ties the word to the one thread that is where an owner
  can be, to what that thread was told and to its robust list; `Local` says what
  a contender's copy of the word is worth at each step and when its pending slot
  is set, which is what the two windows of a death depend on; `Lasting` relates
  the word to the state of the data. Nobody asleep is forgotten because the
  waiter count covers the waiters (`Counted`), an owner on its way out has read
  the hint or will find the mark (`Hinted`), and without an owner some thread is
  `Responsible`: it has a wake to make or will look at the word itself
  (`LookedAfter`, stronger than `NoStrandedSleeper`). The proof is where the
  property as first written turned out to be false for four threads, one more
  than the run has: `owing` had left out a process that is killed at its
  compare-and-swap. Assumptions: finitely many threads, marks that are not
  threads, kinds as the attribute functions make them.
- `Synccall`: `ListInv` says that the word of the list lock names the thread
  between lock and unlock, that the waiter count is exact, and which tasks
  exist at each place of a call. `MeetingInv` describes a meeting from the
  holder's place: while it gathers, the caught, the pending and those still to
  be signalled are all the other tasks and the caller's semaphore counts the
  answer under way; while it serves, one unit is in the target semaphore, in
  the caller's, or with the one task in the callback; while it leaves, the
  answers and the captives add up to what it still waits for; and with no
  meeting under way everything is at rest (`Quiet`). That the tasks do not
  change meanwhile follows from the list lock. The proof showed that the model
  let two creations pick the same task, which the code cannot do. Assumption:
  finitely many tasks (`TasksAssumption`).
- `ThreadData`: that the loop of destructor passes leaves nothing unlooked-at
  is a statement about its end. `ScanCovers` says it of every point of a scan:
  a value makes its table used, which asks for another pass, or the scan has yet
  to reach it. That values belong to their
  key needs that no key carries a creation number not yet given out.
- `AbandonedPage`: one owner is not inductive, as it depends on why a bit that
  a reader took comes back. `Token` says that the mapped identity is passed
  from the bit to the one reader and to the adopter, `Knows` what the holder of
  the owner bit may rely on at each step (that the head it expects is still the
  last of the list, above all), and `Ending` why an unowned page still has a
  block in use or one that was freed without collection. `AbandonedPageLemmas`
  counts the blocks of the remote list and has the first steps of the owner,
  which is alone (`Alone`). Assumption: finitely many blocks, and
  thread names that are not marks (`PageAssumption`).

Only model-checked: everything under fairness (the prover handles neither
fairness nor `ENABLED`), so the hand-off half of each refinement; and the
properties of the read-write lock, semaphore, barriers, condition variables,
lifecycle, cancellation and asynchronous I/O, whose inductive invariants have
not been worked out.

## 5. What is not modelled

In the components that are modelled in part:

- Mutexes: priority inheritance (the kernel keeps its queue and transfers the
  lock), and the wait of `destroy` for the lifetime guard. Recursive and
  error-checking mutexes appear in `OwnerMutex` with the results that return at
  once; they contend as robust ones do without the list.
- Condition variables: waits over recursive, robust or priority-inheriting
  mutexes, and the route for objects of older programs.
- Thread lifecycle: a failing `munmap`, the allocator's attachment of a new
  thread, `fork`, and the C11 interface, which is the same code.
- Cancellation: the cleanup stack (it runs the callers' code) and the resets
  for timer and asynchronous-I/O callbacks.
- Thread-specific data: the key reserved for the allocator, adoption after
  `fork`, an exit from inside a destructor.
- Asynchronous I/O: notification of completions, the signal masks for calls
  from handlers, the reset after `fork`, reuse of a control block whose
  completion nobody read.
- Allocator: one page is modelled, as that is where threads meet. Size classes,
  page queues, arenas and commit state are the owner's sequential work. Of the
  protocol itself the following are left out: the counter of abandoned pages,
  the list of pages outside arenas, singleton pages, the arm of heap deletion
  that destroys instead of moving, the claim of a heap visit, and the
  distinction of the owner's two free lists.

Not modelled at all:

- `fork` and its handlers. What matters is which locks of other components the
  child finds held; that needs the holder of every lock at the time of the
  fork, i.e. a composition of nearly all modules.
- The dynamic linker: relocation and symbol lookup are sequential processing
  of ELF data. Its registries (`dlopen` against `dlclose`, thread-local storage
  of new objects) could be modelled.
- stdio, locale, resolver and text: parsing, formatting and tables; their only
  shared state are locks that are modelled.
- Startup, builtins, unwinder and the Rust facade: straight-line code, compiler
  arithmetic, wrappers.

The map covers 5 901 source lines, about 1 % of the implementation. The bulk
of the repository is tables, text processing, two further architectures or
routes of the same algorithms, ELF processing and wrappers, for which unit and
conformance tests are the better instrument. What is modelled is the code whose
correctness depends on interleavings.

The futex is taken to behave as Linux documents it; out-of-memory and
invalid-address results cannot occur for these words.

## 6. Disagreements between comments and code

- **The hint of a detached group is not taken back** (`cond_hint`). The oldest
  waiter of a group adds one to the mutex's waiter hint
  (`owned_pthread_cond.rs:286`); the decrement at line 308 (and
  `pthread_cond.rs:872`) requires the same waiter to be oldest and newest, so
  a broadcast to two or more waiters leaves the hint one too high for good.
  The comment at `pthread_cond.rs:848` calls the hint temporary. Effect: later
  unlocks make a needless system call; no wake-up is lost.
- **A process-shared barrier can leave a full round asleep**
  (`shared_barrier_meet`). The last thread of a round reads the waiter count
  (`pthread_barrier.rs:406`) before the compare-and-swap that frees the lock
  word, and wakes nobody if it was 0. Threads of the next round that count
  themselves and go to sleep in between stay asleep on a free lock. The next
  arrival wakes one of them, so nothing is lost while exactly as many threads
  use the barrier as a round needs; with three threads on a barrier for two,
  two of them can wait for each other for ever. The comment at line 423 says
  that a lock waiter "may now reuse" the object. The private barrier reads its
  count after the store and has no such gap (`RoundsDrain`).
- **The loss of a robust mutex is not told to everybody**
  (`owner_mutex_loss`). An owner that got the mutex from a dead one and unlocks
  it without `pthread_mutex_consistent` leaves the unrecoverable word and wakes
  one thread. A contender that saw an owner before and loads the word afterwards
  (`pthread_mutex.rs:1464`) takes its owner bits for an owner, marks it and
  sleeps for ever; so does a second thread that was asleep already. The comment
  at line 40 says that the next owner sees `ENOTRECOVERABLE`.
- **A broadcast on a process-shared condition variable wakes one thread**
  (`shared_cond_wake`). `signal` (`owned_pthread_cond.rs:104`) and `destroy`
  (line 132) pass -1 to `FUTEX_WAKE`, which the kernel takes for a count that
  the first thread woken has reached; a second sleeper stays asleep. The comment
  at line 93 says "one or all waiters", and the one at `owned_aio.rs:621`
  describes the same trap and passes `INT_MAX`. The private condition variable
  is not affected (`ImplementsCond`).
- A smaller one that no run is kept for: the comment at `pthread_cond.rs:535`
  says that a detached group is never modified, but a waiter that the signaler
  met while it was leaving unlinks itself from the group afterwards. The
  signaler waits for it, so nobody follows an outdated link
  (`FramesOutliveUsers`).

## 7. Plan

1. Proofs: `ControlsEndOnce` of `ThreadLifecycle`; exclusion and balance of
   `PthreadRwlock` and `PosixSemaphore`; the instance's life in
   `PthreadBarrier`; `FramesOutliveUsers` of `PthreadCond`.
2. Priority-inheriting mutexes over a model of the kernel's queue, and waits
   on condition variables over robust ones.
3. `fork`, on top of the lock models.
4. The linker's registries: `dlopen`, `dlclose` and thread-local storage.
5. The allocator above one page: heap deletion against the abandoned bitmap of
   many pages, arenas against purging.
