---------------------------- MODULE LockProofs -----------------------------
(***************************************************************************)
(* Theorems about the lock words, each about the specification of one      *)
(* object and for every value of the constants: the internal lock for      *)
(* every finite set of threads that fits the word and every length of its  *)
(* optimistic loop, the 0/1/2 lock (Private) and pthread_once (Once) for   *)
(* every set.                                                              *)
(***************************************************************************)
EXTENDS MuslLock, FiniteSetTheorems, TLAPS

\* Keeps the literal out of the obligations.
LEMMA MaxTasksNat == MaxTasks \in Nat
BY SMT DEF MaxTasks

\* The tasks fit the count, and the sign of the word tells whether it is held.
LEMMA WordFacts ==
    ASSUME WordCountsTasks
    PROVE  /\ IsFiniteSet(Tasks)
           /\ Cardinality(Tasks) \in 0..MaxTasks
           /\ word < 0 <=> Holders # {}
           /\ word >= LOCKED_ONE
<1>1. Tasks \in SUBSET Threads
  BY DEF Tasks, Holders, Enrolled
<1>2. /\ IsFiniteSet(Tasks)
      /\ Cardinality(Tasks) <= Cardinality(Threads)
  BY <1>1, ThreadsAssumption, FS_Subset
<1>3. Cardinality(Tasks) \in Nat /\ Cardinality(Threads) \in Nat
  BY <1>2, ThreadsAssumption, FS_CardinalityType
<1>4. Holders # {} => Cardinality(Tasks) # 0
  BY <1>2, FS_EmptySet DEF Tasks
<1> QED
  BY <1>2, <1>3, <1>4, ThreadsAssumption, MaxTasksNat
     DEF WordCountsTasks, LOCK_FLAG, LOCKED_ONE

\* Every step keeps the variables in their types.
LEMMA NextTypeOK == TypeOK /\ [Next]_vars => TypeOK'
<1> USE SpinsAssumption, MaxTasksNat DEF Labels, LOCK_FLAG, LOCKED_ONE, Goto,
                                         Unflagged
<1> SUFFICES ASSUME TypeOK, [Next]_vars PROVE TypeOK'
  OBVIOUS
<1> USE DEF TypeOK
<1>1. ASSUME NEW t \in Threads, LockFast(t) PROVE TypeOK'
  BY <1>1 DEF LockFast
<1>2. ASSUME NEW t \in Threads, LockSpin(t) PROVE TypeOK'
  BY <1>2 DEF LockSpin
<1>3. ASSUME NEW t \in Threads, LockEnrol(t) PROVE TypeOK'
  BY <1>3 DEF LockEnrol
<1>4. ASSUME NEW t \in Threads, LockWait(t) PROVE TypeOK'
  BY <1>4 DEF LockWait
<1>5. ASSUME NEW t \in Threads, LockRetry(t) PROVE TypeOK'
  BY <1>5 DEF LockRetry
<1>6. ASSUME NEW t \in Threads, Unlock(t) PROVE TypeOK'
  BY <1>6 DEF Unlock
<1>7. ASSUME NEW t \in Threads, UnlockWake(t) PROVE TypeOK'
  BY <1>7 DEF UnlockWake
<1>8. ASSUME NEW t \in Threads, Interrupt(t) PROVE TypeOK'
  BY <1>8 DEF Interrupt
<1>9. CASE UNCHANGED vars
  BY <1>9 DEF vars
<1> QED
  BY <1>1, <1>2, <1>3, <1>4, <1>5, <1>6, <1>7, <1>8, <1>9 DEF Next, Step

\* lock() and unlock() keep every variable in its type.
THEOREM TypeCorrect == Spec => []TypeOK
<1>1. Init => TypeOK
  BY SpinsAssumption DEF Init, TypeOK, Labels
<1> QED
  BY <1>1, NextTypeOK, PTL DEF Spec

\* The initial state satisfies the inductive invariant.
LEMMA InitIInv == Init => IInv
<1> SUFFICES ASSUME Init PROVE IInv
  OBVIOUS
<1>1. Holders = {} /\ Enrolled = {} /\ Sleepers = {}
  BY DEF Init, Holders, Enrolled, Sleepers
<1>2. WordCountsTasks
  BY <1>1, FS_EmptySet DEF WordCountsTasks, Tasks, Init
<1> QED
  BY <1>1, <1>2, SpinsAssumption
     DEF Init, IInv, TypeOK, Labels, MutualExclusion, NoStrandedSleeper, CurWasRead

\* A thread that takes a free lock: the word gains the flag and, unless the
\* thread is enrolled already, one task.
LEMMA Taking ==
    ASSUME IInv, TypeOK', NEW t \in Threads, Holders = {}, pc[t] # "cs",
           pc' = [pc EXCEPT ![t] = "cs"], UNCHANGED cur,
           word' = LOCK_FLAG + word + (IF t \in Tasks THEN 0 ELSE 1)
    PROVE  IInv'
<1> USE DEF IInv, TypeOK
<1>1. Holders' = {t} /\ Tasks' = Tasks \cup {t}
  BY DEF Holders, Enrolled, Tasks
<1>2. /\ IsFiniteSet(Tasks)
      /\ Cardinality(Tasks) \in Nat
      /\ word = Cardinality(Tasks)
  BY WordFacts DEF WordCountsTasks
<1>3. Cardinality(Tasks') =
        IF t \in Tasks THEN Cardinality(Tasks) ELSE Cardinality(Tasks) + 1
  BY <1>1, <1>2, FS_AddElement
<1>4. word' = LOCK_FLAG + Cardinality(Tasks')
  BY <1>2, <1>3, MaxTasksNat DEF LOCK_FLAG
<1>5. WordCountsTasks'
  BY <1>1, <1>4 DEF WordCountsTasks
<1> QED
  BY <1>1, <1>5 DEF MutualExclusion, NoStrandedSleeper, CurWasRead

\* A step that leaves the word, the holders and the tasks it counts alone.
LEMMA NotCounted ==
    ASSUME WordCountsTasks, MutualExclusion, UNCHANGED <<word, Holders, Tasks>>
    PROVE  WordCountsTasks' /\ MutualExclusion'
BY DEF WordCountsTasks, MutualExclusion

\* Every step of lock() and unlock() preserves the inductive invariant.
LEMMA NextIInv == IInv /\ [Next]_vars => IInv'
<1> SUFFICES ASSUME IInv, TypeOK', [Next]_vars PROVE IInv'
  BY NextTypeOK DEF IInv
<1> USE DEF IInv, TypeOK
<1> DEFINE N == Cardinality(Tasks)
<1>0. /\ IsFiniteSet(Tasks)
      /\ N \in Nat
      /\ word < 0 <=> Holders # {}
      /\ word >= LOCKED_ONE
      /\ LOCK_FLAG \in Int /\ LOCKED_ONE \in Int /\ LOCKED_ONE < 0
      /\ LOCKED_ONE = LOCK_FLAG + 1
  <2>1. /\ MaxTasks \in Nat
        /\ LOCK_FLAG \in Int /\ LOCKED_ONE \in Int
        /\ LOCKED_ONE = LOCK_FLAG + 1
    BY MaxTasksNat DEF LOCK_FLAG, LOCKED_ONE
  <2>2. LOCKED_ONE < 0
    BY SMT DEF MaxTasks, LOCK_FLAG, LOCKED_ONE
  <2>3. N \in 0..MaxTasks
    BY WordFacts
  <2> QED
    BY <2>1, <2>2, <2>3, WordFacts
<1>1. ASSUME NEW t \in Threads, LockFast(t) PROVE IInv'
  <2>1. CASE word = 0
    <3>1. Holders = {} /\ N = 0
      BY <2>1, <1>0 DEF WordCountsTasks
    <3>2. t \notin Tasks
      BY <3>1, <1>0, FS_EmptySet
    <3> QED
      BY <1>1, <2>1, <3>1, <3>2, <1>0, Taking DEF LockFast, Goto
  <2>2. CASE word # 0
    <3>1. UNCHANGED <<word, Holders, Tasks, Sleepers>>
      BY <1>1, <2>2 DEF LockFast, Goto, Holders, Enrolled, Tasks, Sleepers
    <3> QED
      BY <1>0, <1>1, <2>2, <3>1, NotCounted
         DEF LockFast, Goto, NoStrandedSleeper, CurWasRead
  <2> QED
    BY <2>1, <2>2
<1>2. ASSUME NEW t \in Threads, LockSpin(t) PROVE IInv'
  <2>0. pc[t] = "spin" /\ t \notin Tasks
    BY <1>2 DEF LockSpin, Tasks, Holders, Enrolled
  <2>1. CASE word = Unflagged(cur[t])
    <3>1. word >= 0
      BY <1>0, <2>0, <2>1 DEF CurWasRead, Unflagged
    <3>2. Holders = {}
      BY <1>0, <3>1
    <3> QED
      BY <1>2, <2>0, <2>1, <3>2, <1>0, Taking DEF LockSpin, Goto
  <2>2. CASE word # Unflagged(cur[t])
    <3>1. UNCHANGED <<word, Holders, Tasks, Sleepers>>
      BY <1>2, <2>2 DEF LockSpin, Holders, Enrolled, Tasks, Sleepers
    <3> QED
      BY <1>0, <1>2, <2>0, <2>2, <3>1, NotCounted
         DEF LockSpin, NoStrandedSleeper, CurWasRead
  <2> QED
    BY <2>1, <2>2
<1>3. ASSUME NEW t \in Threads, LockEnrol(t) PROVE IInv'
  <2>1. /\ t \notin Tasks
        /\ Holders' = Holders
        /\ Tasks' = Tasks \cup {t}
    BY <1>3 DEF LockEnrol, Goto, Tasks, Holders, Enrolled
  <2>2. Cardinality(Tasks') = N + 1
    BY <1>0, <2>1, FS_AddElement
  <2>3. WordCountsTasks'
    BY <1>0, <1>3, <2>1, <2>2 DEF WordCountsTasks, LockEnrol
  <2> QED
    BY <1>0, <1>3, <2>1, <2>3
       DEF LockEnrol, Goto, MutualExclusion, NoStrandedSleeper, CurWasRead
<1>4. ASSUME NEW t \in Threads, LockWait(t) PROVE IInv'
  <2>1. UNCHANGED <<word, Holders, Tasks>>
    BY <1>4 DEF LockWait, Goto, Tasks, Holders, Enrolled
  <2>2. WordCountsTasks' /\ MutualExclusion'
    BY <2>1, NotCounted
  <2>3. CASE cur[t] < 0 /\ word = cur[t]
    <3>1. Holders' # {}
      BY <1>0, <2>1, <2>3
    <3> QED
      BY <1>4, <2>2, <2>3, <3>1 DEF LockWait, Goto, NoStrandedSleeper, CurWasRead
  <2>4. CASE ~(cur[t] < 0 /\ word = cur[t])
    <3>1. pc' = [pc EXCEPT ![t] = "cas"] /\ cur' = [cur EXCEPT ![t] = Unflagged(@)]
      BY <1>4, <2>4 DEF LockWait, Goto
    <3>2. NoStrandedSleeper'
      BY <3>1 DEF NoStrandedSleeper
    <3>3. CurWasRead'
      BY <1>0, <1>4, <3>1 DEF LockWait, CurWasRead, Unflagged
    <3> QED
      BY <2>2, <3>2, <3>3
  <2> QED
    BY <2>3, <2>4
<1>5. ASSUME NEW t \in Threads, LockRetry(t) PROVE IInv'
  <2>0. pc[t] = "cas" /\ t \in Tasks
    BY <1>5 DEF LockRetry, Tasks, Enrolled
  <2>1. CASE word = cur[t]
    <3>1. word >= 0
      BY <2>0, <2>1 DEF CurWasRead
    <3>2. Holders = {}
      BY <1>0, <3>1
    <3> QED
      BY <1>5, <2>0, <2>1, <3>2, <1>0, Taking DEF LockRetry, Goto
  <2>2. CASE word # cur[t]
    <3>1. UNCHANGED <<word, Holders, Tasks>>
      BY <1>5, <2>2 DEF LockRetry, Goto, Tasks, Holders, Enrolled
    <3>2. WordCountsTasks' /\ MutualExclusion'
      BY <3>1, NotCounted
    <3>3. NoStrandedSleeper'
      BY <1>5, <2>2 DEF LockRetry, Goto, NoStrandedSleeper
    <3>4. CurWasRead'
      BY <1>0, <1>5, <2>2 DEF LockRetry, Goto, CurWasRead
    <3> QED
      BY <3>2, <3>3, <3>4
  <2> QED
    BY <2>1, <2>2
<1>6. ASSUME NEW t \in Threads, Unlock(t) PROVE IInv'
  <2>1. Holders = {t} /\ t \in Tasks
    BY <1>6 DEF Unlock, MutualExclusion, Holders, Tasks
  <2>2. word < 0 /\ word = LOCK_FLAG + N
    BY <1>0, <2>1 DEF WordCountsTasks
  <2>3. Holders' = {} /\ Tasks' = Tasks \ {t}
    BY <1>6, <2>1, <2>2 DEF Unlock, Goto, Holders, Enrolled, Tasks
  <2>4. Cardinality(Tasks') = N - 1
    BY <1>0, <2>1, <2>3, FS_RemoveElement
  <2>5. word' = N - 1
    BY <1>0, <1>6, <2>2 DEF Unlock
  <2>6. WordCountsTasks'
    BY <2>3, <2>4, <2>5, <1>0 DEF WordCountsTasks
  <2>7. NoStrandedSleeper'
    <3>1. CASE word = LOCKED_ONE
      <4>1. N = 1
        BY <1>0, <2>2, <3>1
      <4>2. Tasks = {t}
        BY <1>0, <2>1, <4>1, FS_Singleton
      <4>3. Sleepers' = {}
        BY <1>6, <2>2, <4>2 DEF Unlock, Goto, Sleepers, Tasks, Enrolled
      <4> QED
        BY <4>3 DEF NoStrandedSleeper
    <3>2. CASE word # LOCKED_ONE
      BY <1>6, <2>2, <3>2 DEF Unlock, Goto, NoStrandedSleeper
    <3> QED
      BY <3>1, <3>2
  <2> QED
    BY <1>6, <2>2, <2>3, <2>6, <2>7 DEF Unlock, Goto, MutualExclusion, CurWasRead
<1>7. ASSUME NEW t \in Threads, UnlockWake(t) PROVE IInv'
  <2>1. UNCHANGED <<word, Holders, Tasks>>
    BY <1>7 DEF UnlockWake, Goto, Tasks, Holders, Enrolled
  <2>2. WordCountsTasks' /\ MutualExclusion'
    BY <2>1, NotCounted
  <2>3. CASE \E s \in Threads : pc[s] = "asleep"
    <3>1. PICK s \in Threads :
            /\ pc[s] = "asleep"
            /\ pc' = [pc EXCEPT ![t] = "idle", ![s] = "cas"]
            /\ cur' = [cur EXCEPT ![s] = Unflagged(@)]
      BY <1>7, <2>3 DEF UnlockWake
    <3>2. NoStrandedSleeper'
      BY <3>1 DEF NoStrandedSleeper
    <3>3. CurWasRead'
      BY <1>0, <3>1 DEF CurWasRead, Unflagged
    <3> QED
      BY <2>2, <3>2, <3>3
  <2>4. CASE ~\E s \in Threads : pc[s] = "asleep"
    <3>1. Sleepers' = {}
      BY <1>7, <2>4 DEF UnlockWake, Goto, Sleepers
    <3> QED
      BY <1>7, <2>2, <2>4, <3>1 DEF UnlockWake, Goto, NoStrandedSleeper, CurWasRead
  <2> QED
    BY <2>3, <2>4
<1>8. ASSUME NEW t \in Threads, Interrupt(t) PROVE IInv'
  <2>1. UNCHANGED <<word, Holders, Tasks>>
    BY <1>8 DEF Interrupt, Goto, Tasks, Holders, Enrolled
  <2>2. WordCountsTasks' /\ MutualExclusion'
    BY <2>1, NotCounted
  <2>3. NoStrandedSleeper'
    BY <1>8 DEF Interrupt, Goto, NoStrandedSleeper
  <2>4. CurWasRead'
    BY <1>0, <1>8 DEF Interrupt, Goto, CurWasRead, Unflagged
  <2> QED
    BY <2>2, <2>3, <2>4
<1>9. CASE UNCHANGED vars
  BY <1>9
     DEF vars, MutualExclusion, WordCountsTasks, NoStrandedSleeper, CurWasRead,
         Holders, Tasks, Enrolled, Sleepers
<1> QED
  BY <1>1, <1>2, <1>3, <1>4, <1>5, <1>6, <1>7, <1>8, <1>9 DEF Next, Step

\* The inductive invariant holds throughout.
THEOREM Inductive == Spec => []IInv
BY InitIInv, NextIInv, PTL DEF Spec

\* lock() never admits a second task before the holder's unlock().
THEOREM MutualExclusionHolds == Spec => []MutualExclusion
BY Inductive, PTL DEF IInv

\* The word counts exactly the tasks in or enrolled for the critical section.
THEOREM WordCountsTasksHolds == Spec => []WordCountsTasks
BY Inductive, PTL DEF IInv

\* unlock() never leaves a sleeper behind on a free word.
THEOREM NoStrandedSleeperHolds == Spec => []NoStrandedSleeper
BY Inductive, PTL DEF IInv

\* lock() and unlock() implement the abstract lock (its safety part).
THEOREM ImplementsLockSafety == Spec => Lock!Safety
<1> USE DEF Requesters
<1> DEFINE Waiting == Enrolled \cup {t \in Threads : pc[t] = "spin"}
<1>1. Init => Lock!Init
  BY DEF Init, Lock!Init, Holders, Enrolled
<1>2. IInv /\ [Next]_vars => [Lock!Next]_(Lock!vars)
  <2> SUFFICES ASSUME IInv, [Next]_vars PROVE [Lock!Next]_(Lock!vars)
    OBVIOUS
  <2> USE DEF IInv, TypeOK
  <2>0. word < 0 <=> Holders # {}
    BY WordFacts
  <2>1. ASSUME NEW t \in Threads, Holders = {}, pc[t] # "cs",
               pc' = [pc EXCEPT ![t] = "cs"]
        PROVE  Lock!Next
    <3>1. Holders' = {t} /\ Waiting' = Waiting \ {t}
      BY <2>1 DEF Holders, Enrolled
    <3> QED
      BY <2>1, <3>1 DEF Lock!Next, Lock!Acquire
  <2>2. ASSUME NEW t \in Threads, LockFast(t) PROVE [Lock!Next]_(Lock!vars)
    <3>1. CASE word = 0
      BY <2>0, <2>1, <2>2, <3>1 DEF LockFast, Goto
    <3>2. CASE word # 0
      <4>1. t \notin Waiting \cup Holders
        BY <2>2 DEF LockFast, Holders, Enrolled
      <4>2. Holders' = Holders /\ Waiting' = Waiting \cup {t}
        BY <2>2, <3>2 DEF LockFast, Goto, Holders, Enrolled
      <4> QED
        BY <4>1, <4>2 DEF Lock!Next, Lock!Request
    <3> QED
      BY <3>1, <3>2
  <2>3. ASSUME NEW t \in Threads, LockSpin(t) PROVE [Lock!Next]_(Lock!vars)
    <3>1. CASE word = Unflagged(cur[t])
      <4>1. word >= 0
        BY <2>3, <3>1, MaxTasksNat
           DEF LockSpin, CurWasRead, Unflagged, LOCKED_ONE, LOCK_FLAG
      <4> QED
        BY <2>0, <2>1, <2>3, <3>1, <4>1 DEF LockSpin, Goto
    <3>2. CASE word # Unflagged(cur[t])
      BY <2>3, <3>2 DEF LockSpin, Lock!vars, Holders, Enrolled
    <3> QED
      BY <3>1, <3>2
  <2>4. ASSUME NEW t \in Threads, LockRetry(t) PROVE [Lock!Next]_(Lock!vars)
    <3>1. CASE word = cur[t]
      BY <2>0, <2>1, <2>4, <3>1 DEF LockRetry, Goto, CurWasRead
    <3>2. CASE word # cur[t]
      BY <2>4, <3>2 DEF LockRetry, Goto, Lock!vars, Holders, Enrolled
    <3> QED
      BY <3>1, <3>2
  <2>5. ASSUME NEW t \in Threads, Unlock(t) PROVE [Lock!Next]_(Lock!vars)
    <3>1. /\ t \in Holders
          /\ Holders' = Holders \ {t}
          /\ Waiting' = Waiting
      BY <2>5 DEF Unlock, Goto, Holders, Enrolled
    <3> QED
      BY <3>1 DEF Lock!Next, Lock!Release
  <2>6. ASSUME NEW t \in Threads,
               LockEnrol(t) \/ LockWait(t) \/ Interrupt(t) \/ UnlockWake(t)
        PROVE  UNCHANGED Lock!vars
    <3>1. UNCHANGED <<Waiting, Holders>>
      BY <2>6 DEF LockEnrol, LockWait, Interrupt, UnlockWake, Goto, Holders, Enrolled
    <3> QED
      BY <3>1 DEF Lock!vars
  <2>7. CASE UNCHANGED vars
    BY <2>7 DEF vars, Lock!vars, Holders, Enrolled
  <2> QED
    BY <2>2, <2>3, <2>4, <2>5, <2>6, <2>7 DEF Next, Step
<1> QED
  BY <1>1, <1>2, Inductive, PTL DEF Spec, Lock!Safety

-----------------------------------------------------------------------------

VARIABLES mlock, mwaiters, mpc, mobserved, mhint, mtimed

\* The normal mutex.
Mutex == INSTANCE PthreadMutex WITH
    lock <- mlock, waiters <- mwaiters, pc <- mpc,
    observed <- mobserved, hint <- mhint, timed <- mtimed

\* The instance counts as this module does.
LEMMA MutexCount == \A S : Mutex!Cardinality(S) = Cardinality(S)
BY DEF Cardinality, Mutex!Cardinality, IsFiniteSet, Mutex!IsFiniteSet

\* While there are counted contenders the hint is positive.
LEMMA MutexHintPositive ==
    ASSUME Mutex!HintCountsContenders, Mutex!Counted # {}
    PROVE  mwaiters \in Nat /\ mwaiters > 0
<1>1. IsFiniteSet(Mutex!Counted)
  BY ThreadsAssumption, FS_Subset DEF Mutex!Counted
<1> QED
  BY <1>1, FS_CardinalityType, FS_EmptySet, MutexCount DEF Mutex!HintCountsContenders

\* Every step keeps the variables in their types; the hint stays natural
\* because only counted contenders decrement it.
LEMMA MutexNextTypeOK ==
    Mutex!TypeOK /\ Mutex!HintCountsContenders /\ [Mutex!Next]_(Mutex!vars) => Mutex!TypeOK'
<1> SUFFICES ASSUME Mutex!TypeOK, Mutex!HintCountsContenders,
                    [Mutex!Next]_(Mutex!vars)
             PROVE  Mutex!TypeOK'
  OBVIOUS
<1> USE DEF Mutex!TypeOK, Mutex!Labels, Mutex!LockWords, Mutex!Goto
<1>1. ASSUME NEW t \in Threads, Mutex!Trylock(t) PROVE Mutex!TypeOK'
  BY <1>1 DEF Mutex!Trylock, Mutex!TryLock
<1>2. ASSUME NEW t \in Threads, Mutex!LockFast(t) PROVE Mutex!TypeOK'
  BY <1>2 DEF Mutex!LockFast, Mutex!TryLock
<1>3. ASSUME NEW t \in Threads, Mutex!Retry(t) PROVE Mutex!TypeOK'
  BY <1>3 DEF Mutex!Retry, Mutex!TryLock
<1>4. ASSUME NEW t \in Threads, Mutex!Enrol(t) PROVE Mutex!TypeOK'
  BY <1>4 DEF Mutex!Enrol
<1>5. ASSUME NEW t \in Threads, Mutex!Observe(t) PROVE Mutex!TypeOK'
  BY <1>5 DEF Mutex!Observe
<1>6. ASSUME NEW t \in Threads, Mutex!Mark(t) PROVE Mutex!TypeOK'
  BY <1>6 DEF Mutex!Mark
<1>7. ASSUME NEW t \in Threads, Mutex!FutexWait(t) PROVE Mutex!TypeOK'
  BY <1>7 DEF Mutex!FutexWait
<1>8. ASSUME NEW t \in Threads, Mutex!Drop(t) PROVE Mutex!TypeOK'
  <2>1. Mutex!Counted # {}
    BY <1>8 DEF Mutex!Drop, Mutex!Counted
  <2> QED
    BY <1>8, <2>1, MutexHintPositive DEF Mutex!Drop
<1>9. ASSUME NEW t \in Threads, Mutex!UnlockSwap(t) PROVE Mutex!TypeOK'
  BY <1>9 DEF Mutex!UnlockSwap
<1>10. ASSUME NEW t \in Threads, Mutex!UnlockWake(t) PROVE Mutex!TypeOK'
  BY <1>10 DEF Mutex!UnlockWake
<1>11. ASSUME NEW t \in Threads, Mutex!UnlockHint(t) PROVE Mutex!TypeOK'
  BY <1>11 DEF Mutex!UnlockHint
<1>12. ASSUME NEW t \in Threads, Mutex!Interrupt(t) \/ Mutex!Expire(t)
       PROVE  Mutex!TypeOK'
  BY <1>12 DEF Mutex!Interrupt, Mutex!Expire
<1>13. CASE UNCHANGED Mutex!vars
  BY <1>13 DEF Mutex!vars
<1> QED
  BY <1>1, <1>2, <1>3, <1>4, <1>5, <1>6, <1>7, <1>8, <1>9, <1>10, <1>11,
     <1>12, <1>13 DEF Mutex!Next, Mutex!Step

\* The lock word, the holder and the sleepers under a step, without the count.
MutexSafe == Mutex!MutualExclusion /\ Mutex!NoStrandedSleeper /\ Mutex!HintCoversSleepers /\ Mutex!MarksHeld

\* The hint is 1 more, 1 less or the same when a thread joins, leaves or
\* leaves alone the counted contenders.
LEMMA MutexCounting ==
    ASSUME Mutex!HintCountsContenders, NEW t \in Threads,
           \/ t \notin Mutex!Counted /\ Mutex!Counted' = Mutex!Counted \cup {t} /\ mwaiters' = mwaiters + 1
           \/ t \in Mutex!Counted /\ Mutex!Counted' = Mutex!Counted \ {t} /\ mwaiters' = mwaiters - 1
           \/ UNCHANGED <<Mutex!Counted, mwaiters>>
    PROVE  Mutex!HintCountsContenders'
<1>1. IsFiniteSet(Mutex!Counted)
  BY ThreadsAssumption, FS_Subset DEF Mutex!Counted
<1>2. Cardinality(Mutex!Counted) \in Nat
  BY <1>1, FS_CardinalityType
<1>3. CASE t \notin Mutex!Counted /\ Mutex!Counted' = Mutex!Counted \cup {t} /\ mwaiters' = mwaiters + 1
  BY <1>1, <1>3, FS_AddElement, MutexCount DEF Mutex!HintCountsContenders
<1>4. CASE t \in Mutex!Counted /\ Mutex!Counted' = Mutex!Counted \ {t} /\ mwaiters' = mwaiters - 1
  BY <1>1, <1>4, FS_RemoveElement, MutexCount DEF Mutex!HintCountsContenders
<1>5. CASE UNCHANGED <<Mutex!Counted, mwaiters>>
  BY <1>5 DEF Mutex!HintCountsContenders
<1> QED
  BY <1>3, <1>4, <1>5

\* Every step keeps the hint equal to the number of counted contenders.
LEMMA MutexNextHint ==
    Mutex!TypeOK /\ Mutex!HintCountsContenders /\ [Mutex!Next]_(Mutex!vars) => Mutex!HintCountsContenders'
<1> SUFFICES ASSUME Mutex!TypeOK, Mutex!HintCountsContenders,
                    [Mutex!Next]_(Mutex!vars)
             PROVE  Mutex!HintCountsContenders'
  OBVIOUS
<1> USE DEF Mutex!TypeOK, Mutex!Counted, Mutex!Goto
<1>1. ASSUME NEW t \in Threads, Mutex!Enrol(t) PROVE Mutex!HintCountsContenders'
  <2>1. t \notin Mutex!Counted /\ Mutex!Counted' = Mutex!Counted \cup {t} /\ mwaiters' = mwaiters + 1
    BY <1>1 DEF Mutex!Enrol
  <2> QED
    BY <2>1, MutexCounting
<1>2. ASSUME NEW t \in Threads, Mutex!Drop(t) PROVE Mutex!HintCountsContenders'
  <2>1. t \in Mutex!Counted /\ Mutex!Counted' = Mutex!Counted \ {t} /\ mwaiters' = mwaiters - 1
    BY <1>2 DEF Mutex!Drop
  <2> QED
    BY <2>1, MutexCounting
<1>3. ASSUME NEW t \in Threads,
             Mutex!Trylock(t) \/ Mutex!LockFast(t) \/ Mutex!Retry(t)
      PROVE  UNCHANGED <<Mutex!Counted, mwaiters>>
  BY <1>3 DEF Mutex!Trylock, Mutex!LockFast, Mutex!Retry, Mutex!TryLock
<1>4. ASSUME NEW t \in Threads,
             Mutex!Observe(t) \/ Mutex!Mark(t) \/ Mutex!FutexWait(t)
      PROVE  UNCHANGED <<Mutex!Counted, mwaiters>>
  BY <1>4 DEF Mutex!Observe, Mutex!Mark, Mutex!FutexWait
<1>5. ASSUME NEW t \in Threads,
             Mutex!UnlockHint(t) \/ Mutex!UnlockSwap(t) \/ Mutex!UnlockWake(t)
      PROVE  UNCHANGED <<Mutex!Counted, mwaiters>>
  BY <1>5 DEF Mutex!UnlockHint, Mutex!UnlockSwap, Mutex!UnlockWake
<1>6. ASSUME NEW t \in Threads, Mutex!Interrupt(t) \/ Mutex!Expire(t)
      PROVE  UNCHANGED <<Mutex!Counted, mwaiters>>
  BY <1>6 DEF Mutex!Interrupt, Mutex!Expire
<1>7. CASE UNCHANGED Mutex!vars
  BY <1>7 DEF Mutex!vars, Mutex!HintCountsContenders
<1> QED
  BY <1>1, <1>2, <1>3, <1>4, <1>5, <1>6, <1>7, MutexCounting
     DEF Mutex!Next, Mutex!Step

\* Taking a free mutex.
LEMMA MutexTaking ==
    ASSUME Mutex!IInv, NEW t \in Threads, mpc[t] \in {"idle", "try"}, mlock = "free",
           mlock' = "held", mpc' = [mpc EXCEPT ![t] = "cs"], UNCHANGED <<mobserved, mhint>>
    PROVE  MutexSafe'
<1> USE DEF Mutex!IInv, Mutex!TypeOK
<1>1. Mutex!Holders' = {t} /\ Mutex!Sleepers' = Mutex!Sleepers
  BY DEF Mutex!Holders, Mutex!Sleepers, Mutex!MutualExclusion
<1>2. Mutex!MutualExclusion' /\ Mutex!NoStrandedSleeper'
  BY <1>1 DEF Mutex!MutualExclusion, Mutex!NoStrandedSleeper
<1>3. Mutex!HintCoversSleepers'
  <2>1. \A h \in Threads : mpc[h] # "release"
    BY DEF Mutex!MutualExclusion, Mutex!Holders
  <2> QED
    BY <2>1 DEF Mutex!HintCoversSleepers
<1>4. Mutex!MarksHeld'
  BY DEF Mutex!MarksHeld
<1> QED
  BY <1>2, <1>3, <1>4 DEF MutexSafe

\* A step of a thread that neither holds the mutex nor is asleep, and that
\* touches neither word.
LEMMA MutexQuiet ==
    ASSUME Mutex!IInv, NEW t \in Threads, UNCHANGED <<mlock, mhint, Mutex!Holders,
           Mutex!Sleepers>>,
           UNCHANGED {h \in Threads : mpc[h] = "release"},
           Mutex!MarksHeld',
           mlock # "free" \/ mpc[t] \notin {"wake", "drop", "try"}
             \/ mpc'[t] \in {"drop", "try"},
           \A s \in Threads \ {t} : mpc'[s] = mpc[s]
    PROVE  MutexSafe'
<1> USE DEF Mutex!IInv, Mutex!TypeOK
<1>1. Mutex!MutualExclusion'
  BY DEF Mutex!MutualExclusion
<1>2. Mutex!NoStrandedSleeper'
  <2> SUFFICES ASSUME Mutex!Sleepers # {}, mlock = "free"
               PROVE  \E s \in Threads : mpc'[s] \in {"wake", "drop", "try"}
    BY DEF Mutex!NoStrandedSleeper
  <2>1. PICK s \in Threads : mpc[s] \in {"wake", "drop", "try"}
    BY DEF Mutex!NoStrandedSleeper
  <2> QED
    BY <2>1
<1>3. Mutex!HintCoversSleepers'
  BY DEF Mutex!HintCoversSleepers
<1> QED
  BY <1>1, <1>2, <1>3 DEF MutexSafe

\* Every step preserves the part of the invariant about words and sleepers.
LEMMA MutexNextSafe == Mutex!IInv /\ [Mutex!Next]_(Mutex!vars) => MutexSafe'
<1> SUFFICES ASSUME Mutex!IInv, [Mutex!Next]_(Mutex!vars) PROVE MutexSafe'
  OBVIOUS
<1> USE DEF Mutex!IInv, Mutex!TypeOK, Mutex!Goto
<1>1. ASSUME NEW t \in Threads,
             Mutex!Trylock(t) \/ Mutex!LockFast(t) \/ Mutex!Retry(t)
      PROVE  MutexSafe'
  <2>1. CASE mlock = "free"
    BY <1>1, <2>1, MutexTaking
       DEF Mutex!Trylock, Mutex!LockFast, Mutex!Retry, Mutex!TryLock
  <2>2. CASE mlock # "free"
    <3>1. UNCHANGED <<mlock, mhint, Mutex!Holders, Mutex!Sleepers>>
      BY <1>1, <2>2
         DEF Mutex!Trylock, Mutex!LockFast, Mutex!Retry, Mutex!TryLock, Mutex!Holders,
             Mutex!Sleepers
    <3>2. UNCHANGED {h \in Threads : mpc[h] = "release"}
      BY <1>1, <2>2 DEF Mutex!Trylock, Mutex!LockFast, Mutex!Retry, Mutex!TryLock
    <3>3. Mutex!MarksHeld'
      BY <1>1, <2>2
         DEF Mutex!Trylock, Mutex!LockFast, Mutex!Retry, Mutex!TryLock,
             Mutex!MarksHeld
    <3>4. \A s \in Threads \ {t} : mpc'[s] = mpc[s]
      BY <1>1, <2>2 DEF Mutex!Trylock, Mutex!LockFast, Mutex!Retry, Mutex!TryLock
    <3> QED
      BY <2>2, <3>1, <3>2, <3>3, <3>4, MutexQuiet
  <2> QED
    BY <2>1, <2>2
<1>2. ASSUME NEW t \in Threads, Mutex!Enrol(t) \/ Mutex!Observe(t) \/ Mutex!Drop(t)
      PROVE  MutexSafe'
  <2>1. UNCHANGED <<mlock, mhint, Mutex!Holders, Mutex!Sleepers>>
    BY <1>2 DEF Mutex!Enrol, Mutex!Observe, Mutex!Drop, Mutex!Holders, Mutex!Sleepers
  <2>2. UNCHANGED {h \in Threads : mpc[h] = "release"}
    BY <1>2 DEF Mutex!Enrol, Mutex!Observe, Mutex!Drop
  <2>3. Mutex!MarksHeld'
    BY <1>2 DEF Mutex!Enrol, Mutex!Observe, Mutex!Drop, Mutex!MarksHeld
  <2>4. /\ \A s \in Threads \ {t} : mpc'[s] = mpc[s]
        /\ mpc[t] \notin {"wake", "drop", "try"} \/ mpc'[t] = "try"
    BY <1>2 DEF Mutex!Enrol, Mutex!Observe, Mutex!Drop
  <2> QED
    BY <2>1, <2>2, <2>3, <2>4, MutexQuiet
<1>3. ASSUME NEW t \in Threads, Mutex!Mark(t) PROVE MutexSafe'
  <2>1. UNCHANGED <<mhint, Mutex!Holders, Mutex!Sleepers>> /\ mpc[t] = "mark"
    BY <1>3 DEF Mutex!Mark, Mutex!Holders, Mutex!Sleepers
  <2>2. mlock' = mlock \/ (mlock # "free" /\ mlock' = "marked")
    BY <1>3 DEF Mutex!Mark, Mutex!MarksHeld
  <2>3. Mutex!MutualExclusion'
    BY <2>1, <2>2 DEF Mutex!MutualExclusion
  <2>4. Mutex!NoStrandedSleeper'
    BY <1>3, <2>1, <2>2 DEF Mutex!NoStrandedSleeper, Mutex!Mark
  <2>5. Mutex!HintCoversSleepers'
    BY <1>3, <2>1, <2>2 DEF Mutex!HintCoversSleepers, Mutex!Mark
  <2>6. Mutex!MarksHeld'
    BY <1>3 DEF Mutex!MarksHeld, Mutex!Mark
  <2> QED
    BY <2>3, <2>4, <2>5, <2>6 DEF MutexSafe
<1>4. ASSUME NEW t \in Threads, Mutex!FutexWait(t) PROVE MutexSafe'
  <2>1. UNCHANGED <<mlock, mhint, Mutex!Holders>> /\ mpc[t] = "wait"
    BY <1>4 DEF Mutex!FutexWait, Mutex!Holders
  <2>2. Mutex!MutualExclusion' /\ Mutex!MarksHeld'
    BY <1>4, <2>1 DEF Mutex!MutualExclusion, Mutex!MarksHeld, Mutex!FutexWait
  <2>3. CASE mlock = "marked"
    BY <1>4, <2>1, <2>2, <2>3
       DEF Mutex!FutexWait, Mutex!NoStrandedSleeper, Mutex!HintCoversSleepers,
           MutexSafe
  <2>4. CASE mlock # "marked"
    <3>1. Mutex!Sleepers' = Mutex!Sleepers /\ mpc' = [mpc EXCEPT ![t] = "drop"]
      BY <1>4, <2>4 DEF Mutex!FutexWait, Mutex!Sleepers
    <3> QED
      BY <2>1, <2>2, <3>1
         DEF Mutex!NoStrandedSleeper, Mutex!HintCoversSleepers, MutexSafe
  <2> QED
    BY <2>3, <2>4
<1>5. ASSUME NEW t \in Threads, Mutex!Interrupt(t) \/ Mutex!Expire(t) PROVE MutexSafe'
  <2>1. UNCHANGED <<mlock, mhint, Mutex!Holders>> /\ mpc[t] \in {"wait", "asleep"}
    BY <1>5 DEF Mutex!Interrupt, Mutex!Expire, Mutex!Holders
  <2>2. Mutex!MutualExclusion' /\ Mutex!MarksHeld'
    BY <1>5, <2>1
       DEF Mutex!MutualExclusion, Mutex!MarksHeld, Mutex!Interrupt, Mutex!Expire
  <2>3. Mutex!Sleepers' \subseteq Mutex!Sleepers
    BY <1>5 DEF Mutex!Interrupt, Mutex!Expire, Mutex!Sleepers
  <2>4. Mutex!NoStrandedSleeper'
    BY <1>5, <2>1, <2>3 DEF Mutex!NoStrandedSleeper, Mutex!Interrupt, Mutex!Expire
  <2>5. Mutex!HintCoversSleepers'
    BY <1>5, <2>1, <2>3 DEF Mutex!HintCoversSleepers, Mutex!Interrupt, Mutex!Expire
  <2> QED
    BY <2>2, <2>4, <2>5 DEF MutexSafe
<1>6. ASSUME NEW t \in Threads, Mutex!UnlockHint(t) PROVE MutexSafe'
  <2>1. UNCHANGED <<mlock, Mutex!Holders, Mutex!Sleepers>>
    BY <1>6 DEF Mutex!UnlockHint, Mutex!Holders, Mutex!Sleepers
  <2>2. Mutex!MutualExclusion' /\ Mutex!MarksHeld' /\ Mutex!NoStrandedSleeper'
    BY <1>6, <2>1
       DEF Mutex!MutualExclusion, Mutex!MarksHeld, Mutex!NoStrandedSleeper,
           Mutex!UnlockHint
  <2>3. Mutex!Sleepers # {} => mhint'[t] > 0
    <3>1. Mutex!Sleepers \subseteq Mutex!Counted
      BY DEF Mutex!Sleepers, Mutex!Counted
    <3> QED
      BY <1>6, <3>1, MutexHintPositive DEF Mutex!UnlockHint
  <2>4. Mutex!HintCoversSleepers'
    BY <1>6, <2>1, <2>3 DEF Mutex!HintCoversSleepers, Mutex!UnlockHint
  <2> QED
    BY <2>2, <2>4 DEF MutexSafe
<1>7. ASSUME NEW t \in Threads, Mutex!UnlockSwap(t) PROVE MutexSafe'
  <2>1. Mutex!Holders = {t}
    BY <1>7 DEF Mutex!UnlockSwap, Mutex!MutualExclusion, Mutex!Holders
  <2>2. /\ Mutex!Holders' = {}
        /\ Mutex!Sleepers' = Mutex!Sleepers
        /\ \A h \in Threads : mpc'[h] # "release"
    BY <1>7, <2>1 DEF Mutex!UnlockSwap, Mutex!Holders, Mutex!Sleepers
  <2>3. Mutex!MutualExclusion' /\ Mutex!MarksHeld' /\ Mutex!HintCoversSleepers'
    BY <1>7, <2>2
       DEF Mutex!UnlockSwap, Mutex!MutualExclusion, Mutex!MarksHeld,
           Mutex!HintCoversSleepers
  <2>4. Mutex!NoStrandedSleeper'
    BY <1>7, <2>2
       DEF Mutex!UnlockSwap, Mutex!NoStrandedSleeper, Mutex!HintCoversSleepers
  <2> QED
    BY <2>3, <2>4 DEF MutexSafe
<1>8. ASSUME NEW t \in Threads, Mutex!UnlockWake(t) PROVE MutexSafe'
  <2>1. UNCHANGED <<mlock, mhint, Mutex!Holders>>
    BY <1>8 DEF Mutex!UnlockWake, Mutex!Holders
  <2>2. Mutex!MutualExclusion' /\ Mutex!MarksHeld'
    BY <1>8, <2>1 DEF Mutex!MutualExclusion, Mutex!MarksHeld, Mutex!UnlockWake
  <2>3. Mutex!Sleepers' \subseteq Mutex!Sleepers
    BY <1>8 DEF Mutex!UnlockWake, Mutex!Sleepers
  <2>4. Mutex!Sleepers' # {} => \E s \in Threads : mpc'[s] = "drop"
    BY <1>8 DEF Mutex!UnlockWake, Mutex!Sleepers
  <2>5. Mutex!HintCoversSleepers'
    BY <1>8, <2>1, <2>3 DEF Mutex!HintCoversSleepers, Mutex!UnlockWake
  <2> QED
    BY <2>2, <2>4, <2>5 DEF Mutex!NoStrandedSleeper, MutexSafe
<1>9. CASE UNCHANGED Mutex!vars
  BY <1>9
     DEF Mutex!vars, MutexSafe, Mutex!MutualExclusion, Mutex!NoStrandedSleeper,
         Mutex!HintCoversSleepers, Mutex!MarksHeld, Mutex!Holders, Mutex!Sleepers
<1> QED
  BY <1>1, <1>2, <1>3, <1>4, <1>5, <1>6, <1>7, <1>8, <1>9 DEF Mutex!Next, Mutex!Step

\* The inductive invariant holds throughout.
THEOREM MutexInductive == Mutex!Spec => []Mutex!IInv
<1>1. Mutex!Init => Mutex!IInv
  <2> SUFFICES ASSUME Mutex!Init PROVE Mutex!IInv
    OBVIOUS
  <2>1. Mutex!Holders = {} /\ Mutex!Counted = {} /\ Mutex!Sleepers = {}
    BY DEF Mutex!Init, Mutex!Holders, Mutex!Counted, Mutex!Sleepers
  <2>2. Mutex!HintCountsContenders
    BY <2>1, FS_EmptySet, MutexCount DEF Mutex!Init, Mutex!HintCountsContenders
  <2> QED
    BY <2>1, <2>2
       DEF Mutex!Init, Mutex!IInv, Mutex!TypeOK, Mutex!Labels, Mutex!LockWords,
           Mutex!MutualExclusion, Mutex!NoStrandedSleeper, Mutex!HintCoversSleepers,
           Mutex!MarksHeld
<1>2. Mutex!IInv /\ [Mutex!Next]_(Mutex!vars) => Mutex!IInv'
  BY MutexNextTypeOK, MutexNextHint, MutexNextSafe DEF Mutex!IInv, MutexSafe
<1> QED
  BY <1>1, <1>2, PTL DEF Mutex!Spec

\* The variables keep their types.
THEOREM MutexTypeCorrect == Mutex!Spec => []Mutex!TypeOK
BY MutexInductive, PTL DEF Mutex!IInv

\* The mutex never has two holders and is never marked while free.
THEOREM MutexMutualExclusionHolds == Mutex!Spec => []Mutex!MutualExclusion
BY MutexInductive, PTL DEF Mutex!IInv

\* The contender count returns to zero on every path of lock and timedlock.
THEOREM MutexHintCountsContendersHolds == Mutex!Spec => []Mutex!HintCountsContenders
BY MutexInductive, PTL DEF Mutex!IInv

\* unlock() never leaves a sleeper behind on a free mutex.
THEOREM MutexNoStrandedSleeperHolds == Mutex!Spec => []Mutex!NoStrandedSleeper
BY MutexInductive, PTL DEF Mutex!IInv

\* The mutex implements the abstract lock (its safety part): a timed lock that
\* fails is the abstract lock's GiveUp.
THEOREM MutexImplementsLockSafety == Mutex!Spec => Mutex!Lock!Safety
<1> USE DEF Mutex!Requesters
<1> DEFINE Waiting == Mutex!Counted \cup {t \in Threads : mpc[t] \in {"try", "enrol"}}
<1>1. Mutex!Init => Mutex!Lock!Init
  BY DEF Mutex!Init, Mutex!Lock!Init, Mutex!Holders, Mutex!Counted
<1>2. Mutex!IInv /\ [Mutex!Next]_(Mutex!vars) => [Mutex!Lock!Next]_(Mutex!Lock!vars)
  <2> SUFFICES ASSUME Mutex!IInv, [Mutex!Next]_(Mutex!vars)
               PROVE  [Mutex!Lock!Next]_(Mutex!Lock!vars)
    OBVIOUS
  <2> USE DEF Mutex!IInv, Mutex!TypeOK, Mutex!Goto
  <2>1. ASSUME NEW t \in Threads, mlock = "free", mpc' = [mpc EXCEPT ![t] = "cs"]
        PROVE  Mutex!Lock!Next
    <3>1. Mutex!Holders = {} /\ Mutex!Holders' = {t} /\ Waiting' = Waiting \ {t}
      BY <2>1 DEF Mutex!MutualExclusion, Mutex!Holders, Mutex!Counted
    <3> QED
      BY <3>1 DEF Mutex!Lock!Next, Mutex!Lock!Acquire
  <2>2. ASSUME NEW t \in Threads, Mutex!Trylock(t)
        PROVE  [Mutex!Lock!Next]_(Mutex!Lock!vars)
    <3>1. CASE mlock = "free"
      BY <2>1, <2>2, <3>1 DEF Mutex!Trylock, Mutex!TryLock
    <3>2. CASE mlock # "free"
      BY <2>2, <3>2
         DEF Mutex!Trylock, Mutex!TryLock, Mutex!Lock!vars, Mutex!Holders,
             Mutex!Counted
    <3> QED
      BY <3>1, <3>2
  <2>3. ASSUME NEW t \in Threads, Mutex!LockFast(t)
        PROVE  [Mutex!Lock!Next]_(Mutex!Lock!vars)
    <3>1. CASE mlock = "free"
      BY <2>1, <2>3, <3>1 DEF Mutex!LockFast, Mutex!TryLock
    <3>2. CASE mlock # "free"
      <4>1. /\ t \notin Waiting \cup Mutex!Holders
            /\ Waiting' = Waiting \cup {t}
            /\ Mutex!Holders' = Mutex!Holders
        BY <2>3, <3>2 DEF Mutex!LockFast, Mutex!TryLock, Mutex!Holders, Mutex!Counted
      <4> QED
        BY <4>1 DEF Mutex!Lock!Next, Mutex!Lock!Request
    <3> QED
      BY <3>1, <3>2
  <2>4. ASSUME NEW t \in Threads, Mutex!Retry(t)
        PROVE  [Mutex!Lock!Next]_(Mutex!Lock!vars)
    <3>1. CASE mlock = "free"
      BY <2>1, <2>4, <3>1 DEF Mutex!Retry, Mutex!TryLock
    <3>2. CASE mlock # "free"
      BY <2>4, <3>2
         DEF Mutex!Retry, Mutex!TryLock, Mutex!Lock!vars, Mutex!Holders, Mutex!Counted
    <3> QED
      BY <3>1, <3>2
  <2>5. ASSUME NEW t \in Threads, Mutex!Drop(t)
        PROVE  [Mutex!Lock!Next]_(Mutex!Lock!vars)
    <3>1. CASE mpc[t] = "drop"
      BY <2>5, <3>1 DEF Mutex!Drop, Mutex!Lock!vars, Mutex!Holders, Mutex!Counted
    <3>2. CASE mpc[t] = "giveup"
      <4>1. /\ t \in Waiting
            /\ Waiting' = Waiting \ {t}
            /\ Mutex!Holders' = Mutex!Holders
        BY <2>5, <3>2 DEF Mutex!Drop, Mutex!Holders, Mutex!Counted
      <4> QED
        BY <4>1 DEF Mutex!Lock!Next, Mutex!Lock!GiveUp
    <3> QED
      BY <2>5, <3>1, <3>2 DEF Mutex!Drop
  <2>6. ASSUME NEW t \in Threads, Mutex!UnlockSwap(t)
        PROVE  [Mutex!Lock!Next]_(Mutex!Lock!vars)
    <3>1. /\ t \in Mutex!Holders
          /\ Mutex!Holders' = Mutex!Holders \ {t}
          /\ Waiting' = Waiting
      BY <2>6 DEF Mutex!UnlockSwap, Mutex!Holders, Mutex!Counted
    <3> QED
      BY <3>1 DEF Mutex!Lock!Next, Mutex!Lock!Release
  <2>7. ASSUME NEW t \in Threads,
               \/ Mutex!Enrol(t) \/ Mutex!Observe(t) \/ Mutex!Mark(t) \/ Mutex!FutexWait(t)
               \/ Mutex!UnlockHint(t) \/ Mutex!UnlockWake(t) \/ Mutex!Interrupt(t) \/ Mutex!Expire(t)
        PROVE  UNCHANGED Mutex!Lock!vars
    <3>1. UNCHANGED <<Waiting, Mutex!Holders>>
      BY <2>7
         DEF Mutex!Enrol, Mutex!Observe, Mutex!Mark, Mutex!FutexWait,
             Mutex!UnlockHint, Mutex!UnlockWake, Mutex!Interrupt, Mutex!Expire,
             Mutex!Holders, Mutex!Counted
    <3> QED
      BY <3>1 DEF Mutex!Lock!vars
  <2>8. CASE UNCHANGED Mutex!vars
    BY <2>8 DEF Mutex!vars, Mutex!Lock!vars, Mutex!Holders, Mutex!Counted
  <2> QED
    BY <2>2, <2>3, <2>4, <2>5, <2>6, <2>7, <2>8 DEF Mutex!Next, Mutex!Step
<1> QED
  BY <1>1, <1>2, MutexInductive, PTL DEF Mutex!Spec, Mutex!Lock!Safety

-----------------------------------------------------------------------------

CONSTANT Contenders

VARIABLES pword, ppc

\* The 0/1/2 lock.
Private == INSTANCE PrivateLock WITH Threads <- Contenders, word <- pword, pc <- ppc

\* A step that changes who holds the lock is LockFast, Take or Unlock; every
\* other step leaves the holders and the word's being UNLOCKED alone.
LEMMA PrivateNextIInv ==
    Private!IInv /\ [Private!Next]_(Private!vars) => Private!IInv'
<1> SUFFICES ASSUME Private!IInv, [Private!Next]_(Private!vars) PROVE Private!IInv'
  OBVIOUS
<1> USE DEF Private!IInv, Private!TypeOK, Private!Labels, Private!Goto,
            Private!UNLOCKED, Private!LOCKED, Private!CONTENDED
<1>1. ASSUME NEW t \in Contenders, NEW w \in {Private!LOCKED, Private!CONTENDED},
             pword = Private!UNLOCKED, pword' = w, Private!Goto(t, "cs"),
             ppc[t] = "idle" \/ w = Private!CONTENDED, ppc[t] # "asleep"
      PROVE  Private!IInv'
  <2>1. Private!Holders' = {t} /\ Private!Sleepers' = Private!Sleepers
    BY <1>1 DEF Private!MutualExclusion, Private!Holders, Private!Sleepers
  <2>2. Private!MutualExclusion'
    BY <1>1, <2>1 DEF Private!MutualExclusion
  <2>3. Private!NoStrandedSleeper'
    BY <1>1, <2>1 DEF Private!NoStrandedSleeper
  <2> QED
    BY <1>1, <2>2, <2>3
<1>2. ASSUME NEW t \in Contenders, Private!LockFast(t) PROVE Private!IInv'
  <2>1. CASE pword = Private!UNLOCKED
    BY <1>1, <1>2, <2>1 DEF Private!LockFast
  <2>2. CASE pword # Private!UNLOCKED
    BY <1>2, <2>2
       DEF Private!LockFast, Private!MutualExclusion, Private!NoStrandedSleeper,
           Private!Holders, Private!Sleepers
  <2> QED
    BY <2>1, <2>2
<1>3. ASSUME NEW t \in Contenders, Private!Mark(t) PROVE Private!IInv'
  BY <1>3
     DEF Private!Mark, Private!MutualExclusion, Private!NoStrandedSleeper,
         Private!Holders, Private!Sleepers
<1>4. ASSUME NEW t \in Contenders, Private!Wait(t) PROVE Private!IInv'
  BY <1>4
     DEF Private!Wait, Private!MutualExclusion, Private!NoStrandedSleeper,
         Private!Holders, Private!Sleepers
<1>5. ASSUME NEW t \in Contenders, Private!Take(t) PROVE Private!IInv'
  <2>1. CASE pword = Private!UNLOCKED
    BY <1>1, <1>5, <2>1 DEF Private!Take
  <2>2. CASE pword # Private!UNLOCKED
    BY <1>5, <2>2
       DEF Private!Take, Private!MutualExclusion, Private!NoStrandedSleeper,
           Private!Holders, Private!Sleepers
  <2> QED
    BY <2>1, <2>2
<1>6. ASSUME NEW t \in Contenders, Private!Unlock(t) PROVE Private!IInv'
  <2>1. Private!Holders = {t}
    BY <1>6 DEF Private!Unlock, Private!MutualExclusion, Private!Holders
  <2>2. Private!Holders' = {} /\ Private!Sleepers' = Private!Sleepers
    BY <1>6, <2>1 DEF Private!Unlock, Private!Holders, Private!Sleepers
  <2>3. Private!MutualExclusion'
    BY <1>6, <2>2 DEF Private!Unlock, Private!MutualExclusion
  <2>4. Private!NoStrandedSleeper'
    BY <1>6, <2>2 DEF Private!Unlock, Private!NoStrandedSleeper
  <2> QED
    BY <1>6, <2>3, <2>4 DEF Private!Unlock
<1>7. ASSUME NEW t \in Contenders, Private!UnlockWake(t) PROVE Private!IInv'
  <2>1. Private!Holders' = Private!Holders
    BY <1>7 DEF Private!UnlockWake, Private!Holders
  <2>2. Private!Sleepers' # {} => \E s \in Contenders : ppc'[s] = "wait"
    BY <1>7 DEF Private!UnlockWake, Private!Sleepers
  <2>3. Private!MutualExclusion' /\ Private!NoStrandedSleeper'
    BY <1>7, <2>1, <2>2
       DEF Private!UnlockWake, Private!MutualExclusion, Private!NoStrandedSleeper
  <2> QED
    BY <1>7, <2>3 DEF Private!UnlockWake
<1>8. ASSUME NEW t \in Contenders, Private!Interrupt(t) PROVE Private!IInv'
  BY <1>8
     DEF Private!Interrupt, Private!MutualExclusion, Private!NoStrandedSleeper,
         Private!Holders, Private!Sleepers
<1>9. CASE UNCHANGED Private!vars
  BY <1>9
     DEF Private!vars, Private!MutualExclusion, Private!NoStrandedSleeper,
         Private!Holders, Private!Sleepers
<1> QED
  BY <1>2, <1>3, <1>4, <1>5, <1>6, <1>7, <1>8, <1>9 DEF Private!Next, Private!Step

\* The inductive invariant holds throughout.
THEOREM PrivateInductive == Private!Spec => []Private!IInv
<1>1. Private!Init => Private!IInv
  BY DEF Private!Init, Private!IInv, Private!TypeOK, Private!Labels,
         Private!MutualExclusion, Private!NoStrandedSleeper, Private!Holders,
         Private!Sleepers, Private!UNLOCKED, Private!LOCKED, Private!CONTENDED
<1> QED
  BY <1>1, PrivateNextIInv, PTL DEF Private!Spec

\* The list lock never has two holders.
THEOREM PrivateMutualExclusionHolds == Private!Spec => []Private!MutualExclusion
BY PrivateInductive, PTL DEF Private!IInv

\* private_unlock never leaves a sleeper that nobody accounts for.
THEOREM PrivateNoStrandedSleeperHolds == Private!Spec => []Private!NoStrandedSleeper
BY PrivateInductive, PTL DEF Private!IInv

\* private_lock and private_unlock implement the abstract lock (its safety
\* part), which is how PthreadCond uses them.
THEOREM PrivateImplementsLockSafety == Private!Spec => Private!Lock!Safety
<1> USE DEF Private!Requesters
<1> DEFINE Waiting == {t \in Contenders : ppc[t] \in {"mark", "wait", "asleep", "take"}}
<1>1. Private!Init => Private!Lock!Init
  BY DEF Private!Init, Private!Lock!Init, Private!Holders
<1>2. Private!IInv /\ [Private!Next]_(Private!vars) => [Private!Lock!Next]_(Private!Lock!vars)
  <2> SUFFICES ASSUME Private!IInv, [Private!Next]_(Private!vars)
               PROVE  [Private!Lock!Next]_(Private!Lock!vars)
    OBVIOUS
  <2> USE DEF Private!IInv, Private!TypeOK, Private!Goto
  <2>1. ASSUME NEW t \in Contenders, pword = Private!UNLOCKED, Private!Goto(t, "cs")
        PROVE  Private!Lock!Next
    <3>1. Private!Holders = {} /\ Private!Holders' = {t} /\ Waiting' = Waiting \ {t}
      BY <2>1 DEF Private!MutualExclusion, Private!Holders
    <3> QED
      BY <3>1 DEF Private!Lock!Next, Private!Lock!Acquire
  <2>2. ASSUME NEW t \in Contenders, Private!LockFast(t)
        PROVE  [Private!Lock!Next]_(Private!Lock!vars)
    <3>1. CASE pword = Private!UNLOCKED
      BY <2>1, <2>2, <3>1 DEF Private!LockFast
    <3>2. CASE pword # Private!UNLOCKED
      <4>1. /\ t \notin Waiting \cup Private!Holders
            /\ Waiting' = Waiting \cup {t}
            /\ Private!Holders' = Private!Holders
        BY <2>2, <3>2 DEF Private!LockFast, Private!Holders
      <4> QED
        BY <4>1 DEF Private!Lock!Next, Private!Lock!Request
    <3> QED
      BY <3>1, <3>2
  <2>3. ASSUME NEW t \in Contenders, Private!Take(t)
        PROVE  [Private!Lock!Next]_(Private!Lock!vars)
    <3>1. CASE pword = Private!UNLOCKED
      BY <2>1, <2>3, <3>1 DEF Private!Take
    <3>2. CASE pword # Private!UNLOCKED
      BY <2>3, <3>2 DEF Private!Take, Private!Lock!vars, Private!Holders
    <3> QED
      BY <3>1, <3>2
  <2>4. ASSUME NEW t \in Contenders, Private!Unlock(t)
        PROVE  [Private!Lock!Next]_(Private!Lock!vars)
    <3>1. /\ t \in Private!Holders
          /\ Private!Holders' = Private!Holders \ {t}
          /\ Waiting' = Waiting
      BY <2>4 DEF Private!Unlock, Private!Holders
    <3> QED
      BY <3>1 DEF Private!Lock!Next, Private!Lock!Release
  <2>5. ASSUME NEW t \in Contenders,
               Private!Mark(t) \/ Private!Wait(t) \/ Private!UnlockWake(t) \/ Private!Interrupt(t)
        PROVE  UNCHANGED Private!Lock!vars
    <3>1. UNCHANGED <<Waiting, Private!Holders>>
      BY <2>5
         DEF Private!Mark, Private!Wait, Private!UnlockWake, Private!Interrupt,
             Private!Holders
    <3> QED
      BY <3>1 DEF Private!Lock!vars
  <2>6. CASE UNCHANGED Private!vars
    BY <2>6 DEF Private!vars, Private!Lock!vars, Private!Holders
  <2> QED
    BY <2>2, <2>3, <2>4, <2>5, <2>6 DEF Private!Next, Private!Step
<1> QED
  BY <1>1, <1>2, PrivateInductive, PTL DEF Private!Spec, Private!Lock!Safety

-----------------------------------------------------------------------------

CONSTANT MaxAbandons

VARIABLES control, opc, abandons, completed

\* pthread_once.
Once == INSTANCE PthreadOnce WITH Threads <- Contenders, pc <- opc

\* Every step preserves the inductive invariant.
LEMMA OnceNextIInv == Once!IInv /\ [Once!Next]_(Once!vars) => Once!IInv'
<1> SUFFICES ASSUME Once!IInv, [Once!Next]_(Once!vars) PROVE Once!IInv'
  OBVIOUS
<1> USE DEF Once!IInv, Once!TypeOK, Once!Labels, Once!Goto, Once!INITIAL,
            Once!INITIALIZING, Once!COMPLETE, Once!WAITERS
<1>1. ASSUME NEW t \in Contenders,
             \/ Once!Call(t) \/ Once!Wait(t) \/ Once!FutexWait(t) \/ Once!Interrupt(t) \/ Once!Return(t)
      PROVE  Once!IInv'
  <2>0. UNCHANGED <<control, abandons, completed>>
    BY <1>1 DEF Once!Call, Once!Wait, Once!FutexWait, Once!Interrupt, Once!Return
  <2>1. Once!TypeOK'
    BY <1>1, <2>0
       DEF Once!Call, Once!Wait, Once!FutexWait, Once!Interrupt, Once!Return
  <2>2. Once!Initializers' = Once!Initializers
    BY <1>1
       DEF Once!Call, Once!Wait, Once!FutexWait, Once!Interrupt, Once!Return,
           Once!Initializers
  <2>3. (Once!OneInitializer /\ Once!WordTells)'
    BY <2>0, <2>2 DEF Once!OneInitializer, Once!WordTells
  <2>4. Once!ReturnsAfterCompletion'
    BY <1>1, <2>0
       DEF Once!Call, Once!Wait, Once!FutexWait, Once!Interrupt, Once!Return,
           Once!OneInitializer, Once!WordTells, Once!ReturnsAfterCompletion
  <2>5. Once!NoStrandedSleeper'
    BY <1>1, <2>0
       DEF Once!Call, Once!Wait, Once!FutexWait, Once!Interrupt, Once!Return,
           Once!NoStrandedSleeper, Once!Sleepers
  <2> QED
    BY <2>1, <2>3, <2>4, <2>5
<1>2. ASSUME NEW t \in Contenders, Once!Cas(t) PROVE Once!IInv'
  <2>1. CASE control = Once!INITIAL
    <3>1. Once!Initializers = {} /\ completed = 0
      BY <2>1 DEF Once!OneInitializer, Once!WordTells
    <3>2. /\ control' = Once!INITIALIZING
          /\ opc' = [opc EXCEPT ![t] = "init"]
          /\ UNCHANGED <<abandons, completed>>
      BY <1>2, <2>1 DEF Once!Cas
    <3>3. Once!Initializers' = {t} /\ Once!Sleepers' = Once!Sleepers
      BY <1>2, <3>1, <3>2 DEF Once!Cas, Once!Initializers, Once!Sleepers
    <3>4. (Once!OneInitializer /\ Once!WordTells)'
      BY <3>1, <3>2, <3>3 DEF Once!OneInitializer, Once!WordTells
    <3>5. Once!ReturnsAfterCompletion'
      BY <3>2 DEF Once!ReturnsAfterCompletion
    <3>6. Once!NoStrandedSleeper'
      BY <1>2, <2>1, <3>2, <3>3 DEF Once!Cas, Once!NoStrandedSleeper
    <3> QED
      BY <3>2, <3>4, <3>5, <3>6
  <2>2. CASE control # Once!INITIAL
    <3>1. /\ opc' = [opc EXCEPT ![t] = CASE control = Once!INITIALIZING -> "mark"
                                      [] control = Once!WAITERS -> "wait"
                                      [] control = Once!COMPLETE -> "return"]
          /\ UNCHANGED <<control, abandons, completed>>
      BY <1>2, <2>2 DEF Once!Cas
    <3>2. UNCHANGED <<Once!Initializers, Once!Sleepers>>
      BY <1>2, <2>2, <3>1 DEF Once!Cas, Once!Initializers, Once!Sleepers
    <3>3. (Once!OneInitializer /\ Once!WordTells)'
      BY <3>1, <3>2 DEF Once!OneInitializer, Once!WordTells
    <3>4. Once!ReturnsAfterCompletion'
      BY <2>2, <3>1
         DEF Once!OneInitializer, Once!WordTells, Once!ReturnsAfterCompletion
    <3>5. Once!NoStrandedSleeper'
      BY <1>2, <3>1, <3>2 DEF Once!Cas, Once!NoStrandedSleeper
    <3> QED
      BY <2>2, <3>1, <3>3, <3>4, <3>5
  <2> QED
    BY <2>1, <2>2
<1>3. ASSUME NEW t \in Contenders, Once!Mark(t) PROVE Once!IInv'
  <2>1. UNCHANGED <<Once!Initializers, Once!Sleepers, abandons, completed>>
    BY <1>3 DEF Once!Mark, Once!Initializers, Once!Sleepers
  <2>2. (Once!OneInitializer /\ Once!WordTells)'
    BY <1>3, <2>1 DEF Once!Mark, Once!OneInitializer, Once!WordTells
  <2>3. Once!ReturnsAfterCompletion' /\ Once!NoStrandedSleeper'
    BY <1>3, <2>1 DEF Once!Mark, Once!ReturnsAfterCompletion, Once!NoStrandedSleeper
  <2> QED
    BY <1>3, <2>1, <2>2, <2>3 DEF Once!Mark
<1>4. ASSUME NEW t \in Contenders, Once!Publish(t) PROVE Once!IInv'
  <2>1. Once!Initializers = {t} /\ completed = 0
    BY <1>4 DEF Once!Publish, Once!OneInitializer, Once!WordTells, Once!Initializers
  <2>2. Once!Initializers' = {} /\ Once!Sleepers' = Once!Sleepers
    BY <1>4, <2>1 DEF Once!Publish, Once!Initializers, Once!Sleepers
  <2>3. (Once!OneInitializer /\ Once!WordTells)' /\ Once!TypeOK'
    BY <1>4, <2>1, <2>2 DEF Once!Publish, Once!OneInitializer, Once!WordTells
  <2>4. Once!ReturnsAfterCompletion'
    BY <1>4, <2>1 DEF Once!Publish, Once!ReturnsAfterCompletion
  <2>5. Once!NoStrandedSleeper'
    BY <1>4, <2>2 DEF Once!Publish, Once!NoStrandedSleeper
  <2> QED
    BY <2>3, <2>4, <2>5
<1>5. ASSUME NEW t \in Contenders, Once!Abandon(t) PROVE Once!IInv'
  <2>1. Once!Initializers = {t} /\ completed = 0
    BY <1>5 DEF Once!Abandon, Once!OneInitializer, Once!WordTells, Once!Initializers
  <2>2. Once!Initializers' = {} /\ Once!Sleepers' = Once!Sleepers
    BY <1>5, <2>1 DEF Once!Abandon, Once!Initializers, Once!Sleepers
  <2>3. (Once!OneInitializer /\ Once!WordTells)' /\ Once!TypeOK'
    BY <1>5, <2>1, <2>2 DEF Once!Abandon, Once!OneInitializer, Once!WordTells
  <2>4. Once!ReturnsAfterCompletion'
    BY <1>5 DEF Once!Abandon, Once!ReturnsAfterCompletion
  <2>5. Once!NoStrandedSleeper'
    BY <1>5, <2>2 DEF Once!Abandon, Once!NoStrandedSleeper
  <2> QED
    BY <2>3, <2>4, <2>5
<1>6. ASSUME NEW t \in Contenders, Once!Wake(t) PROVE Once!IInv'
  <2>1. Once!Initializers' = Once!Initializers /\ Once!Sleepers' = {}
    BY <1>6 DEF Once!Wake, Once!Initializers, Once!Sleepers
  <2>2. (Once!OneInitializer /\ Once!WordTells)' /\ Once!TypeOK' /\ Once!NoStrandedSleeper'
    BY <1>6, <2>1
       DEF Once!Wake, Once!OneInitializer, Once!WordTells, Once!NoStrandedSleeper
  <2>3. Once!ReturnsAfterCompletion'
    BY <1>6 DEF Once!Wake, Once!ReturnsAfterCompletion
  <2> QED
    BY <2>2, <2>3
<1>7. CASE UNCHANGED Once!vars
  BY <1>7
     DEF Once!vars, Once!OneInitializer, Once!WordTells, Once!ReturnsAfterCompletion,
         Once!NoStrandedSleeper, Once!Initializers, Once!Sleepers
<1> QED
  BY <1>1, <1>2, <1>3, <1>4, <1>5, <1>6, <1>7 DEF Once!Next, Once!Step

\* The inductive invariant holds throughout.
THEOREM OnceInductive == Once!Spec => []Once!IInv
<1>1. Once!Init => Once!IInv
  BY DEF Once!Init, Once!IInv, Once!TypeOK, Once!Labels, Once!OneInitializer,
         Once!WordTells, Once!ReturnsAfterCompletion, Once!NoStrandedSleeper,
         Once!Initializers, Once!Sleepers, Once!INITIAL, Once!INITIALIZING,
         Once!COMPLETE, Once!WAITERS
<1> QED
  BY <1>1, OnceNextIInv, PTL DEF Once!Spec

\* The routine runs in one thread at a time and returns at most once.
THEOREM OnceOneInitializerHolds == Once!Spec => []Once!OneInitializer
BY OnceInductive, PTL DEF Once!IInv

\* A call of pthread_once returns only after the routine has returned.
THEOREM OnceReturnsAfterCompletionHolds == Once!Spec => []Once!ReturnsAfterCompletion
BY OnceInductive, PTL DEF Once!IInv

\* Neither completion nor cancellation forgets a sleeper.
THEOREM OnceNoStrandedSleeperHolds == Once!Spec => []Once!NoStrandedSleeper
BY OnceInductive, PTL DEF Once!IInv

\* Completion is final: the only exchanges that could overwrite it belong to
\* an initializer, and there is none.
THEOREM OnceCompletionIsFinalHolds == Once!Spec => Once!CompletionIsFinal
<1>1. Once!IInv /\ [Once!Next]_(Once!vars) => [control = Once!COMPLETE => control' = Once!COMPLETE]_(Once!vars)
  <2> SUFFICES ASSUME Once!IInv, Once!Next, control = Once!COMPLETE
               PROVE  control' = Once!COMPLETE
    BY DEF Once!vars
  <2>1. \A t \in Contenders : opc[t] # "init"
    BY DEF Once!IInv, Once!WordTells, Once!Initializers, Once!INITIALIZING,
           Once!COMPLETE, Once!WAITERS
  <2> QED
    BY <2>1
       DEF Once!Next, Once!Step, Once!Call, Once!Cas, Once!Mark, Once!Wait,
           Once!FutexWait, Once!Interrupt, Once!Publish, Once!Abandon, Once!Wake,
           Once!Return, Once!COMPLETE, Once!INITIAL, Once!INITIALIZING
<1> QED
  BY <1>1, OnceInductive, PTL DEF Once!Spec, Once!CompletionIsFinal

=============================================================================
