-------------------------- MODULE OwnerMutexProofs --------------------------
(***************************************************************************)
(* Theorems about the mutexes that know their owner, for every finite set  *)
(* of threads and every kind.                                              *)
(***************************************************************************)
EXTENDS OwnerMutexLemmas

\* A thread that will wake a sleeper, or look at the word in its place.
Responsible(t) ==
    \/ pc[t] \in {"wake", "xwake"}
    \/ pc[t] \in {"clear", "xclear"} /\ hint[t]
    \/ /\ lock.owner # t /\ op[t] # "trylock"
       /\ \/ pc[t] \in {"sub", "try", "prep", "look", "add", "mark"}
          \/ pc[t] = "cas" /\ (kind.shared => hint[t])

\* The mutexes that the property is about.
Considered == ~owing /\ data # "lost" /\ (kind.robust \/ data = "good")

\* An owner on its way out that has read "no waiters" will find the bit.
Hinted(t) ==
    pc[t] \in {"unlink", "swap", "xhint", "xswap"} /\ Sleepers # {} =>
        hint[t] \/ lock.waiting

\* The owner's unlock, or its death, wakes a sleeper.
OwnerWillWake == lock.owner \in Threads /\ (kind.shared => lock.waiting)

\* Nobody sleeps unless somebody will do something about it.
LookedAfter ==
    Considered /\ Sleepers # {} => OwnerWillWake \/ \E t \in Threads : Responsible(t)

\* What the sleepers rely on.
SleepInv == Counted /\ (\A t \in Threads : Hinted(t)) /\ LookedAfter

\* The inductive invariant.
IInv == TypeOK /\ OwnerInv /\ SleepInv

-----------------------------------------------------------------------------

\* The waiter count covers the waiters: only a step that adds or subtracts
\* changes it, and those two keep the set in step.
LEMMA NextCounted == TypeOK /\ Counted /\ [Next]_vars => Counted'
<1> SUFFICES ASSUME TypeOK, Counted, [Next]_vars PROVE Counted'
  OBVIOUS
<1>1. IsFiniteSet(Waiting) /\ Cardinality(Waiting) \in Nat /\ waiters \in Nat
  BY ThreadsAssumption, FS_Subset, FS_CardinalityType DEF Waiting, TypeOK
<1>2. pc \in [Threads -> Labels]
  BY DEF TypeOK
<1>3. ASSUME waiters' = waiters,
             \A t \in Threads : pc'[t] \in {"mark", "futex", "asleep", "sub", "timeout"}
                                  => pc[t] \in {"mark", "futex", "asleep", "sub", "timeout"}
      PROVE  Counted'
  <2>1. Waiting' \subseteq Waiting
    BY <1>3 DEF Waiting
  <2>2. Cardinality(Waiting') <= Cardinality(Waiting) /\ Cardinality(Waiting') \in Nat
    BY <1>1, <2>1, FS_Subset, FS_CardinalityType
  <2> QED
    BY <1>1, <1>3, <2>2 DEF Counted
<1>4. ASSUME NEW t \in Threads, AddWaiter(t) PROVE Counted'
  <2>1. Waiting' = Waiting \cup {t} /\ t \notin Waiting
    BY <1>2, <1>4 DEF AddWaiter, Goto, Waiting
  <2>2. Cardinality(Waiting') = Cardinality(Waiting) + 1
    BY <1>1, <2>1, FS_AddElement
  <2> QED
    BY <1>1, <1>4, <2>2 DEF AddWaiter, Counted
<1>5. ASSUME NEW t \in Threads, SubWaiter(t) PROVE Counted'
  <2>1. Waiting' = Waiting \ {t} /\ t \in Waiting
    BY <1>2, <1>5 DEF SubWaiter, Goto, Waiting
  <2>2. Cardinality(Waiting') = Cardinality(Waiting) - 1
    BY <1>1, <2>1, FS_RemoveElement
  <2> QED
    BY <1>1, <1>5, <2>2 DEF SubWaiter, Counted
<1>6. ASSUME NEW t \in Threads, Wake(t) PROVE Counted'
  BY <1>2, <1>3, <1>6, WakeOneEffect DEF Wake
<1>7. ASSUME NEW t \in Threads, Crash(t) PROVE Counted'
  <2>1. waiters' = waiters
    BY <1>7 DEF Crash
  <2> QED
    BY <1>2, <1>3, <1>7, <2>1, CrashEffect
<1>8. ASSUME NEW t \in Threads,
             Try(t) \/ Prepare(t) \/ Cas(t) \/ Link(t) \/ Call(t) \/ Look(t)
      PROVE  Counted'
  BY <1>2, <1>3, <1>8 DEF Try, Busy, Prepare, Cas, Link, Call, Look, Goto
<1>9. ASSUME NEW t \in Threads, Mark(t) \/ FutexWait(t) \/ TimeOut(t) PROVE Counted'
  BY <1>2, <1>3, <1>9 DEF Mark, FutexWait, TimeOut, Goto
<1>10. ASSUME NEW t \in Threads,
              Unlock(t) \/ Unlink(t) \/ Swap(t) \/ ClearPending(t) \/ Consistent(t)
       PROVE  Counted'
  BY <1>2, <1>3, <1>10 DEF Unlock, Unlink, Swap, ClearPending, Consistent, Goto
<1>11. ASSUME NEW t \in Threads, Exit(t) \/ ExitUnlink(t) \/ ExitSwap(t)
       PROVE  Counted'
  BY <1>2, <1>3, <1>11 DEF Exit, ExitUnlink, ExitSwap, Goto
<1>12. CASE UNCHANGED vars
  BY <1>3, <1>12 DEF vars
<1> QED
  BY <1>4, <1>5, <1>6, <1>7, <1>8, <1>9, <1>10, <1>11, <1>12 DEF Next, Step

\* Whoever sleeps is counted, so a hint read now is TRUE.
LEMMA SleepersCount ==
    ASSUME TypeOK, Counted, Sleepers # {}
    PROVE  waiters # 0
<1>1. Waiting # {}
  BY DEF Waiting, Sleepers
<1> QED
  BY <1>1, CountPositive DEF TypeOK

\* What one thread's step leaves alone in the others.
Others(t) ==
    /\ kind' = kind
    /\ \A s \in Threads \ {t} : pc'[s] = pc[s] /\ hint'[s] = hint[s] /\ op'[s] = op[s]

\* No step but a FUTEX_WAKE, and the end of a process, which gives one, reaches
\* another thread.
LEMMA StepLeavesOthers ==
    ASSUME TypeOK, NEW t \in Threads,
           \/ Call(t) \/ Unlock(t) \/ Consistent(t) \/ Exit(t) \/ TimeOut(t)
           \/ Step(t) /\ ~Wake(t)
    PROVE  Others(t)
<1>1. /\ pc \in [Threads -> Labels] /\ hint \in [Threads -> BOOLEAN]
      /\ op \in [Threads -> {"trylock", "lock", "timedlock"}]
  BY DEF TypeOK
<1> USE <1>1 DEF Others, Goto, See, Forget
<1>2. CASE Call(t) \/ Unlock(t) \/ Consistent(t) \/ Exit(t) \/ TimeOut(t)
  BY <1>2 DEF Call, Unlock, Consistent, Exit, TimeOut
<1>3. CASE Try(t) \/ Prepare(t) \/ Cas(t) \/ Link(t) \/ Look(t)
  BY <1>3 DEF Try, Busy, Prepare, Cas, Link, Look
<1>4. CASE AddWaiter(t) \/ Mark(t) \/ FutexWait(t) \/ SubWaiter(t)
  BY <1>4 DEF AddWaiter, Mark, FutexWait, SubWaiter
<1>5. CASE Unlink(t) \/ Swap(t) \/ ClearPending(t) \/ ExitUnlink(t) \/ ExitSwap(t)
  BY <1>5 DEF Unlink, Swap, ClearPending, ExitUnlink, ExitSwap
<1> QED
  BY <1>2, <1>3, <1>4, <1>5 DEF Step

\* The owner that is about to release knows of the sleepers, by its hint or by
\* the bit in the word.
LEMMA NextHinted ==
    ASSUME TypeOK, OwnerInv, SleepInv, [Next]_vars, NEW s \in Threads
    PROVE  Hinted(s)'
<1>1. /\ pc \in [Threads -> Labels] /\ hint \in [Threads -> BOOLEAN] /\ lock \in Words
      /\ Hinted(s) /\ (Sleepers # {} => waiters # 0)
  BY SleepersCount DEF TypeOK, SleepInv
<1>2. pc[s] \in {"unlink", "swap", "xhint", "xswap"} => lock.owner = s
  BY DEF OwnerInv, Owning
<1>3. ASSUME NEW t \in Threads, FutexWait(t) PROVE Hinted(s)'
  <2>1. Local(t)
    BY DEF OwnerInv
  <2>2. CASE lock = word[t]
    <3>1. lock'.waiting
      BY <1>3, <2>1, <2>2 DEF Local, FutexWait
    <3> QED
      BY <3>1 DEF Hinted
  <2>3. CASE lock # word[t]
    <3>1. Sleepers' \subseteq Sleepers
      BY <1>1, <1>3, <2>3 DEF FutexWait, Goto, Sleepers
    <3> QED
      BY <1>1, <1>3, <2>3, <3>1 DEF FutexWait, Goto, Hinted
  <2> QED
    BY <2>2, <2>3
\* Nobody falls asleep in any other step.
<1>4. ASSUME Sleepers' \subseteq Sleepers,
             pc'[s] \in {"unlink", "swap", "xhint", "xswap"} /\ Sleepers # {} =>
                \/ hint'[s] \/ lock'.waiting
                \/ /\ pc[s] \in {"unlink", "swap", "xhint", "xswap"}
                   /\ hint'[s] = hint[s] /\ (lock.waiting => lock'.waiting)
      PROVE  Hinted(s)'
  BY <1>1, <1>4 DEF Hinted
<1>5. ASSUME NEW t \in Threads,
             Call(t) \/ Unlock(t) \/ Consistent(t) \/ Exit(t) \/ TimeOut(t)
      PROVE  Hinted(s)'
  <2>1. Sleepers' \subseteq Sleepers
    BY <1>1, <1>5 DEF Call, Unlock, Consistent, Exit, TimeOut, Goto, Sleepers
  <2>2. CASE s = t
    BY <1>1, <1>4, <1>5, <2>1, <2>2
       DEF Call, Unlock, Consistent, Exit, TimeOut, Goto, Forget, Words
  <2>3. CASE s # t
    BY <1>1, <1>4, <1>5, <2>1, <2>3
       DEF Call, Unlock, Consistent, Exit, TimeOut, Goto, Forget, Words
  <2> QED
    BY <2>2, <2>3
<1>6. ASSUME NEW t \in Threads,
             Try(t) \/ Prepare(t) \/ Link(t) \/ Look(t) \/ AddWaiter(t) \/ SubWaiter(t)
      PROVE  Hinted(s)'
  <2>1. Sleepers' \subseteq Sleepers
    BY <1>1, <1>6
       DEF Try, Busy, Prepare, Link, Look, AddWaiter, SubWaiter, Goto, Sleepers
  <2> QED
    BY <1>1, <1>4, <1>6, <2>1
       DEF Try, Busy, Prepare, Link, Look, AddWaiter, SubWaiter, Goto, Forget
<1>7. ASSUME NEW t \in Threads, Cas(t) PROVE Hinted(s)'
  <2>1. Sleepers' \subseteq Sleepers
    BY <1>1, <1>7 DEF Cas, Busy, Goto, Sleepers
  <2>2. lock = word[t] => lock.owner = None
    BY <1>7 DEF Cas, OwnerInv, Local
  <2>3. None # s
    BY OwnersAssumption
  <2> QED
    BY <1>1, <1>2, <1>4, <1>7, <2>1, <2>2, <2>3 DEF Cas, Busy, Goto, Forget
<1>8. ASSUME NEW t \in Threads, Mark(t) PROVE Hinted(s)'
  <2>1. Sleepers' \subseteq Sleepers
    BY <1>1, <1>8 DEF Mark, Goto, Sleepers
  <2>2. lock.waiting => lock'.waiting
    BY <1>1, <1>8 DEF Mark, Marked, Words
  <2> QED
    BY <1>1, <1>4, <1>8, <2>1, <2>2 DEF Mark, Goto
<1>9. ASSUME NEW t \in Threads, Unlink(t) \/ ClearPending(t) \/ ExitUnlink(t)
      PROVE  Hinted(s)'
  <2>1. Sleepers' \subseteq Sleepers
    BY <1>1, <1>9 DEF Unlink, ClearPending, ExitUnlink, Goto, Sleepers
  <2> QED
    BY <1>1, <1>4, <1>9, <2>1 DEF Unlink, ClearPending, ExitUnlink, Goto
<1>10. ASSUME NEW t \in Threads, Swap(t) \/ ExitSwap(t) PROVE Hinted(s)'
  <2>1. lock.owner = t
    BY <1>10 DEF Swap, ExitSwap, OwnerInv, Owning
  <2>2. pc'[s] \notin {"unlink", "swap", "xhint", "xswap"}
    BY <1>1, <1>2, <1>10, <2>1 DEF Swap, ExitSwap, Goto
  <2> QED
    BY <2>2 DEF Hinted
<1>11. ASSUME NEW t \in Threads, Wake(t) PROVE Hinted(s)'
  <2>1. Sleepers' \subseteq Sleepers
    BY <1>1, <1>11, WakeOneEffect DEF Wake, Sleepers
  <2>2. pc'[s] \in {"unlink", "swap", "xhint", "xswap"} => pc[s] = pc'[s]
    BY <1>1, <1>11, WakeOneEffect DEF Wake
  <2> QED
    BY <1>1, <1>4, <1>11, <2>1, <2>2 DEF Wake
<1>12. ASSUME NEW t \in Threads, Crash(t) PROVE Hinted(s)'
  <2>1. Sleepers' \subseteq Sleepers
    BY <1>1, <1>12, CrashEffect DEF Sleepers
  <2>2. pc'[s] \in {"unlink", "swap", "xhint", "xswap"} => pc[s] = pc'[s] /\ s # t
    BY <1>1, <1>12, CrashEffect
  <2>3. lock.owner # t => lock' = lock
    BY <1>12 DEF Crash
  <2>4. s # t => hint'[s] = hint[s]
    BY <1>1, <1>12 DEF Crash, Forget
  <2> QED
    BY <1>2, <1>4, <2>1, <2>2, <2>3, <2>4
<1>13. CASE UNCHANGED vars
  BY <1>1, <1>13 DEF vars, Hinted, Sleepers
<1> QED
  BY <1>3, <1>5, <1>6, <1>7, <1>8, <1>9, <1>10, <1>11, <1>12, <1>13 DEF Next, Step

\* The mutexes the property leaves out stay left out.
LEMMA StaysLeftOut ==
    ASSUME TypeOK, OwnerInv, [Next]_vars, Considered'
    PROVE  Considered
<1>0. kind' = kind /\ (owing' = owing \/ \E t \in Threads : Crash(t))
  <2>1. ASSUME NEW t \in Threads,
               \/ Call(t) \/ Unlock(t) \/ Consistent(t) \/ Exit(t) \/ TimeOut(t)
               \/ Try(t) \/ Prepare(t) \/ Cas(t) \/ Link(t) \/ Look(t) \/ AddWaiter(t)
        PROVE  kind' = kind /\ owing' = owing
    BY <2>1
       DEF Call, Unlock, Consistent, Exit, TimeOut, Try, Prepare, Cas, Link, Look,
                AddWaiter, history
  <2>2. ASSUME NEW t \in Threads,
               \/ Mark(t) \/ FutexWait(t) \/ SubWaiter(t) \/ Unlink(t) \/ Swap(t)
               \/ ClearPending(t) \/ Wake(t) \/ ExitUnlink(t) \/ ExitSwap(t)
        PROVE  kind' = kind /\ owing' = owing
    BY <2>2
       DEF Mark, FutexWait, SubWaiter, Unlink, Swap, ClearPending, Wake, ExitUnlink,
                ExitSwap, history
  <2>3. ASSUME NEW t \in Threads, Crash(t) PROVE kind' = kind
    BY <2>3 DEF Crash
  <2>4. CASE UNCHANGED vars
    BY <2>4 DEF vars, history
  <2> QED
    BY <2>1, <2>2, <2>3, <2>4 DEF Next, Step
<1>1. kind' = kind /\ (owing => owing')
  <2>1. ASSUME NEW t \in Threads, Crash(t), owing PROVE owing'
    <3>1. owing' = (owing \/ Owing(t))
      BY <2>1 DEF Crash
    <3> QED
      BY <2>1, <3>1, Zenon
  <2> QED
    BY <1>0, <2>1
<1>2. ASSUME NEW t \in Threads, Swap(t) \/ ExitSwap(t) \/ Consistent(t)
      PROVE  Considered
  <2>1. lock.owner = t
    BY <1>2 DEF OwnerInv, Owning, Swap, ExitSwap, Consistent
  <2>2. data # "lost"
    BY <2>1, OwnersAssumption DEF OwnerInv, Lasting
  <2> QED
    BY <1>1, <1>2, <2>2 DEF Considered, Swap, ExitSwap, Consistent, TypeOK
<1>3. ASSUME NEW t \in Threads, Crash(t) PROVE Considered
  <2>1. CASE data' = data
    BY <1>1, <2>1 DEF Considered
  <2>2. CASE data' # data
    <3>1. lock.owner = t /\ data' = "suspect"
      BY <1>3, <2>2 DEF Crash
    <3>2. data # "lost"
      BY <3>1, OwnersAssumption DEF OwnerInv, Lasting
    <3> QED
      BY <1>1, <3>1, <3>2 DEF Considered
  <2> QED
    BY <2>1, <2>2
<1>4. CASE data' = data
  BY <1>1, <1>4 DEF Considered
<1> QED
  BY <1>2, <1>3, <1>4
     DEF Next, Step, vars, Call, Unlock, Exit, TimeOut, Try, Prepare, Cas, Link, Look,
         AddWaiter, Mark, FutexWait, SubWaiter, Unlink, ClearPending, Wake, ExitUnlink,
         history

\* Whoever was responsible and takes no part in a step still is.
LEMMA StaysResponsible ==
    ASSUME NEW r \in Threads, Responsible(r), pc'[r] = pc[r], hint'[r] = hint[r],
           op'[r] = op[r], kind' = kind, lock'.owner = lock.owner \/ lock'.owner # r
    PROVE  Responsible(r)'
BY DEF Responsible

\* A step in which nobody falls asleep or is woken need only be looked at for
\* what the owner will do and for the thread that makes it.
LEMMA StepLooksAfter ==
    ASSUME TypeOK, OwnerInv, LookedAfter, [Next]_vars, NEW t \in Threads, Others(t),
           Sleepers' \subseteq Sleepers,
           lock'.owner = lock.owner \/ lock'.owner \in {t, None, Unrecoverable},
           Considered /\ Sleepers # {} /\ (OwnerWillWake \/ Responsible(t))
              => OwnerWillWake' \/ Responsible(t)'
    PROVE  LookedAfter'
<1> SUFFICES ASSUME Considered', Sleepers' # {}
             PROVE  OwnerWillWake' \/ \E s \in Threads : Responsible(s)'
  BY DEF LookedAfter
<1>1. Considered /\ Sleepers # {}
  BY StaysLeftOut
<1>2. CASE OwnerWillWake \/ Responsible(t)
  BY <1>1, <1>2
<1>3. CASE \E s \in Threads \ {t} : Responsible(s)
  <2>1. PICK s \in Threads \ {t} : Responsible(s)
    BY <1>3
  <2>2. lock'.owner = lock.owner \/ lock'.owner # s
    BY OwnersAssumption
  <2>3. Responsible(s)'
    BY <2>1, <2>2, StaysResponsible DEF Others
  <2> QED
    BY <2>3
<1> QED
  BY <1>1, <1>2, <1>3 DEF LookedAfter

\* A woken thread looks at the word again.
LEMMA WokenIsResponsible ==
    ASSUME OwnerInv, NEW s \in Threads, pc[s] = "asleep", pc'[s] = "sub",
           op'[s] = op[s],
           lock'.owner = lock.owner \/ lock'.owner = None
    PROVE  Responsible(s)'
<1>1. lock.owner # s /\ op[s] # "trylock"
  BY DEF OwnerInv, Owning, Local
<1>2. lock'.owner # s
  BY <1>1, OwnersAssumption
<1> QED
  BY <1>1, <1>2 DEF Responsible

\* No sleeper is forgotten.  One step per action: the owner that releases wakes,
\* a woken thread comes back to the word, and whoever takes it over keeps the bit.
LEMMA NextLookedAfter ==
    ASSUME TypeOK, OwnerInv, SleepInv, [Next]_vars
    PROVE  LookedAfter'
<1>1. /\ pc \in [Threads -> Labels] /\ hint \in [Threads -> BOOLEAN] /\ lock \in Words
      /\ op \in [Threads -> {"trylock", "lock", "timedlock"}]
      /\ LookedAfter /\ (Sleepers # {} => waiters # 0)
  BY SleepersCount DEF TypeOK, SleepInv
<1>2. Considered => lock.owner # Unrecoverable /\ (lock.owner = None /\ lock.died => kind.robust)
  BY DEF Considered, OwnerInv, Lasting
<1>3. ASSUME NEW t \in Threads,
             Call(t) \/ Unlock(t) \/ Consistent(t) \/ Exit(t) \/ TimeOut(t)
      PROVE  LookedAfter'
  <2>1. Others(t)
    BY <1>3, StepLeavesOthers
  <2>2. Sleepers' \subseteq Sleepers /\ lock'.owner = lock.owner /\ lock'.waiting = lock.waiting
    BY <1>1, <1>3
       DEF Call, Unlock, Consistent, Exit, TimeOut, Goto, Sleepers, Words
  <2>3. ~Responsible(t)
    BY <1>3 DEF Call, Unlock, Consistent, Exit, TimeOut, Responsible
  <2>4. OwnerWillWake => OwnerWillWake'
    BY <2>1, <2>2 DEF OwnerWillWake, Others
  <2> QED
    BY <1>1, <2>1, <2>2, <2>3, <2>4, StepLooksAfter
<1>4. ASSUME NEW t \in Threads, Try(t) PROVE LookedAfter'
  <2>1. Others(t)
    BY <1>4, StepLeavesOthers DEF Step, Wake, Try
  <2>2. Sleepers' \subseteq Sleepers /\ lock' = lock
    BY <1>1, <1>4 DEF Try, Busy, Goto, Sleepers
  <2>3. Responsible(t) /\ Considered => Responsible(t)'
    BY <1>1, <1>2, <1>4, <2>2 DEF Responsible, Try, Busy, Goto
  <2>4. OwnerWillWake => OwnerWillWake'
    BY <2>1, <2>2 DEF OwnerWillWake, Others
  <2> QED
    BY <1>1, <2>1, <2>2, <2>3, <2>4, StepLooksAfter
<1>5. ASSUME NEW t \in Threads, Prepare(t) PROVE LookedAfter'
  <2>1. Others(t)
    BY <1>5, StepLeavesOthers DEF Step, Wake, Prepare
  <2>2. Sleepers' \subseteq Sleepers /\ lock' = lock
    BY <1>1, <1>5 DEF Prepare, Goto, Sleepers
  <2>3. Responsible(t) /\ Sleepers # {} => Responsible(t)'
    BY <1>1, <1>5, <2>2 DEF Responsible, Prepare, Goto
  <2>4. OwnerWillWake => OwnerWillWake'
    BY <2>1, <2>2 DEF OwnerWillWake, Others
  <2> QED
    BY <1>1, <2>1, <2>2, <2>3, <2>4, StepLooksAfter
<1>6. ASSUME NEW t \in Threads, Cas(t) PROVE LookedAfter'
  <2>1. Others(t)
    BY <1>6, StepLeavesOthers DEF Step, Wake, Cas
  <2>2. Sleepers' \subseteq Sleepers
    BY <1>1, <1>6 DEF Cas, Busy, Goto, Sleepers
  <2>3. CASE lock = word[t]
    <3>0. pc[t] = "cas" /\ lock' = [owner |-> t, died |-> word[t].died, waiting |-> hint[t]]
      BY <1>6, <2>3 DEF Cas
    <3>1. lock.owner = None /\ lock'.owner = t /\ lock'.waiting = hint[t]
      BY <2>3, <3>0 DEF OwnerInv, Local
    <3>2. ~OwnerWillWake
      BY <3>1, OwnersAssumption DEF OwnerWillWake
    <3>3. Responsible(t) => OwnerWillWake'
      BY <1>6, <2>1, <3>1 DEF Responsible, OwnerWillWake, Cas, Others
    <3> QED
      BY <1>1, <2>1, <2>2, <3>1, <3>2, <3>3, StepLooksAfter
  <2>4. CASE lock # word[t]
    <3>1. lock' = lock
      BY <1>6, <2>4 DEF Cas
    <3>2. Responsible(t) => Responsible(t)'
      BY <1>1, <1>6, <2>4, <3>1 DEF Responsible, Cas, Busy, Goto
    <3>3. OwnerWillWake => OwnerWillWake'
      BY <2>1, <3>1 DEF OwnerWillWake, Others
    <3> QED
      BY <1>1, <2>1, <2>2, <3>1, <3>2, <3>3, StepLooksAfter
  <2> QED
    BY <2>3, <2>4
<1>7. ASSUME NEW t \in Threads,
             Link(t) \/ Look(t) \/ AddWaiter(t) \/ SubWaiter(t) \/ Unlink(t) \/ ClearPending(t)
             \/ ExitUnlink(t)
      PROVE  LookedAfter'
  <2>1. Others(t)
    BY <1>7, StepLeavesOthers
       DEF Step, Wake, Link, Look, AddWaiter, SubWaiter, Unlink, ClearPending,
           ExitUnlink
  <2>2. Sleepers' \subseteq Sleepers /\ lock' = lock
    BY <1>1, <1>7
       DEF Link, Look, AddWaiter, SubWaiter, Unlink, ClearPending, ExitUnlink,
                      Goto, Sleepers
  <2>3. Responsible(t) => Responsible(t)'
    BY <1>1, <1>7, <2>2 DEF Responsible, Link, Look, AddWaiter, SubWaiter, Unlink,
                            ClearPending, ExitUnlink, Goto
  <2>4. OwnerWillWake => OwnerWillWake'
    BY <2>1, <2>2 DEF OwnerWillWake, Others
  <2> QED
    BY <1>1, <2>1, <2>2, <2>3, <2>4, StepLooksAfter
\* Whoever marks the word of an owner leaves the sleepers to that owner.
<1>8. ASSUME NEW t \in Threads, Mark(t) PROVE LookedAfter'
  <2>1. Others(t)
    BY <1>8, StepLeavesOthers DEF Step, Wake, Mark
  <2>2. Sleepers' \subseteq Sleepers
    BY <1>1, <1>8 DEF Mark, Goto, Sleepers
  <2>3. lock'.owner = lock.owner /\ (lock.waiting => lock'.waiting)
    BY <1>1, <1>8 DEF Mark, Marked, Words
  <2>4. OwnerWillWake => OwnerWillWake'
    BY <2>1, <2>3 DEF OwnerWillWake, Others
  <2>5. ASSUME Responsible(t), Considered PROVE OwnerWillWake' \/ Responsible(t)'
    <3>1. CASE lock = word[t]
      <4>1. lock.owner \in Threads
        BY <1>1, <1>2, <1>8, <2>5, <3>1 DEF Mark, OwnerInv, Local, Words
      <4>2. lock'.waiting
        BY <1>1, <1>8, <3>1 DEF Mark, Marked, Words
      <4> QED
        BY <2>3, <4>1, <4>2 DEF OwnerWillWake
    <3>2. CASE lock # word[t]
      BY <1>1, <1>8, <2>5, <3>2 DEF Mark, Goto, Responsible
    <3> QED
      BY <3>1, <3>2
  <2> QED
    BY <1>1, <2>1, <2>2, <2>3, <2>4, <2>5, StepLooksAfter
\* A thread falls asleep only on a word that an owner will look at.
<1>9. ASSUME NEW t \in Threads, FutexWait(t) PROVE LookedAfter'
  <2>1. Others(t)
    BY <1>9, StepLeavesOthers DEF Step, Wake, FutexWait
  <2>2. lock' = lock
    BY <1>9 DEF FutexWait
  <2>3. CASE lock = word[t]
    <3>1. Considered => lock.owner \in Threads /\ lock.waiting
      BY <1>1, <1>2, <1>9, <2>3 DEF FutexWait, OwnerInv, Local, Words
    <3>2. Considered' => OwnerWillWake'
      BY <2>2, <3>1, StaysLeftOut DEF OwnerWillWake
    <3> QED
      BY <3>2 DEF LookedAfter
  <2>4. CASE lock # word[t]
    <3>1. Sleepers' \subseteq Sleepers /\ ~Responsible(t)
      BY <1>1, <1>9, <2>4 DEF FutexWait, Goto, Sleepers, Responsible
    <3>2. OwnerWillWake => OwnerWillWake'
      BY <2>1, <2>2 DEF OwnerWillWake, Others
    <3> QED
      BY <1>1, <2>1, <2>2, <3>1, <3>2, StepLooksAfter
  <2> QED
    BY <2>3, <2>4
\* The releasing owner knows that somebody sleeps.
<1>10. ASSUME NEW t \in Threads, Swap(t) \/ ExitSwap(t) PROVE LookedAfter'
  <2>1. Others(t)
    BY <1>10, StepLeavesOthers DEF Step, Wake, Swap, ExitSwap
  <2>2. Sleepers' \subseteq Sleepers
    BY <1>1, <1>10 DEF Swap, ExitSwap, Goto, Sleepers
  <2>3. lock'.owner \in {None, Unrecoverable}
    BY <1>10 DEF Swap, ExitSwap, Released, Free, NOT_RECOVERABLE, OWNER_DIED
  <2>4. Sleepers # {} => hint[t] \/ lock.waiting
    BY <1>10 DEF Swap, ExitSwap, SleepInv, Hinted
  <2>5. hint' = [hint EXCEPT ![t] = hint[t] \/ lock.waiting] /\ pc'[t] \in {"clear", "xclear"}
    BY <1>1, <1>10 DEF Swap, ExitSwap, Goto
  <2>6. Sleepers # {} => hint'[t]
    BY <1>1, <2>4, <2>5, Zenon
  <2>7. Sleepers # {} => Responsible(t)'
    BY <2>5, <2>6 DEF Responsible
  <2> QED
    BY <1>1, <2>1, <2>2, <2>3, <2>7, StepLooksAfter
<1>11. ASSUME NEW t \in Threads, Wake(t) PROVE LookedAfter'
  <2> SUFFICES ASSUME Sleepers' # {} PROVE \E s \in Threads : Responsible(s)'
    BY DEF LookedAfter
  <2>1. t \notin Sleepers /\ lock' = lock /\ op' = op
    BY <1>11 DEF Wake, Sleepers
  <2>2. Sleepers \ {t} # {}
    BY <1>1, <1>11, WakeOneEffect DEF Wake, Sleepers
  <2>3. PICK s \in Threads \ {t} : pc[s] = "asleep" /\ pc'[s] = "sub"
    BY <1>1, <1>11, <2>2, WakeOneEffect DEF Wake
  <2> QED
    BY <2>1, <2>3, WokenIsResponsible
<1>12. ASSUME NEW t \in Threads, Crash(t) PROVE LookedAfter'
  <2> SUFFICES ASSUME Considered', Sleepers' # {}
               PROVE  OwnerWillWake' \/ \E s \in Threads : Responsible(s)'
    BY DEF LookedAfter
  <2>1. Considered /\ Sleepers \ {t} # {} /\ ~Owing(t)
    <3>1. Sleepers \ {t} # {}
      BY <1>1, <1>12, CrashEffect DEF Sleepers
    <3>2. owing' = (owing \/ Owing(t)) /\ ~owing'
      BY <1>12 DEF Crash, Considered
    <3>3. ~Owing(t)
      BY <3>2, Zenon
    <3> QED
      BY <3>1, <3>3, StaysLeftOut
  <2>2. /\ kind' = kind /\ kind.shared
        /\ \A s \in Threads \ {t} : op'[s] = op[s] /\ hint'[s] = hint[s]
        /\ lock' = lock \/ (lock.owner = t /\ lock'.owner = None)
    BY <1>1, <1>12 DEF Crash, Forget, OWNER_DIED
  <2>3. CASE WakeOne(t, "gone")
    <3>1. PICK s \in Threads \ {t} : pc[s] = "asleep" /\ pc'[s] = "sub"
      BY <1>1, <2>1, <2>3, WakeOneEffect
    <3> QED
      BY <2>2, <3>1, WokenIsResponsible
  <2>4. CASE ~WakeOne(t, "gone")
    <3>1. /\ ~(t \in linked \cup pending /\ lock.owner = t /\ lock.waiting)
          /\ ~(t \in pending /\ lock.owner = None)
          /\ \A s \in Threads \ {t} : pc'[s] = pc[s]
      BY <1>1, <1>12, <2>4 DEF Crash
    <3>2. lock.owner = t => t \in linked \cup pending
      BY <2>2 DEF OwnerInv, Owning, Local
    <3>3. ~Responsible(t)
      BY <2>1, <2>2, <3>1 DEF Responsible, Owing, OwnerInv, Local
    <3>4. CASE OwnerWillWake
      <4>1. lock.owner # t
        BY <2>2, <3>1, <3>2, <3>4 DEF OwnerWillWake
      <4> QED
        BY <2>2, <3>4, <4>1 DEF OwnerWillWake
    <3>5. CASE \E s \in Threads \ {t} : Responsible(s)
      <4>1. PICK s \in Threads \ {t} : Responsible(s)
        BY <3>5
      <4>2. lock'.owner = lock.owner \/ lock'.owner # s
        BY <2>2, OwnersAssumption
      <4> QED
        BY <2>2, <3>1, <4>1, <4>2, StaysResponsible
    <3> QED
      BY <1>1, <2>1, <3>3, <3>4, <3>5 DEF LookedAfter
  <2> QED
    BY <2>3, <2>4
<1>13. CASE UNCHANGED vars
  BY <1>1, <1>13
     DEF vars, LookedAfter, Considered, Sleepers, OwnerWillWake, Responsible
<1> QED
  BY <1>3, <1>4, <1>5, <1>6, <1>7, <1>8, <1>9, <1>10, <1>11, <1>12, <1>13
     DEF Next, Step

\* The invariant holds when the mutex has been made.
LEMMA InitIInv == Init => IInv
<1> SUFFICES ASSUME Init PROVE IInv
  OBVIOUS
<1>1. TypeOK
  <2>1. hint \in [Threads -> BOOLEAN]
    BY Zenon DEF Init
  <2>2. Free \in Words
    BY DEF Words, Free
  <2>3. word \in [Threads -> Words]
    BY <2>2 DEF Init
  <2>4. pc \in [Threads -> Labels] /\ op \in [Threads -> {"trylock", "lock", "timedlock"}]
    BY DEF Init, Labels
  <2>5. held \in [Threads -> {"no", "clean", "recover"}]
    BY DEF Init
  <2>6. /\ kind \in Kinds /\ waiters \in Nat /\ count \in 0..MaxCount
        /\ linked \subseteq Threads /\ pending \subseteq Threads
        /\ data \in {"good", "suspect", "lost"}
    BY CountAssumption DEF Init
  <2>7. owing \in BOOLEAN
    BY Zenon DEF Init
  <2> QED
    BY <2>1, <2>2, <2>3, <2>4, <2>5, <2>6, <2>7 DEF Init, TypeOK
<1>2. OwnerInv
  BY OwnersAssumption DEF Init, OwnerInv, Lasting, Owning, Local, Free
<1>3. Waiting = {} /\ Sleepers = {}
  BY DEF Init, Waiting, Sleepers
<1>4. SleepInv
  BY <1>3, FS_EmptySet DEF Init, SleepInv, Counted, Hinted, LookedAfter
<1> QED
  BY <1>1, <1>2, <1>4 DEF IInv

\* The inductive invariant.
THEOREM Invariance == Spec => []IInv
<1>1. IInv /\ [Next]_vars => IInv'
  <2> SUFFICES ASSUME IInv, [Next]_vars PROVE IInv'
    OBVIOUS
  <2>1. TypeOK /\ OwnerInv /\ SleepInv /\ Counted
    BY DEF IInv, SleepInv
  <2>2. TypeOK' /\ OwnerInv' /\ Counted' /\ LookedAfter'
    BY <2>1, NextTypeOK, NextOwnerInv, NextCounted, NextLookedAfter
  <2>3. \A s \in Threads : Hinted(s)'
    BY <2>1, NextHinted
  <2> QED
    BY <2>2, <2>3 DEF IInv, SleepInv
<1> QED
  BY <1>1, InitIInv, PTL DEF Spec

\* The word names exactly the thread that is between a successful lock and its
\* unlock, and the robust lists hold nobody else, whenever a thread dies.
THEOREM WordNamesTheOwnerHolds == Spec => []WordNamesTheOwner
<1>1. IInv => WordNamesTheOwner
  BY DEF IInv, TypeOK, OwnerInv, Owning, WordNamesTheOwner, Owners
<1> QED
  BY <1>1, Invariance, PTL

\* Who gets the mutex after a death is told so until somebody repairs the data.
THEOREM DeathIsReportedHolds == Spec => []DeathIsReported
<1>1. IInv => DeathIsReported
  <2> SUFFICES ASSUME IInv, NEW t \in Threads, held[t] # "no"
               PROVE  /\ held[t] = "clean" => data = "good"
                      /\ held[t] = "recover" => data = "suspect"
    BY DEF DeathIsReported
  <2>1. lock.owner = t /\ held[t] = IF lock.died THEN "recover" ELSE "clean"
    BY DEF IInv, OwnerInv, Owning
  <2>2. data \in {"good", "suspect"}
    BY <2>1, OwnersAssumption DEF IInv, TypeOK, OwnerInv, Lasting
  <2> QED
    BY <2>1, <2>2 DEF IInv, OwnerInv, Lasting
<1> QED
  BY <1>1, Invariance, PTL

\* Nobody sleeps for a mutex that has no owner unless some thread is on its way to
\* wake a sleeper or to look at the word.
THEOREM NoStrandedSleeperHolds == Spec => []NoStrandedSleeper
<1>1. IInv => NoStrandedSleeper
  <2> SUFFICES ASSUME IInv, Considered, Sleepers # {}
               PROVE  \/ lock.owner \in Threads
                      \/ \E t \in Threads : pc[t] \notin {"idle", "asleep", "gone"}
    BY DEF NoStrandedSleeper, Attended, Considered
  <2> QED
    BY DEF IInv, SleepInv, LookedAfter, OwnerWillWake, Responsible
<1> QED
  BY <1>1, Invariance, PTL

=============================================================================
