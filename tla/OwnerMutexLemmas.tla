-------------------------- MODULE OwnerMutexLemmas --------------------------
(***************************************************************************)
(* What OwnerMutexProofs rests on: the types, and how the word, the robust *)
(* lists and the state of the data go together.                            *)
(***************************************************************************)
EXTENDS OwnerMutex, FiniteSetTheorems, TLAPS

\* The threads that the waiter count stands for.
Waiting == {t \in Threads : pc[t] \in {"mark", "futex", "asleep", "sub", "timeout"}}

\* What the word, the robust lists and the state of the data have to do with each
\* other between any two steps.
Lasting ==
    /\ lock.owner = None /\ ~lock.died => ~lock.waiting
    /\ lock.died <=> data # "good"
    /\ lock.owner = Unrecoverable <=> data = "lost"
    /\ lock.owner \in Threads /\ lock.died => kind.robust
    /\ linked \subseteq {lock.owner}

\* The thread that the word names, and only that one, is where an owner can be.
Owning(t) ==
    IF lock.owner = t
    THEN /\ pc[t] \in {"idle", "try", "look", "link", "unlink", "swap", "xhint", "xswap"}
         /\ held[t] = IF pc[t] = "link" THEN "no"
                      ELSE IF lock.died THEN "recover" ELSE "clean"
         /\ pc[t] \in {"idle", "try", "look", "unlink", "xhint"} <=> t \in linked
         /\ pc[t] = "try" => kind.base # "normal"
         /\ pc[t] = "look" => kind.base = "errorcheck"
    ELSE /\ pc[t] \notin {"link", "unlink", "swap", "xhint", "xswap"}
         /\ held[t] = "no"

\* What a thread's copy of the word and its pending slot say of its call.
Local(t) ==
    /\ pc[t] \in {"prep", "cas", "link"} =>
         /\ word[t].owner = None
         /\ word[t] = Free \/ (word[t].died /\ kind.robust)
    /\ pc[t] = "link" => lock.died = word[t].died
    /\ pc[t] \in {"add", "mark", "futex"} =>
         (word[t].owner = None => word[t].died /\ ~kind.robust)
    /\ pc[t] = "futex" => word[t].waiting
    /\ pc[t] \in {"add", "mark", "futex", "asleep", "sub", "timeout", "look"} =>
         op[t] # "trylock"
    /\ pc[t] \in {"cas", "link", "unlink", "swap", "clear"} /\ kind.shared => t \in pending
    /\ pc[t] \in {"xhint", "xswap", "xclear"} => t \in pending

\* Who the word names, and what that thread and the others know.
OwnerInv == Lasting /\ \A t \in Threads : Owning(t) /\ Local(t)

\* The waiter count covers those it stands for.
Counted == waiters >= Cardinality(Waiting)

-----------------------------------------------------------------------------

\* The sleepers are counted, and so is whoever is about to take itself off.
LEMMA CountPositive ==
    ASSUME waiters \in Nat, Counted, Waiting # {}
    PROVE  waiters > 0
<1>1. IsFiniteSet(Waiting)
  BY ThreadsAssumption, FS_Subset DEF Waiting
<1> QED
  BY <1>1, FS_CardinalityType, FS_EmptySet DEF Counted

\* A local of one thread is assigned.
LEMMA AssignType ==
    ASSUME NEW S, NEW f \in [Threads -> S], NEW t \in Threads, NEW b \in S
    PROVE  [f EXCEPT ![t] = b] \in [Threads -> S]
BY Zenon

\* Where a thread goes, and what it forgets there.
LEMMA GotoType ==
    ASSUME TypeOK, NEW t \in Threads, NEW label \in Labels, Goto(t, label)
    PROVE  pc' \in [Threads -> Labels] /\ op' \in [Threads -> {"trylock", "lock", "timedlock"}]
BY DEF TypeOK, Goto

\* A wake-up keeps every thread at a place of the code.
LEMMA WakeOneType ==
    ASSUME TypeOK, NEW t \in Threads, NEW label \in Labels, WakeOne(t, label)
    PROVE  pc' \in [Threads -> Labels]
BY DEF TypeOK, WakeOne, Sleepers, Labels

\* Every step keeps the variables in their types.
LEMMA NextTypeOK == TypeOK /\ Counted /\ [Next]_vars => TypeOK'
<1> SUFFICES ASSUME TypeOK, Counted, [Next]_vars PROVE TypeOK'
  OBVIOUS
<1> USE OwnersAssumption, KindsAssumption, CountAssumption
    DEF TypeOK, Words, Free, See, Forget, lists, history
<1>1. ASSUME NEW t \in Threads, Try(t) PROVE TypeOK'
  BY <1>1, GotoType DEF Try, Busy, Labels
<1>2. ASSUME NEW t \in Threads, Prepare(t) PROVE TypeOK'
  BY <1>2, GotoType DEF Prepare, Labels
<1>3. ASSUME NEW t \in Threads, Cas(t) PROVE TypeOK'
  <2>1. [owner |-> t, died |-> word[t].died, waiting |-> hint[t]] \in Words
    OBVIOUS
  <2>2. Busy(t) \in Labels /\ "link" \in Labels
    BY DEF Busy, Labels
  <2>3. lock' \in Words
    BY <1>3, <2>1 DEF Cas
  <2>4. hint' \in [Threads -> BOOLEAN]
    <3>1. hint' = hint \/ hint' = [hint EXCEPT ![t] = FALSE]
      BY <1>3 DEF Cas
    <3> QED
      BY <3>1, AssignType, Zenon
  <2>5. word' \in [Threads -> Words]
    <3>1. word' = word \/ word' = [word EXCEPT ![t] = Free]
      BY <1>3 DEF Cas
    <3>2. Free \in Words
      OBVIOUS
    <3> HIDE DEF Words, Free
    <3> QED
      BY <3>1, <3>2
  <2> QED
    BY <1>3, <2>2, <2>3, <2>4, <2>5, GotoType DEF Cas
<1>4. ASSUME NEW t \in Threads, Link(t) PROVE TypeOK'
  BY <1>4, GotoType DEF Link, Labels
<1>5. ASSUME NEW t \in Threads, Call(t) PROVE TypeOK'
  BY <1>5 DEF Call, Labels
<1>6. ASSUME NEW t \in Threads, Look(t) PROVE TypeOK'
  BY <1>6, GotoType DEF Look, Labels
<1>7. ASSUME NEW t \in Threads, AddWaiter(t) PROVE TypeOK'
  BY <1>7, GotoType DEF AddWaiter, Labels
<1>8. ASSUME NEW t \in Threads, Mark(t) PROVE TypeOK'
  <2>1. Marked(lock) \in Words
    BY DEF Marked
  <2> QED
    BY <1>8, <2>1, GotoType DEF Mark, Labels
<1>9. ASSUME NEW t \in Threads, FutexWait(t) PROVE TypeOK'
  BY <1>9, GotoType DEF FutexWait, Labels
<1>10. ASSUME NEW t \in Threads, TimeOut(t) PROVE TypeOK'
  BY <1>10, GotoType DEF TimeOut, Labels
<1>11. ASSUME NEW t \in Threads, SubWaiter(t) PROVE TypeOK'
  <2>1. waiters > 0
    BY <1>11, CountPositive DEF SubWaiter, Waiting
  <2> QED
    BY <1>11, <2>1, GotoType DEF SubWaiter, Labels
<1>12. ASSUME NEW t \in Threads, Unlock(t) PROVE TypeOK'
  <2>1. "unlink" \in Labels /\ (waiters # 0) \in BOOLEAN
    BY DEF Labels
  <2>2. CASE kind.base = "recursive" /\ count # 0
    BY <1>12, <2>2 DEF Unlock
  <2>3. CASE ~(kind.base = "recursive" /\ count # 0)
    <3>1. hint' \in [Threads -> BOOLEAN]
      <4>1. hint' = [hint EXCEPT ![t] = waiters # 0]
        BY <1>12, <2>3 DEF Unlock
      <4> QED
        BY <4>1, AssignType, Zenon
    <3> QED
      BY <1>12, <2>1, <2>3, <3>1 DEF Unlock
  <2> QED
    BY <2>2, <2>3
<1>13. ASSUME NEW t \in Threads, Unlink(t) PROVE TypeOK'
  BY <1>13, GotoType DEF Unlink, Labels
<1>14. ASSUME NEW t \in Threads, Swap(t) PROVE TypeOK'
  BY <1>14, GotoType DEF Swap, Released, NOT_RECOVERABLE, Labels
<1>15. ASSUME NEW t \in Threads, ClearPending(t) PROVE TypeOK'
  BY <1>15, GotoType DEF ClearPending, Labels
<1>16. ASSUME NEW t \in Threads, Wake(t) PROVE TypeOK'
  BY <1>16, WakeOneType DEF Wake, Labels
<1>17. ASSUME NEW t \in Threads, Consistent(t) PROVE TypeOK'
  BY <1>17 DEF Consistent
<1>18. ASSUME NEW t \in Threads, Exit(t) PROVE TypeOK'
  <2>1. "xhint" \in Labels /\ "gone" \in Labels /\ (waiters # 0) \in BOOLEAN
    BY DEF Labels
  <2>2. CASE t \in linked
    <3>1. hint' \in [Threads -> BOOLEAN]
      <4>1. hint' = [hint EXCEPT ![t] = waiters # 0]
        BY <1>18, <2>2 DEF Exit
      <4> QED
        BY <4>1, AssignType, Zenon
    <3> QED
      BY <1>18, <2>1, <2>2, <3>1, GotoType DEF Exit
  <2>3. CASE t \notin linked
    BY <1>18, <2>1, <2>3, GotoType DEF Exit
  <2> QED
    BY <2>2, <2>3
<1>19. ASSUME NEW t \in Threads, ExitUnlink(t) PROVE TypeOK'
  BY <1>19, GotoType DEF ExitUnlink, Labels
<1>20. ASSUME NEW t \in Threads, ExitSwap(t) PROVE TypeOK'
  BY <1>20, GotoType DEF ExitSwap, OWNER_DIED, Labels
<1>21. ASSUME NEW t \in Threads, Crash(t) PROVE TypeOK'
  BY <1>21, WakeOneType DEF Crash, OWNER_DIED, Labels
<1>22. CASE UNCHANGED vars
  BY <1>22 DEF vars
<1> QED
  BY <1>1, <1>2, <1>3, <1>4, <1>5, <1>6, <1>7, <1>8, <1>9, <1>10, <1>11, <1>12, <1>13,
     <1>14, <1>15, <1>16, <1>17, <1>18, <1>19, <1>20, <1>21, <1>22 DEF Next, Step

\* A word without an owner or a death is 0.
LEMMA FreeWord ==
    ASSUME lock \in Words, Lasting, lock.owner = None, ~lock.died
    PROVE  lock = Free
<1>1. lock = [owner |-> lock.owner, died |-> lock.died, waiting |-> lock.waiting]
  BY DEF Words
<1>2. lock.died = FALSE /\ lock.waiting = FALSE
  BY DEF Words, Lasting
<1> QED
  BY <1>1, <1>2 DEF Free

\* A FUTEX_WAKE takes one sleeper, if there is one, and nobody else.
LEMMA WakeOneEffect ==
    ASSUME pc \in [Threads -> Labels], NEW t \in Threads, NEW label, WakeOne(t, label)
    PROVE  /\ pc'[t] = label
           /\ \A s \in Threads \ {t} : pc'[s] = pc[s] \/ (pc[s] = "asleep" /\ pc'[s] = "sub")
           /\ Sleepers \ {t} # {} => \E s \in Threads \ {t} : pc[s] = "asleep" /\ pc'[s] = "sub"
<1>1. CASE Sleepers \ {t} = {}
  BY <1>1 DEF WakeOne
<1>2. CASE Sleepers \ {t} # {}
  <2>1. PICK s \in Sleepers \ {t} : pc' = [pc EXCEPT ![t] = label, ![s] = "sub"]
    BY <1>2 DEF WakeOne
  <2>2. s \in Threads \ {t} /\ pc[s] = "asleep"
    BY <2>1 DEF Sleepers
  <2> QED
    BY <2>1, <2>2
<1> QED
  BY <1>1, <1>2

\* The end of a killed process, for itself and for the others.
LEMMA CrashEffect ==
    ASSUME pc \in [Threads -> Labels], NEW t \in Threads, Crash(t)
    PROVE  /\ pc'[t] = "gone"
           /\ \A s \in Threads \ {t} : pc'[s] = pc[s] \/ (pc[s] = "asleep" /\ pc'[s] = "sub")
<1>1. CASE WakeOne(t, "gone")
  BY <1>1, WakeOneEffect
<1>2. CASE pc' = [pc EXCEPT ![t] = "gone"]
  BY <1>2
<1> QED
  BY <1>1, <1>2 DEF Crash

\* Every step preserves what the lock word, the lists and the owner know.
LEMMA NextOwnerInv == TypeOK /\ OwnerInv /\ [Next]_vars => OwnerInv'
<1> SUFFICES ASSUME TypeOK, OwnerInv, [Next]_vars PROVE OwnerInv'
  OBVIOUS
<1>0. /\ pc \in [Threads -> Labels] /\ op \in [Threads -> {"trylock", "lock", "timedlock"}]
      /\ word \in [Threads -> Words] /\ lock \in Words /\ hint \in [Threads -> BOOLEAN]
      /\ held \in [Threads -> {"no", "clean", "recover"}] /\ kind \in Kinds
      /\ data \in {"good", "suspect", "lost"} /\ linked \subseteq Threads
  BY DEF TypeOK
<1> USE OwnersAssumption, KindsAssumption, <1>0
    DEF OwnerInv, Words, Free, Goto, See, Forget, lists, history
<1>1. ASSUME NEW t \in Threads, Try(t) PROVE OwnerInv'
  <2>1. Lasting'
    BY <1>1 DEF Lasting, Owning, Local, Try, Busy
  <2>2. ASSUME NEW s \in Threads PROVE Owning(s)'
    BY <1>1 DEF Lasting, Owning, Local, Try, Busy
  <2>3. ASSUME NEW s \in Threads PROVE Local(s)'
    <3>1. CASE s = t
      <4>1. CASE pc'[t] = "prep"
        <5>1. word'[t] = lock /\ lock.owner = None /\ (lock = Free \/ kind.robust) /\ kind' = kind
          BY <1>1, <4>1 DEF Try, Busy
        <5>2. lock = Free \/ lock.died
          BY <5>1, FreeWord
        <5> QED
          BY <3>1, <4>1, <5>1, <5>2 DEF Local
      <4>2. CASE pc'[t] # "prep"
        BY <1>1, <3>1, <4>2 DEF Local, Try, Busy
      <4> QED
        BY <4>1, <4>2
    <3>2. CASE s # t
      <4>1. /\ pc'[s] = pc[s] /\ word'[s] = word[s] /\ op'[s] = op[s]
            /\ s \in pending' <=> s \in pending
            /\ pc[s] = "link" => lock'.died = lock.died
        BY <1>1, <3>2 DEF Owning, Local, Try, Busy
      <4>2. kind' = kind
        BY <1>1 DEF Try
      <4> QED
        BY <4>1, <4>2 DEF Local
    <3> QED
      BY <3>1, <3>2
  <2> QED
    BY <2>1, <2>2, <2>3
<1>2. ASSUME NEW t \in Threads, Prepare(t) PROVE OwnerInv'
  <2>1. Lasting'
    BY <1>2 DEF Lasting, Owning, Local, Prepare
  <2>2. ASSUME NEW s \in Threads PROVE Owning(s)'
    BY <1>2 DEF Lasting, Owning, Local, Prepare
  <2>3. ASSUME NEW s \in Threads PROVE Local(s)'
    BY <1>2 DEF Lasting, Owning, Local, Prepare
  <2> QED
    BY <2>1, <2>2, <2>3
<1>3. ASSUME NEW t \in Threads, Cas(t) PROVE OwnerInv'
  <2>1. Lasting'
    <3>1. CASE lock = word[t]
      <4>1. lock' = [owner |-> t, died |-> lock.died, waiting |-> hint[t]]
        BY <1>3, <3>1 DEF Cas
      <4>2. lock.owner = None /\ (lock.died => kind.robust) /\ linked = {}
        BY <1>3, <3>1 DEF Cas, Local, Lasting
      <4>3. UNCHANGED <<kind, data, linked>>
        BY <1>3 DEF Cas
      <4> QED
        BY <4>1, <4>2, <4>3 DEF Lasting
    <3>2. CASE lock # word[t]
      BY <1>3, <3>2 DEF Cas, Lasting
    <3> QED
      BY <3>1, <3>2
  <2>2. ASSUME NEW s \in Threads PROVE Owning(s)'
    BY <1>3 DEF Lasting, Owning, Local, Cas, Busy
  <2>3. ASSUME NEW s \in Threads PROVE Local(s)'
    <3>1. CASE s = t
      <4>1. CASE lock = word[t]
        <5>1. /\ pc'[t] = "link" /\ word'[t] = word[t] /\ lock'.died = word[t].died
              /\ UNCHANGED <<kind, pending>> /\ pc[t] = "cas"
          BY <1>3, <4>1 DEF Cas
        <5> QED
          BY <3>1, <5>1 DEF Local
      <4>2. CASE lock # word[t]
        BY <1>3, <3>1, <4>2 DEF Local, Cas, Busy
      <4> QED
        BY <4>1, <4>2
    <3>2. CASE s # t
      <4>1. /\ pc'[s] = pc[s] /\ word'[s] = word[s] /\ op'[s] = op[s]
            /\ s \in pending' <=> s \in pending
            /\ pc[s] = "link" => lock'.died = lock.died
        BY <1>3, <3>2 DEF Owning, Local, Cas, Busy
      <4>2. kind' = kind
        BY <1>3 DEF Cas
      <4> QED
        BY <4>1, <4>2 DEF Local
    <3> QED
      BY <3>1, <3>2
  <2> QED
    BY <2>1, <2>2, <2>3
<1>4. ASSUME NEW t \in Threads, Link(t) PROVE OwnerInv'
  <2>1. Lasting'
    BY <1>4 DEF Lasting, Owning, Local, Link
  <2>2. ASSUME NEW s \in Threads PROVE Owning(s)'
    BY <1>4 DEF Lasting, Owning, Local, Link
  <2>3. ASSUME NEW s \in Threads PROVE Local(s)'
    BY <1>4 DEF Lasting, Owning, Local, Link
  <2> QED
    BY <2>1, <2>2, <2>3
<1>5. ASSUME NEW t \in Threads, Call(t) PROVE OwnerInv'
  <2>1. Lasting'
    BY <1>5 DEF Lasting, Owning, Local, Call
  <2>2. ASSUME NEW s \in Threads PROVE Owning(s)'
    BY <1>5 DEF Lasting, Owning, Local, Call
  <2>3. ASSUME NEW s \in Threads PROVE Local(s)'
    BY <1>5 DEF Lasting, Owning, Local, Call
  <2> QED
    BY <2>1, <2>2, <2>3
<1>6. ASSUME NEW t \in Threads, Look(t) PROVE OwnerInv'
  <2>1. Lasting'
    BY <1>6 DEF Lasting, Owning, Local, Look
  <2>2. ASSUME NEW s \in Threads PROVE Owning(s)'
    BY <1>6 DEF Lasting, Owning, Local, Look
  <2>3. ASSUME NEW s \in Threads PROVE Local(s)'
    <3>1. CASE s = t
      BY <1>6, <3>1 DEF Lasting, Local, Look
    <3>2. CASE s # t
      <4>1. /\ pc'[s] = pc[s] /\ word'[s] = word[s] /\ op'[s] = op[s]
            /\ s \in pending' <=> s \in pending
            /\ pc[s] = "link" => lock'.died = lock.died
        BY <1>6, <3>2 DEF Owning, Local, Look
      <4>2. kind' = kind
        BY <1>6 DEF Look
      <4> QED
        BY <4>1, <4>2 DEF Local
    <3> QED
      BY <3>1, <3>2
  <2> QED
    BY <2>1, <2>2, <2>3
<1>7. ASSUME NEW t \in Threads, AddWaiter(t) PROVE OwnerInv'
  <2>1. Lasting'
    BY <1>7 DEF Lasting, Owning, Local, AddWaiter
  <2>2. ASSUME NEW s \in Threads PROVE Owning(s)'
    BY <1>7 DEF Lasting, Owning, Local, AddWaiter
  <2>3. ASSUME NEW s \in Threads PROVE Local(s)'
    BY <1>7 DEF Lasting, Owning, Local, AddWaiter
  <2> QED
    BY <2>1, <2>2, <2>3
<1>8. ASSUME NEW t \in Threads, Mark(t) PROVE OwnerInv'
  <2>1. Lasting'
    BY <1>8 DEF Lasting, Owning, Local, Mark, Marked
  <2>2. ASSUME NEW s \in Threads PROVE Owning(s)'
    BY <1>8 DEF Lasting, Owning, Local, Mark, Marked
  <2>3. ASSUME NEW s \in Threads PROVE Local(s)'
    <3>1. CASE s = t
      BY <1>8, <3>1 DEF Lasting, Local, Mark, Marked
    <3>2. CASE s # t
      <4>1. /\ pc'[s] = pc[s] /\ word'[s] = word[s] /\ op'[s] = op[s]
            /\ s \in pending' <=> s \in pending
            /\ pc[s] = "link" => lock'.died = lock.died
        BY <1>8, <3>2 DEF Owning, Local, Mark, Marked
      <4>2. kind' = kind
        BY <1>8 DEF Mark
      <4> QED
        BY <4>1, <4>2 DEF Local
    <3> QED
      BY <3>1, <3>2
  <2> QED
    BY <2>1, <2>2, <2>3
<1>9. ASSUME NEW t \in Threads, FutexWait(t) PROVE OwnerInv'
  <2>1. Lasting'
    BY <1>9 DEF Lasting, Owning, Local, FutexWait
  <2>2. ASSUME NEW s \in Threads PROVE Owning(s)'
    BY <1>9 DEF Lasting, Owning, Local, FutexWait
  <2>3. ASSUME NEW s \in Threads PROVE Local(s)'
    BY <1>9 DEF Lasting, Owning, Local, FutexWait
  <2> QED
    BY <2>1, <2>2, <2>3
<1>10. ASSUME NEW t \in Threads, TimeOut(t) PROVE OwnerInv'
  <2>1. Lasting'
    BY <1>10 DEF Lasting, Owning, Local, TimeOut
  <2>2. ASSUME NEW s \in Threads PROVE Owning(s)'
    BY <1>10 DEF Lasting, Owning, Local, TimeOut
  <2>3. ASSUME NEW s \in Threads PROVE Local(s)'
    BY <1>10 DEF Lasting, Owning, Local, TimeOut
  <2> QED
    BY <2>1, <2>2, <2>3
<1>11. ASSUME NEW t \in Threads, SubWaiter(t) PROVE OwnerInv'
  <2>1. Lasting'
    BY <1>11 DEF Lasting, Owning, Local, SubWaiter
  <2>2. ASSUME NEW s \in Threads PROVE Owning(s)'
    BY <1>11 DEF Lasting, Owning, Local, SubWaiter
  <2>3. ASSUME NEW s \in Threads PROVE Local(s)'
    BY <1>11 DEF Lasting, Owning, Local, SubWaiter
  <2> QED
    BY <2>1, <2>2, <2>3
<1>12. ASSUME NEW t \in Threads, Unlock(t) PROVE OwnerInv'
  <2>1. Lasting'
    BY <1>12 DEF Lasting, Owning, Local, Unlock
  <2>2. ASSUME NEW s \in Threads PROVE Owning(s)'
    BY <1>12 DEF Lasting, Owning, Local, Unlock
  <2>3. ASSUME NEW s \in Threads PROVE Local(s)'
    BY <1>12 DEF Lasting, Owning, Local, Unlock
  <2> QED
    BY <2>1, <2>2, <2>3
<1>13. ASSUME NEW t \in Threads, Unlink(t) PROVE OwnerInv'
  <2>1. Lasting'
    BY <1>13 DEF Lasting, Owning, Local, Unlink
  <2>2. ASSUME NEW s \in Threads PROVE Owning(s)'
    BY <1>13 DEF Lasting, Owning, Local, Unlink
  <2>3. ASSUME NEW s \in Threads PROVE Local(s)'
    BY <1>13 DEF Lasting, Owning, Local, Unlink
  <2> QED
    BY <2>1, <2>2, <2>3
<1>14. ASSUME NEW t \in Threads, Swap(t) PROVE OwnerInv'
  <2>1. Lasting'
    BY <1>14 DEF Lasting, Owning, Local, Swap, Released, NOT_RECOVERABLE
  <2>2. ASSUME NEW s \in Threads PROVE Owning(s)'
    BY <1>14 DEF Lasting, Owning, Local, Swap, Released, NOT_RECOVERABLE
  <2>3. ASSUME NEW s \in Threads PROVE Local(s)'
    <3>1. CASE s = t
      BY <1>14, <3>1 DEF Lasting, Local, Swap, Released, NOT_RECOVERABLE
    <3>2. CASE s # t
      <4>1. /\ pc'[s] = pc[s] /\ word'[s] = word[s] /\ op'[s] = op[s]
            /\ s \in pending' <=> s \in pending
            /\ pc[s] = "link" => lock'.died = lock.died
        BY <1>14, <3>2 DEF Owning, Local, Swap, Released, NOT_RECOVERABLE
      <4>2. kind' = kind
        BY <1>14 DEF Swap
      <4> QED
        BY <4>1, <4>2 DEF Local
    <3> QED
      BY <3>1, <3>2
  <2> QED
    BY <2>1, <2>2, <2>3
<1>15. ASSUME NEW t \in Threads, ClearPending(t) PROVE OwnerInv'
  <2>1. Lasting'
    BY <1>15 DEF Lasting, Owning, Local, ClearPending
  <2>2. ASSUME NEW s \in Threads PROVE Owning(s)'
    BY <1>15 DEF Lasting, Owning, Local, ClearPending
  <2>3. ASSUME NEW s \in Threads PROVE Local(s)'
    BY <1>15 DEF Lasting, Owning, Local, ClearPending
  <2> QED
    BY <2>1, <2>2, <2>3
<1>16. ASSUME NEW t \in Threads, Wake(t) PROVE OwnerInv'
  <2>1. Lasting'
    BY <1>16, WakeOneEffect DEF Lasting, Owning, Local, Wake
  <2>2. ASSUME NEW s \in Threads PROVE Owning(s)'
    BY <1>16, WakeOneEffect DEF Lasting, Owning, Local, Wake
  <2>3. ASSUME NEW s \in Threads PROVE Local(s)'
    BY <1>16, WakeOneEffect DEF Lasting, Owning, Local, Wake
  <2> QED
    BY <2>1, <2>2, <2>3
<1>17. ASSUME NEW t \in Threads, Consistent(t) PROVE OwnerInv'
  <2>1. Lasting'
    BY <1>17 DEF Lasting, Owning, Local, Consistent
  <2>2. ASSUME NEW s \in Threads PROVE Owning(s)'
    BY <1>17 DEF Lasting, Owning, Local, Consistent
  <2>3. ASSUME NEW s \in Threads PROVE Local(s)'
    BY <1>17 DEF Lasting, Owning, Local, Consistent
  <2> QED
    BY <2>1, <2>2, <2>3
<1>18. ASSUME NEW t \in Threads, Exit(t) PROVE OwnerInv'
  <2>1. Lasting'
    BY <1>18 DEF Lasting, Owning, Local, Exit
  <2>2. ASSUME NEW s \in Threads PROVE Owning(s)'
    BY <1>18 DEF Lasting, Owning, Local, Exit
  <2>3. ASSUME NEW s \in Threads PROVE Local(s)'
    BY <1>18 DEF Lasting, Owning, Local, Exit
  <2> QED
    BY <2>1, <2>2, <2>3
<1>19. ASSUME NEW t \in Threads, ExitUnlink(t) PROVE OwnerInv'
  <2>1. Lasting'
    BY <1>19 DEF Lasting, Owning, Local, ExitUnlink
  <2>2. ASSUME NEW s \in Threads PROVE Owning(s)'
    BY <1>19 DEF Lasting, Owning, Local, ExitUnlink
  <2>3. ASSUME NEW s \in Threads PROVE Local(s)'
    BY <1>19 DEF Lasting, Owning, Local, ExitUnlink
  <2> QED
    BY <2>1, <2>2, <2>3
<1>20. ASSUME NEW t \in Threads, ExitSwap(t) PROVE OwnerInv'
  <2>1. Lasting'
    BY <1>20 DEF Lasting, Owning, Local, ExitSwap, OWNER_DIED
  <2>2. ASSUME NEW s \in Threads PROVE Owning(s)'
    BY <1>20 DEF Lasting, Owning, Local, ExitSwap, OWNER_DIED
  <2>3. ASSUME NEW s \in Threads PROVE Local(s)'
    <3>1. CASE s = t
      BY <1>20, <3>1 DEF Lasting, Local, ExitSwap, OWNER_DIED
    <3>2. CASE s # t
      <4>1. /\ pc'[s] = pc[s] /\ word'[s] = word[s] /\ op'[s] = op[s]
            /\ s \in pending' <=> s \in pending
            /\ pc[s] = "link" => lock'.died = lock.died
        BY <1>20, <3>2 DEF Owning, Local, ExitSwap, OWNER_DIED
      <4>2. kind' = kind
        BY <1>20 DEF ExitSwap
      <4> QED
        BY <4>1, <4>2 DEF Local
    <3> QED
      BY <3>1, <3>2
  <2> QED
    BY <2>1, <2>2, <2>3
<1>21. ASSUME NEW t \in Threads, Crash(t) PROVE OwnerInv'
  <2>0. /\ pc'[t] = "gone"
        /\ \A s \in Threads \ {t} : pc'[s] = pc[s] \/ (pc[s] = "asleep" /\ pc'[s] = "sub")
    <3> HIDE DEF OwnerInv, Words, Free, Goto, See, Forget, lists, history
    <3> QED
      BY <1>21, CrashEffect, Zenon
  <2>1. Lasting'
    BY <1>21, <2>0 DEF Lasting, Owning, Local, Crash, OWNER_DIED
  <2>2. ASSUME NEW s \in Threads PROVE Owning(s)'
    <3>1. CASE s = t
      BY <1>21, <2>0, <3>1 DEF Lasting, Owning, Local, Crash, OWNER_DIED
    <3>2. CASE s # t
      <4>1. /\ held'[s] = held[s] /\ kind' = kind
            /\ s \in linked' <=> s \in linked
            /\ lock' = lock \/ (lock.owner = t /\ lock'.owner = None)
        BY <1>21, <3>2 DEF Crash, OWNER_DIED
      <4>2. pc'[s] = pc[s] \/ (pc[s] = "asleep" /\ pc'[s] = "sub")
        BY <2>0, <3>2
      <4> QED
        BY <3>2, <4>1, <4>2 DEF Owning
    <3> QED
      BY <3>1, <3>2
  <2>3. ASSUME NEW s \in Threads PROVE Local(s)'
    <3>1. CASE s = t
      BY <1>21, <3>1, <2>0 DEF Local
    <3>2. CASE s # t
      <4>1. /\ word'[s] = word[s] /\ op'[s] = op[s] /\ kind' = kind
            /\ s \in pending' <=> s \in pending
        BY <1>21, <3>2 DEF Crash
      <4>2. pc'[s] = pc[s] \/ (pc[s] = "asleep" /\ pc'[s] = "sub")
        BY <2>0, <3>2
      <4>3. pc[s] = "link" => lock'.died = lock.died
        BY <1>21, <3>2 DEF Crash, Owning
      <4> QED
        BY <4>1, <4>2, <4>3 DEF Local
    <3> QED
      BY <3>1, <3>2
  <2> QED
    BY <2>1, <2>2, <2>3
<1>22. CASE UNCHANGED vars
  BY <1>22 DEF vars, Lasting, Owning, Local
<1> QED
  BY <1>1, <1>2, <1>3, <1>4, <1>5, <1>6, <1>7, <1>8, <1>9, <1>10, <1>11, <1>12, <1>13,
     <1>14, <1>15, <1>16, <1>17, <1>18, <1>19, <1>20, <1>21, <1>22
     DEF Next, Step

=============================================================================
