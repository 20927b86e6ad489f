--------------------------- MODULE SynccallLemmas ---------------------------
(***************************************************************************)
(* What SynccallProofs rests on: the inductive invariant of the all-thread *)
(* call, the steps outside the meetings, and how a meeting begins.         *)
(***************************************************************************)
EXTENDS Synccall, FiniteSetTheorems, TLAPS

\* Where a thread holds the thread-list lock.
Holding(t) ==
    \/ pc[t] \in {"start", "collect", "signal", "catch", "serial", "served", "self",
                 "leave", "clone", "retire", "unlock"}
    \/ pc[t] \in {"claim", "drain", "write"} /\ op[t] # "update"

\* The calls that can be at a place.
CallFits(t) ==
    /\ pc[t] \in {"cas", "add", "futex", "asleep", "sub"} => op[t] \in ListOps
    /\ pc[t] \in {"ask", "told"} => op[t] \in ListOps \cup {"kill"}
    /\ pc[t] \in {"start", "collect", "signal", "serial"} => op[t] \in Meetings
    /\ pc[t] \in {"catch", "served", "self", "leave"} => op[t] = "synccall"
    /\ pc[t] \in {"claim", "drain", "write"} =>
         op[t] \in {"create", "exit", "withdraw", "update"}
    /\ pc[t] = "clone" => op[t] = "create"
    /\ pc[t] = "retire" => op[t] = "exit"
    /\ pc[t] \in {"aim", "shot"} => op[t] = "kill"
    /\ pc[t] \in {"unlock", "hint"} => op[t] \in ListOps \cup {"withdraw", "final"}

\* A creation that has not published its task yet, or has not cloned it.
Creating(t) == op[t] = "create" /\ pc[t] \notin {"idle", "unlock", "hint"}

\* A task that makes a call exists, and a task that is being created does not run yet.
TaskFits(t) ==
    /\ pc[t] # "idle" =>
         task[t] = IF \/ pc[t] \in {"retire", "final"}
                      \/ pc[t] \in {"unlock", "hint"} /\ op[t] \in {"exit", "final"}
                   THEN "committed" ELSE "active"
    /\ Creating(t) => task[arg[t]] = IF pc[t] = "clone" THEN "linked" ELSE "none"
    /\ op[t] = "withdraw" /\ pc[t] \in {"claim", "drain", "write"} => task[arg[t]] = "linked"
    /\ hpc[t] # "none" => task[t] = "active"

\* No two creations are of the same task.
OwnCreations ==
    \A s, t \in Threads : Creating(s) /\ Creating(t) /\ s # t => arg[s] # arg[t]

\* The threads that the waiter count stands for.
Waiting == {t \in Threads : pc[t] \in {"futex", "asleep", "sub"}}

\* What the list lock, the calls and the tasks have to do with each other.
ListInv ==
    /\ \A t \in Threads : list.owner = t <=> Holding(t)
    /\ list.waiters = Cardinality(Waiting)
    /\ \A t \in Threads : CallFits(t) /\ TaskFits(t)
    /\ OwnCreations

\* The tasks at a place of the handler, and all that are in it.
In(h) == {t \in Threads : hpc[t] = h}

Captives == {t \in Threads : hpc[t] # "none"}

\* No rendezvous and no broadcast has begun, or everything of it is over.
Quiet ==
    /\ frame.todo = {} /\ pending = {} /\ Captives = {}
    /\ \A s \in Semaphores : sem[s] = 0

\* The targets are caught one by one.
Gathering(t) ==
    /\ action = "handler" /\ callback = "user" /\ frame.run = "user"
    /\ In("call") = {} /\ In("exit") = {}
    /\ pending \cap frame.todo = {} /\ In("target") \cap (pending \cup frame.todo) = {}
    /\ In("target") \cup pending \cup frame.todo = Active \ {t}
    /\ sem["target"] = 0 /\ sem["exit"] = 0 /\ sem["barrier"] = 0
    /\ \A u \in Threads : ran[u] = 0
    /\ IF pc[t] = "catch"
       THEN /\ pending \subseteq {targetTid}
            /\ sem["caller"] + Cardinality(pending) = 1
            /\ Cardinality(In("target")) + Cardinality(pending) = frame.count + 1
       ELSE /\ pending = {} /\ sem["caller"] = 0
            /\ Cardinality(In("target")) = frame.count

\* The targets run the callback one by one.
Serving(t) ==
    /\ frame.todo = {} /\ pending = {}
    /\ Captives \subseteq Active \ {t}
    /\ sem["exit"] = 0 /\ sem["barrier"] = 0
    /\ Cardinality(Captives) = frame.count
    /\ IF pc[t] = "served"
       THEN /\ sem["target"] + Cardinality(In("call")) + sem["caller"] = 1
            /\ Cardinality(In("target")) + 1 = frame.left + sem["target"]
       ELSE /\ sem["target"] = 0 /\ sem["caller"] = 0 /\ In("call") = {}
            /\ Cardinality(In("target")) = frame.left
    /\ pc[t] = "self" => frame.left = 0
    /\ IF frame.run = "user"
       THEN /\ callback = "user" /\ Captives = Active \ {t}
            /\ \A u \in Threads : ran[u] = IF hpc[u] = "exit" THEN 1 ELSE 0
       ELSE /\ callback = "dummy" \/ frame.count = 0
            /\ \A u \in Threads : ran[u] = 0

\* Everybody has run it, or nobody has.
AllRan ==
    \/ \A u \in Active : ran[u] = 1
    \/ \A u \in Threads : ran[u] = 0

\* The targets leave the handler.
Leaving(t) ==
    /\ frame.todo = {} /\ pending = {} /\ Captives = In("exit")
    /\ Captives \subseteq Active \ {t}
    /\ sem["target"] = 0 /\ sem["barrier"] = 0
    /\ sem["exit"] = Cardinality(Captives)
    /\ sem["caller"] + Cardinality(Captives) = frame.left
    /\ AllRan

\* The signals of a broadcast are answered.
Broadcasting(t) ==
    /\ action = "broadcast" /\ Captives = {}
    /\ frame.todo \cup pending \subseteq Active \ {t} /\ frame.todo \cap pending = {}
    /\ sem["target"] = 0 /\ sem["caller"] = 0 /\ sem["exit"] = 0
    /\ sem["barrier"] + Cardinality(pending) = frame.left
    /\ pc[t] = "serial" => frame.todo = {}

\* Where the holder of the list lock has a meeting under way.
Gathered == {"signal", "catch", "serial", "served", "self", "leave"}

\* What the records say at each place of the holder.
Phase(t) ==
    /\ pc[t] = "collect" =>
         /\ frame = [NoFrame EXCEPT !.run = "user"]
         /\ \A u \in Threads : ran[u] = 0
         /\ op[t] = "synccall" => action = "handler" /\ callback = "user"
         /\ op[t] = "membarrier" => action = "broadcast"
    /\ op[t] = "synccall" /\ pc[t] \in {"signal", "catch"} => Gathering(t)
    /\ op[t] = "synccall" /\ pc[t] \in {"serial", "served", "self"} => Serving(t)
    /\ pc[t] = "leave" => Leaving(t)
    /\ op[t] = "synccall" /\ pc[t] = "unlock" => AllRan
    /\ op[t] = "membarrier" /\ pc[t] \in {"signal", "serial"} => Broadcasting(t)

\* The records fit the place of the holder, and are at rest when there is no meeting.
MeetingInv ==
    /\ \A t \in Threads : Phase(t)
    /\ (\A t \in Threads : pc[t] \notin Gathered) => Quiet

\* The inductive invariant.
IInv == TypeOK /\ ListInv /\ MeetingInv

-----------------------------------------------------------------------------

\* One thread holds the list lock.
LEMMA OneHolder ==
    ASSUME ListInv, NEW s \in Threads, NEW t \in Threads, Holding(s), Holding(t)
    PROVE  s = t
BY DEF ListInv

\* Every set of threads is finite.
LEMMA FiniteThreads ==
    ASSUME NEW S, S \subseteq Threads
    PROVE  IsFiniteSet(S) /\ Cardinality(S) \in Nat
BY TasksAssumption, FS_Subset, FS_CardinalityType

\* Every step keeps the variables in their types.
LEMMA NextTypeOK == IInv /\ [Next]_vars => TypeOK'
<1> SUFFICES ASSUME IInv, [Next]_vars PROVE TypeOK'
  OBVIOUS
<1>0. TypeOK
  BY DEF IInv
<1> USE <1>0 DEF TypeOK, At, Goto, locks, meeting, tasks, ListOps, Meetings
<1>1. ASSUME NEW t \in Threads, Call(t) PROVE TypeOK'
  BY <1>1 DEF Call, Ask, Labels
<1>2. ASSUME NEW t \in Threads,
             ReadRegistry(t) \/ ReleaseShared(t) \/ ClaimRegistry(t) \/ DrainReaders(t)
      PROVE  TypeOK'
  BY <1>2 DEF ReadRegistry, ReleaseShared, ClaimRegistry, DrainReaders, Labels
<1>3. ASSUME NEW t \in Threads, WriteRegistry(t) PROVE TypeOK'
  BY <1>3 DEF WriteRegistry, Labels
<1>4. ASSUME NEW t \in Threads,
             LockThreadList(t) \/ AddWaiter(t) \/ FutexWait(t) \/ UnlockThreadList(t)
      PROVE  TypeOK'
  BY <1>4 DEF LockThreadList, Inside, AddWaiter, FutexWait, UnlockThreadList, Labels
<1>5. ASSUME NEW t \in Threads, SubWaiter(t) PROVE TypeOK'
  <2>1. list.waiters > 0
    <3>1. t \in Waiting /\ list.waiters = Cardinality(Waiting)
      BY <1>5 DEF SubWaiter, Waiting, IInv, ListInv
    <3>2. IsFiniteSet(Waiting)
      BY FiniteThreads DEF Waiting
    <3> QED
      BY <3>1, <3>2, FS_EmptySet
  <2>2. list' \in [owner : Threads \cup {None}, waiters : Nat,
                  seen : [Threads -> Threads \cup {None}]]
    <3>1. /\ list.waiters - 1 \in Nat
          /\ [list.seen EXCEPT ![t] = None] \in [Threads -> Threads \cup {None}]
      BY <2>1
    <3> QED
      BY <1>5, <3>1 DEF SubWaiter
  <2> QED
    BY <1>5, <2>2 DEF SubWaiter, Labels
<1>6. ASSUME NEW t \in Threads, WakeOne(t) PROVE TypeOK'
  <2>1. pc' \in [Threads -> Labels]
    BY <1>6 DEF WakeOne, Labels
  <2>2. task' \in [Threads -> {"none", "linked", "active", "committed"}]
    BY <1>6 DEF WakeOne
  <2> QED
    BY <1>6, <2>1, <2>2 DEF WakeOne
<1>7. ASSUME NEW t \in Threads, Clone(t) \/ Retire(t) \/ Aim(t) \/ Shoot(t)
      PROVE  TypeOK'
  BY <1>7 DEF Clone, Retire, Aim, Shoot, Labels
<1>8. ASSUME NEW t \in Threads, Start(t) \/ Collect(t) PROVE TypeOK'
  BY <1>8 DEF Start, Collect, NoFrame, Frames, Active, Semaphores, Labels
<1>16. ASSUME NEW u \in frame.todo, NEW n \in Nat
       PROVE  /\ u \in Threads
              /\ [frame EXCEPT !.todo = @ \ {u}] \in Frames
              /\ [frame EXCEPT !.todo = @ \ {u}, !.left = n] \in Frames
  <2>1. frame.todo \ {u} \in SUBSET Threads /\ u \in Threads
    BY DEF Frames
  <2> QED
    BY <1>16, <2>1 DEF Frames
<1>9. ASSUME NEW t \in Threads, Signal(t) PROVE TypeOK'
  <2>1. frame' \in Frames /\ pending' \subseteq Threads /\ targetTid' \in Threads \cup {None}
    <3>1. CASE \E u \in frame.todo : /\ frame' = [frame EXCEPT !.todo = @ \ {u}]
                                    /\ targetTid' = u /\ pending' = pending \cup {u}
      BY <1>16, <3>1
    <3>2. CASE /\ \/ frame' = [frame EXCEPT !.todo = {}, !.run = "dummy", !.left = frame.count]
                  \/ frame' = [frame EXCEPT !.left = frame.count]
               /\ pending' = pending /\ targetTid' = None
      BY <3>2 DEF Frames
    <3> QED
      BY <1>9, <3>1, <3>2 DEF Signal
  <2> QED
    BY <1>9, <2>1 DEF Signal, Labels
<1>14. ASSUME NEW t \in Threads, Catch(t) PROVE TypeOK'
  BY <1>14 DEF Catch, Frames, Take, Semaphores, Labels
<1>15. ASSUME NEW t \in Threads, Broadcast(t) PROVE TypeOK'
  <2>1. frame' \in Frames /\ pending' \subseteq Threads
    <3>1. frame.left + 1 \in Nat
      BY DEF Frames
    <3>2. CASE \E u \in frame.todo :
                  /\ \/ frame' = [frame EXCEPT !.todo = @ \ {u}, !.left = @ + 1]
                     \/ frame' = [frame EXCEPT !.todo = @ \ {u}]
                  /\ pending' \in {pending, pending \cup {u}}
      <4>1. PICK u \in frame.todo :
                  /\ \/ frame' = [frame EXCEPT !.todo = @ \ {u}, !.left = frame.left + 1]
                     \/ frame' = [frame EXCEPT !.todo = @ \ {u}]
                  /\ pending' \in {pending, pending \cup {u}}
        BY <3>2
      <4>2. /\ u \in Threads
            /\ [frame EXCEPT !.todo = @ \ {u}] \in Frames
            /\ [frame EXCEPT !.todo = @ \ {u}, !.left = frame.left + 1] \in Frames
        BY <1>16, <3>1
      <4> QED
        BY <4>1, <4>2
    <3>3. CASE frame' = frame /\ pending' = pending
      BY <3>3
    <3> QED
      BY <1>15, <3>2, <3>3 DEF Broadcast
  <2>2. pc' \in [Threads -> Labels]
    BY <1>15 DEF Broadcast, Labels
  <2> QED
    BY <1>15, <2>1, <2>2 DEF Broadcast
<1>10. ASSUME NEW t \in Threads, Serialize(t) \/ RunSelf(t) \/ Leave(t) PROVE TypeOK'
  BY <1>10 DEF Serialize, Post, Take, RunSelf, Leave, Frames, Semaphores, Labels
<1>11. ASSUME NEW t \in Threads, Served(t) PROVE TypeOK'
  <2>1. frame.left > 0
    <3>1. Serving(t)
      BY <1>11 DEF Served, IInv, MeetingInv, Phase, ListInv, CallFits
    <3>2. Cardinality(In("target")) \in Nat /\ Cardinality(In("call")) \in Nat
      BY FiniteThreads DEF In
    <3> QED
      BY <1>11, <3>1, <3>2 DEF Served, Serving, Take, Semaphores, Frames
  <2> QED
    BY <1>11, <2>1 DEF Served, Frames, Take, Semaphores, Labels
<1>12. ASSUME NEW t \in Threads, Handle(t) PROVE TypeOK'
  BY <1>12
     DEF Handle, Deliver, Caught, RunCallback, LeaveHandler, Post, Take, Semaphores,
         Labels
<1>13. CASE UNCHANGED vars
  BY <1>13 DEF vars
<1> QED
  BY <1>1, <1>2, <1>3, <1>4, <1>5, <1>6, <1>7, <1>8, <1>9, <1>10, <1>11, <1>12, <1>13,
     <1>14, <1>15
     DEF Next, Step

\* The word of the list lock names the thread that is between lock and unlock.
LEMMA NextHolding ==
    ASSUME TypeOK, ListInv, [Next]_vars, NEW s \in Threads
    PROVE  (list.owner = s <=> Holding(s))'
<1>1. /\ pc \in [Threads -> Labels]
      /\ op \in [Threads -> ListOps \cup {"withdraw", "final", "update", "kill"}]
      /\ list \in [owner : Threads \cup {None}, waiters : Nat,
                  seen : [Threads -> Threads \cup {None}]]
      /\ \A t \in Threads : (list.owner = t <=> Holding(t)) /\ CallFits(t)
      /\ None \notin Threads
  BY TasksAssumption DEF TypeOK, ListInv
<1> HIDE DEF TypeOK, ListInv
<1> USE <1>1 DEF Holding, At, Goto, locks, meeting, tasks
<1>2. ASSUME NEW t \in Threads, Call(t) PROVE (list.owner = s <=> Holding(s))'
  BY <1>2 DEF Call, Ask
<1>3. ASSUME NEW t \in Threads,
             \/ ReadRegistry(t) \/ ReleaseShared(t) \/ ClaimRegistry(t) \/ DrainReaders(t)
             \/ Clone(t) \/ Retire(t) \/ Aim(t) \/ Shoot(t)
      PROVE  (list.owner = s <=> Holding(s))'
  BY <1>3
     DEF ReadRegistry, ReleaseShared, ClaimRegistry, DrainReaders, Clone, Retire, Aim,
              Shoot, CallFits
<1>4. ASSUME NEW t \in Threads, WriteRegistry(t)
      PROVE  (list.owner = s <=> Holding(s))'
  BY <1>4 DEF WriteRegistry, CallFits
<1>5. ASSUME NEW t \in Threads, LockThreadList(t)
      PROVE  (list.owner = s <=> Holding(s))'
  BY <1>5 DEF LockThreadList, Inside, CallFits, ListOps, Meetings
<1>6. ASSUME NEW t \in Threads,
             AddWaiter(t) \/ FutexWait(t) \/ SubWaiter(t) \/ UnlockThreadList(t)
      PROVE  (list.owner = s <=> Holding(s))'
  <2>1. /\ list'.owner = IF pc[t] = "unlock" THEN None ELSE list.owner
        /\ pc[t] \in {"add", "futex", "sub", "unlock"}
        /\ \E l \in {"futex", "asleep", "sub", "cas", "hint"} : pc' = [pc EXCEPT ![t] = l]
        /\ op' = op
    <3>1. CASE AddWaiter(t) \/ FutexWait(t)
      BY <3>1 DEF AddWaiter, FutexWait
    <3>2. CASE SubWaiter(t)
      BY <3>2 DEF SubWaiter
    <3>3. CASE UnlockThreadList(t)
      BY <3>3 DEF UnlockThreadList
    <3> QED
      BY <1>6, <3>1, <3>2, <3>3
  <2> QED
    BY <2>1
<1>7. ASSUME NEW t \in Threads, WakeOne(t) PROVE (list.owner = s <=> Holding(s))'
  BY <1>7 DEF WakeOne
<1>8. ASSUME NEW t \in Threads,
             Start(t) \/ Collect(t) \/ Signal(t) \/ Catch(t) \/ Broadcast(t) \/ Serialize(t)
      PROVE  (list.owner = s <=> Holding(s))'
  <2>1. /\ pc[t] \in {"start", "collect", "signal", "catch", "serial"} /\ UNCHANGED <<op, list>>
        /\ \/ pc' = pc
           \/ \E l \in {"collect", "signal", "serial", "unlock"} : pc' = [pc EXCEPT ![t] = l]
           \/ /\ op[t] = "synccall"
              /\ \E l \in {"catch", "served", "self"} : pc' = [pc EXCEPT ![t] = l]
    <3>1. CASE Start(t) \/ Collect(t) \/ Signal(t)
      BY <3>1 DEF Start, Collect, Signal
    <3>2. CASE Catch(t) \/ Broadcast(t)
      BY <3>2 DEF Catch, Broadcast
    <3>3. CASE Serialize(t)
      BY <3>3 DEF Serialize
    <3> QED
      BY <1>8, <3>1, <3>2, <3>3
  <2> QED
    BY <2>1
<1>9. ASSUME NEW t \in Threads,
             \/ Served(t) \/ RunSelf(t) \/ Leave(t)
             \/ Deliver(t) \/ Caught(t) \/ RunCallback(t) \/ LeaveHandler(t)
      PROVE  (list.owner = s <=> Holding(s))'
  BY <1>9 DEF Served, RunSelf, Leave, Deliver, Caught, RunCallback, LeaveHandler
<1>10. CASE UNCHANGED vars
  BY <1>10 DEF vars
<1> QED
  BY <1>2, <1>3, <1>4, <1>5, <1>6, <1>7, <1>8, <1>9, <1>10 DEF Next, Step, Handle

\* Every thread is in a call that passes through the place where it is.
LEMMA NextCallFits ==
    ASSUME TypeOK, ListInv, [Next]_vars, NEW s \in Threads
    PROVE  CallFits(s)'
<1>1. /\ pc \in [Threads -> Labels]
      /\ op \in [Threads -> ListOps \cup {"withdraw", "final", "update", "kill"}]
      /\ \A t \in Threads : CallFits(t)
  BY DEF TypeOK, ListInv
<1> HIDE DEF TypeOK, ListInv
<1> USE <1>1 DEF CallFits, At, Goto, locks, meeting, tasks, ListOps, Meetings
<1>2. ASSUME NEW t \in Threads, Call(t) PROVE CallFits(s)'
  BY <1>2 DEF Call, Ask
<1>3. ASSUME NEW t \in Threads,
             \/ ReadRegistry(t) \/ ReleaseShared(t) \/ ClaimRegistry(t) \/ DrainReaders(t)
             \/ Clone(t) \/ Retire(t) \/ Aim(t) \/ Shoot(t)
      PROVE  CallFits(s)'
  BY <1>3
     DEF ReadRegistry, ReleaseShared, ClaimRegistry, DrainReaders, Clone, Retire, Aim,
              Shoot
<1>4. ASSUME NEW t \in Threads, WriteRegistry(t) PROVE CallFits(s)'
  BY <1>4 DEF WriteRegistry
<1>5. ASSUME NEW t \in Threads, LockThreadList(t) PROVE CallFits(s)'
  BY <1>5 DEF LockThreadList, Inside
<1>6. ASSUME NEW t \in Threads,
             AddWaiter(t) \/ FutexWait(t) \/ SubWaiter(t) \/ UnlockThreadList(t)
      PROVE  CallFits(s)'
  BY <1>6 DEF AddWaiter, FutexWait, SubWaiter, UnlockThreadList
<1>7. ASSUME NEW t \in Threads, WakeOne(t) PROVE CallFits(s)'
  BY <1>7 DEF WakeOne
<1>8. ASSUME NEW t \in Threads,
             Start(t) \/ Collect(t) \/ Signal(t) \/ Catch(t) \/ Broadcast(t) \/ Serialize(t)
      PROVE  CallFits(s)'
  <2>1. /\ pc[t] \in {"start", "collect", "signal", "catch", "serial"} /\ UNCHANGED <<op, list>>
        /\ \/ pc' = pc
           \/ \E l \in {"collect", "signal", "serial", "unlock"} : pc' = [pc EXCEPT ![t] = l]
           \/ /\ op[t] = "synccall"
              /\ \E l \in {"catch", "served", "self"} : pc' = [pc EXCEPT ![t] = l]
    <3>1. CASE Start(t) \/ Collect(t) \/ Signal(t)
      BY <3>1 DEF Start, Collect, Signal
    <3>2. CASE Catch(t) \/ Broadcast(t)
      BY <3>2 DEF Catch, Broadcast
    <3>3. CASE Serialize(t)
      BY <3>3 DEF Serialize
    <3> QED
      BY <1>8, <3>1, <3>2, <3>3
  <2> QED
    BY <2>1
<1>9. ASSUME NEW t \in Threads,
             \/ Served(t) \/ RunSelf(t) \/ Leave(t)
             \/ Deliver(t) \/ Caught(t) \/ RunCallback(t) \/ LeaveHandler(t)
      PROVE  CallFits(s)'
  BY <1>9 DEF Served, RunSelf, Leave, Deliver, Caught, RunCallback, LeaveHandler
<1>10. CASE UNCHANGED vars
  BY <1>10 DEF vars
<1> QED
  BY <1>2, <1>3, <1>4, <1>5, <1>6, <1>7, <1>8, <1>9, <1>10 DEF Next, Step, Handle

\* One element more, one element less.
LEMMA CardAdd ==
    ASSUME NEW S, S \subseteq Threads, NEW u \in Threads, u \notin S
    PROVE  Cardinality(S \cup {u}) = Cardinality(S) + 1
BY FiniteThreads, FS_AddElement

\* The same for one element less.
LEMMA CardRemove ==
    ASSUME NEW S, S \subseteq Threads, NEW u \in S
    PROVE  Cardinality(S \ {u}) = Cardinality(S) - 1 /\ Cardinality(S) > 0
<1>1. IsFiniteSet(S) /\ Cardinality(S) \in Nat
  BY FiniteThreads
<1>2. Cardinality(S) # 0
  BY <1>1, FS_EmptySet
<1>3. Cardinality(S \ {u}) = Cardinality(S) - 1
  BY <1>1, FS_RemoveElement
<1> QED
  BY <1>1, <1>2, <1>3

\* A set of threads is empty when it counts nobody.
LEMMA CardEmpty ==
    /\ Cardinality({}) = 0
    /\ \A S \in SUBSET Threads : Cardinality(S) = 0 => S = {}
<1>1. Cardinality({}) = 0
  BY FS_EmptySet
<1>2. ASSUME NEW S \in SUBSET Threads, Cardinality(S) = 0 PROVE S = {}
  BY <1>2, FiniteThreads, FS_EmptySet
<1> QED
  BY <1>1, <1>2

\* The waiter count is the number of threads between the increment and the decrement.
LEMMA NextWaiters ==
    ASSUME TypeOK, ListInv, [Next]_vars
    PROVE  (list.waiters = Cardinality(Waiting))'
<1>1. /\ pc \in [Threads -> Labels]
      /\ list \in [owner : Threads \cup {None}, waiters : Nat,
                  seen : [Threads -> Threads \cup {None}]]
      /\ list.waiters = Cardinality(Waiting)
      /\ Waiting \subseteq Threads
  BY DEF TypeOK, ListInv, Waiting
<1> HIDE DEF TypeOK, ListInv
<1> USE <1>1 DEF At, Goto, locks, meeting, tasks
<1>2. ASSUME NEW t \in Threads, AddWaiter(t)
      PROVE  (list.waiters = Cardinality(Waiting))'
  <2>1. t \notin Waiting /\ Waiting' = Waiting \cup {t}
    BY <1>2 DEF AddWaiter, Waiting
  <2>2. list'.waiters = list.waiters + 1
    BY <1>2 DEF AddWaiter
  <2> QED
    BY <2>1, <2>2, CardAdd
<1>3. ASSUME NEW t \in Threads, SubWaiter(t)
      PROVE  (list.waiters = Cardinality(Waiting))'
  <2>1. t \in Waiting /\ Waiting' = Waiting \ {t}
    BY <1>3 DEF SubWaiter, Waiting
  <2>2. list'.waiters = list.waiters - 1
    BY <1>3 DEF SubWaiter
  <2> QED
    BY <2>1, <2>2, CardRemove
<1>4. ASSUME Waiting' = Waiting, list'.waiters = list.waiters
      PROVE  (list.waiters = Cardinality(Waiting))'
  BY <1>4
<1>5. ASSUME NEW t \in Threads,
             \/ Call(t) \/ ReadRegistry(t) \/ ReleaseShared(t) \/ ClaimRegistry(t)
             \/ DrainReaders(t) \/ WriteRegistry(t) \/ Clone(t) \/ Retire(t)
             \/ Aim(t) \/ Shoot(t)
      PROVE  Waiting' = Waiting /\ list'.waiters = list.waiters
  BY <1>5 DEF Call, Ask, ReadRegistry, ReleaseShared, ClaimRegistry, DrainReaders,
              WriteRegistry, Clone, Retire, Aim, Shoot, Waiting
<1>6. ASSUME NEW t \in Threads,
             LockThreadList(t) \/ FutexWait(t) \/ UnlockThreadList(t) \/ WakeOne(t)
      PROVE  Waiting' = Waiting /\ list'.waiters = list.waiters
  BY <1>6 DEF LockThreadList, Inside, FutexWait, UnlockThreadList, WakeOne, Waiting
<1>7. ASSUME NEW t \in Threads,
             \/ Start(t) \/ Collect(t) \/ Signal(t) \/ Catch(t) \/ Broadcast(t)
             \/ Serialize(t) \/ Served(t) \/ RunSelf(t) \/ Leave(t)
      PROVE  Waiting' = Waiting /\ list'.waiters = list.waiters
  BY <1>7
     DEF Start, Collect, Signal, Catch, Broadcast, Serialize, Served, RunSelf, Leave,
              Waiting
<1>8. ASSUME NEW t \in Threads,
             Deliver(t) \/ Caught(t) \/ RunCallback(t) \/ LeaveHandler(t)
      PROVE  Waiting' = Waiting /\ list'.waiters = list.waiters
  BY <1>8 DEF Deliver, Caught, RunCallback, LeaveHandler, Waiting
<1>9. CASE UNCHANGED vars
  BY <1>9, <1>4 DEF vars, Waiting
<1> QED
  BY <1>2, <1>3, <1>4, <1>5, <1>6, <1>7, <1>8, <1>9 DEF Next, Step, Handle

\* A step of the list lock, of the registry lock or of a meeting that leaves the
\* records alone leaves TaskFits alone.
LEMMA TaskFitsFrame ==
    ASSUME NEW s \in Threads, TaskFits(s), UNCHANGED <<op, arg, task>>,
           hpc'[s] # "none" => task[s] = "active",
           \/ pc'[s] = pc[s] \/ pc'[s] = "idle"
           \/ /\ {pc[s], pc'[s]} \cap {"idle", "clone", "retire", "final"} = {}
              /\ (pc[s] \in {"unlock", "hint"} <=> pc'[s] \in {"unlock", "hint"})
              /\ op[s] = "withdraw" /\ pc'[s] \in {"claim", "drain", "write"} =>
                    pc[s] \in {"claim", "drain", "write"}
    PROVE  TaskFits(s)'
BY DEF TaskFits, Creating

\* A task that makes a call exists, and one that is being created does not run yet.
LEMMA NextTaskFits ==
    ASSUME TypeOK, ListInv, [Next]_vars, NEW s \in Threads
    PROVE  TaskFits(s)'
<1>1. /\ pc \in [Threads -> Labels]
      /\ op \in [Threads -> ListOps \cup {"withdraw", "final", "update", "kill"}]
      /\ hpc \in [Threads -> {"none", "target", "call", "exit"}]
      /\ arg \in [Threads -> Threads]
      /\ task \in [Threads -> {"none", "linked", "active", "committed"}]
      /\ \A t \in Threads : TaskFits(t) /\ CallFits(t) /\ (Holding(s) /\ Holding(t) => s = t)
      /\ OwnCreations
  BY OneHolder DEF TypeOK, ListInv
<1> HIDE DEF TypeOK, ListInv
<1> USE <1>1 DEF At, Goto, locks, meeting, tasks
<1>2. ASSUME NEW t \in Threads, Call(t) PROVE TaskFits(s)'
  BY <1>2 DEF Call, Ask, TaskFits, Creating
<1>3. ASSUME NEW t \in Threads,
             \/ ReadRegistry(t) \/ ReleaseShared(t) \/ ClaimRegistry(t) \/ DrainReaders(t)
             \/ Aim(t) \/ Shoot(t)
      PROVE  TaskFits(s)'
  BY <1>3, TaskFitsFrame
     DEF ReadRegistry, ReleaseShared, ClaimRegistry, DrainReaders, Aim, Shoot,
         TaskFits, CallFits
<1>4. ASSUME NEW t \in Threads, Retire(t) PROVE TaskFits(s)'
  BY <1>4 DEF Retire, TaskFits, Creating, CallFits
<1>5. ASSUME NEW t \in Threads, WriteRegistry(t) PROVE TaskFits(s)'
  <2>1. CASE op[t] = "update"
    BY <1>5, <2>1, TaskFitsFrame DEF WriteRegistry, TaskFits
  <2>2. CASE op[t] = "create"
    <3>1. /\ pc[t] = "write" /\ pc' = [pc EXCEPT ![t] = "clone"] /\ hpc' = hpc
          /\ task' = [task EXCEPT ![arg[t]] = "linked"] /\ op' = op /\ arg' = arg
          /\ Creating(t) /\ task[arg[t]] = "none" /\ task[t] = "active"
      BY <1>5, <2>2 DEF WriteRegistry, TaskFits, Creating
    <3>2. CASE s = t
      BY <2>2, <3>1, <3>2 DEF TaskFits, Creating
    <3>3. CASE s # t
      BY <2>2, <3>1, <3>3 DEF TaskFits, Creating, OwnCreations, Holding
    <3> QED
      BY <3>2, <3>3
  <2>3. CASE op[t] = "withdraw"
    <3>1. /\ pc[t] = "write" /\ pc' = [pc EXCEPT ![t] = "unlock"] /\ hpc' = hpc
          /\ task' = [task EXCEPT ![arg[t]] = "none"] /\ op' = op /\ arg' = arg
          /\ task[arg[t]] = "linked" /\ task[t] = "active" /\ Holding(t)
      BY <1>5, <2>3 DEF WriteRegistry, TaskFits, Holding
    <3> QED
      BY <2>3, <3>1 DEF TaskFits, Creating, Holding
  <2>4. CASE op[t] = "exit"
    <3>1. /\ pc[t] = "write" /\ hpc' = hpc /\ hpc[t] = "none" /\ arg' = arg
          /\ task' = [task EXCEPT ![t] = "committed"] /\ task[t] = "active"
          /\ \/ pc' = [pc EXCEPT ![t] = "unlock"] /\ op' = [op EXCEPT ![t] = "final"]
             \/ pc' = [pc EXCEPT ![t] = "retire"] /\ op' = op
      BY <1>5, <2>4 DEF WriteRegistry, TaskFits
    <3> QED
      BY <2>4, <3>1 DEF TaskFits, Creating
  <2> QED
    BY <1>5, <2>1, <2>2, <2>3, <2>4 DEF WriteRegistry
<1>6. ASSUME NEW t \in Threads,
             LockThreadList(t) \/ AddWaiter(t) \/ FutexWait(t) \/ SubWaiter(t)
      PROVE  TaskFits(s)'
  BY <1>6, TaskFitsFrame
     DEF LockThreadList, Inside, AddWaiter, FutexWait, SubWaiter, TaskFits, CallFits,
         ListOps, Meetings
<1>7. ASSUME NEW t \in Threads, UnlockThreadList(t) PROVE TaskFits(s)'
  BY <1>7, TaskFitsFrame DEF UnlockThreadList, TaskFits
<1>8. ASSUME NEW t \in Threads, WakeOne(t) PROVE TaskFits(s)'
  <2>1. /\ pc[t] = "hint" /\ hpc' = hpc /\ op' = op /\ arg' = arg /\ hpc[t] = "none"
        /\ task' = IF op[t] = "exit" THEN [task EXCEPT ![t] = "none"] ELSE task
        /\ pc'[t] = IF op[t] = "final" THEN "final" ELSE "idle"
        /\ \A u \in Threads \ {t} : pc'[u] = pc[u] \/ (pc[u] = "asleep" /\ pc'[u] = "sub")
    BY <1>8 DEF WakeOne
  <2>2. CASE s = t
    BY <2>1, <2>2 DEF TaskFits, Creating
  <2>3. CASE s # t
    <3>1. task[t] = IF op[t] \in {"exit", "final"} THEN "committed" ELSE "active"
      BY <2>1 DEF TaskFits
    <3>2. task'[s] = task[s] /\ (task[arg[s]] # "committed" => task'[arg[s]] = task[arg[s]])
      BY <2>1, <2>3, <3>1
    <3> QED
      BY <2>1, <2>3, <3>2 DEF TaskFits, Creating
  <2> QED
    BY <2>2, <2>3
<1>9. ASSUME NEW t \in Threads, Clone(t) PROVE TaskFits(s)'
  <2>1. /\ pc[t] = "clone" /\ op[t] = "create" /\ task[arg[t]] = "linked" /\ Creating(t)
        /\ hpc' = hpc /\ arg' = arg
        /\ task[t] = "active" /\ Holding(t)
        /\ \/ /\ task' = [task EXCEPT ![arg[t]] = "active"]
              /\ pc' = [pc EXCEPT ![t] = "unlock"] /\ op' = op
           \/ /\ task' = task /\ pc' = [pc EXCEPT ![t] = "claim"]
              /\ op' = [op EXCEPT ![t] = "withdraw"]
    BY <1>9 DEF Clone, CallFits, TaskFits, Creating, Holding
  <2>2. CASE s = t
    BY <2>1, <2>2 DEF TaskFits, Creating
  <2>3. CASE s # t
    BY <2>1, <2>3 DEF TaskFits, Creating, OwnCreations, Holding
  <2> QED
    BY <2>2, <2>3
<1>10. ASSUME NEW t \in Threads,
             \/ Start(t) \/ Collect(t) \/ Signal(t) \/ Catch(t) \/ Broadcast(t)
             \/ Serialize(t) \/ Served(t) \/ RunSelf(t) \/ Leave(t)
      PROVE  TaskFits(s)'
  <2>1. /\ UNCHANGED <<op, arg, task, hpc>> /\ op[t] \in Meetings
        /\ \/ pc' = pc
           \/ \E l \in {"collect", "signal", "catch", "serial", "served", "self", "leave", "unlock"} :
                 pc' = [pc EXCEPT ![t] = l]
    BY <1>10
       DEF Start, Collect, Signal, Catch, Broadcast, Serialize, Served, RunSelf,
           Leave,
                 CallFits, Meetings
  <2>2. pc[t] \in {"start", "collect", "signal", "catch", "serial", "served", "self", "leave"}
    BY <1>10
       DEF Start, Collect, Signal, Catch, Broadcast, Serialize, Served, RunSelf, Leave
  <2> QED
    BY <2>1, <2>2 DEF TaskFits, Creating, Meetings
<1>11. ASSUME NEW t \in Threads,
              Deliver(t) \/ Caught(t) \/ RunCallback(t) \/ LeaveHandler(t)
      PROVE  TaskFits(s)'
  <2>1. /\ UNCHANGED <<op, arg, task>>
        /\ pc' = pc \/ (pc[t] = "asleep" /\ pc' = [pc EXCEPT ![t] = "futex"])
        /\ hpc'[s] # "none" => task[s] = "active"
    BY <1>11 DEF Deliver, Caught, RunCallback, LeaveHandler, TaskFits
  <2> QED
    BY <2>1, TaskFitsFrame
<1>12. CASE UNCHANGED vars
  BY <1>12, TaskFitsFrame DEF vars, TaskFits
<1> QED
  BY <1>2, <1>3, <1>4, <1>5, <1>6, <1>7, <1>8, <1>9, <1>10, <1>11, <1>12
     DEF Next, Step, Handle

\* A creation picks a task that no other creation has.
LEMMA NextOwnCreations ==
    ASSUME TypeOK, ListInv, [Next]_vars
    PROVE  OwnCreations'
<1>1. /\ pc \in [Threads -> Labels]
      /\ op \in [Threads -> ListOps \cup {"withdraw", "final", "update", "kill"}]
      /\ arg \in [Threads -> Threads] /\ OwnCreations
      /\ \A t \in Threads : CallFits(t)
  BY DEF TypeOK, ListInv
<1> HIDE DEF TypeOK, ListInv
<1>2. ASSUME NEW t \in Threads, Call(t) PROVE OwnCreations'
  <2>1. PICK o \in ListOps \cup {"update", "kill"}, u \in Threads :
           /\ o = "create" => u \notin InCreation
           /\ op' = [op EXCEPT ![t] = o] /\ arg' = [arg EXCEPT ![t] = u]
    BY <1>2 DEF Call
  <2>2. \A s \in Threads \ {t} : op'[s] = op[s] /\ arg'[s] = arg[s] /\ pc'[s] = pc[s]
    BY <1>1, <1>2, <2>1 DEF Call, Goto
  <2>3. ASSUME NEW s \in Threads \ {t}, Creating(s)'
        PROVE  Creating(s) /\ (o = "create" => arg[s] # u)
    BY <2>1, <2>2, <2>3 DEF Creating, InCreation
  <2>4. op'[t] = o /\ arg'[t] = u
    BY <1>1, <2>1
  <2>5. Creating(t)' => o = "create"
    BY <2>4 DEF Creating
  <2>6. SUFFICES ASSUME NEW r \in Threads, NEW s \in Threads,
                        Creating(r)', Creating(s)', r # s
                 PROVE  arg'[r] # arg'[s]
    BY DEF OwnCreations
  <2>7. CASE r # t /\ s # t
    <3>1. Creating(r) /\ Creating(s)
      BY <2>3, <2>6, <2>7
    <3>2. arg[r] # arg[s]
      BY <1>1, <2>6, <3>1 DEF OwnCreations
    <3> QED
      BY <2>2, <2>7, <3>2
  <2>8. CASE r = t
    BY <2>2, <2>3, <2>4, <2>5, <2>6, <2>8
  <2>9. CASE s = t
    BY <2>2, <2>3, <2>4, <2>5, <2>6, <2>9
  <2> QED
    BY <2>7, <2>8, <2>9
<1>3. ASSUME arg' = arg, \A s \in Threads : Creating(s)' => Creating(s)
      PROVE  OwnCreations'
  BY <1>1, <1>3 DEF OwnCreations
<1> USE <1>1 DEF At, Goto, locks, meeting, tasks, Creating
<1>4. ASSUME NEW t \in Threads, NEW s \in Threads,
             \/ ReadRegistry(t) \/ ReleaseShared(t) \/ ClaimRegistry(t) \/ DrainReaders(t)
             \/ WriteRegistry(t) \/ Clone(t) \/ Retire(t) \/ Aim(t) \/ Shoot(t)
      PROVE  arg' = arg /\ (Creating(s)' => Creating(s))
  BY <1>4
     DEF ReadRegistry, ReleaseShared, ClaimRegistry, DrainReaders, WriteRegistry,
         Clone,
              Retire, Aim, Shoot
<1>5. ASSUME NEW t \in Threads, NEW s \in Threads,
             \/ LockThreadList(t) \/ AddWaiter(t) \/ FutexWait(t) \/ SubWaiter(t)
             \/ UnlockThreadList(t) \/ WakeOne(t)
      PROVE  arg' = arg /\ (Creating(s)' => Creating(s))
  BY <1>5
     DEF LockThreadList, AddWaiter, FutexWait, SubWaiter, UnlockThreadList, WakeOne
<1>6. ASSUME NEW t \in Threads, NEW s \in Threads,
             \/ Start(t) \/ Collect(t) \/ Signal(t) \/ Catch(t) \/ Broadcast(t)
             \/ Serialize(t) \/ Served(t) \/ RunSelf(t) \/ Leave(t)
      PROVE  arg' = arg /\ (Creating(s)' => Creating(s))
  BY <1>6
     DEF Start, Collect, Signal, Catch, Broadcast, Serialize, Served, RunSelf, Leave
<1>7. ASSUME NEW t \in Threads, NEW s \in Threads,
             Deliver(t) \/ Caught(t) \/ RunCallback(t) \/ LeaveHandler(t)
      PROVE  arg' = arg /\ (Creating(s)' => Creating(s))
  BY <1>7 DEF Deliver, Caught, RunCallback, LeaveHandler
<1>8. CASE UNCHANGED vars
  BY <1>8, <1>3 DEF vars
<1> HIDE DEF Creating
<1> QED
  BY <1>2, <1>3, <1>4, <1>5, <1>6, <1>7, <1>8 DEF Next, Step, Handle

\* The list lock is exact, the calls fit their places and the tasks their calls.
LEMMA NextListInv == TypeOK /\ ListInv /\ [Next]_vars => ListInv'
BY NextHolding, NextWaiters, NextCallFits, NextTaskFits, NextOwnCreations DEF ListInv

\* Who holds the list lock is alone in a meeting.
LEMMA PhaseOfOthers ==
    ASSUME NEW s \in Threads,
           pc'[s] = pc[s] \/ (pc[s] = "asleep" /\ pc'[s] \in {"futex", "sub"}),
           ~Holding(s)
    PROVE  Phase(s)' /\ pc[s] \notin Gathered /\ pc'[s] \notin Gathered
BY DEF Phase, Holding, Gathered

\* A step of the holder t: what its own phase says is all there is to show.
LEMMA OwnerStep ==
    ASSUME ListInv, NEW t \in Threads, Holding(t),
           \A s \in Threads \ {t} : pc'[s] = pc[s],
           Phase(t)', pc'[t] \notin Gathered => Quiet'
    PROVE  MeetingInv'
<1>1. \A s \in Threads \ {t} : Phase(s)' /\ pc'[s] \notin Gathered
  BY OneHolder, PhaseOfOthers
<1> QED
  BY <1>1 DEF MeetingInv

\* Before the holder t has gathered anybody, everything is quiet.
LEMMA QuietBefore ==
    ASSUME ListInv, MeetingInv, NEW t \in Threads, Holding(t), pc[t] \notin Gathered
    PROVE  Quiet
BY OneHolder, PhaseOfOthers DEF MeetingInv, Gathered, Holding

\* A step of a handler: somebody is gathering, and its phase is all there is to show.
LEMMA HandlerStep ==
    ASSUME ListInv, MeetingInv, ~Quiet, UNCHANGED <<op, task>>,
           \A s \in Threads : pc'[s] = pc[s] \/ (pc[s] = "asleep" /\ pc'[s] \in {"futex", "sub"}),
           \A t \in Threads : pc[t] \in Gathered /\ pc'[t] = pc[t] => Phase(t)'
    PROVE  MeetingInv'
<1>1. PICK t \in Threads : pc[t] \in Gathered
  BY DEF MeetingInv
<1>2. pc'[t] = pc[t] /\ Holding(t)
  BY <1>1 DEF Gathered, Holding
<1>3. \A s \in Threads \ {t} : Phase(s)'
  BY <1>2, OneHolder, PhaseOfOthers
<1> QED
  BY <1>1, <1>2, <1>3 DEF MeetingInv

\* Nothing a phase speaks about has changed.
LEMMA PhaseFrame ==
    ASSUME NEW s \in Threads, Phase(s), pc'[s] = pc[s], op'[s] = op[s],
           UNCHANGED <<hpc, meeting>>, Active' = Active
    PROVE  Phase(s)'
<1>1. Captives' = Captives /\ In("target")' = In("target") /\ In("call")' = In("call")
      /\ In("exit")' = In("exit")
  BY DEF Captives, In
<1>2. /\ action' = action /\ pending' = pending /\ sem' = sem /\ targetTid' = targetTid
      /\ callback' = callback /\ frame' = frame /\ ran' = ran /\ hpc' = hpc
  BY DEF meeting
<1>3. AllRan' = AllRan
  BY <1>2 DEF AllRan
<1>4. Gathering(s)' = Gathering(s)
  BY <1>1, <1>2 DEF Gathering
<1>5. Serving(s)' = Serving(s)
  BY <1>1, <1>2 DEF Serving
<1>6. Leaving(s)' = Leaving(s)
  BY <1>1, <1>2, <1>3 DEF Leaving
<1>7. Broadcasting(s)' = Broadcasting(s)
  BY <1>1, <1>2 DEF Broadcasting
<1> QED
  BY <1>2, <1>3, <1>4, <1>5, <1>6, <1>7 DEF Phase

\* The places of a rendezvous or a broadcast, where Phase says something.
InMeeting(t) == pc[t] \in Gathered \cup {"collect"} \/ (pc[t] = "unlock" /\ op[t] = "synccall")

\* The steps outside the meetings.
Apart(t) ==
    \/ Call(t) \/ ReadRegistry(t) \/ ReleaseShared(t) \/ ClaimRegistry(t)
    \/ DrainReaders(t) \/ WriteRegistry(t) \/ LockThreadList(t) \/ AddWaiter(t)
    \/ FutexWait(t) \/ SubWaiter(t) \/ UnlockThreadList(t) \/ WakeOne(t)
    \/ Clone(t) \/ Retire(t) \/ Aim(t) \/ Shoot(t)

\* A step outside the meetings reaches no thread in one, and only the holder of
\* the list lock changes which tasks run.
LEMMA ApartEffect ==
    ASSUME TypeOK, ListInv, NEW t \in Threads, Apart(t)
    PROVE  /\ UNCHANGED <<hpc, meeting>>
           /\ Active' = Active \/ Holding(t)
           /\ \A s \in Threads : InMeeting(s)' => InMeeting(s) /\ pc'[s] = pc[s] /\ op'[s] = op[s]
           /\ \A s \in Threads : InMeeting(s) /\ pc[s] # "unlock" => InMeeting(s)'
           /\ ~InMeeting(t)'
<1>1. /\ pc \in [Threads -> Labels]
      /\ op \in [Threads -> ListOps \cup {"withdraw", "final", "update", "kill"}]
      /\ arg \in [Threads -> Threads]
      /\ task \in [Threads -> {"none", "linked", "active", "committed"}]
      /\ CallFits(t) /\ TaskFits(t)
  BY DEF TypeOK, ListInv
<1> HIDE DEF TypeOK, ListInv
<1> USE <1>1 DEF At, Goto, locks, tasks, InMeeting, Gathered
<1>2. CASE \/ Call(t) \/ ReadRegistry(t) \/ ReleaseShared(t) \/ ClaimRegistry(t)
           \/ DrainReaders(t) \/ Retire(t) \/ Aim(t) \/ Shoot(t)
  BY <1>2
     DEF Call, Ask, ReadRegistry, ReleaseShared, ClaimRegistry, DrainReaders, Retire,
         Aim, Shoot, Active, CallFits
<1>3. CASE \/ LockThreadList(t) \/ AddWaiter(t) \/ FutexWait(t) \/ SubWaiter(t) \/ UnlockThreadList(t)
  BY <1>3
     DEF LockThreadList, Inside, AddWaiter, FutexWait, SubWaiter, UnlockThreadList,
         Active
<1>4. CASE WakeOne(t)
  <2>1. Active' = Active
    BY <1>4 DEF WakeOne, Active, TaskFits
  <2> QED
    BY <1>4, <2>1 DEF WakeOne
<1>5. CASE Clone(t)
  BY <1>5 DEF Clone, Holding, CallFits
<1>6. CASE WriteRegistry(t)
  BY <1>6 DEF WriteRegistry, Holding, CallFits, Active
<1> QED
  BY <1>2, <1>3, <1>4, <1>5, <1>6 DEF Apart

\* A step outside the meetings leaves the invariant of the meetings alone.
LEMMA ApartMeetingInv ==
    ASSUME TypeOK, ListInv, MeetingInv, NEW t \in Threads, Apart(t)
    PROVE  MeetingInv'
<1>1. ASSUME NEW s \in Threads PROVE Phase(s)'
  <2>1. CASE InMeeting(s)'
    <3>1. InMeeting(s) /\ pc'[s] = pc[s] /\ op'[s] = op[s] /\ s # t /\ UNCHANGED <<hpc, meeting>>
      BY <2>1, ApartEffect
    <3>2. Holding(s)
      BY <3>1 DEF InMeeting, Holding, Gathered
    <3>3. Active' = Active
      BY <3>1, <3>2, ApartEffect, OneHolder
    <3> QED
      BY <3>1, <3>3, PhaseFrame DEF MeetingInv
  <2>2. CASE ~InMeeting(s)'
    BY <2>2 DEF Phase, InMeeting, Gathered
  <2> QED
    BY <2>1, <2>2
<1>2. ASSUME \A s \in Threads : pc'[s] \notin Gathered PROVE Quiet'
  <2>1. \A s \in Threads : pc[s] \notin Gathered
    BY <1>2, ApartEffect DEF InMeeting, Gathered
  <2>2. Quiet
    BY <2>1 DEF MeetingInv
  <2>3. UNCHANGED <<hpc, meeting>>
    BY ApartEffect
  <2> QED
    BY <2>2, <2>3 DEF Quiet, Captives, meeting
<1> QED
  BY <1>1, <1>2 DEF MeetingInv

\* The sets of the handlers, and how many are in them.
LEMMA InTypes ==
    ASSUME hpc \in [Threads -> {"none", "target", "call", "exit"}]
    PROVE  /\ \A h : In(h) \subseteq Threads /\ Cardinality(In(h)) \in Nat
           /\ Captives \subseteq Threads /\ Cardinality(Captives) \in Nat
           /\ Captives = In("target") \cup In("call") \cup In("exit")
<1>1. \A h : In(h) \subseteq Threads
  BY DEF In
<1>2. Captives \subseteq Threads
  BY DEF Captives
<1>3. Captives = In("target") \cup In("call") \cup In("exit")
  BY DEF Captives, In
<1> QED
  BY <1>1, <1>2, <1>3, FiniteThreads

\* The holder of the list lock sets the records of a meeting up.
LEMMA StartMeetingInv ==
    ASSUME TypeOK, ListInv, MeetingInv, NEW t \in Threads, Start(t)
    PROVE  MeetingInv'
<1>1. Holding(t) /\ pc[t] = "start" /\ pc[t] \notin Gathered
  BY DEF Start, At, Holding, Gathered
<1>2. Quiet
  BY <1>1, QuietBefore
<1>3. /\ pc' \in {[pc EXCEPT ![t] = "collect"], [pc EXCEPT ![t] = "unlock"]}
      /\ pc'[t] = "unlock" => op[t] = "membarrier"
      /\ pc'[t] = "collect" /\ op[t] = "synccall" => action' = "handler" /\ callback' = "user"
      /\ pc'[t] = "collect" /\ op[t] = "membarrier" => action' = "broadcast"
      /\ frame' = [NoFrame EXCEPT !.run = "user"] /\ ran' = [u \in Threads |-> 0]
      /\ op' = op /\ hpc' = hpc /\ pending' = pending
  BY DEF Start, Goto, tasks, TypeOK
<1>4. pc'[t] \in {"collect", "unlock"} /\ \A s \in Threads \ {t} : pc'[s] = pc[s]
  BY <1>3 DEF TypeOK
<1>5. Phase(t)'
  BY <1>3, <1>4 DEF Phase
<1>6. Quiet'
  <2>1. \A s \in Semaphores : sem'[s] = 0
    BY <1>2 DEF Start, Quiet, TypeOK, Semaphores
  <2>2. frame'.todo = {}
    BY <1>3 DEF NoFrame
  <2> QED
    BY <1>2, <1>3, <2>1, <2>2 DEF Quiet, Captives
<1> QED
  BY <1>1, <1>4, <1>5, <1>6, OwnerStep

\* The tasks to signal are all the others.
LEMMA CollectMeetingInv ==
    ASSUME TypeOK, ListInv, MeetingInv, NEW t \in Threads, Collect(t)
    PROVE  MeetingInv'
<1>1. Holding(t) /\ pc[t] = "collect" /\ pc[t] \notin Gathered /\ op[t] \in Meetings
  BY DEF Collect, At, Holding, Gathered, ListInv, CallFits
<1>2. Quiet /\ Phase(t)
  BY <1>1, QuietBefore DEF MeetingInv
<1>3. /\ frame.todo = {} /\ frame.count = 0 /\ frame.left = 0 /\ frame.run = "user"
      /\ frame \in Frames
      /\ \A u \in Threads : ran[u] = 0
      /\ op[t] = "synccall" => action = "handler" /\ callback = "user"
      /\ op[t] = "membarrier" => action = "broadcast"
      /\ pending = {} /\ Captives = {}
      /\ sem["target"] = 0 /\ sem["caller"] = 0 /\ sem["exit"] = 0 /\ sem["barrier"] = 0
  BY <1>1, <1>2 DEF Phase, Quiet, NoFrame, TypeOK, Semaphores
<1>4. /\ UNCHANGED <<action, pending, sem, targetTid, callback, ran, hpc, op, task>>
      /\ pc' \in {[pc EXCEPT ![t] = "signal"], [pc EXCEPT ![t] = "serial"]}
      /\ pc'[t] = "signal" => frame' = [frame EXCEPT !.todo = Active \ {t}]
      /\ pc'[t] = "serial" => frame' = [frame EXCEPT !.run = "dummy"]
  BY DEF Collect, Goto, tasks, TypeOK
<1>5. pc'[t] \in {"signal", "serial"} /\ \A s \in Threads \ {t} : pc'[s] = pc[s]
  BY <1>4 DEF TypeOK
<1>6. /\ Captives' = {} /\ In("target")' = {} /\ In("call")' = {} /\ In("exit")' = {}
      /\ Active' = Active /\ \A u \in Threads : hpc[u] = "none"
  BY <1>3, <1>4 DEF Captives, In, Active
<1>7. CASE pc'[t] = "signal"
  <2>1. /\ frame'.todo = Active \ {t} /\ frame'.count = 0 /\ frame'.left = 0
        /\ frame'.run = "user"
    BY <1>3, <1>4, <1>7 DEF Frames
  <2>2. ASSUME op[t] = "synccall" PROVE Phase(t)'
    <3>1. Gathering(t)'
      BY <1>3, <1>4, <1>6, <1>7, <2>1, <2>2, CardEmpty DEF Gathering
    <3> QED
      BY <1>4, <1>7, <2>2, <3>1 DEF Phase
  <2>3. ASSUME op[t] = "membarrier" PROVE Phase(t)'
    <3>1. Broadcasting(t)'
      BY <1>3, <1>4, <1>6, <1>7, <2>1, <2>3, CardEmpty DEF Broadcasting
    <3> QED
      BY <1>4, <1>7, <2>3, <3>1 DEF Phase
  <2>4. Phase(t)'
    BY <1>1, <2>2, <2>3 DEF Meetings
  <2> QED
    BY <1>1, <1>5, <1>7, <2>4, OwnerStep DEF Gathered
<1>8. CASE pc'[t] = "serial"
  <2>1. /\ frame'.todo = {} /\ frame'.count = 0 /\ frame'.left = 0
        /\ frame'.run = "dummy"
    BY <1>3, <1>4, <1>8 DEF Frames
  <2>2. ASSUME op[t] = "synccall" PROVE Phase(t)'
    <3>1. Serving(t)'
      BY <1>3, <1>4, <1>6, <1>8, <2>1, <2>2, CardEmpty DEF Serving
    <3> QED
      BY <1>4, <1>8, <2>2, <3>1 DEF Phase
  <2>3. ASSUME op[t] = "membarrier" PROVE Phase(t)'
    <3>1. Broadcasting(t)'
      BY <1>3, <1>4, <1>6, <1>8, <2>1, <2>3, CardEmpty DEF Broadcasting
    <3> QED
      BY <1>4, <1>8, <2>3, <3>1 DEF Phase
  <2>4. Phase(t)'
    BY <1>1, <2>2, <2>3 DEF Meetings
  <2> QED
    BY <1>1, <1>5, <1>8, <2>4, OwnerStep DEF Gathered
<1> QED
  BY <1>5, <1>7, <1>8

\* A target is signalled, or the round is over, or it has failed.
LEMMA SignalMeetingInv ==
    ASSUME TypeOK, ListInv, MeetingInv, NEW t \in Threads, Signal(t)
    PROVE  MeetingInv'
<1>1. Holding(t) /\ pc[t] = "signal" /\ op[t] = "synccall"
  BY DEF Signal, At, Holding
<1>2. Gathering(t)
  BY <1>1 DEF MeetingInv, Phase
<1>3. UNCHANGED <<action, sem, ran, hpc, op, task>>
  BY DEF Signal, Goto, tasks
<1>4. /\ Captives' = Captives /\ Active' = Active
      /\ In("target")' = In("target") /\ In("call")' = In("call") /\ In("exit")' = In("exit")
      /\ In("target") \subseteq Threads
  BY <1>3 DEF Captives, In, Active
<1>5. frame \in Frames /\ pc \in [Threads -> Labels]
  BY DEF TypeOK
<1>6. CASE pc' = [pc EXCEPT ![t] = "catch"]
  <2>1. PICK u \in frame.todo :
           /\ frame' = [frame EXCEPT !.todo = @ \ {u}] /\ targetTid' = u
           /\ pending' = pending \cup {u} /\ callback' = callback
    BY <1>5, <1>6 DEF Signal, Goto
  <2>2. /\ frame'.todo = frame.todo \ {u} /\ frame'.count = frame.count
        /\ frame'.run = frame.run
    BY <1>5, <2>1 DEF Frames
  <2>3. pending' = {u} /\ Cardinality(pending') = 1
    <3>1. pending' = {u}
      BY <1>1, <1>2, <2>1 DEF Gathering
    <3> QED
      BY <3>1, FS_Singleton
  <2>4. pc'[t] = "catch"
    BY <1>5, <1>6
  <2>5. Gathering(t)'
    BY <1>1, <1>2, <1>3, <1>4, <2>1, <2>2, <2>3, <2>4 DEF Gathering
  <2>6. Phase(t)'
    BY <1>1, <1>3, <2>4, <2>5 DEF Phase
  <2> QED
    BY <1>1, <1>5, <1>6, <2>4, <2>6, OwnerStep DEF Gathered
<1>7. CASE pc' = [pc EXCEPT ![t] = "serial"]
  <2>1. /\ pc'[t] = "serial" /\ pending' = pending
        /\ frame'.todo = {} /\ frame'.left = frame.count /\ frame'.count = frame.count
        /\ \/ frame'.run = "dummy" /\ callback' = "dummy"
           \/ frame'.run = frame.run /\ callback' = callback /\ frame.todo = {}
    BY <1>5, <1>7 DEF Signal, Goto, Frames
  <2>2. Captives = In("target") /\ \A u \in Threads : hpc[u] # "exit"
    <3>1. \A u \in Threads : hpc[u] # "exit" /\ hpc[u] # "call"
      BY <1>2 DEF Gathering, In
    <3> QED
      BY <3>1 DEF Captives, In, TypeOK
  <2>3. Serving(t)'
    BY <1>1, <1>2, <1>3, <1>4, <2>1, <2>2 DEF Gathering, Serving
  <2>4. Phase(t)'
    BY <1>1, <1>3, <2>1, <2>3 DEF Phase
  <2> QED
    BY <1>1, <1>5, <1>7, <2>1, <2>4, OwnerStep DEF Gathered
<1> QED
  BY <1>6, <1>7 DEF Signal, Goto

\* One more target has been caught.
LEMMA CatchMeetingInv ==
    ASSUME TypeOK, ListInv, MeetingInv, NEW t \in Threads, Catch(t)
    PROVE  MeetingInv'
<1>1. Holding(t) /\ pc[t] = "catch" /\ op[t] = "synccall"
  BY DEF Catch, At, Holding, ListInv, CallFits
<1>2. Gathering(t)
  BY <1>1 DEF MeetingInv, Phase
<1>3. /\ UNCHANGED <<action, pending, targetTid, callback, ran, hpc, op, task>>
      /\ pc' = [pc EXCEPT ![t] = "signal"]
      /\ sem["caller"] > 0 /\ sem' = [sem EXCEPT !["caller"] = @ - 1]
      /\ frame' = [frame EXCEPT !.count = @ + 1]
  BY DEF Catch, Take, Goto, tasks
<1>4. /\ Active' = Active
      /\ In("target")' = In("target") /\ In("call")' = In("call") /\ In("exit")' = In("exit")
  BY <1>3 DEF In, Active
<1>5. /\ frame'.count = frame.count + 1 /\ frame'.todo = frame.todo /\ frame'.run = frame.run
      /\ pc'[t] = "signal" /\ \A s \in Threads \ {t} : pc'[s] = pc[s]
  BY <1>3 DEF TypeOK, Frames
<1>6. pending = {} /\ sem["caller"] = 1
  <2>1. Cardinality(pending) \in Nat /\ pending \in SUBSET Threads /\ sem["caller"] \in Nat
    BY FiniteThreads DEF TypeOK, Semaphores
  <2>2. sem["caller"] + Cardinality(pending) = 1
    BY <1>1, <1>2 DEF Gathering
  <2>3. Cardinality(pending) = 0 /\ sem["caller"] = 1
    BY <1>3, <2>1, <2>2
  <2> QED
    BY <2>1, <2>3, CardEmpty
<1>7. /\ sem'["caller"] = 0 /\ sem'["target"] = sem["target"] /\ sem'["exit"] = sem["exit"]
      /\ sem'["barrier"] = sem["barrier"]
  BY <1>3, <1>6 DEF TypeOK, Semaphores
<1>8. Cardinality(In("target")) = frame.count + 1
  BY <1>1, <1>2, <1>6, CardEmpty, FiniteThreads DEF Gathering, In
<1>9. Gathering(t)'
  BY <1>1, <1>2, <1>3, <1>4, <1>5, <1>6, <1>7, <1>8 DEF Gathering
<1>10. Phase(t)'
  BY <1>1, <1>3, <1>5, <1>9 DEF Phase
<1> QED
  BY <1>1, <1>5, <1>10, OwnerStep DEF Gathered

=============================================================================
