--------------------------- MODULE SynccallProofs ---------------------------
(***************************************************************************)
(* Theorems about the all-thread call, for every finite set of tasks and   *)
(* every number of calls.                                                  *)
(***************************************************************************)
EXTENDS SynccallLemmas

\* A broadcast signals a task, or finds that the signal cannot be sent.
LEMMA BroadcastMeetingInv ==
    ASSUME TypeOK, ListInv, MeetingInv, NEW t \in Threads, Broadcast(t)
    PROVE  MeetingInv'
<1>1. Holding(t) /\ pc[t] = "signal" /\ op[t] = "membarrier"
  BY DEF Broadcast, At, Holding
<1>2. Broadcasting(t)
  BY <1>1 DEF MeetingInv, Phase
<1>3. UNCHANGED <<hpc, action, sem, op, task>>
  BY DEF Broadcast, tasks
<1>4. Captives' = Captives /\ Active' = Active
  BY <1>3 DEF Captives, Active
<1>5. frame \in Frames /\ pc \in [Threads -> Labels] /\ pending \subseteq Threads
      /\ frame.todo \subseteq Threads /\ frame.left \in Nat /\ sem["barrier"] \in Nat
      /\ Cardinality(pending) \in Nat
  BY FiniteThreads DEF TypeOK, Frames, Semaphores
<1>6. ASSUME NEW u \in frame.todo, pc' = pc, pending' = pending \cup {u},
             frame' = [frame EXCEPT !.todo = @ \ {u}, !.left = @ + 1]
      PROVE  Broadcasting(t)' /\ pc'[t] = "signal"
  <2>1. frame'.todo = frame.todo \ {u} /\ frame'.left = frame.left + 1
    BY <1>5, <1>6 DEF Frames
  <2>2. u \notin pending /\ u \in Threads
    BY <1>2, <1>5 DEF Broadcasting
  <2>3. Cardinality(pending') = Cardinality(pending) + 1
    BY <1>5, <1>6, <2>2, CardAdd
  <2> QED
    BY <1>1, <1>2, <1>3, <1>4, <1>5, <1>6, <2>1, <2>2, <2>3 DEF Broadcasting
<1>7. ASSUME NEW u \in frame.todo, pc' = pc, pending' = pending,
             frame' = [frame EXCEPT !.todo = @ \ {u}]
      PROVE  Broadcasting(t)' /\ pc'[t] = "signal"
  <2>1. frame'.todo = frame.todo \ {u} /\ frame'.left = frame.left
    BY <1>5, <1>7 DEF Frames
  <2> QED
    BY <1>1, <1>2, <1>3, <1>4, <1>5, <1>7, <2>1 DEF Broadcasting
<1>8. ASSUME frame.todo = {}, pc' = [pc EXCEPT ![t] = "serial"], frame' = frame,
             pending' = pending
      PROVE  Broadcasting(t)' /\ pc'[t] = "serial"
  BY <1>2, <1>3, <1>4, <1>5, <1>8 DEF Broadcasting
<1>9. Broadcasting(t)' /\ pc'[t] \in {"signal", "serial"}
  BY <1>6, <1>7, <1>8 DEF Broadcast
<1>10. Phase(t)' /\ \A s \in Threads \ {t} : pc'[s] = pc[s]
  <2>1. \A s \in Threads \ {t} : pc'[s] = pc[s]
    BY <1>5 DEF Broadcast
  <2> QED
    BY <1>1, <1>3, <1>9, <2>1 DEF Phase
<1> QED
  BY <1>1, <1>9, <1>10, OwnerStep DEF Gathered

\* The numbers and the sets in a rendezvous.
LEMMA Numbers ==
    ASSUME TypeOK
    PROVE  /\ frame \in Frames /\ frame.left \in Nat /\ frame.count \in Nat
           /\ pc \in [Threads -> Labels] /\ pending \in SUBSET Threads
           /\ sem["target"] \in Nat /\ sem["caller"] \in Nat /\ sem["exit"] \in Nat
           /\ sem["barrier"] \in Nat /\ sem \in [Semaphores -> Nat]
           /\ Cardinality(pending) \in Nat /\ Cardinality(Captives) \in Nat
           /\ Cardinality(In("target")) \in Nat /\ Cardinality(In("call")) \in Nat
BY InTypes, FiniteThreads DEF TypeOK, Frames, Semaphores

\* The next target is let into the callback, or an answer to the broadcast is taken.
LEMMA SerializeMeetingInv ==
    ASSUME TypeOK, ListInv, MeetingInv, NEW t \in Threads, Serialize(t)
    PROVE  MeetingInv'
<1>1. Holding(t) /\ pc[t] = "serial" /\ op[t] \in Meetings
  BY DEF Serialize, At, Holding, ListInv, CallFits
<1>2. Phase(t)
  BY DEF MeetingInv
<1>3. UNCHANGED <<hpc, pending, targetTid, callback, ran, op, task>>
  BY DEF Serialize, Goto, tasks
<1>4. /\ Captives' = Captives /\ Active' = Active
      /\ In("target")' = In("target") /\ In("call")' = In("call") /\ In("exit")' = In("exit")
  BY <1>3 DEF Captives, In, Active
<1>5. /\ frame \in Frames /\ frame.left \in Nat /\ frame.count \in Nat
      /\ pc \in [Threads -> Labels] /\ pending \in SUBSET Threads
      /\ sem \in [Semaphores -> Nat] /\ sem["barrier"] \in Nat /\ Cardinality(pending) \in Nat
      /\ sem["target"] \in Nat
  BY Numbers
<1>6. CASE frame.left > 0 /\ op[t] = "synccall"
  <2>1. /\ pc' = [pc EXCEPT ![t] = "served"] /\ UNCHANGED <<action, frame>>
        /\ sem' = [sem EXCEPT !["target"] = @ + 1]
    BY <1>1, <1>6 DEF Serialize, Post, Goto
  <2>2. /\ sem'["target"] = sem["target"] + 1 /\ sem'["caller"] = sem["caller"]
        /\ sem'["exit"] = sem["exit"] /\ sem'["barrier"] = sem["barrier"]
        /\ pc'[t] = "served" /\ \A s \in Threads \ {t} : pc'[s] = pc[s]
    BY <1>5, <2>1 DEF Semaphores
  <2>3. Serving(t)
    BY <1>1, <1>2, <1>6 DEF Phase
  <2>4. Serving(t)'
    BY <1>1, <1>3, <1>4, <1>5, <2>1, <2>2, <2>3, CardEmpty DEF Serving
  <2>5. Phase(t)'
    BY <1>3, <1>6, <2>2, <2>4 DEF Phase
  <2> QED
    BY <1>1, <2>2, <2>5, OwnerStep DEF Gathered
<1>7. CASE frame.left > 0 /\ op[t] = "membarrier"
  <2>1. /\ pc' = pc /\ action' = action /\ sem["barrier"] > 0
        /\ sem' = [sem EXCEPT !["barrier"] = @ - 1] /\ frame' = [frame EXCEPT !.left = @ - 1]
    BY <1>1, <1>7 DEF Serialize, Take
  <2>2. /\ sem'["target"] = sem["target"] /\ sem'["caller"] = sem["caller"]
        /\ sem'["exit"] = sem["exit"] /\ sem'["barrier"] = sem["barrier"] - 1
        /\ frame'.left = frame.left - 1 /\ frame'.todo = frame.todo
    BY <1>5, <2>1 DEF Semaphores, Frames
  <2>3. Broadcasting(t)
    BY <1>1, <1>2, <1>7 DEF Phase
  <2>4. Broadcasting(t)'
    BY <1>1, <1>3, <1>4, <1>5, <2>1, <2>2, <2>3 DEF Broadcasting
  <2>5. Phase(t)'
    BY <1>1, <1>3, <1>7, <2>1, <2>4 DEF Phase
  <2> QED
    BY <1>1, <2>1, <2>5, OwnerStep DEF Gathered
<1>8. CASE frame.left = 0 /\ op[t] = "synccall"
  <2>1. pc' = [pc EXCEPT ![t] = "self"] /\ UNCHANGED <<sem, frame>>
    BY <1>1, <1>8 DEF Serialize, Goto
  <2>2. pc'[t] = "self" /\ \A s \in Threads \ {t} : pc'[s] = pc[s]
    BY <1>5, <2>1
  <2>3. Serving(t)
    BY <1>1, <1>2, <1>8 DEF Phase
  <2>4. Serving(t)'
    BY <1>1, <1>3, <1>4, <1>8, <2>1, <2>2, <2>3 DEF Serving
  <2>5. Phase(t)'
    BY <1>3, <1>8, <2>2, <2>4 DEF Phase
  <2> QED
    BY <1>1, <2>2, <2>5, OwnerStep DEF Gathered
<1>9. CASE frame.left = 0 /\ op[t] = "membarrier"
  <2>1. pc' = [pc EXCEPT ![t] = "unlock"] /\ UNCHANGED <<sem, frame>>
    BY <1>1, <1>9 DEF Serialize, Goto
  <2>2. pc'[t] = "unlock" /\ \A s \in Threads \ {t} : pc'[s] = pc[s]
    BY <1>5, <2>1
  <2>3. Broadcasting(t)
    BY <1>1, <1>2, <1>9 DEF Phase
  <2>4. Cardinality(pending) = 0 /\ sem["barrier"] = 0
    BY <1>5, <1>9, <2>3 DEF Broadcasting
  <2>5. pending = {}
    BY <1>5, <2>4, CardEmpty
  <2>6. Quiet'
    BY <1>1, <1>3, <1>4, <2>1, <2>3, <2>4, <2>5 DEF Quiet, Broadcasting, Semaphores
  <2>7. Phase(t)'
    BY <1>3, <1>9, <2>2 DEF Phase
  <2> QED
    BY <1>1, <2>2, <2>6, <2>7, OwnerStep
<1> QED
  BY <1>1, <1>5, <1>6, <1>7, <1>8, <1>9 DEF Meetings

\* A target has run the callback.
LEMMA ServedMeetingInv ==
    ASSUME TypeOK, ListInv, MeetingInv, NEW t \in Threads, Served(t)
    PROVE  MeetingInv'
<1>1. Holding(t) /\ pc[t] = "served" /\ op[t] = "synccall"
  BY DEF Served, At, Holding, ListInv, CallFits
<1>2. Serving(t)
  BY <1>1 DEF MeetingInv, Phase
<1>3. /\ UNCHANGED <<hpc, action, pending, targetTid, callback, ran, op, task>>
      /\ pc' = [pc EXCEPT ![t] = "serial"]
      /\ sem["caller"] > 0 /\ sem' = [sem EXCEPT !["caller"] = @ - 1]
      /\ frame' = [frame EXCEPT !.left = @ - 1]
  BY DEF Served, Take, Goto, tasks
<1>4. /\ Captives' = Captives /\ Active' = Active
      /\ In("target")' = In("target") /\ In("call")' = In("call") /\ In("exit")' = In("exit")
      /\ In("call") \in SUBSET Threads
  BY <1>3 DEF Captives, In, Active
<1>5. /\ sem["target"] = 0 /\ sem["caller"] = 1 /\ Cardinality(In("call")) = 0
  BY <1>1, <1>2, <1>3, Numbers DEF Serving
<1>6. In("call") = {}
  BY <1>4, <1>5, CardEmpty
<1>7. /\ sem'["target"] = 0 /\ sem'["caller"] = 0 /\ sem'["exit"] = sem["exit"]
      /\ sem'["barrier"] = sem["barrier"]
  BY <1>3, <1>5, Numbers DEF Semaphores
<1>8. /\ frame'.left = frame.left - 1 /\ frame'.todo = frame.todo /\ frame'.run = frame.run
      /\ frame'.count = frame.count
      /\ pc'[t] = "serial" /\ \A s \in Threads \ {t} : pc'[s] = pc[s]
  BY <1>3, Numbers DEF Frames
<1>9. Cardinality(In("target")) = frame'.left
  BY <1>1, <1>2, <1>5, <1>8, Numbers DEF Serving
<1>10. Serving(t)'
  BY <1>2, <1>3, <1>4, <1>6, <1>7, <1>8, <1>9 DEF Serving
<1>11. Phase(t)'
  BY <1>1, <1>3, <1>8, <1>10 DEF Phase
<1> QED
  BY <1>1, <1>8, <1>11, OwnerStep DEF Gathered

\* The caller runs the callback after all its targets.
LEMMA RunSelfMeetingInv ==
    ASSUME TypeOK, ListInv, MeetingInv, NEW t \in Threads, RunSelf(t)
    PROVE  MeetingInv'
<1>1. Holding(t) /\ pc[t] = "self" /\ op[t] = "synccall"
  BY DEF RunSelf, At, Holding, ListInv, CallFits
<1>2. Serving(t)
  BY <1>1 DEF MeetingInv, Phase
<1>3. /\ UNCHANGED <<hpc, action, pending, op, task>>
      /\ pc' = [pc EXCEPT ![t] = "leave"]
      /\ sem' = [sem EXCEPT !["exit"] = @ + frame.count]
      /\ frame' = [frame EXCEPT !.left = frame.count]
      /\ ran' = IF frame.run = "user" THEN [ran EXCEPT ![t] = @ + 1] ELSE ran
  BY DEF RunSelf, Goto, tasks
<1>4. /\ Captives' = Captives /\ Active' = Active /\ In("exit")' = In("exit")
  BY <1>3 DEF Captives, In, Active
<1>5. In("target") = {} /\ In("call") = {}
  <2>1. In("target") \in SUBSET Threads /\ Cardinality(In("target")) = 0
    BY <1>1, <1>2 DEF In, Serving
  <2> QED
    BY <1>1, <1>2, <2>1, CardEmpty DEF Serving
<1>6. Captives = In("exit")
  BY <1>5, InTypes DEF TypeOK
<1>7. /\ sem'["target"] = 0 /\ sem'["caller"] = 0 /\ sem'["exit"] = frame.count
      /\ sem'["barrier"] = 0
  BY <1>1, <1>2, <1>3, Numbers DEF Serving, Semaphores
<1>8. /\ frame'.left = frame.count /\ frame'.todo = frame.todo
      /\ pc'[t] = "leave" /\ \A s \in Threads \ {t} : pc'[s] = pc[s]
  BY <1>3, Numbers DEF Frames
<1>9. AllRan'
  <2>1. CASE frame.run = "user"
    <3>1. t \notin Captives /\ Captives = Active \ {t} /\ ran \in [Threads -> Nat]
      BY <1>2, <2>1 DEF Serving, TypeOK
    <3>2. ran[t] = 0
      BY <1>2, <2>1, <3>1 DEF Serving, Captives
    <3>3. \A u \in Active \ {t} : u \in Threads /\ hpc[u] = "exit" /\ ran[u] = 1
      BY <1>2, <1>6, <2>1, <3>1 DEF Serving, In
    <3>4. \A u \in Active : ran'[u] = 1
      BY <1>3, <2>1, <3>1, <3>2, <3>3
    <3> QED
      BY <1>4, <3>4 DEF AllRan
  <2>2. CASE frame.run # "user"
    BY <1>2, <1>3, <2>2 DEF Serving, AllRan
  <2> QED
    BY <2>1, <2>2
<1>10. Leaving(t)'
  BY <1>2, <1>3, <1>4, <1>6, <1>7, <1>8, <1>9, Numbers DEF Leaving, Serving
<1>11. Phase(t)'
  BY <1>8, <1>10 DEF Phase
<1> QED
  BY <1>1, <1>8, <1>11, OwnerStep DEF Gathered

\* A target has left, or all of them have.
LEMMA LeaveMeetingInv ==
    ASSUME TypeOK, ListInv, MeetingInv, NEW t \in Threads, Leave(t)
    PROVE  MeetingInv'
<1>1. Holding(t) /\ pc[t] = "leave" /\ op[t] = "synccall"
  BY DEF Leave, At, Holding, ListInv, CallFits
<1>2. Leaving(t)
  BY <1>1 DEF MeetingInv, Phase
<1>3. UNCHANGED <<hpc, pending, ran, op, task>>
  BY DEF Leave, Goto, tasks
<1>4. Captives' = Captives /\ Active' = Active /\ In("exit")' = In("exit") /\ AllRan' = AllRan
  BY <1>3 DEF Captives, In, Active, AllRan
<1>5. CASE frame.left > 0
  <2>1. /\ pc' = pc /\ sem["caller"] > 0 /\ sem' = [sem EXCEPT !["caller"] = @ - 1]
        /\ frame' = [frame EXCEPT !.left = @ - 1]
    BY <1>5 DEF Leave, Take
  <2>2. /\ sem'["target"] = sem["target"] /\ sem'["caller"] = sem["caller"] - 1
        /\ sem'["exit"] = sem["exit"] /\ sem'["barrier"] = sem["barrier"]
        /\ frame'.left = frame.left - 1 /\ frame'.todo = frame.todo
    BY <2>1, Numbers DEF Semaphores, Frames
  <2>3. Leaving(t)'
    BY <1>2, <1>3, <1>4, <2>2, Numbers DEF Leaving
  <2>4. Phase(t)'
    BY <1>1, <2>1, <2>3 DEF Phase
  <2> QED
    BY <1>1, <2>1, <2>4, OwnerStep DEF Gathered
<1>6. CASE ~(frame.left > 0)
  <2>1. pc' = [pc EXCEPT ![t] = "unlock"] /\ UNCHANGED <<sem, frame>> /\ frame.left = 0
    BY <1>6 DEF Leave, Goto
  <2>2. pc'[t] = "unlock" /\ \A s \in Threads \ {t} : pc'[s] = pc[s]
    BY <2>1, Numbers
  <2>3. Cardinality(Captives) = 0 /\ sem["caller"] = 0 /\ Captives \in SUBSET Threads
    BY <1>2, <2>1, Numbers DEF Leaving, Captives
  <2>4. Captives = {}
    BY <2>3, CardEmpty
  <2>5. Quiet'
    BY <1>2, <1>3, <1>4, <2>1, <2>3, <2>4 DEF Quiet, Leaving, Semaphores
  <2>6. Phase(t)'
    BY <1>2, <1>3, <1>4, <2>2 DEF Phase, Leaving
  <2> QED
    BY <1>1, <2>2, <2>5, <2>6, OwnerStep
<1> QED
  BY <1>5, <1>6

\* A thread goes on in its handler.
LEMMA MoveIn ==
    ASSUME TypeOK, NEW u \in Threads, NEW h \in {"none", "target", "call", "exit"},
           hpc' = [hpc EXCEPT ![u] = h]
    PROVE  /\ \A k : In(k)' = IF k = h THEN In(k) \cup {u} ELSE In(k) \ {u}
           /\ Captives' = IF h = "none" THEN Captives \ {u} ELSE Captives \cup {u}
<1>1. \A s \in Threads : hpc'[s] = IF s = u THEN h ELSE hpc[s]
  BY DEF TypeOK
<1>2. ASSUME NEW k PROVE In(k)' = IF k = h THEN In(k) \cup {u} ELSE In(k) \ {u}
  BY <1>1 DEF In
<1>3. Captives' = IF h = "none" THEN Captives \ {u} ELSE Captives \cup {u}
  BY <1>1 DEF Captives
<1> QED
  BY <1>2, <1>3

\* A signal is delivered.
LEMMA DeliverMeetingInv ==
    ASSUME TypeOK, ListInv, MeetingInv, NEW u \in Threads, Deliver(u)
    PROVE  MeetingInv'
<1>1. /\ u \in pending /\ pending' = pending \ {u}
      /\ UNCHANGED <<action, targetTid, callback, frame, ran, op, task>>
      /\ \A s \in Threads : pc'[s] = pc[s] \/ (pc[s] = "asleep" /\ pc'[s] \in {"futex", "sub"})
  BY DEF Deliver, tasks, TypeOK
<1>2. ~Quiet /\ Active' = Active
  BY <1>1 DEF Quiet, Active
<1>3. ASSUME NEW t \in Threads, pc[t] \in Gathered, pc'[t] = pc[t] PROVE Phase(t)'
  <2>1. Phase(t) /\ CallFits(t)
    BY DEF MeetingInv, ListInv
  <2>2. \/ op[t] = "synccall" /\ pc[t] = "catch"
        \/ op[t] = "membarrier" /\ pc[t] \in {"signal", "serial"}
    BY <1>1, <1>3, <2>1
       DEF Phase, CallFits, Gathered, Gathering, Serving, Leaving, Meetings
  <2>3. CASE op[t] = "synccall" /\ pc[t] = "catch"
    <3>1. Gathering(t)
      BY <2>1, <2>3 DEF Phase
    <3>2. pending = {u} /\ targetTid = u /\ pending' = {} /\ action = "handler"
      BY <1>1, <2>3, <3>1 DEF Gathering
    <3>3. hpc' = [hpc EXCEPT ![u] = "target"] /\ sem' = [sem EXCEPT !["caller"] = @ + 1]
      BY <3>2 DEF Deliver, Post
    <3>4. /\ In("target")' = In("target") \cup {u} /\ In("call")' = In("call") \ {u}
          /\ In("exit")' = In("exit") \ {u}
      BY <3>3, MoveIn
    <3>5. Cardinality(In("target")') = Cardinality(In("target")) + 1
      <4>1. u \notin In("target")
        BY <1>1, <3>1 DEF Gathering
      <4> QED
        BY <3>4, <4>1, CardAdd, InTypes DEF TypeOK
    <3>6. Cardinality(pending) = 1 /\ Cardinality(pending') = 0
      BY <3>2, FS_Singleton, CardEmpty
    <3>7. /\ sem'["caller"] = sem["caller"] + 1 /\ sem'["target"] = sem["target"]
          /\ sem'["exit"] = sem["exit"] /\ sem'["barrier"] = sem["barrier"]
      BY <3>3, Numbers DEF Semaphores
    <3>8. Gathering(t)'
      BY <1>1, <1>2, <1>3, <2>3, <3>1, <3>2, <3>4, <3>5, <3>6, <3>7, Numbers
         DEF Gathering
    <3> QED
      BY <1>1, <1>3, <2>3, <3>8 DEF Phase
  <2>4. CASE op[t] = "membarrier" /\ pc[t] \in {"signal", "serial"}
    <3>1. Broadcasting(t)
      BY <2>1, <2>4 DEF Phase
    <3>2. hpc' = hpc /\ sem' = [sem EXCEPT !["barrier"] = @ + 1]
      BY <3>1 DEF Deliver, Broadcasting, Post
    <3>3. Cardinality(pending') = Cardinality(pending) - 1
      BY <1>1, CardRemove DEF TypeOK
    <3>4. /\ sem'["caller"] = sem["caller"] /\ sem'["target"] = sem["target"]
          /\ sem'["exit"] = sem["exit"] /\ sem'["barrier"] = sem["barrier"] + 1
      BY <3>2, Numbers DEF Semaphores
    <3>5. Captives' = Captives
      BY <3>2 DEF Captives
    <3>6. Broadcasting(t)'
      BY <1>1, <1>2, <1>3, <3>1, <3>3, <3>4, <3>5, Numbers DEF Broadcasting
    <3> QED
      BY <1>1, <1>3, <2>4, <3>6 DEF Phase
  <2> QED
    BY <2>2, <2>3, <2>4
<1> QED
  BY <1>1, <1>2, <1>3, HandlerStep

\* A captive is let into the callback.
LEMMA CaughtMeetingInv ==
    ASSUME TypeOK, ListInv, MeetingInv, NEW u \in Threads, Caught(u)
    PROVE  MeetingInv'
<1>1. /\ hpc[u] = "target" /\ hpc' = [hpc EXCEPT ![u] = "call"] /\ sem["target"] > 0
      /\ sem' = [sem EXCEPT !["target"] = @ - 1]
      /\ UNCHANGED <<pc, pending, callback, frame, ran, op, task>>
  BY DEF Caught, Take, tasks
<1>2. u \in In("target") /\ u \notin In("call") /\ u \in Captives /\ ~Quiet /\ Active' = Active
  BY <1>1 DEF Quiet, Captives, In, Active
<1>3. ASSUME NEW t \in Threads, pc[t] \in Gathered PROVE Phase(t)'
  <2>1. Phase(t) /\ CallFits(t)
    BY DEF MeetingInv, ListInv
  <2>2. op[t] = "synccall" /\ pc[t] = "served"
    BY <1>1, <1>2, <1>3, <2>1
       DEF Phase, CallFits, Gathered, Gathering, Serving, Leaving, Broadcasting,
           Meetings
  <2>3. Serving(t)
    BY <2>1, <2>2 DEF Phase
  <2>4. /\ In("target")' = In("target") \ {u} /\ In("call")' = In("call") \cup {u}
        /\ In("exit")' = In("exit") \ {u} /\ Captives' = Captives \cup {u}
    BY <1>1, MoveIn
  <2>5. /\ Cardinality(In("target")') = Cardinality(In("target")) - 1
        /\ Cardinality(In("call")') = Cardinality(In("call")) + 1
    <3>1. In("target") \subseteq Threads /\ In("call") \subseteq Threads
      BY DEF In
    <3> QED
      BY <1>2, <2>4, <3>1, CardAdd, CardRemove
  <2>6. /\ sem'["caller"] = sem["caller"] /\ sem'["target"] = sem["target"] - 1
        /\ sem'["exit"] = sem["exit"] /\ sem'["barrier"] = sem["barrier"]
    BY <1>1, Numbers DEF Semaphores
  <2>7. Captives' = Captives
    BY <1>2, <2>4
  <2>8. \A v \in Threads : hpc'[v] = "exit" <=> hpc[v] = "exit"
    BY <1>1 DEF TypeOK
  <2>9. Serving(t)'
    BY <1>1, <1>2, <2>2, <2>3, <2>5, <2>6, <2>7, <2>8, Numbers DEF Serving
  <2> QED
    BY <1>1, <2>2, <2>9 DEF Phase
<1> QED
  BY <1>1, <1>2, <1>3, HandlerStep

\* A captive runs the callback.
LEMMA RunCallbackMeetingInv ==
    ASSUME TypeOK, ListInv, MeetingInv, NEW u \in Threads, RunCallback(u)
    PROVE  MeetingInv'
<1>1. /\ hpc[u] = "call" /\ hpc' = [hpc EXCEPT ![u] = "exit"]
      /\ sem' = [sem EXCEPT !["caller"] = @ + 1]
      /\ ran' = IF callback = "user" THEN [ran EXCEPT ![u] = @ + 1] ELSE ran
      /\ UNCHANGED <<pc, pending, callback, frame, op, task>>
  BY DEF RunCallback, Post, tasks
<1>2. u \in In("call") /\ u \in Captives /\ ~Quiet /\ Active' = Active
  BY <1>1 DEF Quiet, Captives, In, Active
<1>3. ASSUME NEW t \in Threads, pc[t] \in Gathered PROVE Phase(t)'
  <2>1. Phase(t) /\ CallFits(t)
    BY DEF MeetingInv, ListInv
  <2>0. u \notin In("exit")
    BY <1>1 DEF In
  <2>2. op[t] = "synccall" /\ pc[t] = "served"
    BY <1>2, <1>3, <2>0, <2>1
       DEF Phase, CallFits, Gathered, Gathering, Serving, Leaving, Broadcasting,
           Meetings
  <2>3. Serving(t)
    BY <2>1, <2>2 DEF Phase
  <2>4. /\ In("target")' = In("target") \ {u} /\ In("call")' = In("call") \ {u}
        /\ Captives' = Captives \cup {u}
    BY <1>1, MoveIn
  <2>5. /\ In("target")' = In("target") /\ Captives' = Captives
        /\ Cardinality(In("call")') = Cardinality(In("call")) - 1
        /\ Cardinality(Captives) > 0
    <3>1. u \notin In("target") /\ In("call") \subseteq Threads /\ Captives \subseteq Threads
      BY <1>1 DEF In, Captives
    <3>2. In("target")' = In("target") /\ Captives' = Captives
      BY <1>2, <2>4, <3>1
    <3> QED
      BY <1>2, <2>4, <3>1, <3>2, CardRemove
  <2>6. /\ sem'["caller"] = sem["caller"] + 1 /\ sem'["target"] = sem["target"]
        /\ sem'["exit"] = sem["exit"] /\ sem'["barrier"] = sem["barrier"]
    BY <1>1, Numbers DEF Semaphores
  <2>7. IF frame.run = "user"
        THEN \A v \in Threads : ran'[v] = IF hpc'[v] = "exit" THEN 1 ELSE 0
        ELSE callback = "dummy" /\ \A v \in Threads : ran'[v] = 0
    <3>1. CASE frame.run = "user"
      BY <1>1, <2>3, <3>1 DEF Serving, TypeOK
    <3>2. CASE frame.run # "user"
      BY <1>1, <2>3, <2>5, <3>2 DEF Serving
    <3> QED
      BY <3>1, <3>2
  <2>8. Serving(t)'
    BY <1>1, <1>2, <2>2, <2>3, <2>5, <2>6, <2>7, Numbers DEF Serving
  <2> QED
    BY <1>1, <2>2, <2>8 DEF Phase
<1> QED
  BY <1>1, <1>2, <1>3, HandlerStep

\* A captive leaves the handler.
LEMMA LeaveHandlerMeetingInv ==
    ASSUME TypeOK, ListInv, MeetingInv, NEW u \in Threads, LeaveHandler(u)
    PROVE  MeetingInv'
<1>1. /\ hpc[u] = "exit" /\ hpc' = [hpc EXCEPT ![u] = "none"] /\ sem["exit"] > 0
      /\ sem' = [sem EXCEPT !["exit"] = @ - 1, !["caller"] = @ + 1]
      /\ UNCHANGED <<pc, pending, frame, ran, op, task>>
  BY DEF LeaveHandler, tasks
<1>2. u \in Captives /\ ~Quiet /\ Active' = Active /\ AllRan' = AllRan
  BY <1>1 DEF Quiet, Captives, Active, AllRan
<1>3. ASSUME NEW t \in Threads, pc[t] \in Gathered PROVE Phase(t)'
  <2>1. Phase(t) /\ CallFits(t)
    BY DEF MeetingInv, ListInv
  <2>2. pc[t] = "leave"
    BY <1>1, <1>2, <1>3, <2>1
       DEF Phase, CallFits, Gathered, Gathering, Serving, Broadcasting, Meetings
  <2>3. Leaving(t)
    BY <2>1, <2>2 DEF Phase
  <2>4. In("exit")' = In("exit") \ {u} /\ Captives' = Captives \ {u} /\ Captives \subseteq Threads
    BY <1>1, MoveIn DEF Captives
  <2>5. Cardinality(Captives') = Cardinality(Captives) - 1
    BY <1>2, <2>4, CardRemove
  <2>6. /\ sem'["caller"] = sem["caller"] + 1 /\ sem'["target"] = sem["target"]
        /\ sem'["exit"] = sem["exit"] - 1 /\ sem'["barrier"] = sem["barrier"]
    BY <1>1, Numbers DEF Semaphores
  <2>7. Leaving(t)'
    BY <1>1, <1>2, <2>3, <2>4, <2>5, <2>6, Numbers DEF Leaving
  <2> QED
    BY <1>1, <2>2, <2>7 DEF Phase
<1> QED
  BY <1>1, <1>2, <1>3, HandlerStep

\* Every step keeps the invariant of the meetings.
LEMMA NextMeetingInv ==
    ASSUME TypeOK, ListInv, MeetingInv, [Next]_vars
    PROVE  MeetingInv'
<1>1. CASE UNCHANGED vars
  <2>1. UNCHANGED <<hpc, meeting>> /\ Active' = Active /\ pc' = pc /\ op' = op
    BY <1>1 DEF vars, tasks, Active
  <2>2. \A s \in Threads : Phase(s)'
    BY <2>1, PhaseFrame DEF MeetingInv
  <2> QED
    BY <2>1, <2>2 DEF MeetingInv, Quiet, Captives, meeting
<1> QED
  BY <1>1, ApartMeetingInv, StartMeetingInv, CollectMeetingInv, SignalMeetingInv,
     CatchMeetingInv, BroadcastMeetingInv, SerializeMeetingInv, ServedMeetingInv,
     RunSelfMeetingInv, LeaveMeetingInv, DeliverMeetingInv, CaughtMeetingInv,
     RunCallbackMeetingInv, LeaveHandlerMeetingInv
     DEF Next, Step, Handle, Apart

\* The invariant holds at the start.
LEMMA InitIInv == Init => IInv
<1> SUFFICES ASSUME Init PROVE IInv
  OBVIOUS
<1>1. TypeOK
  <2>1. task \in [Threads -> {"none", "linked", "active", "committed"}]
    BY DEF Init
  <2>2. frame \in Frames /\ sem \in [Semaphores -> Nat] /\ ran \in [Threads -> Nat]
    BY DEF Init, Frames, NoFrame, Semaphores
  <2> QED
    BY <2>1, <2>2 DEF Init, TypeOK, Labels, ListOps
<1>2. ListInv
  <2>1. Waiting = {} /\ list.waiters = 0 /\ list.owner = None
    BY DEF Init, Waiting
  <2>2. ASSUME NEW t \in Threads
        PROVE  ~Holding(t) /\ CallFits(t) /\ TaskFits(t) /\ ~Creating(t)
    BY DEF Init, Holding, CallFits, TaskFits, Creating
  <2> QED
    BY <2>1, <2>2, CardEmpty, TasksAssumption DEF ListInv, OwnCreations
<1>3. MeetingInv
  <2>1. ASSUME NEW t \in Threads PROVE Phase(t)
    BY DEF Init, Phase
  <2>2. Quiet
    BY DEF Init, Quiet, Captives, NoFrame
  <2> QED
    BY <2>1, <2>2 DEF MeetingInv
<1> QED
  BY <1>1, <1>2, <1>3 DEF IInv

\* The inductive invariant: the list lock is exact, and the semaphores, the
\* captives and the locals of the holder agree in every phase of a meeting.
THEOREM Invariance == Spec => []IInv
<1>1. IInv /\ [Next]_vars => IInv'
  BY NextTypeOK, NextListInv, NextMeetingInv DEF IInv
<1> QED
  BY InitIInv, <1>1, PTL DEF Spec

\* The callback runs alone, with the world stopped: the captives are all the other
\* tasks, and the one unit of the target semaphore is with at most one of them.
THEOREM WorldStopsHolds == Spec => []WorldStops
<1>1. IInv => WorldStops
  <2> SUFFICES ASSUME IInv, NEW t \in Threads,
                      \/ hpc[t] = "call" /\ callback = "user"
                      \/ pc[t] = "self" /\ frame.run = "user",
                      NEW u \in Active \ {t}
               PROVE  (hpc[u] \in {"target", "exit"} \/ list.owner = u) /\ pc[u] # "self"
    BY DEF WorldStops
  <2>1. TypeOK /\ ListInv /\ MeetingInv
    BY DEF IInv
  <2>2. u \in Threads /\ hpc \in [Threads -> {"none", "target", "call", "exit"}]
    BY <2>1 DEF Active, TypeOK
  <2>3. CASE hpc[t] = "call" /\ callback = "user"
    <3>1. t \in In("call") /\ t \in Captives /\ t \notin In("exit") /\ ~Quiet
      BY <2>3 DEF In, Captives, Quiet
    <3>2. PICK o \in Threads : pc[o] \in Gathered
      BY <2>1, <3>1 DEF MeetingInv
    <3>3. Phase(o) /\ CallFits(o) /\ Holding(o)
      BY <2>1, <3>2 DEF MeetingInv, ListInv, Gathered, Holding
    <3>4. op[o] = "synccall" /\ pc[o] = "served"
      BY <3>1, <3>2, <3>3
         DEF Phase, CallFits, Gathered, Gathering, Serving, Leaving, Broadcasting,
             Meetings
    <3>5. Serving(o)
      BY <3>3, <3>4 DEF Phase
    <3>6. frame.run = "user"
      <4>0. Captives \subseteq Threads /\ Cardinality(Captives) = frame.count
        BY <3>5 DEF Serving, Captives
      <4>1. frame.count > 0
        BY <3>1, <4>0, CardRemove
      <4> QED
        BY <2>3, <3>5, <4>1 DEF Serving
    <3>7. Captives = Active \ {o}
      BY <3>5, <3>6 DEF Serving
    <3>8. In("call") = {t}
      <4>1. In("call") \subseteq Threads /\ Cardinality(In("call")) \in Nat
        BY <2>2, InTypes
      <4>2. Cardinality(In("call")) <= 1
        BY <2>1, <3>4, <3>5, <4>1, Numbers DEF Serving
      <4>3. Cardinality(In("call") \ {t}) = 0
        BY <3>1, <4>1, <4>2, CardRemove
      <4>4. In("call") \ {t} = {}
        BY <4>1, <4>3, CardEmpty
      <4> QED
        BY <3>1, <4>4
    <3>9. CASE u = o
      BY <2>1, <3>3, <3>4, <3>9 DEF ListInv
    <3>10. CASE u # o
      <4>1. u \in Captives /\ u \notin In("call")
        BY <3>7, <3>8, <3>10
      <4>2. hpc[u] \in {"target", "exit"}
        BY <2>2, <4>1 DEF Captives, In
      <4>3. pc[u] # "self"
        BY <2>1, <2>2, <3>3, <3>10, OneHolder DEF Holding
      <4> QED
        BY <4>2, <4>3
    <3> QED
      BY <3>9, <3>10
  <2>4. CASE pc[t] = "self" /\ frame.run = "user"
    <3>1. Serving(t) /\ Holding(t)
      BY <2>1, <2>4 DEF MeetingInv, Phase, ListInv, CallFits, Holding
    <3>2. u \in Captives /\ In("call") = {}
      BY <2>4, <3>1 DEF Serving
    <3>3. hpc[u] \in {"target", "exit"}
      BY <2>2, <3>2 DEF Captives, In
    <3>4. pc[u] # "self"
      BY <2>1, <2>2, <3>1, OneHolder DEF Holding
    <3> QED
      BY <3>3, <3>4
  <2> QED
    BY <2>3, <2>4
<1> QED
  BY <1>1, Invariance, PTL

\* When synccall returns, every task that runs has run the callback once, or none
\* has: the caller lets the captives go only when the last of them has answered.
THEOREM AllOrNoneHolds == Spec => []AllOrNone
<1>1. IInv => AllOrNone
  BY DEF IInv, MeetingInv, Phase, Leaving, AllRan, AllOrNone
<1> QED
  BY <1>1, Invariance, PTL

\* The lock holder only ever signals tasks that are alive: no task starts or ends
\* without the list lock.
THEOREM TargetsStayAliveHolds == Spec => []TargetsStayAlive
<1>1. IInv => TargetsStayAlive
  <2> SUFFICES ASSUME IInv PROVE TargetsStayAlive
    OBVIOUS
  <2>1. CASE Quiet
    BY <2>1 DEF Quiet, TargetsStayAlive
  <2>2. ASSUME NEW t \in Threads, pc[t] \in Gathered PROVE TargetsStayAlive
    <3>1. Phase(t) /\ CallFits(t)
      BY DEF IInv, MeetingInv, ListInv
    <3> QED
      BY <2>2, <3>1 DEF Phase, CallFits, Gathered, Gathering, Serving, Leaving,
                        Broadcasting, Meetings, TargetsStayAlive
  <2> QED
    BY <2>1, <2>2 DEF IInv, MeetingInv
<1> QED
  BY <1>1, Invariance, PTL

\* A rendezvous leaves nothing behind for the next one: who releases the list
\* lock after a meeting has counted every answer.
THEOREM NothingLeftBehindHolds == Spec => []NothingLeftBehind
<1>1. IInv => NothingLeftBehind
  <2> SUFFICES ASSUME IInv, list.owner = None
               PROVE  /\ pending = {}
                      /\ \A t \in Threads : hpc[t] = "none"
                      /\ \A s \in DOMAIN sem : sem[s] = 0
    BY DEF NothingLeftBehind
  <2>1. \A t \in Threads : pc[t] \notin Gathered
    BY TasksAssumption DEF IInv, ListInv, Holding, Gathered
  <2>2. Quiet
    BY <2>1 DEF IInv, MeetingInv
  <2> QED
    BY <2>2 DEF Quiet, Captives, IInv, TypeOK
<1> QED
  BY <1>1, Invariance, PTL

=============================================================================
