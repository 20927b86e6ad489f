-------------------------- MODULE ThreadDataProofs --------------------------
(***************************************************************************)
(* The tables of thread-specific data: every key starts null, and no value *)
(* is overlooked when a thread ends, for every number of keys, threads and *)
(* passes.                                                                 *)
(***************************************************************************)
EXTENDS ThreadData, TLAPS

\* Nothing has been created: the tables are null.
LEMMA InitIInv == Init => IInv
BY DataAssumption
   DEF Init, IInv, TypeOK, Keys, Labels, ValuesBelongToTheirKey, ScanCovers, NoValueOverlooked

\* What a step of one thread's scan leaves to show: the slots and the order of
\* the passes.
LEMMA AdvanceCovers ==
    ASSUME NEW t \in Threads, IInv, pc[t] \in {"scan", "clear", "call"},
           used' = used, passes' = passes, key' = key, created' = created,
           values' \in [Threads -> [Keys -> 0..MaxCreations]],
           \A s \in Threads \ {t} : values'[s] = values[s],
           \A k \in Keys : values'[t][k] \in {0, values[t][k]},
           pc[t] # "call" => values'[t][index[t]] = 0,
           destructor' = destructor, next' = next,
           Advance(t)
    PROVE  IInv'
<1>0. pc \in [Threads -> Labels] /\ index \in [Threads -> Keys]
  BY DEF IInv, TypeOK
<1>6. \A k \in Keys : k \in Int /\ 0 <= k /\ k <= Last
  BY DataAssumption DEF Keys
<1>7. index[t] \in Int /\ 0 <= index[t] /\ index[t] <= Last
  BY <1>0, <1>6
<1>8. index[t] < Last => index[t] + 1 \in Keys
  BY <1>7, DataAssumption DEF Keys
<1>1. TypeOK'
  <2>1. pc' \in [Threads -> Labels]
    BY <1>0 DEF Advance, Goto, Labels
  <2>2. index' \in [Threads -> Keys]
    BY <1>0, <1>8 DEF Advance
  <2> QED
    BY <2>1, <2>2 DEF IInv, TypeOK
<1>2. ValuesBelongToTheirKey'
  BY DEF IInv, ValuesBelongToTheirKey
<1>3. \A s \in Threads \ {t} : pc'[s] = pc[s] /\ index'[s] = index[s]
  BY DEF IInv, TypeOK, Advance, Goto
<1>4. ScanCovers'
  <2> SUFFICES ASSUME NEW s \in Threads, NEW k \in Keys, values'[s][k] # 0, ~used[s]
               PROVE  \/ pc'[s] \in {"scan", "clear"} /\ k >= index'[s]
                      \/ pc'[s] = "call" /\ k > index'[s]
    BY DEF ScanCovers
  <2>1. CASE s # t
    BY <2>1, <1>3 DEF IInv, ScanCovers
  <2>2. CASE s = t
    <3>1. values[t][k] # 0 /\ ~used[t]
      BY <2>2
    <3>2. \/ pc[t] \in {"scan", "clear"} /\ k >= index[t]
          \/ pc[t] = "call" /\ k > index[t]
      BY <3>1 DEF IInv, ScanCovers
    <3>3. pc[t] # "call" => k # index[t]
      BY <2>2
    <3>6. k # index[t] /\ k >= index[t]
      BY <3>2, <3>3, <1>6, <1>7
    <3>7. k \in Int /\ k <= Last
      BY <1>6
    <3>4. k > index[t] /\ index[t] < Last
      BY <3>6, <3>7, <1>7, DataAssumption
    <3>5. index'[t] = index[t] + 1 /\ pc'[t] = "scan"
      BY <3>4, <1>0 DEF Advance, Goto
    <3> QED
      BY <2>2, <3>4, <3>5, <1>6, <1>7
  <2> QED
    BY <2>1, <2>2
<1>5. NoValueOverlooked'
  <2>1. pc'[t] # "complete"
    BY DEF IInv, TypeOK, Labels, Advance, Goto
  <2> QED
    BY <2>1, <1>3 DEF IInv, NoValueOverlooked
<1> QED
  BY <1>1, <1>2, <1>4, <1>5 DEF IInv

LEMMA CreateKeeps ==
    ASSUME NEW t \in Threads, NEW k \in Keys, NEW d \in BOOLEAN, IInv, Create(t, k, d)
    PROVE  IInv'
<1>1. TypeOK'
  BY DataAssumption DEF IInv, TypeOK, Create
<1>2. ValuesBelongToTheirKey'
  BY DEF IInv, TypeOK, ValuesBelongToTheirKey, Create, Free
<1>3. ScanCovers' /\ NoValueOverlooked'
  BY DEF IInv, ScanCovers, NoValueOverlooked, Create
<1>4. \A j \in Keys : key'[j] <= created'
  BY DataAssumption DEF IInv, TypeOK, Create
<1> QED
  BY <1>1, <1>2, <1>3, <1>4 DEF IInv

LEMMA DeleteKeeps ==
    ASSUME NEW t \in Threads, NEW k \in Keys, IInv, Delete(t, k)
    PROVE  IInv'
<1>1. TypeOK'
  BY DataAssumption DEF IInv, TypeOK, Delete
<1>2. \A s \in Threads, j \in Keys : values'[s][j] = IF j = k THEN 0 ELSE values[s][j]
  BY DEF IInv, TypeOK, Delete
<1>3. ValuesBelongToTheirKey'
  BY <1>2 DEF IInv, TypeOK, ValuesBelongToTheirKey, Delete
<1>4. ScanCovers' /\ NoValueOverlooked'
  BY <1>2 DEF IInv, ScanCovers, NoValueOverlooked, Delete
<1>5. \A j \in Keys : key'[j] <= created'
  BY DataAssumption DEF IInv, TypeOK, Delete
<1> QED
  BY <1>1, <1>3, <1>4, <1>5 DEF IInv

LEMMA SetKeeps ==
    ASSUME NEW t \in Threads, NEW k \in Keys, IInv, Set(t, k)
    PROVE  IInv'
<1>1. TypeOK'
  BY DataAssumption DEF IInv, TypeOK, Set
<1>2. \A s \in Threads, j \in Keys :
         IF s = t /\ j = k THEN values'[s][j] \in {0, key[k]} ELSE values'[s][j] = values[s][j]
  BY DEF IInv, TypeOK, Set
<1>3. ValuesBelongToTheirKey'
  BY <1>2 DEF IInv, ValuesBelongToTheirKey, Set
<1>4. \A s \in Threads : used'[s] = IF s = t THEN TRUE ELSE used[s]
  BY DEF IInv, TypeOK, Set
<1>5. pc[t] # "complete"
  BY DEF Set, Calling
<1>6. ScanCovers'
  <2> SUFFICES ASSUME NEW s \in Threads, NEW j \in Keys, values'[s][j] # 0, ~used'[s]
               PROVE  \/ pc[s] \in {"scan", "clear"} /\ j >= index[s]
                      \/ pc[s] = "call" /\ j > index[s]
    BY DEF ScanCovers, Set
  <2>1. s # t
    BY <1>4
  <2> QED
    BY <2>1, <1>2, <1>4 DEF IInv, ScanCovers
<1>7. NoValueOverlooked'
  <2> SUFFICES ASSUME NEW s \in Threads, NEW j \in Keys, pc[s] = "complete", values'[s][j] # 0
               PROVE  passes[s] = Iterations /\ used'[s]
    BY DEF NoValueOverlooked, Set
  <2>1. s # t
    BY <1>5
  <2> QED
    BY <2>1, <1>2, <1>4 DEF IInv, NoValueOverlooked
<1> QED
  BY <1>1, <1>3, <1>6, <1>7 DEF IInv, Set

LEMMA ExitKeeps ==
    ASSUME NEW t \in Threads, IInv, Exit(t)
    PROVE  IInv'
<1>1. TypeOK'
  BY DEF IInv, TypeOK, Exit, Goto, Labels
<1>2. \A s \in Threads : pc'[s] = IF s = t THEN "pass" ELSE pc[s]
  BY DEF IInv, TypeOK, Exit, Goto
<1>3. ScanCovers' /\ NoValueOverlooked' /\ ValuesBelongToTheirKey'
  BY <1>2 DEF IInv, ScanCovers, NoValueOverlooked, ValuesBelongToTheirKey, Exit
<1> QED
  BY <1>1, <1>3 DEF IInv, Exit

LEMMA PassKeeps ==
    ASSUME NEW t \in Threads, IInv, Pass(t)
    PROVE  IInv'
<1>5. passes[t] \in Int /\ 0 <= passes[t] /\ passes[t] <= Iterations
  <2>1. passes[t] \in 0..Iterations
    BY DEF IInv, TypeOK
  <2> QED
    BY <2>1, DataAssumption
<1>1. TypeOK'
  <2>1. pc' \in [Threads -> Labels]
    BY DEF IInv, TypeOK, Labels, Pass, Goto
  <2>2. index' \in [Threads -> Keys] /\ passes' \in [Threads -> 0..Iterations]
    <3>1. CASE pc' = [pc EXCEPT ![t] = "complete"] /\ UNCHANGED <<passes, index>>
      BY <3>1 DEF IInv, TypeOK
    <3>2. CASE /\ passes[t] < Iterations
               /\ passes' = [passes EXCEPT ![t] = @ + 1]
               /\ index' = [index EXCEPT ![t] = 0]
      <4>1. passes[t] + 1 \in 0..Iterations /\ 0 \in Keys
        BY <1>5, <3>2, DataAssumption DEF Keys
      <4> QED
        BY <3>2, <4>1 DEF IInv, TypeOK
    <3> QED
      BY <3>1, <3>2, Zenon DEF Pass, Goto
  <2>3. used' \in [Threads -> BOOLEAN]
    BY Zenon DEF IInv, TypeOK, Pass
  <2> QED
    BY <2>1, <2>2, <2>3 DEF IInv, TypeOK, Pass
<1>2. \A s \in Threads \ {t} :
         pc'[s] = pc[s] /\ index'[s] = index[s] /\ used'[s] = used[s] /\ passes'[s] = passes[s]
  BY DEF IInv, TypeOK, Pass, Goto
<1>3. CASE passes[t] < Iterations /\ used[t]
  <2>1. pc'[t] = "scan" /\ index'[t] = 0
    BY <1>3, DataAssumption DEF IInv, TypeOK, Keys, Pass, Goto
  <2>2. ScanCovers' /\ NoValueOverlooked'
    BY <1>2, <2>1 DEF IInv, ScanCovers, NoValueOverlooked, Pass, Keys
  <2> QED
    BY <1>1, <2>2 DEF IInv, Pass, ValuesBelongToTheirKey
<1>4. CASE ~(passes[t] < Iterations /\ used[t])
  <2>1. pc'[t] = "complete" /\ used' = used /\ index' = index /\ passes' = passes
    BY <1>4 DEF IInv, TypeOK, Pass, Goto
  <2>2. \A k \in Keys : values[t][k] # 0 => used[t]
    BY DEF IInv, ScanCovers, Pass
  <2>4. used[t] => passes[t] = Iterations
    <3>1. used[t] => ~(passes[t] < Iterations)
      BY <1>4
    <3>2. ~(passes[t] < Iterations) => passes[t] = Iterations
      BY <1>5, DataAssumption
    <3> QED
      BY <3>1, <3>2
  <2>3. ScanCovers' /\ NoValueOverlooked'
    BY <1>2, <2>1, <2>2, <2>4 DEF IInv, ScanCovers, NoValueOverlooked, Pass
  <2> QED
    BY <1>1, <2>3 DEF IInv, Pass, ValuesBelongToTheirKey
<1> QED
  BY <1>3, <1>4

LEMMA ScanKeeps ==
    ASSUME NEW t \in Threads, IInv, Scan(t)
    PROVE  IInv'
<1>1. CASE values[t][index[t]] = 0
  BY <1>1, AdvanceCovers DEF IInv, TypeOK, Scan
<1>2. CASE values[t][index[t]] # 0
  <2>1. TypeOK'
    BY <1>2 DEF IInv, TypeOK, Scan, Goto, Labels
  <2>2. \A s \in Threads : pc'[s] = IF s = t THEN "clear" ELSE pc[s]
    BY <1>2 DEF IInv, TypeOK, Scan, Goto
  <2>3. ScanCovers' /\ NoValueOverlooked' /\ ValuesBelongToTheirKey'
    BY <1>2, <2>2 DEF IInv, ScanCovers, NoValueOverlooked, ValuesBelongToTheirKey, Scan
  <2> QED
    BY <1>2, <2>1, <2>3 DEF IInv, Scan
<1> QED
  BY <1>1, <1>2

LEMMA ClearKeeps ==
    ASSUME NEW t \in Threads, IInv, Clear(t)
    PROVE  IInv'
<1>1. values' \in [Threads -> [Keys -> 0..MaxCreations]]
  BY DataAssumption DEF IInv, TypeOK, Clear
<1>2. \A s \in Threads, j \in Keys :
         values'[s][j] = IF s = t /\ j = index[t] THEN 0 ELSE values[s][j]
  BY DEF IInv, TypeOK, Clear
<1>3. \A s \in Threads \ {t} : values'[s] = values[s]
  BY DEF IInv, TypeOK, Clear
<1>4. CASE Advance(t)
  BY <1>1, <1>2, <1>3, <1>4, AdvanceCovers DEF IInv, TypeOK, Clear
<1>5. CASE Goto(t, "call") /\ index' = index
  <2>1. TypeOK'
    BY <1>1, <1>5 DEF IInv, TypeOK, Clear, Goto, Labels
  <2>2. \A s \in Threads : pc'[s] = IF s = t THEN "call" ELSE pc[s]
    BY <1>5 DEF IInv, TypeOK, Goto
  <2>3. ValuesBelongToTheirKey' /\ NoValueOverlooked'
    BY <1>2, <2>2 DEF IInv, ValuesBelongToTheirKey, NoValueOverlooked, Clear
  <2>4. ScanCovers'
    BY <1>2, <1>5, <2>2 DEF IInv, TypeOK, Keys, ScanCovers, Clear
  <2> QED
    BY <2>1, <2>3, <2>4 DEF IInv, Clear
<1> QED
  BY <1>4, <1>5 DEF Clear

LEMMA ReturnKeeps ==
    ASSUME NEW t \in Threads, IInv, Return(t)
    PROVE  IInv'
BY AdvanceCovers DEF IInv, TypeOK, Return

\* Every step keeps the invariant.
LEMMA NextIInv == IInv /\ [Next]_vars => IInv'
<1> SUFFICES ASSUME IInv, [Next]_vars PROVE IInv'
  OBVIOUS
<1>1. CASE UNCHANGED vars
  BY <1>1 DEF vars, IInv, TypeOK, ValuesBelongToTheirKey, ScanCovers, NoValueOverlooked
<1>2. CASE Next
  BY <1>2, CreateKeeps, DeleteKeeps, SetKeeps, ExitKeeps, PassKeeps, ScanKeeps,
     ClearKeeps, ReturnKeeps DEF Next
<1> QED
  BY <1>1, <1>2

\* The invariant holds in every reachable state of the tables.
THEOREM Inductive == Spec => []IInv
BY InitIInv, NextIInv, PTL DEF Spec

\* pthread_key_create: a key starts null in every thread, also when it was
\* used and deleted before.
THEOREM ValuesBelongToTheirKeyHolds == Spec => []ValuesBelongToTheirKey
<1>1. IInv => ValuesBelongToTheirKey
  BY DEF IInv
<1> QED
  BY <1>1, Inductive, PTL

\* run_selected_worker_tsd_destructors: only what a destructor stored in the
\* last pass is left when a thread ends.
THEOREM NoValueOverlookedHolds == Spec => []NoValueOverlooked
<1>1. IInv => NoValueOverlooked
  BY DEF IInv
<1> QED
  BY <1>1, Inductive, PTL
=============================================================================
