----------------------------- MODULE ThreadData -----------------------------
(***************************************************************************)
(* pthread_tsd.rs: the keys, each thread's table of values, and the passes *)
(* over it when the thread ends, with destructors that use keys again.     *)
(*                                                                         *)
(* Every access under the table lock is one step (SpinLock is that lock);  *)
(* the scan looks at a slot before it takes the lock.  A value is known by *)
(* the creation of its key it was stored under; 0 is the null value.       *)
(***************************************************************************)
EXTENDS Integers

CONSTANTS
    Threads,
    Last,           \* the highest key
    Iterations,     \* PTHREAD_DESTRUCTOR_ITERATIONS
    MaxCreations    \* how many keys are created in all

ASSUME DataAssumption == Last \in Nat /\ Iterations \in Nat /\ MaxCreations \in Nat

Keys == 0..Last

VARIABLES
    key,        \* the creation that owns each key, 0 if it is free
    destructor, \* whether the key has a destructor
    next,       \* SELECTED_TSD_NEXT_KEY
    values,     \* each thread's table
    used,       \* each table's `used`
    pc,         \* where each thread is
    index,      \* the slot its scan has come to
    passes,     \* how many passes it has begun
    created     \* how many keys were created

vars == <<key, destructor, next, values, used, pc, index, passes, created>>

\* run   ordinary code                    pass      about to begin a pass
\* scan  about to load a slot             clear     about to empty it
\* call  in the destructor of the slot    complete  TSD_TEAR_DOWN_COMPLETE
Labels == {"run", "pass", "scan", "clear", "call", "complete"}

TypeOK ==
    /\ key \in [Keys -> 0..MaxCreations]
    /\ destructor \in [Keys -> BOOLEAN]
    /\ next \in Keys
    /\ values \in [Threads -> [Keys -> 0..MaxCreations]]
    /\ used \in [Threads -> BOOLEAN]
    /\ pc \in [Threads -> Labels]
    /\ index \in [Threads -> Keys]
    /\ passes \in [Threads -> 0..Iterations]
    /\ created \in 0..MaxCreations

Init ==
    /\ key = [k \in Keys |-> 0]
    /\ destructor = [k \in Keys |-> FALSE]
    /\ next = 0
    /\ values = [t \in Threads |-> [k \in Keys |-> 0]]
    /\ used = [t \in Threads |-> FALSE]
    /\ pc = [t \in Threads |-> "run"]
    /\ index = [t \in Threads |-> 0]
    /\ passes = [t \in Threads |-> 0]
    /\ created = 0

Goto(t, label) == pc' = [pc EXCEPT ![t] = label]

----------------------------------------------------------------------------
(* The calls, from ordinary code or from a destructor.                     *)

Calling(t) == pc[t] \in {"run", "call"}

\* The first free key at or after `next`, going round.
Free(k) ==
    /\ key[k] = 0
    /\ \A j \in Keys : key[j] = 0 =>
         (k - next) % (Last + 1) <= (j - next) % (Last + 1)

Create(t, k, d) ==
    /\ Calling(t) /\ created < MaxCreations
    /\ Free(k)
    /\ created' = created + 1
    /\ key' = [key EXCEPT ![k] = created + 1]
    /\ destructor' = [destructor EXCEPT ![k] = d]
    /\ next' = k
    /\ UNCHANGED <<values, used, pc, index, passes>>

\* Fault: only the caller's own table loses its value.
DeleteOwn(t, k) ==
    /\ Calling(t) /\ key[k] # 0
    /\ key' = [key EXCEPT ![k] = 0]
    /\ destructor' = [destructor EXCEPT ![k] = FALSE]
    /\ values' = [values EXCEPT ![t][k] = 0]
    /\ UNCHANGED <<next, used, pc, index, passes, created>>

\* pthread_key_delete clears the key in every table, under both locks.
Delete(t, k) ==
    /\ Calling(t) /\ key[k] # 0
    /\ key' = [key EXCEPT ![k] = 0]
    /\ destructor' = [destructor EXCEPT ![k] = FALSE]
    /\ values' = [s \in Threads |-> [values[s] EXCEPT ![k] = 0]]
    /\ UNCHANGED <<next, used, pc, index, passes, created>>

\* pthread_setspecific with a value that differs from the one stored.
Set(t, k) ==
    /\ Calling(t) /\ key[k] # 0
    /\ \/ values' = [values EXCEPT ![t][k] = key[k]]
       \/ values[t][k] # 0 /\ values' = [values EXCEPT ![t][k] = 0]
    /\ used' = [used EXCEPT ![t] = TRUE]
    /\ UNCHANGED <<key, destructor, next, pc, index, passes, created>>

----------------------------------------------------------------------------
(* run_selected_worker_tsd_destructors                                     *)

Exit(t) ==
    /\ pc[t] = "run"
    /\ Goto(t, "pass")
    /\ UNCHANGED <<key, destructor, next, values, used, index, passes, created>>

\* A pass begins by taking `used`; there is none if nothing was stored.
Pass(t) ==
    /\ pc[t] = "pass"
    /\ IF passes[t] < Iterations /\ used[t]
         THEN /\ passes' = [passes EXCEPT ![t] = @ + 1]
              /\ used' = [used EXCEPT ![t] = FALSE]
              /\ index' = [index EXCEPT ![t] = 0]
              /\ Goto(t, "scan")
         ELSE Goto(t, "complete") /\ UNCHANGED <<passes, used, index>>
    /\ UNCHANGED <<key, destructor, next, values, created>>

\* Fault: the last slot is not visited.
AdvanceShort(t) ==
    IF index[t] + 1 < Last
      THEN index' = [index EXCEPT ![t] = @ + 1] /\ Goto(t, "scan")
      ELSE Goto(t, "pass") /\ UNCHANGED index

\* On to the next slot, or to the next pass.
Advance(t) ==
    IF index[t] < Last
      THEN index' = [index EXCEPT ![t] = @ + 1] /\ Goto(t, "scan")
      ELSE Goto(t, "pass") /\ UNCHANGED index

Scan(t) ==
    /\ pc[t] = "scan"
    /\ IF values[t][index[t]] = 0
         THEN Advance(t)
         ELSE Goto(t, "clear") /\ UNCHANGED index
    /\ UNCHANGED <<key, destructor, next, values, used, passes, created>>

\* The value goes first; a key deleted since the load has no destructor.
Clear(t) ==
    /\ pc[t] = "clear"
    /\ values' = [values EXCEPT ![t][index[t]] = 0]
    /\ IF values[t][index[t]] # 0 /\ key[index[t]] # 0 /\ destructor[index[t]]
         THEN Goto(t, "call") /\ UNCHANGED index
         ELSE Advance(t)
    /\ UNCHANGED <<key, destructor, next, used, passes, created>>

\* The destructor returns.
Return(t) ==
    /\ pc[t] = "call"
    /\ Advance(t)
    /\ UNCHANGED <<key, destructor, next, values, used, passes, created>>

----------------------------------------------------------------------------
Next ==
    \E t \in Threads :
        \/ \E k \in Keys : \/ Delete(t, k) \/ Set(t, k)
                           \/ \E d \in BOOLEAN : Create(t, k, d)
        \/ Exit(t) \/ Pass(t) \/ Scan(t) \/ Clear(t) \/ Return(t)

Spec == Init /\ [][Next]_vars

----------------------------------------------------------------------------
\* A key that is created again starts null in every thread: no table holds a
\* value of an earlier creation, whoever deleted the key and wherever the
\* scans of ending threads were.
ValuesBelongToTheirKey ==
    \A t \in Threads, k \in Keys : values[t][k] \in {0, key[k]}

\* No value is overlooked at the end of a thread, though a pass looks at each
\* slot once and destructors store anywhere: what is left was stored during
\* the last pass allowed.
NoValueOverlooked ==
    \A t \in Threads, k \in Keys :
        pc[t] = "complete" /\ values[t][k] # 0 => passes[t] = Iterations /\ used[t]

\* Behind it: a value makes its table used, or the scan has yet to reach it.
ScanCovers ==
    \A t \in Threads, k \in Keys :
        values[t][k] # 0 /\ ~used[t] =>
            \/ pc[t] \in {"scan", "clear"} /\ k >= index[t]
            \/ pc[t] = "call" /\ k > index[t]

\* The inductive invariant.
IInv ==
    /\ TypeOK
    /\ ValuesBelongToTheirKey
    /\ ScanCovers
    /\ NoValueOverlooked
    /\ \A k \in Keys : key[k] <= created
=============================================================================
