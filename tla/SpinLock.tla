------------------------------ MODULE SpinLock ------------------------------
(***************************************************************************)
(* pthread_spin_operations.rs: the spin lock.  It is also the shape of the *)
(* key-table lock of pthread_tsd.rs and of the registry lock of            *)
(* pthread_atfork.rs.                                                      *)
(***************************************************************************)
CONSTANT Threads

VARIABLES
    word,   \* the lock word: 0 or EBUSY
    pc      \* where each thread is

vars == <<word, pc>>

EBUSY == 16

\* idle  outside    spin  about to load    cas  has seen 0    held  the holder
Labels == {"idle", "spin", "cas", "held"}

TypeOK == word \in {0, EBUSY} /\ pc \in [Threads -> Labels]

Init == word = 0 /\ pc = [t \in Threads |-> "idle"]

Goto(t, label) == pc' = [pc EXCEPT ![t] = label]

\* The compare-and-swap, and where a thread goes that loses it.
Swap(t, loser) ==
    /\ word' = EBUSY
    /\ Goto(t, IF word = 0 THEN "held" ELSE loser)

\* pthread_spin_trylock
Trylock(t) == pc[t] = "idle" /\ Swap(t, "idle")

\* pthread_spin_lock
Lock(t) ==
    /\ pc[t] = "idle"
    /\ Goto(t, "spin")
    /\ UNCHANGED word

Look(t) ==
    /\ pc[t] = "spin"
    /\ Goto(t, IF word = 0 THEN "cas" ELSE "spin")
    /\ UNCHANGED word

Cas(t) == pc[t] = "cas" /\ Swap(t, "spin")

\* pthread_spin_unlock
Unlock(t) ==
    /\ pc[t] = "held"
    /\ word' = 0
    /\ Goto(t, "idle")

Step(t) == Look(t) \/ Cas(t)

Next == \E t \in Threads : Trylock(t) \/ Lock(t) \/ Step(t) \/ Unlock(t)

\* A spinning thread is scheduled.
Fairness == \A t \in Threads : WF_vars(Step(t))

Spec == Init /\ [][Next]_vars /\ Fairness

-----------------------------------------------------------------------------

\* The threads that spin and those that hold the lock, as the abstract lock sees
\* them.
Requesters == {t \in Threads : pc[t] \in {"spin", "cas"}}
Holders == {t \in Threads : pc[t] = "held"}
=============================================================================
