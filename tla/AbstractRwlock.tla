--------------------------- MODULE AbstractRwlock ---------------------------
(***************************************************************************)
(* What a reader-writer lock promises its callers.  PthreadRwlock          *)
(* (pthread_rwlock.rs) implements it.  Writers may starve behind readers:  *)
(* musl's lock promises them only that a free lock is taken.               *)
(***************************************************************************)
EXTENDS Naturals, FiniteSets

CONSTANTS Threads, MaxReaders

VARIABLES
    wantRead, wantWrite,    \* the threads inside a lock operation
    readers, writers        \* the threads that hold the lock

vars == <<wantRead, wantWrite, readers, writers>>

Busy == wantRead \cup wantWrite \cup readers \cup writers

Init ==
    /\ wantRead = {}
    /\ wantWrite = {}
    /\ readers = {}
    /\ writers = {}

Request(t) ==
    /\ t \notin Busy
    /\ \/ wantRead' = wantRead \cup {t} /\ UNCHANGED wantWrite
       \/ wantWrite' = wantWrite \cup {t} /\ UNCHANGED wantRead
    /\ UNCHANGED <<readers, writers>>

\* A slot is granted to a waiting reader or at once to a newcomer.
AcquireRead(t) ==
    /\ t \notin Busy \ wantRead
    /\ writers = {}
    /\ Cardinality(readers) < MaxReaders
    /\ readers' = readers \cup {t}
    /\ wantRead' = wantRead \ {t}
    /\ UNCHANGED <<wantWrite, writers>>

AcquireWrite(t) ==
    /\ t \notin Busy \ wantWrite
    /\ readers = {} /\ writers = {}
    /\ writers' = {t}
    /\ wantWrite' = wantWrite \ {t}
    /\ UNCHANGED <<wantRead, readers>>

\* A lock operation ends without the lock: its deadline has passed, or there
\* is no reader slot left.
GiveUp(t) ==
    /\ t \in wantRead \cup wantWrite
    /\ wantRead' = wantRead \ {t}
    /\ wantWrite' = wantWrite \ {t}
    /\ UNCHANGED <<readers, writers>>

Release(t) ==
    /\ t \in readers \cup writers
    /\ readers' = readers \ {t}
    /\ writers' = writers \ {t}
    /\ UNCHANGED <<wantRead, wantWrite>>

Next ==
    \E t \in Threads :
        \/ Request(t)
        \/ AcquireRead(t) \/ AcquireWrite(t)
        \/ GiveUp(t)
        \/ Release(t)

Safety == Init /\ [][Next]_vars

\* A reader waits only for a writer, and a free lock does not stay free while
\* somebody waits for it.
Handoff ==
    /\ \A t \in Threads : WF_vars(t \in wantRead /\ AcquireRead(t))
    /\ WF_vars(\E t \in Threads :
                  \/ t \in wantRead /\ AcquireRead(t)
                  \/ t \in wantWrite /\ AcquireWrite(t))

Spec == Safety /\ Handoff
=============================================================================
