--------------------------- MODULE MCSharedBarrier ---------------------------
(***************************************************************************)
(* The instances of SharedBarrier that TLC checks: two threads share a     *)
(* process, a third one has its own.                                       *)
(***************************************************************************)
EXTENDS SharedBarrier

CONSTANTS t1, t2, t3, p1, p2

MCThreads == {t1, t2, t3}

MCProcess == [t \in MCThreads |-> IF t = t3 THEN p2 ELSE p1]
=============================================================================
