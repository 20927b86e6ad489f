---------------------------- MODULE MCPthreadCond ----------------------------
(***************************************************************************)
(* Instances of PthreadCond for TLC.                                       *)
(***************************************************************************)
EXTENDS PthreadCond, TLC

CONSTANTS t1, t2, t3

MCThreads == {t1, t2, t3}

\* Every thread may play every part: lock and wait, signal twice, or lock and
\* signal.
AnyPart == [t \in MCThreads |-> 2]

Symmetry == Permutations(MCThreads)
=============================================================================
