----------------------------- MODULE TaskCount ------------------------------
(***************************************************************************)
(* The tasks of one process, as the lock words of the library count them.  *)
(***************************************************************************)
EXTENDS Integers, FiniteSets

CONSTANT Threads    \* the tasks that share the object

\* i32::MAX
MaxTasks == 2147483647

\* The contenders of an object are counted in an i32, or below its sign bit.
ASSUME ThreadsAssumption ==
    IsFiniteSet(Threads) /\ Cardinality(Threads) <= MaxTasks

=============================================================================
