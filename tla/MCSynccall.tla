----------------------------- MODULE MCSynccall -----------------------------
(***************************************************************************)
(* Synccall with two running tasks, a third that may be created, and a     *)
(* bounded number of calls.                                                *)
(***************************************************************************)
EXTENDS Synccall
=============================================================================
