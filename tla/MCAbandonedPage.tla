--------------------------- MODULE MCAbandonedPage --------------------------
(* Model checking of AbandonedPage: three threads and a page of four       *)
(* blocks, one of them freed without collection.                           *)
EXTENDS AbandonedPage

CONSTANTS t1, t2, t3, b1, b2, b3, b4

MCThreads == {t1, t2, t3}
MCBlocks == {b1, b2, b3, b4}
MCKept == {b4}
=============================================================================
