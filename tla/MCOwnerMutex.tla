---------------------------- MODULE MCOwnerMutex ----------------------------
(* Model checking of OwnerMutex.  *)
EXTENDS OwnerMutex, TLC

K(b, r, s) == [base |-> b, robust |-> r, shared |-> s]

MCKinds == {K("recursive", FALSE, FALSE), K("errorcheck", TRUE, FALSE),
            K("normal", TRUE, FALSE), K("normal", TRUE, TRUE),
            K("recursive", TRUE, TRUE), K("errorcheck", FALSE, TRUE)}

Symmetry == Permutations(Threads)

=============================================================================
