--------------------------- MODULE MCGlobalRWLock ---------------------------
(* Instances of GlobalRWLock for TLC. *)
EXTENDS GlobalRWLock, TLC

CONSTANTS p1, p2, p3, ta, tb, tc

\* A process of two threads and a process of one.
Home21 == (ta :> p1) @@ (tb :> p1) @@ (tc :> p2)
Sym21 == Permutations({ta, tb})

\* Three processes of one thread.
Home111 == (ta :> p1) @@ (tb :> p2) @@ (tc :> p3)
=============================================================================
