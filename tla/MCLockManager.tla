---------------------------- MODULE MCLockManager ----------------------------
(* Instances of LockManager for TLC. *)
EXTENDS LockManager, TLC

CONSTANTS p1, p2, oa, ob, oc, ca, cb, cc, k1, k2, r1, r2, r3, r4

\* Two owners share process p1, the third is alone in p2.
ProcOf3 == (oa :> p1) @@ (ob :> p1) @@ (oc :> p2)
Home3 == (ca :> oa) @@ (cb :> ob) @@ (cc :> oc)

ProcOf2 == (oa :> p1) @@ (oc :> p2)
Home2 == (ca :> oa) @@ (cc :> oc)

\* Request blocks are interchangeable.
Sym2 == Permutations({r1, r2})
Sym3 == Permutations({r1, r2, r3})
Sym4 == Permutations({r1, r2, r3, r4})
=============================================================================
