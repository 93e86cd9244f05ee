------------------------------ MODULE MCNBackup ------------------------------
(* Constants of NBackup for TLC. *)
EXTENDS NBackup, TLC

CONSTANTS p1, p2, c1, c2, A, hdr

Home11 == (c1 :> p1) @@ (c2 :> p2)
OneReads == (c1 :> {}) @@ (c2 :> {A})
BothChange == (c1 :> {A}) @@ (c2 :> {A, hdr})

=============================================================================
