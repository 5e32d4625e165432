-------------------------- MODULE MCConfirmedTools --------------------------
(* Small instances of ConfirmedTools for TLC. *)
EXTENDS ConfirmedRefinement, ConfirmedInvariant, TLC

CONSTANTS k1, k2, k3

\* k1 and k2 are two API keys of one account, k3 is a key of another.
MC_UserOf == [k \in Keys |-> IF k = k3 THEN 2 ELSE 1]

Symmetry == Permutations(Calls)
=============================================================================
