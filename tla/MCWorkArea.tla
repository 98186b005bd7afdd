----------------------------- MODULE MCWorkArea -----------------------------
(***************************************************************************)
(* Instances of WorkArea for TLC.                                          *)
(***************************************************************************)
EXTENDS WorkArea, TLC

\* GO on a record, in front of the first one, and further.
AnyTarget == {-1, 0, 1, 2}

\* Nothing tells one address from another.
Symmetry == Permutations(Addresses)
=============================================================================
