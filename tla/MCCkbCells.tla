----------------------------- MODULE MCCkbCells -----------------------------
(* Instances of CkbCells for TLC. *)
EXTENDS CkbCells, TLC

\* No script orders addresses, locks or data.
Symmetry == Permutations(Addresses) \cup Permutations(Locks) \cup Permutations(Data)
=============================================================================
