------------------------- MODULE MCEventActivation --------------------------
(* Instances of EventActivation for TLC. *)
EXTENDS EventActivation, TLC

\* Nothing orders payments, windows or request slots.
Symmetry == Permutations(Payments) \cup Permutations(Windows) \cup Permutations(Requests)
=============================================================================
