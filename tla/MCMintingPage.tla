--------------------------- MODULE MCMintingPage ---------------------------
(* Instances of MintingPage for TLC. *)
EXTENDS MintingPage, TLC

\* Nothing orders the accounts, nor the mints.
Symmetry == Permutations(Accounts) \cup Permutations(Mints)
=============================================================================
