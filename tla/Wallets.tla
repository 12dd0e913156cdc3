------------------------------ MODULE Wallets ------------------------------
(* Whose wallets a page may be connected to. *)
CONSTANTS
  Accounts,  \* one wallet with one address each
  NoOne      \* no wallet

ASSUME WalletAssumption == NoOne \notin Accounts
=============================================================================
