---------------------------- MODULE MCEventBook ----------------------------
(* An instance of EventBook alone for TLC. *)
EXTENDS EventBook
=============================================================================
