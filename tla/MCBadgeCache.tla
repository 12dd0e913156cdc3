---------------------------- MODULE MCBadgeCache ----------------------------
(* Instances of BadgeCache for TLC: s1 is another form of the address a1. *)
EXTENDS BadgeCache

CONSTANTS a1, s1

MCCanonical == [a \in Addresses |-> IF a = s1 THEN a1 ELSE a]
=============================================================================
