---------------------------- MODULE UniqueTokens ----------------------------
(***************************************************************************)
(* What the badge contract promises about its tokens, whatever else the    *)
(* chain does: a token is held in one place at a time, it comes into being *)
(* once, and a token that is gone never comes back.                        *)
(***************************************************************************)
VARIABLES
  born,   \* the ids of all tokens there ever were
  held    \* pairs <<id, place>>: the tokens there are now and where each one is

Ids(tokens) == {h[1] : h \in tokens}

Init == born = {} /\ held = {}

\* One chain transaction may mint, move and burn several tokens.
Change ==
  /\ \A g, h \in held' : g[1] = h[1] => g = h
  /\ Ids(held') \cap born \subseteq Ids(held)
  /\ born' = born \cup Ids(held')

Spec == Init /\ [][Change]_<<born, held>>
=============================================================================
