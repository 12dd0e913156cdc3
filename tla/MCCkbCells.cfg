\* Three transactions: mint, transfer or burn, and a mint that reuses the id.
SPECIFICATION Spec
CONSTANTS
  Scopes = {s1}
  Addresses = {a1, a2}
  Locks = {l1}
  Data = {d1}
  Funds = 1
  MaxTxs = 3
  MaxInputs = 2
  MaxOutputs = 2
SYMMETRY Symmetry
INVARIANTS TypeOK TypeIdNamesOneBadge AnchorsStay
PROPERTIES BadgesAreUniqueTokens
\* The chain may come to a stop: when only anchors are left to spend.
CHECK_DEADLOCK FALSE
