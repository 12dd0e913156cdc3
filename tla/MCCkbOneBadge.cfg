\* One scope and one address, two mints of one badge each.
SPECIFICATION Spec
CONSTANTS
  Scopes = {s1}
  Addresses = {a1}
  Locks = {l1}
  Data = {d1}
  Funds = 2
  MaxTxs = 2
  MaxInputs = 1
  MaxOutputs = 1
INVARIANTS OneBadgePerScopeAndAddress
\* The chain stops at its bound.
CHECK_DEADLOCK FALSE
