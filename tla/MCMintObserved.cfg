SPECIFICATION Spec
CONSTANTS
  Accounts = {a1, a2}
  NoOne = NoOne
  Scopes = {e1}
  Mints = {m1, m2}
  Creations = {c1}
  Builds = {m1, m2, c1}
  Nothing = Nothing
  Funds = 2
  MaxTxs = 3
  Changes = {TRUE}
SYMMETRY Symmetry
INVARIANTS ObservedOnChain
