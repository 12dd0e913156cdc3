\* No read requests: the confirmation task and the rehydration of a first start
\* and of a restart, against clients that record and build badges of two keys.
SPECIFICATION FairSpec
CONSTANTS
  Events = {e1, e2}
  Addresses = {a1}
  a1 = a1
  s1 = s1
  Canonical <- MCCanonical
  Txs = {1, 2}
  Placeholder = Placeholder
  Requests = {}
  Main = Main
  Blocks = {1}
  PageSize = 1
  MaxFailures = 1
  MaxRestarts = 1
  MaxReported = 2
INVARIANTS RehydrateComplete
PROPERTIES PendingIsConfirmed StartupServes
