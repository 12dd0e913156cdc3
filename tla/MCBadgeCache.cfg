\* Two owners, one of them with two forms of its address, one event, two
\* transactions (two mints of the same or of different badges, or a mint and its
\* transfer), one read request, one row at a time that a client reported.
SPECIFICATION Spec
CONSTANTS
  Events = {e1}
  Addresses = {a1, a2, s1}
  a1 = a1
  s1 = s1
  Canonical <- MCCanonical
  Txs = {1, 2}
  Placeholder = Placeholder
  Requests = {r1}
  Main = Main
  Blocks = {1, 2}
  PageSize = 1
  MaxFailures = 1
  MaxRestarts = 0
  MaxReported = 1
INVARIANTS TypeOK RowsReflectChain InFlightReflectsChain ResponseComplete
PROPERTIES SyncsAdvance
