\* Two concurrent requests for two events: activations with the same or with
\* different payments, creations, windows, one failed call and one restart.
SPECIFICATION Spec
CONSTANTS
  Events = {e1, e2}
  Payments = {p1, p2}
  Windows = {w1}
  NoPayment = NoPayment
  NoWindow = NoWindow
  Requests = {r1, r2}
  Blocks = {1, 2}
  MaxFailures = 1
  MaxRestarts = 1
SYMMETRY Symmetry
INVARIANTS TypeOK ActivationsAreJustified LossesAreCounted
PROPERTIES SettledEventsStay
