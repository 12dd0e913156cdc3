\* One activation and a crash between its last two statements.
SPECIFICATION Spec
CONSTANTS
  Events = {e1}
  Payments = {p1}
  Windows = {w1}
  NoPayment = NoPayment
  NoWindow = NoWindow
  Requests = {r1}
  Blocks = {1}
  MaxFailures = 0
  MaxRestarts = 1
INVARIANTS ObservedPaymentIsActivated
