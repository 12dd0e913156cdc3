SPECIFICATION ScreensSpec
CONSTANTS
  Accounts = {a1, a2}
  NoOne = NoOne
  Txs = {t1, t2}
  Holders = {a1}
  Attempts = 1
  MaxLoads = 2
  MaxFailures = 2
  MaxAge = 4
  MaxFuture = 1
  TTL = 3
  Patience = 1
  MaxStarts = 3
  Events = {e1, e2}
  Short = Short
  NoEvent = NoEvent
  Calls = {c1, c2}
  MaxOpens = 2
  MaxScanners = 2
  MaxLookups = 2
  Open = Open
  MaxTime = 1
  MaxClaims = 1
INVARIANTS
  ScreensTypeOK
  RecordsAreKept PendingIsPolled
  KioskIsAlive OneRotation ShownCodeIsAccepted
  PendingIsVouched OneLookupPerScanner SpinnersEnd
  WatchesAreKept DetailsAreOwn
  ClaimIsVouched IssuedVerifies
PROPERTIES ShownBadgesStay ScreensCatchUp
\* A screen that has been left does nothing more.
CHECK_DEADLOCK FALSE
