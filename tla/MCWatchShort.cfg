SPECIFICATION BookSpec
CONSTANTS
  Accounts = {a1, a2}
  NoOne = NoOne
  Events = {e1, e2}
  Short = Short
  NoEvent = NoEvent
  Calls = {c1, c2}
INVARIANT WatchedIsListed
