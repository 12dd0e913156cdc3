\* A code lives 2 seconds and a use is kept for 3; two scans, and a window that
\* another one may replace (an end of 9 is open-ended).
SPECIFICATION Spec
CONSTANTS
  Displays = {d1}
  Scans = {s1, s2}
  TTL = 1
  Retention = 3
  MaxStall = 1
  MaxTime = 5
  Starts = {1}
  Ends = {3, 9}
  Signatures = {g1, g2}
  MaxCodes = 2
  MaxWindows = 2
  MaxRestarts = 1
SYMMETRY Symmetry
INVARIANTS TypeOK NoLateReplay AcceptedInWindow
