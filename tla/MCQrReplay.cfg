\* One window, and two requests that present one code at the same time.
SPECIFICATION Spec
CONSTANTS
  Displays = {d1}
  Scans = {s1, s2}
  TTL = 1
  Retention = 3
  MaxStall = 1
  MaxTime = 5
  Starts = {0}
  Ends = {9}
  Signatures = {g1}
  MaxCodes = 2
  MaxWindows = 1
  MaxRestarts = 0
SYMMETRY Symmetry
INVARIANTS CodeServesOnce
