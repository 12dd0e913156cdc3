------------------------- MODULE QrAttendanceProofs -------------------------
(***************************************************************************)
(* Proofs about QrAttendance for every number of requests and windows and  *)
(* for all times, provided the log is kept at least as long as a code can  *)
(* be accepted and a request can stall (RetentionAssumption).              *)
(***************************************************************************)
EXTENDS QrAttendance, TLAPS

\* Codes are shown while their window is open, and never ahead of the clock.
ShownInWindow ==
  \A c \in shown :
    /\ c.win \in 1..current
    /\ windows[c.win].start <= c.second /\ c.second < windows[c.win].end
    /\ c.second <= now

\* A use is logged no earlier than the code's second.
LoggedAfterShown == \A t \in DOMAIN used : t <= used[t]

\* An entry that left the log is older than the retention.
ForgottenIsOld == \A t \in everUsed : t \in DOMAIN used \/ t + Retention < now

\* A scan works on a shown code; past its time checks the code was good then,
\* and until its last step the scan is within its stall.
ScanInv(s) ==
  scans[s].step # "idle" =>
    /\ scans[s].code \in shown
    /\ scans[s].win \in 1..current
    /\ scans[s].step \in {"check", "record", "accepted"} =>
         /\ windows[scans[s].code.win] = windows[scans[s].win]
         /\ windows[scans[s].win].start <= scans[s].code.second
         /\ scans[s].code.second <= scans[s].at
         /\ scans[s].at < windows[scans[s].win].end
         /\ scans[s].at <= scans[s].code.second + TTL * 2
         /\ scans[s].at <= now
    /\ scans[s].step \in {"check", "record"} => now <= scans[s].at + MaxStall
    /\ scans[s].step \in {"record", "accepted"} => ~scans[s].late

ScansInv == \A s \in Scans : ScanInv(s)

IInv == TypeOK /\ ShownInWindow /\ LoggedAfterShown /\ ForgottenIsOld /\ ScansInv

-----------------------------------------------------------------------------
LEMMA SetScanType ==
  ASSUME TypeOK, NEW s \in Scans, NEW scan \in Scan, SetScan(s, scan)
  PROVE  /\ scans' \in [Scans -> Scan]
         /\ scans'[s] = scan
         /\ \A r \in Scans \ {s} : scans'[r] = scans[r]
  BY DEF TypeOK, SetScan

\* A request that is rejected leaves nothing to check.
LEMMA NoScanType == NoScan \in Scan
  BY TimesAssumption DEF NoScan, Scan, Code, Seconds

\* Initially nothing was shown, scanned or used.
LEMMA InitInv == Init => IInv
<1> SUFFICES ASSUME Init PROVE IInv
  OBVIOUS
<1>1. TypeOK
  <2>1. windows \in [1..current -> Window]
    BY DEF Init
  <2>2. DOMAIN used \subseteq Seconds /\ used \in [DOMAIN used -> Seconds]
    BY DEF Init
  <2>3. scans \in [Scans -> Scan]
    BY NoScanType DEF Init
  <2> QED
    BY <2>1, <2>2, <2>3, TimesAssumption, BoundsAssumption DEF Init, TypeOK, Seconds
<1>2. ScansInv
  BY DEF Init, ScansInv, ScanInv, NoScan
<1> QED
  BY <1>1, <1>2 DEF Init, IInv, ShownInWindow, LoggedAfterShown, ForgottenIsOld

-----------------------------------------------------------------------------
LEMMA TickInv == ASSUME IInv, Tick PROVE IInv'
<1>1. now \in Nat /\ now' \in Nat /\ now < now' /\ now' <= MaxTime
  BY TimesAssumption DEF IInv, TypeOK, Tick, Seconds
<1>2. TypeOK'
  BY <1>1, TimesAssumption DEF IInv, TypeOK, Tick, Seconds
<1>3. ShownInWindow'
  BY <1>1, TimesAssumption DEF IInv, TypeOK, ShownInWindow, Tick, Code, Seconds
<1>4. LoggedAfterShown' /\ ForgottenIsOld'
  BY <1>1, TimesAssumption DEF IInv, TypeOK, LoggedAfterShown, ForgottenIsOld, Tick, Seconds
<1>5. ASSUME NEW s \in Scans PROVE ScanInv(s)'
  <2>1. ScanInv(s) /\ scans[s] \in Scan /\ InTime(s)
    BY DEF IInv, ScansInv, Tick, TypeOK
  <2>2. scans'[s] = scans[s]
    BY DEF Tick
  <2>3. scans[s].at \in Nat
    BY <2>1 DEF Scan, Seconds
  <2>4. scans[s].step \in {"check", "record"} => now' <= scans[s].at + MaxStall
    BY <1>1, <2>1, <2>3, TimesAssumption DEF InTime, Tick
  <2>5. scans[s].at <= now => scans[s].at <= now'
    BY <1>1, <2>3
  <2> QED
    BY <2>1, <2>2, <2>4, <2>5 DEF ScanInv, Tick
<1> QED
  BY <1>2, <1>3, <1>4, <1>5 DEF IInv, ScansInv

LEMMA RestartInv == ASSUME IInv, Restart PROVE IInv'
<1>1. TypeOK'
  BY NoScanType, BoundsAssumption DEF IInv, TypeOK, Restart
<1>2. ScansInv'
  BY DEF Restart, ScansInv, ScanInv, NoScan
<1> QED
  BY <1>1, <1>2 DEF IInv, Restart, ShownInWindow, LoggedAfterShown, ForgottenIsOld

LEMMA SubmitWindowInv ==
  ASSUME IInv, NEW w \in Window, SubmitWindow(w)
  PROVE  IInv'
<1>1. /\ current \in Nat /\ current' = current + 1 /\ current' <= MaxWindows
      /\ \A n \in 1..current : n \in 1..current' /\ windows'[n] = windows[n]
  BY BoundsAssumption DEF IInv, TypeOK, SubmitWindow
<1>2. windows' \in [1..current' -> Window]
  BY <1>1 DEF IInv, TypeOK, SubmitWindow
<1>3. \A c \in shown : c.win \in 1..current
  BY DEF IInv, ShownInWindow
<1>4. displays' \in [Displays -> 0..current']
  BY <1>1 DEF IInv, TypeOK, SubmitWindow
<1>5. TypeOK'
  BY <1>1, <1>2, <1>4, BoundsAssumption DEF IInv, TypeOK, SubmitWindow
<1>6. ShownInWindow'
  BY <1>1 DEF IInv, ShownInWindow, SubmitWindow
<1>7. ASSUME NEW s \in Scans PROVE ScanInv(s)'
  BY <1>1, <1>3 DEF IInv, ScansInv, ScanInv, SubmitWindow
<1> QED
  BY <1>5, <1>6, <1>7 DEF IInv, ScansInv, SubmitWindow, LoggedAfterShown, ForgottenIsOld

LEMMA ReadForDisplayInv ==
  ASSUME IInv, NEW d \in Displays, ReadForDisplay(d) PROVE IInv'
<1>1. TypeOK'
  BY BoundsAssumption DEF IInv, TypeOK, ReadForDisplay
<1> QED
  BY <1>1 DEF IInv, ReadForDisplay, ShownInWindow, LoggedAfterShown, ForgottenIsOld,
              ScansInv, ScanInv

LEMMA ShowCodeInv ==
  ASSUME IInv, NEW d \in Displays, ShowCode(d) PROVE IInv'
<1> DEFINE win == displays[d]
           c == [win |-> win, second |-> now]
<1>1. win \in 1..current /\ windows[win] \in Window
  BY BoundsAssumption DEF IInv, TypeOK, ShowCode
<1>2. c \in Code
  BY <1>1, TimesAssumption DEF IInv, TypeOK, Code
<1>3. shown \subseteq shown' /\ shown' \subseteq shown \cup {c}
  BY DEF ShowCode
<1>4. c \in shown' \ shown => IsOpen(windows[win])
  BY DEF ShowCode
<1>5. TypeOK'
  BY <1>2, <1>3, BoundsAssumption DEF IInv, TypeOK, ShowCode
<1>6. ASSUME NEW e \in shown'
      PROVE  /\ e.win \in 1..current
             /\ windows[e.win].start <= e.second /\ e.second < windows[e.win].end
             /\ e.second <= now
  <2>1. CASE e \in shown
    BY <2>1 DEF IInv, ShownInWindow
  <2>2. CASE e \notin shown
    <3>1. e = c /\ IsOpen(windows[win])
      BY <2>2, <1>3, <1>4
    <3>2. now \in Nat
      BY TimesAssumption DEF IInv, TypeOK, Seconds
    <3> QED
      BY <3>1, <3>2, <1>1 DEF IsOpen
  <2> QED
    BY <2>1, <2>2
<1>7. ShownInWindow'
  BY <1>6 DEF ShownInWindow, ShowCode
<1>8. ASSUME NEW s \in Scans PROVE ScanInv(s)'
  BY <1>3 DEF IInv, ScansInv, ScanInv, ShowCode
<1> QED
  BY <1>5, <1>7, <1>8 DEF IInv, ScansInv, ShowCode, LoggedAfterShown, ForgottenIsOld

-----------------------------------------------------------------------------
\* A step of one scan that leaves the log alone is safe when its scan is.
LEMMA OneScanInv ==
  ASSUME IInv, NEW s \in Scans, NEW scan \in Scan, SetScan(s, scan), ScanInv(s)',
         UNCHANGED <<now, current, windows, displays, shown, used, everUsed, restarts>>
  PROVE  IInv'
<1>1. /\ scans' \in [Scans -> Scan]
      /\ \A r \in Scans \ {s} : scans'[r] = scans[r]
  BY SetScanType DEF IInv
<1>2. TypeOK'
  BY <1>1 DEF IInv, TypeOK
<1>3. ASSUME NEW r \in Scans PROVE ScanInv(r)'
  BY <1>1 DEF IInv, ScansInv, ScanInv
<1> QED
  BY <1>2, <1>3 DEF IInv, ScansInv, ShownInWindow, LoggedAfterShown, ForgottenIsOld

\* A scan that ends with an error.
LEMMA DropInv ==
  ASSUME IInv, NEW s \in Scans, SetScan(s, NoScan),
         UNCHANGED <<now, current, windows, displays, shown, used, everUsed, restarts>>
  PROVE  IInv'
<1>1. scans'[s] = NoScan
  BY SetScanType, NoScanType DEF IInv
<1>2. ScanInv(s)'
  BY <1>1 DEF ScanInv, NoScan
<1> QED
  BY <1>2, NoScanType, OneScanInv

LEMMA ReadEventInv ==
  ASSUME IInv, NEW s \in Scans, NEW c \in shown, ReadEvent(s, c) PROVE IInv'
<1> DEFINE scan == [step |-> "validate", code |-> c, win |-> current, at |-> 0, late |-> FALSE]
<1>1. scan \in Scan /\ current \in 1..current
  BY TimesAssumption, BoundsAssumption DEF IInv, TypeOK, Scan, Seconds, ReadEvent
<1>2. SetScan(s, scan)
  BY DEF ReadEvent
<1>3. scans'[s] = scan
  BY <1>1, <1>2, SetScanType DEF IInv
<1>4. ScanInv(s)'
  BY <1>1, <1>3 DEF ScanInv, ReadEvent
<1> QED
  BY <1>1, <1>2, <1>4, OneScanInv DEF ReadEvent

LEMMA ValidateInv == ASSUME IInv, NEW s \in Scans, Validate(s) PROVE IInv'
<1> DEFINE scan == [scans[s] EXCEPT !.step = "check", !.at = now]
           w == windows[scans[s].win]
<1>1. CASE ~CodeIsGood(s)
  BY <1>1, DropInv DEF Validate
<1>2. CASE CodeIsGood(s)
  <2>1. scans[s] \in Scan /\ now \in Seconds /\ ScanInv(s)
    BY DEF IInv, TypeOK, ScansInv
  <2>2. scan \in Scan
    BY <2>1 DEF Scan
  <2>3. SetScan(s, scan)
    BY <1>2 DEF Validate
  <2>4. scans'[s] = scan
    BY <2>2, <2>3, SetScanType DEF IInv
  <2>5. /\ scan.step = "check" /\ scan.at = now
        /\ scan.code = scans[s].code /\ scan.win = scans[s].win
    BY <2>1 DEF Scan
  <2>6. /\ scans[s].code \in shown /\ scans[s].win \in 1..current
        /\ windows[scans[s].code.win] = windows[scans[s].win]
    BY <1>2, <2>1 DEF ScanInv, Validate, CodeIsGood
  <2>7. /\ w.start <= scans[s].code.second /\ scans[s].code.second <= now
        /\ now < w.end /\ now <= scans[s].code.second + TTL * 2
    BY <1>2 DEF CodeIsGood, IsOpen, Fresh
  <2>8. now <= now /\ now <= now + MaxStall
    BY <2>1, TimesAssumption DEF Seconds
  <2>9. ScanInv(s)'
    BY <2>4, <2>5, <2>6, <2>7, <2>8 DEF ScanInv, Validate
  <2> QED
    BY <2>2, <2>3, <2>9, OneScanInv DEF Validate
<1> QED
  BY <1>1, <1>2

\* The heart of the matter: a code that is still within its time when the log
\* is queried, and was used before, is still in the log.
LEMMA CheckReplayInv == ASSUME IInv, NEW s \in Scans, CheckReplay(s) PROVE IInv'
<1> DEFINE second == scans[s].code.second
           scan == [scans[s] EXCEPT !.step = "record", !.late = FALSE]
<1>1. CASE second \in DOMAIN used
  BY <1>1, DropInv DEF CheckReplay
<1>2. CASE second \notin DOMAIN used
  <2>1. scans[s] \in Scan /\ now \in Seconds /\ ScanInv(s) /\ scans[s].step = "check"
    BY DEF IInv, TypeOK, ScansInv, CheckReplay
  <2>2. second \in Nat /\ scans[s].at \in Nat /\ now \in Nat
    BY <2>1, TimesAssumption DEF Scan, Code, Seconds
  <2>3. now <= scans[s].at + MaxStall /\ scans[s].at <= second + TTL * 2
    BY <2>1 DEF ScanInv
  <2>4. ~(second + Retention < now)
    BY <2>2, <2>3, TimesAssumption, RetentionAssumption
  <2>5. second \notin everUsed
    BY <1>2, <2>4 DEF IInv, ForgottenIsOld
  <2>6. (second \in everUsed) = FALSE
    BY <2>5
  <2>7. scan \in Scan
    BY <2>1 DEF Scan
  <2>8. SetScan(s, scan)
    BY <1>2, <2>6 DEF CheckReplay
  <2>9. scans'[s] = scan
    BY <2>7, <2>8, SetScanType DEF IInv
  <2>10. /\ scan.step = "record" /\ scan.at = scans[s].at /\ scan.code = scans[s].code
         /\ scan.win = scans[s].win /\ ~scan.late
    BY <2>1 DEF Scan
  <2>11. ScanInv(s)'
    BY <2>1, <2>9, <2>10 DEF ScanInv, CheckReplay
  <2> QED
    BY <2>7, <2>8, <2>11, OneScanInv DEF CheckReplay
<1> QED
  BY <1>1, <1>2

LEMMA ScanFailsInv == ASSUME IInv, NEW s \in Scans, ScanFails(s) PROVE IInv'
  BY DropInv DEF ScanFails

LEMMA RecordUsageInv == ASSUME IInv, NEW s \in Scans, RecordUsage(s) PROVE IInv'
<1> DEFINE second == scans[s].code.second
           scan == [scans[s] EXCEPT !.step = "accepted"]
<1>1. scans[s] \in Scan /\ now \in Seconds /\ ScanInv(s) /\ scans[s].step = "record"
  BY DEF IInv, TypeOK, ScansInv, RecordUsage
<1>2. scan \in Scan
  BY <1>1 DEF Scan
<1>3. SetScan(s, scan)
  BY DEF RecordUsage
<1>4. /\ scans' \in [Scans -> Scan] /\ scans'[s] = scan
      /\ \A r \in Scans \ {s} : scans'[r] = scans[r]
  BY <1>2, <1>3, SetScanType DEF IInv
<1>5. /\ scan.step = "accepted" /\ scan.at = scans[s].at /\ scan.code = scans[s].code
      /\ scan.win = scans[s].win /\ scan.late = scans[s].late
  BY <1>1 DEF Scan
<1>6. second \in Nat /\ scans[s].at \in Nat /\ second <= scans[s].at /\ scans[s].at <= now
  BY <1>1, TimesAssumption DEF Scan, Code, Seconds, ScanInv
<1>7. second \in Seconds /\ second <= now
  BY <1>1, <1>6, TimesAssumption DEF Seconds
<1>8. /\ DOMAIN used' = DOMAIN used \cup {second}
      /\ \A t \in DOMAIN used : used'[t] = used[t]
      /\ second \notin DOMAIN used => used'[second] = now
      /\ used' = [t \in DOMAIN used' |-> used'[t]]
  BY DEF RecordUsage
<1>9. \A t \in DOMAIN used' : used'[t] \in Seconds /\ t <= used'[t]
  BY <1>1, <1>7, <1>8 DEF IInv, TypeOK, LoggedAfterShown
<1>10. TypeOK'
  <2>1. DOMAIN used' \subseteq Seconds /\ used' \in [DOMAIN used' -> Seconds]
    BY <1>7, <1>8, <1>9 DEF IInv, TypeOK
  <2>2. everUsed' \subseteq Seconds
    BY <1>7 DEF IInv, TypeOK, RecordUsage
  <2> QED
    BY <1>4, <2>1, <2>2 DEF IInv, TypeOK, RecordUsage
<1>11. LoggedAfterShown'
  BY <1>9 DEF LoggedAfterShown
<1>12. ForgottenIsOld'
  BY <1>8 DEF IInv, ForgottenIsOld, RecordUsage
<1>13. ASSUME NEW r \in Scans PROVE ScanInv(r)'
  <2>1. CASE r = s
    BY <2>1, <1>1, <1>4, <1>5 DEF ScanInv, RecordUsage
  <2>2. CASE r # s
    BY <2>2, <1>4 DEF IInv, ScansInv, ScanInv, RecordUsage
  <2> QED
    BY <2>1, <2>2
<1> QED
  BY <1>10, <1>11, <1>12, <1>13 DEF IInv, ScansInv, ShownInWindow, RecordUsage

LEMMA CleanUpInv == ASSUME IInv, CleanUp PROVE IInv'
<1>1. /\ DOMAIN used' = {t \in DOMAIN used : Keeps(t)}
      /\ \A t \in DOMAIN used' : used'[t] = used[t]
      /\ used' = [t \in DOMAIN used' |-> used'[t]]
  BY DEF CleanUp
<1>2. TypeOK'
  BY <1>1 DEF IInv, TypeOK, CleanUp
<1>3. LoggedAfterShown'
  BY <1>1 DEF IInv, LoggedAfterShown
<1>4. ASSUME NEW t \in everUsed PROVE t \in DOMAIN used' \/ t + Retention < now
  <2>1. CASE t \in DOMAIN used /\ ~Keeps(t)
    <3>1. t \in Nat /\ used[t] \in Nat /\ now \in Nat /\ t <= used[t]
      BY <2>1, TimesAssumption DEF IInv, TypeOK, Seconds, LoggedAfterShown
    <3> QED
      BY <2>1, <3>1, TimesAssumption DEF Keeps
  <2>2. CASE t \in DOMAIN used /\ Keeps(t)
    BY <2>2, <1>1
  <2>3. CASE t \notin DOMAIN used
    BY <2>3 DEF IInv, ForgottenIsOld
  <2> QED
    BY <2>1, <2>2, <2>3
<1>5. ForgottenIsOld'
  BY <1>4 DEF ForgottenIsOld, CleanUp
<1>6. ScansInv'
  BY DEF IInv, ScansInv, ScanInv, CleanUp
<1> QED
  BY <1>2, <1>3, <1>5, <1>6 DEF IInv, ShownInWindow, CleanUp

\* The invariant is inductive: one step per action.
LEMMA Inductive == IInv /\ [Next]_vars => IInv'
<1> SUFFICES ASSUME IInv, [Next]_vars PROVE IInv'
  OBVIOUS
<1>1. CASE UNCHANGED vars
  BY <1>1 DEF vars, IInv, TypeOK, ShownInWindow, LoggedAfterShown, ForgottenIsOld,
              ScansInv, ScanInv
<1>2. CASE Tick
  BY <1>2, TickInv
<1>3. CASE Restart
  BY <1>3, RestartInv
<1>4. CASE CleanUp
  BY <1>4, CleanUpInv
<1>5. CASE \E w \in Window : SubmitWindow(w)
  BY <1>5, SubmitWindowInv
<1>6. CASE \E d \in Displays : ReadForDisplay(d) \/ ShowCode(d)
  BY <1>6, ReadForDisplayInv, ShowCodeInv
<1>7. CASE \E s \in Scans, c \in shown : ReadEvent(s, c)
  BY <1>7, ReadEventInv
<1>8. CASE \E s \in Scans : Validate(s) \/ CheckReplay(s) \/ RecordUsage(s) \/ ScanFails(s)
  BY <1>8, ValidateInv, CheckReplayInv, RecordUsageInv, ScanFailsInv
<1> QED
  BY <1>1, <1>2, <1>3, <1>4, <1>5, <1>6, <1>7, <1>8 DEF Next

LEMMA Invariance == Spec => []IInv
  BY InitInv, Inductive, PTL DEF Spec

-----------------------------------------------------------------------------
\* Clock, codes, requests and log keep their shape.
THEOREM TypeCorrect == Spec => []TypeOK
  BY Invariance, PTL DEF IInv

\* With a log kept long enough, a used code is never accepted again by a
\* request that queries the log after the use.
THEOREM ReplayIsRefused == Spec => []NoLateReplay
<1>1. IInv => NoLateReplay
  BY DEF IInv, ScansInv, ScanInv, NoLateReplay
<1> QED
  BY <1>1, Invariance, PTL

\* Attendance is accepted within the window and the life of the code only.
THEOREM AttendanceInWindow == Spec => []AcceptedInWindow
<1>1. IInv => AcceptedInWindow
  BY DEF IInv, ScansInv, ScanInv, AcceptedInWindow
<1> QED
  BY <1>1, Invariance, PTL
=============================================================================
