---------------------------- MODULE QrAttendance ----------------------------
(***************************************************************************)
(* Attendance by dynamic QR code, for one event of the backend: the        *)
(* creator's window, GET /events/:id/qr that shows a code made from the    *)
(* window's secret and the current second, POST /badges/build that checks  *)
(* a scanned code and records its use in qr_replay_log, and GET /health    *)
(* that cleans the log.  A code is checked in four steps with an .await    *)
(* between them: read the event, check code and time, query the log, write *)
(* the log.                                                                *)
(***************************************************************************)
EXTENDS Naturals, FiniteSets

CONSTANTS
  Displays,     \* requests for a code
  Scans,        \* requests that present a code
  TTL,          \* QR_TTL_SECONDS; a code is accepted up to TTL * 2 after it was made
  Retention,    \* how long health keeps the log (24 hours)
  MaxStall,     \* the longest a request runs after its time checks
  MaxTime,      \* bound: the last second
  Starts, Ends, \* bound: the first and last seconds of the windows that are signed
  Signatures,   \* what a creator's wallet may return for one message
  MaxCodes,     \* bound: codes shown
  MaxWindows,   \* bound: windows the creator signs
  MaxRestarts   \* bound: process restarts

ASSUME TimesAssumption ==
  TTL \in Nat /\ Retention \in Nat /\ MaxStall \in Nat /\ MaxTime \in Nat
ASSUME WindowsAssumption == Starts \subseteq Nat /\ Ends \subseteq Nat
ASSUME RetentionAssumption == Retention >= TTL * 2 + MaxStall
ASSUME BoundsAssumption == MaxCodes \in Nat /\ MaxWindows \in Nat /\ MaxRestarts \in Nat

VARIABLES
  now,       \* the clock, in seconds
  current,   \* how many windows were signed; the event holds the newest, 0 = none
  windows,   \* the windows signed so far
  displays,  \* per display request: the window it read, 0 when it has none
  shown,     \* codes that were shown
  scans,     \* per scan request
  used,      \* qr_replay_log: when each code second was used
  everUsed,  \* history: every code second that was ever recorded
  restarts

vars == <<now, current, windows, displays, shown, scans, used, everUsed, restarts>>

Seconds == 0..MaxTime

\* An end after MaxTime stands for NULL.  The secret hashes start and signature,
\* and the signature is over start and end: equal secrets are equal windows.
Window == [start : Starts, end : Ends, signature : Signatures]

\* A code names the window whose secret signed it, and its second.
Code == [win : Nat, second : Seconds]
Scan == [step : {"idle", "validate", "check", "record", "accepted"},
         code : Code,
         win  : Nat,      \* the window that was read
         at   : Seconds,  \* when code and time were checked
         late : BOOLEAN]  \* history: the second was used when the log was queried

NoScan == [step |-> "idle", code |-> [win |-> 0, second |-> 0], win |-> 0, at |-> 0,
           late |-> FALSE]

\* WindowProof::is_open.
IsOpen(w) == w.start <= now /\ now < w.end

\* validate_qr_freshness.
Fresh(second, w) ==
  /\ w.start <= second /\ second <= w.end
  /\ second <= now /\ now <= second + TTL * 2

Init ==
  /\ now = 0
  /\ current = 0
  /\ windows = <<>>
  /\ displays = [d \in Displays |-> 0]
  /\ shown = {}
  /\ scans = [s \in Scans |-> NoScan]
  /\ used = <<>>
  /\ everUsed = {}
  /\ restarts = 0

(***************************************************************************)
(* Time and the process.                                                   *)
(***************************************************************************)
InTime(s) == scans[s].step \in {"check", "record"} => now < scans[s].at + MaxStall

Tick ==
  /\ now < MaxTime
  /\ \A s \in Scans : InTime(s)
  /\ now' = now + 1
  /\ UNCHANGED <<current, windows, displays, shown, scans, used, everUsed, restarts>>

\* Requests in flight are gone; the event and the log stay.
Restart ==
  /\ restarts < MaxRestarts
  /\ restarts' = restarts + 1
  /\ displays' = [d \in Displays |-> 0]
  /\ scans' = [s \in Scans |-> NoScan]
  /\ UNCHANGED <<now, current, windows, shown, used, everUsed>>

(***************************************************************************)
(* The window: a new one replaces the old one, and its secret with it.     *)
(***************************************************************************)
SubmitWindow(w) ==
  /\ current < MaxWindows
  /\ current' = current + 1
  /\ windows' = [n \in 1..(current + 1) |->
                   IF n <= current THEN windows[n] ELSE w]
  /\ UNCHANGED <<now, displays, shown, scans, used, everUsed, restarts>>

(***************************************************************************)
(* GET /events/:id/qr.                                                     *)
(***************************************************************************)
ReadForDisplay(d) ==
  /\ displays[d] = 0
  /\ current > 0
  /\ displays' = [displays EXCEPT ![d] = current]
  /\ UNCHANGED <<now, current, windows, shown, scans, used, everUsed, restarts>>

ShowCode(d) ==
  LET win == displays[d]
  IN /\ win > 0
     /\ Cardinality(shown) < MaxCodes
     /\ shown' = IF IsOpen(windows[win]) THEN shown \cup {[win |-> win, second |-> now]} ELSE shown
     /\ displays' = [displays EXCEPT ![d] = 0]
     /\ UNCHANGED <<now, current, windows, scans, used, everUsed, restarts>>

(***************************************************************************)
(* POST /badges/build with an attendance proof.                            *)
(***************************************************************************)
SetScan(s, scan) == scans' = [scans EXCEPT ![s] = scan]

\* get_active_event: the window the rest of the request works with.
ReadEvent(s, c) ==
  /\ scans[s].step \in {"idle", "accepted"}
  /\ current > 0
  /\ SetScan(s, [step |-> "validate", code |-> c, win |-> current, at |-> 0, late |-> FALSE])
  /\ UNCHANGED <<now, current, windows, displays, shown, used, everUsed, restarts>>

\* Mutant: the HMAC is not compared.
AnySecret(s) ==
  IsOpen(windows[scans[s].win]) /\ Fresh(scans[s].code.second, windows[scans[s].win])

CodeIsGood(s) ==
  /\ IsOpen(windows[scans[s].win])
  /\ windows[scans[s].code.win] = windows[scans[s].win]
  /\ Fresh(scans[s].code.second, windows[scans[s].win])

Validate(s) ==
  /\ scans[s].step = "validate"
  /\ SetScan(s, IF CodeIsGood(s) THEN [scans[s] EXCEPT !.step = "check", !.at = now] ELSE NoScan)
  /\ UNCHANGED <<now, current, windows, displays, shown, used, everUsed, restarts>>

CheckReplay(s) ==
  LET second == scans[s].code.second
  IN /\ scans[s].step = "check"
     /\ SetScan(s, IF second \in DOMAIN used THEN NoScan
                   ELSE [scans[s] EXCEPT !.step = "record", !.late = second \in everUsed])
     /\ UNCHANGED <<now, current, windows, displays, shown, used, everUsed, restarts>>

\* Mutant: the log holds the second at which the code expires.
RecordExpiry(s) ==
  LET second == scans[s].code.second
  IN /\ scans[s].step = "record"
     /\ used' = [t \in DOMAIN used \cup {second} |->
                   IF t \in DOMAIN used THEN used[t] ELSE second + TTL * 2]
     /\ everUsed' = everUsed \cup {second}
     /\ SetScan(s, [scans[s] EXCEPT !.step = "accepted"])
     /\ UNCHANGED <<now, current, windows, displays, shown, restarts>>

\* INSERT OR IGNORE: the first use keeps its time.
RecordUsage(s) ==
  LET second == scans[s].code.second
  IN /\ scans[s].step = "record"
     /\ used' = [t \in DOMAIN used \cup {second} |-> IF t \in DOMAIN used THEN used[t] ELSE now]
     /\ everUsed' = everUsed \cup {second}
     /\ SetScan(s, [scans[s] EXCEPT !.step = "accepted"])
     /\ UNCHANGED <<now, current, windows, displays, shown, restarts>>

\* A statement fails, and the request returns the error.
ScanFails(s) ==
  /\ scans[s].step \in {"check", "record"}
  /\ SetScan(s, NoScan)
  /\ UNCHANGED <<now, current, windows, displays, shown, used, everUsed, restarts>>

(***************************************************************************)
(* GET /health: cleanup_expired_replay_log.                                *)
(***************************************************************************)
\* What the clean-up keeps.  Mutant: codes are dropped when they expire.
KeepFresh(second) == second + TTL * 2 >= now
Keeps(second) == used[second] + Retention >= now

CleanUp ==
  /\ used' = [t \in {u \in DOMAIN used : Keeps(u)} |-> used[t]]
  /\ UNCHANGED <<now, current, windows, displays, shown, scans, everUsed, restarts>>

Next ==
  \/ Tick \/ Restart \/ CleanUp
  \/ \E w \in Window : SubmitWindow(w)
  \/ \E d \in Displays : ReadForDisplay(d) \/ ShowCode(d)
  \/ \E s \in Scans :
       \/ \E c \in shown : ReadEvent(s, c)
       \/ Validate(s) \/ CheckReplay(s) \/ RecordUsage(s) \/ ScanFails(s)

Spec == Init /\ [][Next]_vars

-----------------------------------------------------------------------------
\* Clock, codes, requests and log have the shape the code gives them.
TypeOK ==
  /\ now \in Seconds
  /\ current \in 0..MaxWindows
  /\ windows \in [1..current -> Window]
  /\ displays \in [Displays -> 0..current]
  /\ shown \subseteq Code
  /\ scans \in [Scans -> Scan]
  /\ DOMAIN used \subseteq Seconds /\ used \in [DOMAIN used -> Seconds]
  /\ everUsed \subseteq Seconds
  /\ restarts \in 0..MaxRestarts

\* A request that queries the log after a use of its code was recorded is not
\* accepted, although health deletes old entries at any time and a request may
\* stall between its time checks and its query.
NoLateReplay == \A s \in Scans : scans[s].step \in {"record", "accepted"} => ~scans[s].late

\* Attendance is accepted only for a code that was shown for the window that
\* the request read (or for one signed just like it), while it was open, and
\* that was not older than TTL * 2 when it was checked, in that window too:
\* neither a replaced window nor a stale read of the event lets another code
\* through.
AcceptedInWindow ==
  \A s \in Scans : scans[s].step \in {"check", "record", "accepted"} =>
    LET w == windows[scans[s].win]
        c == scans[s].code
    IN /\ c \in shown /\ windows[c.win] = w
       /\ w.start <= c.second /\ c.second <= scans[s].at /\ scans[s].at < w.end
       /\ scans[s].at <= c.second + TTL * 2

\* What the documents say (frontend/README.md, "Time-limited codes (60s
\* validity) prevent replay attacks"): a shown code serves one request.
CodeServesOnce ==
  \A s, t \in Scans :
    /\ scans[s].step = "accepted" /\ scans[t].step = "accepted"
    /\ scans[s].code = scans[t].code
    => s = t
=============================================================================
