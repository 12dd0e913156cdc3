------------------------------- MODULE LiveQr -------------------------------
(***************************************************************************)
(* The kiosk that shows the rotating code of one event                     *)
(* (frontend/src/components/live-qr), for one visit of its screen.  Each   *)
(* start asks the wallet for a signature, registers the window and then    *)
(* sets an interval that asks the backend for a code whenever the shown    *)
(* one has lived.  Starts overlap, requests overlap, answer out of order   *)
(* and take as long as they like, and what is under way when the screen is *)
(* left goes on.  Wallet and backend are external; their clocks and the    *)
(* kiosk's agree, in ticks of the interval.                                *)
(***************************************************************************)
EXTENDS PresenceModule, FiniteSets

CONSTANTS
  TTL,        \* QR_TTL_SECONDS, and the refreshRate to begin with
  Patience,   \* a request for a code that takes longer is overdue
  MaxStarts   \* bound: starts of the kiosk

ASSUME KioskAssumption == TTL \in Nat \ {0} /\ Patience \in Nat /\ MaxStarts \in Nat

\* Overdue means: later than the policy of the scanners leaves room for, beside
\* one life of a code, or the tick after an answer that took almost as long.
\* It bounds no request: fetch sets no timeout.
ASSUME RotationAssumption ==
  MaxAge >= TTL + Patience /\ MaxAge >= Patience + 1 + Patience

VARIABLES
  pane,       \* what the screen shows, or left
  loading,    \* getEventById is under way
  connected,  \* the wallet
  starts,     \* the calls of startKiosk
  timers,     \* per start: the ticks of its interval, or Off
  current,    \* intervalId: the start whose interval it is, 0 for none
  asked,      \* how many requests for a code were made that many ticks ago
  overdue,    \* some request was made longer ago than Patience
  qr,         \* the age of the code in qrUrl, or NoCode
  rate,       \* refreshRate
  renewed,    \* history: a code has come since the newest interval was set
  disturbed,  \* history: starts that another start, or a failed request, ran into
  late        \* history: a request went overdue, or an overdue answer came, since
              \* the last answer in time

codeVars == <<asked, overdue, qr, rate, renewed, late>>
kioskVars == <<pane, loading, connected, starts, timers, current, asked, overdue, qr, rate,
               renewed, disturbed, late>>

StartIds == 1..MaxStarts
Off == -1
NoCode == -1
Running(s) == timers[s] # Off
UnderWay == {s \in StartIds : starts[s] \in {"sign", "register"}}
Larger(a, b) == IF a > b THEN a ELSE b
Smaller(a, b) == IF a < b THEN a ELSE b

KioskInit ==
  /\ pane = "initializing"
  /\ loading = TRUE
  /\ connected \in BOOLEAN
  /\ starts = [s \in StartIds |-> "unused"]
  /\ timers = [s \in StartIds |-> Off]
  /\ current = 0
  /\ asked = [d \in 0..Patience |-> 0]
  /\ overdue = FALSE
  /\ qr = NoCode
  /\ rate = TTL
  /\ renewed = FALSE
  /\ disturbed = {}
  /\ late = FALSE

-----------------------------------------------------------------------------
(***************************************************************************)
(* Starting.                                                               *)
(***************************************************************************)
Mounted(p) == IF pane = "left" THEN "left" ELSE p

\* The part of startKiosk up to its first await: error and wallet panes are
\* gone, and the wallet is asked to sign.
StartKiosk ==
  IF connected
    THEN \E s \in StartIds :
           /\ \A n \in StartIds : starts[n] = "unused" <=> n >= s
           /\ starts' = [starts EXCEPT ![s] = "sign"]
           /\ disturbed' = IF UnderWay = {} THEN disturbed ELSE disturbed \cup UnderWay \cup {s}
           /\ pane' = Mounted("code")
    ELSE pane' = Mounted("wallet") /\ UNCHANGED <<starts, disturbed>>

EventFound ==
  /\ loading
  /\ loading' = FALSE
  /\ StartKiosk
  /\ UNCHANGED <<connected, timers, current, codeVars>>

\* Navigates to the gallery.
EventMissing ==
  /\ loading
  /\ loading' = FALSE
  /\ pane' = "left"
  /\ UNCHANGED <<connected, starts, timers, current, codeVars, disturbed>>

\* In this screen's modal or in the header's.
KioskConnects ==
  /\ ~connected
  /\ connected' = TRUE
  /\ UNCHANGED <<pane, loading, starts, timers, current, codeVars, disturbed>>

OnWalletModalClose ==
  /\ pane = "wallet"
  /\ connected
  /\ StartKiosk
  /\ UNCHANGED <<loading, connected, timers, current, codeVars>>

Retry ==
  /\ pane = "error"
  /\ StartKiosk
  /\ UNCHANGED <<loading, connected, timers, current, codeVars>>

Sign(s) ==
  /\ starts[s] = "sign"
  /\ starts' = [starts EXCEPT ![s] = "register"]
  /\ UNCHANGED <<pane, loading, connected, timers, current, codeVars, disturbed>>

\* Mutant: a start that fails says nothing.
StartFailsQuietly(s) ==
  /\ s \in UnderWay
  /\ starts' = [starts EXCEPT ![s] = "done"]
  /\ UNCHANGED <<pane, loading, connected, timers, current, codeVars, disturbed>>

\* The user declines to sign, or the window is not registered.
StartFails(s) ==
  /\ s \in UnderWay
  /\ starts' = [starts EXCEPT ![s] = "done"]
  /\ pane' = Mounted("error")
  /\ UNCHANGED <<loading, connected, timers, current, codeVars, disturbed>>

\* The window is registered: a code is asked for and an interval set, on top of
\* one that may run, and on a screen that may have been left.
StartRotation(s) ==
  /\ starts[s] = "register"
  /\ starts' = [starts EXCEPT ![s] = "done"]
  /\ timers' = [timers EXCEPT ![s] = 0]
  /\ current' = s
  /\ asked' = [asked EXCEPT ![0] = @ + 1]
  /\ renewed' = FALSE
  /\ disturbed' = IF pane = "error" THEN disturbed \cup {s} ELSE disturbed
  /\ UNCHANGED <<pane, loading, connected, overdue, qr, rate, late>>

-----------------------------------------------------------------------------
(***************************************************************************)
(* Rotating.                                                               *)
(***************************************************************************)
\* Mutant: the interval waits for one tick too many.
DueLate(s) == Running(s) /\ timers[s] >= rate + 1

Due(s) == Running(s) /\ timers[s] + 1 >= rate
Older(age) == IF age = NoCode THEN NoCode ELSE Smaller(age + 1, MaxAge + 1)

\* A second passes on every interval that runs, and on every request.
Tick ==
  LET due == {s \in StartIds : Due(s)} IN
  /\ timers' = [s \in StartIds |->
       IF ~Running(s) THEN Off ELSE IF s \in due THEN 0 ELSE timers[s] + 1]
  /\ asked' = [d \in 0..Patience |->
       IF d > 0 THEN asked[d - 1] ELSE Cardinality(due)]
  /\ overdue' = (overdue \/ asked[Patience] > 0)
  /\ late' = (late \/ asked[Patience] > 0)
  /\ qr' = Older(qr)
  /\ UNCHANGED <<pane, loading, connected, starts, current, rate, renewed, disturbed>>

\* A request is settled: one made d ticks ago, or one that is overdue, of which
\* there may be more.
Settled(d) ==
  /\ asked[d] > 0
  /\ asked' = [asked EXCEPT ![d] = @ - 1]
  /\ UNCHANGED overdue
SettledOverdue == overdue /\ overdue' \in BOOLEAN /\ UNCHANGED asked

ShowCode(age) == qr' = age /\ rate' = Larger(1, TTL - age) /\ renewed' = TRUE

\* The answer to any request under way: a code made since it was asked for.
GenerateQr(d) ==
  /\ Settled(d)
  /\ \E age \in 0..d : ShowCode(age)
  /\ late' = FALSE
  /\ UNCHANGED <<pane, loading, connected, starts, timers, current, disturbed>>

\* It may have lived for any time when the request is overdue.
GenerateQrOverdue ==
  /\ SettledOverdue
  /\ \E age \in 0..(MaxAge + 1) : ShowCode(age)
  /\ late' = TRUE
  /\ UNCHANGED <<pane, loading, connected, starts, timers, current, disturbed>>

\* Mutant: the interval is forgotten and not cleared.
GenerateFailsLeaking(d) ==
  /\ Settled(d)
  /\ current' = 0
  /\ pane' = Mounted("error")
  /\ UNCHANGED <<loading, connected, starts, timers, qr, rate, renewed, disturbed, late>>

Cleared == [s \in StartIds |-> IF s = current THEN Off ELSE timers[s]]

\* A request that fails stops the interval that is current by now.
StopRotation ==
  /\ timers' = Cleared
  /\ current' = 0
  /\ pane' = Mounted("error")
  /\ UNCHANGED <<loading, connected, starts, qr, rate, renewed, disturbed, late>>

GenerateFails(d) == Settled(d) /\ StopRotation
GenerateFailsOverdue == SettledOverdue /\ StopRotation

\* ngOnDestroy.
LeaveKiosk ==
  /\ pane # "left"
  /\ pane' = "left"
  /\ timers' = Cleared
  /\ UNCHANGED <<loading, connected, starts, current, codeVars, disturbed>>

-----------------------------------------------------------------------------
KioskNext ==
  \/ EventFound \/ EventMissing \/ KioskConnects \/ OnWalletModalClose \/ Retry
  \/ \E s \in StartIds : Sign(s) \/ StartFails(s) \/ StartRotation(s)
  \/ Tick
  \/ \E d \in 0..Patience : GenerateQr(d) \/ GenerateFails(d)
  \/ GenerateQrOverdue \/ GenerateFailsOverdue
  \/ LeaveKiosk

KioskSpec == KioskInit /\ [][KioskNext]_kioskVars

SettlesInTime == \E d \in 0..Patience : GenerateQr(d) \/ GenerateFails(d)

KioskTypeOK ==
  /\ pane \in {"initializing", "wallet", "code", "error", "left"}
  /\ loading \in BOOLEAN
  /\ connected \in BOOLEAN
  /\ starts \in [StartIds -> {"unused", "sign", "register", "done"}]
  /\ timers \in [StartIds -> {Off} \cup 0..TTL]
  /\ current \in 0..MaxStarts
  /\ asked \in [0..Patience -> Nat]
  /\ overdue \in BOOLEAN
  /\ qr \in {NoCode} \cup 0..(MaxAge + 1)
  /\ rate \in 1..TTL
  /\ renewed \in BOOLEAN
  /\ disturbed \subseteq StartIds
  /\ late \in BOOLEAN

\* A kiosk that shows its code pane has an interval that will renew the code, or
\* a start under way that will set one or show an error: it never freezes without
\* saying so, although a late failure stops whichever interval is current
\* (startKiosk, generateQr).
KioskIsAlive ==
  pane = "code" => UnderWay # {} \/ (current # 0 /\ Running(current))

\* Retries do not pile up intervals: one that is not current any more was set by a
\* start that overlapped another, or under the error of a request that failed
\* meanwhile (startRotation clears nothing, generateQr clears the current one).
OneRotation ==
  \A s \in StartIds : Running(s) /\ s # current => s \in disturbed

\* A code that a rotating kiosk shows is accepted by a scanner, in whatever order
\* requests are answered and although some never are: a request that is overdue
\* can leave a dead code on show, but only until the next answer in time.  The
\* code that a retry shows until its first answer is not covered (startRotation
\* keeps qrUrl).
ShownCodeIsAccepted ==
  pane = "code" /\ UnderWay = {} /\ renewed /\ ~late
    => Resolves([form |-> "dynamic", id |-> "event", age |-> qr])

\* A code past its life is on the screen.
Overdue == pane = "code" /\ UnderWay = {} /\ qr >= TTL
=============================================================================
