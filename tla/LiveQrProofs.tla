---------------------------- MODULE LiveQrProofs ----------------------------
(***************************************************************************)
(* Proofs about LiveQr for every life of a code and every number of starts *)
(* and requests, answered late, in any order or never: a kiosk never       *)
(* freezes on its code pane, an interval that is forgotten was set by a    *)
(* start that another start, or a failed request, ran into, and a code on  *)
(* show is accepted unless a request is late.                              *)
(***************************************************************************)
EXTENDS LiveQr, FiniteSetTheorems, TLAPS

\* While the event is looked up nothing is shown and no code was asked for.
LoadingShowsNothing ==
  loading =>
    /\ pane \in {"initializing", "left"}
    /\ ~overdue /\ \A d \in 0..Patience : asked[d] = 0

\* Nor before a wallet is there.
NothingStarted ==
  loading \/ pane = "wallet" \/ ~connected => \A s \in StartIds : starts[s] = "unused"

\* An interval is set as the last step of its start.
RotationsAreDone == \A s \in StartIds : Running(s) => starts[s] = "done"

\* Starts that overlap know of each other.
OverlapsAreDisturbed == \A s, t \in UnderWay : s # t => s \in disturbed

\* A start can come, or be under way, beside a current interval only if the
\* start of that interval was run into.
CurrentIsDisturbed ==
  /\ current # 0
  /\ Running(current)
  /\ pane = "error" \/ UnderWay # {}
  => current \in disturbed

KioskInv ==
  /\ KioskTypeOK
  /\ KioskIsAlive
  /\ OneRotation
  /\ LoadingShowsNothing
  /\ NothingStarted
  /\ RotationsAreDone
  /\ OverlapsAreDisturbed
  /\ CurrentIsDisturbed

-----------------------------------------------------------------------------
(***************************************************************************)
(* What the presence module makes of a text, by its form.                  *)
(***************************************************************************)
LEMMA FirstIsOnly ==
  ASSUME NEW i \in Int
  PROVE  First({i}) = i
  BY DEF First

LEMMA FirstOfTwo ==
  ASSUME NEW i \in Int, NEW j \in Int, i < j
  PROVE  First({i, j}) = i
<1>1. i \in {i, j} /\ \A k \in {i, j} : i <= k
  OBVIOUS
<1>2. \A h \in {i, j} : (\A k \in {i, j} : h <= k) => h = i
  OBVIOUS
<1> QED
  BY <1>1, <1>2 DEF First

LEMMA Drivers ==
  /\ DOMAIN ProofDrivers = {1, 2, 3, 4}
  /\ ProofDrivers[1] = "dynamic-qr" /\ ProofDrivers[2] = "plain-event-id"
  /\ ProofDrivers[3] = "signed-claim" /\ ProofDrivers[4] = "submission-proof"
  BY DEF ProofDrivers

LEMMA DriverForms ==
  /\ Forms("dynamic-qr") = {"dynamic"}
  /\ Forms("plain-event-id") = {"id", "claim", "submission"}
  /\ Forms("signed-claim") = {"claim"}
  /\ Forms("submission-proof") = {"submission"}
  BY DEF Forms

\* Only a dynamic code is validated, and only a plain id names itself.
LEMMA Resolution ==
  ASSUME NEW loc
  PROVE  /\ loc.form = "dynamic" => ResolveScopeLocator(loc) =
              IF Valid("dynamic-qr", loc) THEN [driver |-> "dynamic-qr", id |-> loc.id] ELSE Unresolved
         /\ loc.form = "id" => ResolveScopeLocator(loc) = [driver |-> "plain-event-id", id |-> loc.id]
         /\ loc.form = "claim" => ResolveScopeLocator(loc) = [driver |-> "plain-event-id", id |-> NotAnId]
<1> DEFINE fitting == {i \in DOMAIN ProofDrivers : loc.form \in Forms(ProofDrivers[i])}
<1>1. CASE loc.form = "dynamic"
  <2>1. fitting = {1}
    BY <1>1, Drivers, DriverForms
  <2>2. First(fitting) = 1
    BY <2>1, FirstIsOnly
  <2> QED
    BY <1>1, <2>1, <2>2, Drivers DEF ResolveScopeLocator, IdFor
<1>2. CASE loc.form = "id"
  <2>1. fitting = {2}
    BY <1>2, Drivers, DriverForms
  <2>2. First(fitting) = 2
    BY <2>1, FirstIsOnly
  <2> QED
    BY <1>2, <2>1, <2>2, Drivers DEF ResolveScopeLocator, IdFor, Valid
<1>3. CASE loc.form = "claim"
  <2>1. fitting = {2, 3}
    BY <1>3, Drivers, DriverForms
  <2>2. First(fitting) = 2
    BY <2>1, FirstOfTwo
  <2> QED
    BY <1>3, <2>1, <2>2, Drivers DEF ResolveScopeLocator, IdFor, Valid
<1> QED
  BY <1>1, <1>2, <1>3

-----------------------------------------------------------------------------
LEMMA StartFacts ==
  /\ StartIds \subseteq Nat \ {0}
  /\ StartIds = 1..MaxStarts
  /\ IsFiniteSet(StartIds)
  /\ Off \notin Nat
  BY KioskAssumption, FS_Interval DEF StartIds, Off

\* The number of intervals that are due is a number.
LEMMA DueCount ==
  ASSUME NEW due \in SUBSET StartIds
  PROVE  Cardinality(due) \in Nat
  BY StartFacts, FS_Subset, FS_CardinalityType

LEMMA KioskInitInv == KioskInit => KioskInv
<1> SUFFICES ASSUME KioskInit PROVE KioskInv
  OBVIOUS
<1>1. KioskTypeOK
  <2>1. current \in 0..MaxStarts /\ rate \in 1..TTL
    BY KioskAssumption DEF KioskInit
  <2>2. asked \in [0..Patience -> Nat] /\ timers \in [StartIds -> {Off} \cup 0..TTL]
    BY DEF KioskInit
  <2> QED
    BY <2>1, <2>2 DEF KioskInit, KioskTypeOK
<1> QED
  BY <1>1 DEF KioskInit, KioskInv, KioskIsAlive, OneRotation, LoadingShowsNothing, NothingStarted,
     RotationsAreDone, OverlapsAreDisturbed, CurrentIsDisturbed, UnderWay, Running, codeVars

-----------------------------------------------------------------------------
\* What a start changes, and that it keeps the invariant wherever the code
\* starts one: at first, after the wallet modal, and from the error pane.
LEMMA StartKioskInv ==
  ASSUME KioskInv, StartKiosk,
         UNCHANGED <<connected, timers, current, codeVars>>,
         \/ loading /\ loading' = FALSE
         \/ UNCHANGED loading /\ pane = "wallet" /\ connected
         \/ UNCHANGED loading /\ pane = "error"
  PROVE  KioskInv'
<1> USE DEF KioskInv
<1>1. KioskTypeOK'
  <2>1. CASE connected
    <3>1. PICK s \in StartIds :
            /\ starts' = [starts EXCEPT ![s] = "sign"]
            /\ disturbed' = IF UnderWay = {} THEN disturbed ELSE disturbed \cup UnderWay \cup {s}
            /\ pane' = Mounted("code")
      BY <2>1 DEF StartKiosk
    <3>2. UnderWay \subseteq StartIds
      BY DEF UnderWay
    <3> QED
      BY <3>1, <3>2 DEF KioskTypeOK, Mounted, codeVars
  <2>2. CASE ~connected
    BY <2>2 DEF StartKiosk, KioskTypeOK, Mounted, codeVars
  <2> QED
    BY <2>1, <2>2
<1>2. CASE connected
  <2>1. PICK s \in StartIds :
          /\ \A n \in StartIds : starts[n] = "unused" <=> n >= s
          /\ starts' = [starts EXCEPT ![s] = "sign"]
          /\ disturbed' = IF UnderWay = {} THEN disturbed ELSE disturbed \cup UnderWay \cup {s}
          /\ pane' = Mounted("code")
    BY <1>2 DEF StartKiosk
  <2>2. starts[s] = "unused" /\ s # 0
    BY <2>1, StartFacts
  <2>3. UnderWay' = UnderWay \cup {s}
    BY <2>1 DEF UnderWay, KioskTypeOK
  <2>4. current # 0 /\ Running(current) => current \in disturbed
    <3>1. CASE loading \/ pane = "wallet"
      BY <3>1, StartFacts DEF NothingStarted, RotationsAreDone, KioskTypeOK, StartIds
    <3>2. CASE pane = "error"
      BY <3>2 DEF CurrentIsDisturbed
    <3> QED
      BY <3>1, <3>2
  <2>5. \A t \in StartIds : Running(t)' <=> Running(t)
    BY DEF Running
  <2>6. disturbed \subseteq disturbed'
    BY <2>1
  <2>7. OneRotation'
    BY <2>5, <2>6 DEF OneRotation
  <2>8. OverlapsAreDisturbed'
    BY <2>1, <2>3 DEF OverlapsAreDisturbed
  <2>9. RotationsAreDone'
    BY <2>1, <2>2, <2>5 DEF RotationsAreDone, KioskTypeOK
  <2>10. CurrentIsDisturbed'
    BY <2>4, <2>6 DEF CurrentIsDisturbed, Running
  <2>11. loading' = FALSE /\ pane' # "wallet" /\ connected'
    BY <1>2, <2>1 DEF Mounted, LoadingShowsNothing, KioskTypeOK
  <2> QED
    BY <1>1, <2>3, <2>7, <2>8, <2>9, <2>10, <2>11
       DEF KioskIsAlive, LoadingShowsNothing, NothingStarted
<1>3. CASE ~connected
  <2>1. /\ pane' = Mounted("wallet")
        /\ starts' = starts
        /\ disturbed' = disturbed
        /\ loading' = FALSE
    BY <1>3 DEF StartKiosk, LoadingShowsNothing, KioskTypeOK
  <2>2. \A s \in StartIds : starts[s] = "unused"
    BY <1>3 DEF NothingStarted
  <2>3. UnderWay' = {} /\ UnderWay = {}
    BY <2>1, <2>2 DEF UnderWay
  <2> QED
    BY <1>1, <2>1, <2>2, <2>3 DEF Mounted, KioskIsAlive, OneRotation, LoadingShowsNothing,
       NothingStarted, RotationsAreDone, OverlapsAreDisturbed, CurrentIsDisturbed, Running
<1> QED
  BY <1>2, <1>3

LEMMA PaneInv ==
  ASSUME KioskInv, EventMissing \/ KioskConnects
  PROVE  KioskInv'
<1>1. KioskTypeOK'
  BY DEF KioskInv, KioskTypeOK, EventMissing, KioskConnects, codeVars
<1> QED
  BY <1>1 DEF KioskInv, EventMissing, KioskConnects, KioskIsAlive, OneRotation, LoadingShowsNothing,
     NothingStarted, RotationsAreDone, OverlapsAreDisturbed, CurrentIsDisturbed, UnderWay, Running,
     codeVars

\* Signing goes on; a start that fails shows the error.
LEMMA SignInv ==
  ASSUME KioskInv, NEW s \in StartIds, Sign(s) \/ StartFails(s)
  PROVE  KioskInv'
<1>1. KioskTypeOK'
  BY DEF KioskInv, KioskTypeOK, Sign, StartFails, Mounted, codeVars
<1>2. UnderWay # {} /\ UnderWay' \subseteq UnderWay /\ s \in UnderWay
  BY DEF KioskInv, KioskTypeOK, Sign, StartFails, UnderWay
<1>3. \A t \in StartIds : starts'[t] = "done" \/ starts'[t] = starts[t] \/ t \in UnderWay'
  BY DEF KioskInv, KioskTypeOK, Sign, StartFails, UnderWay
<1>4. KioskIsAlive'
  BY <1>1, <1>2 DEF KioskInv, KioskTypeOK, KioskIsAlive, Sign, StartFails, Mounted, UnderWay, Running
<1>5. RotationsAreDone'
  BY DEF KioskInv, KioskTypeOK, RotationsAreDone, Sign, StartFails, Running, UnderWay
<1>6. CurrentIsDisturbed'
  BY <1>2 DEF KioskInv, CurrentIsDisturbed, Sign, StartFails, Running
<1>7. starts[s] # "unused"
  BY DEF Sign, StartFails, UnderWay
<1>8. NothingStarted' /\ LoadingShowsNothing'
  BY <1>7 DEF KioskInv, NothingStarted, LoadingShowsNothing, Sign, StartFails, Mounted, codeVars
<1> QED
  BY <1>1, <1>2, <1>4, <1>5, <1>6, <1>8
     DEF KioskInv, OneRotation, OverlapsAreDisturbed, Sign, StartFails, Running

\* The interval of this start becomes the current one; the one before was run
\* into by this start.
LEMMA StartRotationInv ==
  ASSUME KioskInv, NEW s \in StartIds, StartRotation(s)
  PROVE  KioskInv'
<1> USE DEF KioskInv
<1>1. KioskTypeOK'
  <2>1. current' \in 0..MaxStarts
    BY StartFacts DEF StartRotation, StartIds
  <2>2. asked' \in [0..Patience -> Nat]
    BY KioskAssumption DEF StartRotation, KioskTypeOK
  <2>3. timers' \in [StartIds -> {Off} \cup 0..TTL]
    BY KioskAssumption DEF StartRotation, KioskTypeOK
  <2> QED
    BY <2>1, <2>2, <2>3 DEF StartRotation, KioskTypeOK
<1>2. s \in UnderWay /\ starts[s] = "register"
  BY DEF StartRotation, UnderWay
<1>3. UnderWay' = UnderWay \ {s}
  BY DEF StartRotation, UnderWay, KioskTypeOK
<1>4. disturbed \subseteq disturbed' /\ current' = s /\ s # 0
  BY StartFacts DEF StartRotation
<1>5. \A t \in StartIds : Running(t)' <=> Running(t) \/ t = s
  BY StartFacts DEF StartRotation, Running, KioskTypeOK
<1>6. Running(s)'
  BY <1>5
<1>7. OneRotation'
  <2> SUFFICES ASSUME NEW t \in StartIds, Running(t)', t # s PROVE t \in disturbed'
    BY <1>4 DEF OneRotation
  <2>1. Running(t)
    BY <1>5
  <2>2. CASE t = current
    BY <1>2, <1>4, <2>1, <2>2, StartFacts DEF CurrentIsDisturbed
  <2>3. CASE t # current
    BY <1>4, <2>1, <2>3 DEF OneRotation
  <2> QED
    BY <2>2, <2>3
<1>8. RotationsAreDone'
  BY <1>5 DEF RotationsAreDone, StartRotation, KioskTypeOK
<1>9. OverlapsAreDisturbed'
  BY <1>3, <1>4 DEF OverlapsAreDisturbed
<1>10. CurrentIsDisturbed'
  <2> SUFFICES ASSUME pane' = "error" \/ UnderWay' # {} PROVE s \in disturbed'
    BY <1>4 DEF CurrentIsDisturbed
  <2>1. CASE pane' = "error"
    BY <2>1 DEF StartRotation
  <2>2. CASE UnderWay' # {}
    BY <1>2, <1>3, <1>4, <2>2 DEF OverlapsAreDisturbed
  <2> QED
    BY <2>1, <2>2
<1>11. KioskIsAlive'
  BY <1>4, <1>6 DEF KioskIsAlive
<1>12. NothingStarted' /\ LoadingShowsNothing'
  BY <1>2 DEF NothingStarted, LoadingShowsNothing, StartRotation
<1> QED
  BY <1>1, <1>7, <1>8, <1>9, <1>10, <1>11, <1>12

\* A tick stops and starts no interval.
LEMMA TickInv == ASSUME KioskInv, Tick PROVE KioskInv'
<1> USE DEF KioskInv
<1> DEFINE due == {s \in StartIds : Due(s)}
<1>1. asked' \in [0..Patience -> Nat]
  <2>1. Cardinality(due) \in Nat
    BY DueCount
  <2>2. asked' = [d \in 0..Patience |-> IF d > 0 THEN asked[d - 1] ELSE Cardinality(due)]
    BY DEF Tick
  <2>3. \A d \in 0..Patience : d > 0 => asked[d - 1] \in Nat
    BY KioskAssumption DEF KioskTypeOK
  <2> QED
    BY <2>1, <2>2, <2>3
<1>2. timers' = [s \in StartIds |->
        IF ~Running(s) THEN Off ELSE IF s \in due THEN 0 ELSE timers[s] + 1]
  BY DEF Tick
<1>3. \A s \in StartIds : Running(s) /\ s \notin due => timers[s] + 1 \in 0..TTL
  BY KioskAssumption DEF Running, Due, KioskTypeOK, Off
<1>4. timers' \in [StartIds -> {Off} \cup 0..TTL]
  BY <1>2, <1>3, KioskAssumption
<1>5. qr' \in {NoCode} \cup 0..(MaxAge + 1)
  BY PolicyAssumption DEF Tick, Older, Smaller, KioskTypeOK, NoCode
<1>6. KioskTypeOK'
  BY <1>1, <1>4, <1>5 DEF Tick, KioskTypeOK
<1>7. \A s \in StartIds : Running(s)' <=> Running(s)
  BY <1>2, <1>3, StartFacts DEF Running, KioskTypeOK, Off
<1>8. current # 0 => current \in StartIds
  BY KioskAssumption DEF KioskTypeOK, StartIds
<1>9. UnderWay' = UnderWay
  BY DEF Tick, UnderWay
<1>10. LoadingShowsNothing'
  <2> SUFFICES ASSUME loading PROVE ~overdue' /\ \A d \in 0..Patience : asked'[d] = 0
    BY DEF LoadingShowsNothing, Tick
  <2>3. ~overdue'
    <3>1. Patience \in 0..Patience
      BY KioskAssumption
    <3>2. asked[Patience] = 0 /\ ~overdue
      BY <3>1 DEF LoadingShowsNothing
    <3>3. ~(asked[Patience] > 0)
      BY <3>2
    <3> QED
      BY <3>2, <3>3, Zenon DEF Tick
  <2>1. due = {}
    BY DEF NothingStarted, RotationsAreDone, Due
  <2>2. \A d \in 0..Patience : d > 0 => asked[d - 1] = 0
    BY KioskAssumption DEF LoadingShowsNothing
  <2> QED
    BY <2>1, <2>2, <2>3, FS_EmptySet DEF Tick
<1> QED
  BY <1>6, <1>7, <1>8, <1>9, <1>10 DEF Tick, KioskIsAlive, OneRotation,
     NothingStarted, RotationsAreDone, OverlapsAreDisturbed, CurrentIsDisturbed

\* What settles a request leaves a number of them.
LEMMA SettledFacts ==
  ASSUME KioskTypeOK, SettledOverdue \/ \E d \in 0..Patience : Settled(d)
  PROVE  /\ asked' \in [0..Patience -> Nat] /\ overdue' \in BOOLEAN
         /\ overdue \/ \E d \in 0..Patience : asked[d] > 0
  BY KioskAssumption DEF Settled, SettledOverdue, KioskTypeOK

\* An answer changes neither panes nor intervals.
LEMMA GenerateQrInv ==
  ASSUME KioskInv, GenerateQrOverdue \/ \E d \in 0..Patience : GenerateQr(d)
  PROVE  KioskInv'
<1> USE DEF KioskInv
<1>1. /\ asked' \in [0..Patience -> Nat] /\ overdue' \in BOOLEAN
      /\ overdue \/ \E d \in 0..Patience : asked[d] > 0
  BY SettledFacts DEF GenerateQr, GenerateQrOverdue
<1>2. PICK age \in 0..(MaxAge + 1) : ShowCode(age)
  BY KioskAssumption, PolicyAssumption, RotationAssumption DEF GenerateQr, GenerateQrOverdue
<1>3. qr' \in 0..(MaxAge + 1) /\ rate' \in 1..TTL /\ renewed'
  BY <1>2, KioskAssumption, PolicyAssumption DEF ShowCode, Larger
<1>4. late' \in BOOLEAN /\ UNCHANGED <<pane, loading, connected, starts, timers, current, disturbed>>
  BY DEF GenerateQr, GenerateQrOverdue
<1>5. KioskTypeOK'
  BY <1>1, <1>3, <1>4 DEF KioskTypeOK
<1> QED
  BY <1>1, <1>4, <1>5 DEF KioskIsAlive, OneRotation, LoadingShowsNothing, NothingStarted,
     RotationsAreDone, OverlapsAreDisturbed, CurrentIsDisturbed, UnderWay, Running

\* A failure, or leaving, stops the current interval and no other.
LEMMA StopInv ==
  ASSUME KioskInv, LeaveKiosk \/ GenerateFailsOverdue \/ \E d \in 0..Patience : GenerateFails(d)
  PROVE  KioskInv'
<1> USE DEF KioskInv
<1>1. /\ timers' = Cleared
      /\ pane' \in {"error", "left"}
      /\ current' \in {0, current}
      /\ UNCHANGED <<loading, connected, starts, qr, rate, renewed, disturbed, late>>
  BY DEF LeaveKiosk, GenerateFails, GenerateFailsOverdue, StopRotation, Mounted, codeVars
<1>2. asked' \in [0..Patience -> Nat] /\ overdue' \in BOOLEAN
  BY SettledFacts DEF LeaveKiosk, GenerateFails, GenerateFailsOverdue, KioskTypeOK, codeVars
<1>3. KioskTypeOK'
  BY <1>1, <1>2, KioskAssumption DEF KioskTypeOK, Cleared
<1>4. \A s \in StartIds : Running(s)' <=> Running(s) /\ s # current
  BY <1>1 DEF Cleared, Running
<1>5. OneRotation'
  BY <1>1, <1>4 DEF OneRotation
<1>6. CurrentIsDisturbed'
  <2>1. current' = 0 \/ ~Running(current)'
    BY <1>1 DEF Cleared, Running, KioskTypeOK, StartIds
  <2> QED
    BY <1>1, <2>1 DEF CurrentIsDisturbed
<1>7. LoadingShowsNothing'
  <2>1. CASE LeaveKiosk
    BY <2>1 DEF LoadingShowsNothing, LeaveKiosk, codeVars
  <2>2. CASE overdue \/ \E d \in 0..Patience : asked[d] > 0
    BY <1>1, <2>2 DEF LoadingShowsNothing, KioskTypeOK
  <2> QED
    BY <2>1, <2>2, SettledFacts DEF GenerateFails, GenerateFailsOverdue
<1> QED
  BY <1>1, <1>3, <1>4, <1>5, <1>6, <1>7 DEF KioskIsAlive, NothingStarted,
     RotationsAreDone, OverlapsAreDisturbed, UnderWay

-----------------------------------------------------------------------------
LEMMA KioskInductive == KioskInv /\ [KioskNext]_kioskVars => KioskInv'
<1> SUFFICES ASSUME KioskInv, [KioskNext]_kioskVars PROVE KioskInv'
  OBVIOUS
<1>1. CASE UNCHANGED kioskVars
  BY <1>1 DEF kioskVars, KioskInv, KioskTypeOK, KioskIsAlive, OneRotation, LoadingShowsNothing,
     NothingStarted, RotationsAreDone, OverlapsAreDisturbed, CurrentIsDisturbed, UnderWay, Running
<1>2. CASE EventFound \/ OnWalletModalClose \/ Retry
  BY <1>2, StartKioskInv DEF EventFound, OnWalletModalClose, Retry
<1>3. CASE EventMissing \/ KioskConnects
  BY <1>3, PaneInv
<1>4. CASE \E s \in StartIds : Sign(s) \/ StartFails(s) \/ StartRotation(s)
  BY <1>4, SignInv, StartRotationInv
<1>5. CASE Tick
  BY <1>5, TickInv
<1>6. CASE GenerateQrOverdue \/ \E d \in 0..Patience : GenerateQr(d)
  BY <1>6, GenerateQrInv
<1>7. CASE LeaveKiosk \/ GenerateFailsOverdue \/ \E d \in 0..Patience : GenerateFails(d)
  BY <1>7, StopInv
<1> QED
  BY <1>1, <1>2, <1>3, <1>4, <1>5, <1>6, <1>7 DEF KioskNext

LEMMA KioskInvariance == KioskSpec => []KioskInv
  BY KioskInitInv, KioskInductive, PTL DEF KioskSpec

-----------------------------------------------------------------------------
(***************************************************************************)
(* How old a code gets: an answer in time brings one of at most Patience   *)
(* and sets the interval by it; when the interval is due a request is      *)
(* under way, and unless it is answered in time it makes the code late.    *)
(***************************************************************************)
Limit == Larger(TTL, Patience + 1)

\* The code has not reached the limit and will not before the interval is due, or
\* a request that was made within the limit is under way.
RenewalComes ==
  \/ \E d \in 0..Patience : asked[d] > 0 /\ qr <= Limit + d
  \/ qr + Larger(1, rate - timers[current]) <= Limit

CodeIsFresh ==
  /\ renewed => qr # NoCode
  /\ pane = "code" /\ UnderWay = {} /\ renewed /\ ~late => RenewalComes

\* Both sides of a tick add up to the same.
LEMMA TickNearer ==
  ASSUME NEW age \in Int, NEW older \in Int, NEW r \in Int, NEW t \in Int, NEW limit \in Int,
         older <= age + 1, t + 1 < r, age + Larger(1, r - t) <= limit
  PROVE  older + Larger(1, r - (t + 1)) <= limit
<1>1. Larger(1, r - t) = r - t /\ Larger(1, r - (t + 1)) = r - (t + 1)
  BY DEF Larger
<1> QED
  BY <1>1

LEMMA FreshTick == KioskInv /\ CodeIsFresh /\ Tick => CodeIsFresh'
<1> SUFFICES ASSUME KioskInv, CodeIsFresh, Tick PROVE CodeIsFresh'
  OBVIOUS
<1> USE DEF KioskInv
<1> DEFINE due == {s \in StartIds : Due(s)}
<1>1. (renewed => qr # NoCode)'
  BY PolicyAssumption DEF CodeIsFresh, Tick, Older, Smaller, NoCode, KioskTypeOK
<1>2. SUFFICES ASSUME pane = "code", UnderWay = {}, renewed, ~late, ~(asked[Patience] > 0)
              PROVE  RenewalComes'
  BY <1>1 DEF CodeIsFresh, Tick, UnderWay
<1>3. qr \in 0..(MaxAge + 1) /\ qr' <= qr + 1 /\ qr' \in Int
  BY <1>2, PolicyAssumption DEF CodeIsFresh, KioskTypeOK, Tick, Older, Smaller, NoCode
<1>4. Limit \in Int
  BY KioskAssumption DEF Limit, Larger
<1>5. asked' = [d \in 0..Patience |-> IF d > 0 THEN asked[d - 1] ELSE Cardinality(due)]
  BY DEF Tick
<1>6. current \in StartIds /\ Running(current)
  BY <1>2 DEF KioskIsAlive, KioskTypeOK, StartIds
<1>7. timers[current] \in 0..TTL /\ rate \in 1..TTL
  BY <1>6 DEF KioskTypeOK, Running
<1>8. ASSUME NEW d \in 0..Patience, asked[d] > 0, qr <= Limit + d
      PROVE  RenewalComes'
  <2>1. d # Patience
    BY <1>2, <1>8
  <2>2. d + 1 \in 0..Patience /\ d + 1 > 0 /\ (d + 1) - 1 = d
    BY <2>1, KioskAssumption
  <2>3. asked'[d + 1] = asked[d]
    BY <1>5, <2>2
  <2>4. qr' <= Limit + (d + 1)
    BY <1>3, <1>4, <1>8
  <2>5. Limit' = Limit
    BY DEF Limit, Larger
  <2> QED
    BY <1>8, <2>2, <2>3, <2>4, <2>5 DEF RenewalComes
<1>9. CASE qr + Larger(1, rate - timers[current]) <= Limit
  <2>1. CASE Due(current)
    <3>1. due # {} /\ Cardinality(due) \in Nat
      BY <1>6, <2>1, DueCount
    <3>2. Cardinality(due) # 0
      BY <3>1, StartFacts, FS_Subset, FS_EmptySet
    <3>3. 0 \in 0..Patience /\ asked'[0] > 0
      BY <1>5, <3>1, <3>2, KioskAssumption
    <3>4. qr' <= Limit + 0
      BY <1>3, <1>4, <1>7, <1>9 DEF Larger
    <3> QED
      BY <3>3, <3>4 DEF RenewalComes, Limit, Larger
  <2>2. CASE ~Due(current)
    <3>1. timers'[current] = timers[current] + 1
      BY <1>6, <2>2 DEF Tick
    <3>2. timers[current] + 1 < rate
      BY <1>6, <1>7, <2>2 DEF Due
    <3>3. qr' + Larger(1, rate - (timers[current] + 1)) <= Limit
      <4>1. timers[current] \in Int /\ rate \in Int /\ qr \in Int /\ qr' \in Int
        BY <1>3, <1>7
      <4> QED
        BY <1>3, <1>4, <1>9, <3>2, <4>1, TickNearer
    <3>4. current' = current /\ rate' = rate
      BY DEF Tick
    <3> QED
      BY <3>1, <3>3, <3>4 DEF RenewalComes, Limit, Larger
  <2> QED
    BY <2>1, <2>2
<1> QED
  BY <1>2, <1>8, <1>9 DEF CodeIsFresh, RenewalComes

LEMMA FreshAnswer ==
  ASSUME KioskInv, CodeIsFresh, NEW d \in 0..Patience, GenerateQr(d)
  PROVE  CodeIsFresh'
<1> USE DEF KioskInv
<1>1. PICK age \in 0..d : qr' = age /\ rate' = Larger(1, TTL - age)
  BY DEF GenerateQr, ShowCode
<1>2. qr' # NoCode
  BY <1>1 DEF NoCode
<1>3. SUFFICES ASSUME pane = "code", UnderWay = {} PROVE RenewalComes'
  BY <1>2 DEF CodeIsFresh, GenerateQr, UnderWay
<1>4. current \in StartIds /\ Running(current)
  BY <1>3 DEF KioskIsAlive, KioskTypeOK, StartIds
<1>5. timers[current] \in 0..TTL
  BY <1>4 DEF KioskTypeOK, Running
<1>6. age <= Patience /\ age \in Nat
  BY KioskAssumption
<1>7. qr' + Larger(1, rate' - timers[current]) <= Limit
  BY <1>1, <1>5, <1>6, KioskAssumption DEF Larger, Limit
<1>8. current' = current /\ timers' = timers
  BY DEF GenerateQr
<1> QED
  BY <1>7, <1>8 DEF RenewalComes, Limit, Larger

\* An overdue answer makes the code late.
LEMMA OverdueAnswer == CodeIsFresh /\ GenerateQrOverdue => CodeIsFresh'
  BY DEF CodeIsFresh, GenerateQrOverdue, ShowCode, NoCode

LEMMA FreshInductive == KioskInv /\ CodeIsFresh /\ [KioskNext]_kioskVars => CodeIsFresh'
<1> SUFFICES ASSUME KioskInv, CodeIsFresh, [KioskNext]_kioskVars PROVE CodeIsFresh'
  OBVIOUS
<1>1. CASE UNCHANGED kioskVars
  BY <1>1 DEF kioskVars, CodeIsFresh, RenewalComes, Limit, UnderWay
<1>2. CASE EventFound \/ OnWalletModalClose \/ Retry
  <2>1. StartKiosk /\ renewed' = renewed /\ qr' = qr
    BY <1>2 DEF EventFound, OnWalletModalClose, Retry, codeVars
  <2>2. connected => UnderWay' # {}
    <3> SUFFICES ASSUME connected PROVE UnderWay' # {}
      OBVIOUS
    <3>1. PICK s \in StartIds : starts' = [starts EXCEPT ![s] = "sign"]
      BY <2>1 DEF StartKiosk
    <3> QED
      BY <3>1 DEF UnderWay, KioskInv, KioskTypeOK
  <2>3. ~connected => pane' # "code"
    BY <2>1 DEF StartKiosk, Mounted
  <2> QED
    BY <2>1, <2>2, <2>3 DEF CodeIsFresh
<1>3. CASE KioskConnects
  BY <1>3 DEF KioskConnects, CodeIsFresh, RenewalComes, UnderWay, Limit, codeVars
<1>4. CASE EventMissing \/ LeaveKiosk \/ GenerateFailsOverdue \/ \E d \in 0..Patience : GenerateFails(d)
  BY <1>4 DEF EventMissing, LeaveKiosk, GenerateFails, GenerateFailsOverdue, StopRotation, Mounted,
              CodeIsFresh, codeVars
<1>5. ASSUME NEW s \in StartIds, Sign(s) PROVE CodeIsFresh'
  BY <1>5 DEF Sign, UnderWay, CodeIsFresh, KioskInv, KioskTypeOK, codeVars
<1>6. ASSUME NEW s \in StartIds, StartFails(s) PROVE CodeIsFresh'
  BY <1>6 DEF StartFails, Mounted, CodeIsFresh, codeVars
<1>7. ASSUME NEW s \in StartIds, StartRotation(s) PROVE CodeIsFresh'
  BY <1>7 DEF StartRotation, CodeIsFresh
<1>8. CASE Tick
  BY <1>8, FreshTick
<1>9. CASE \E d \in 0..Patience : GenerateQr(d)
  BY <1>9, FreshAnswer
<1>10. CASE GenerateQrOverdue
  BY <1>10, OverdueAnswer
<1> QED
  BY <1>1, <1>2, <1>3, <1>4, <1>5, <1>6, <1>7, <1>8, <1>9, <1>10 DEF KioskNext

\* A fresh code is within the scanners' policy.
LEMMA FreshIsAccepted == KioskInv /\ CodeIsFresh => ShownCodeIsAccepted
<1> SUFFICES ASSUME KioskInv, CodeIsFresh, pane = "code", UnderWay = {}, renewed, ~late
             PROVE  Resolves([form |-> "dynamic", id |-> "event", age |-> qr])
  BY DEF ShownCodeIsAccepted
<1> USE DEF KioskInv
<1>1. qr \in Nat
  BY PolicyAssumption DEF CodeIsFresh, KioskTypeOK, NoCode
<1>2. qr <= MaxAge
  <2>1. Limit + Patience <= MaxAge /\ Limit \in Int
    BY KioskAssumption, PolicyAssumption, RotationAssumption DEF Limit, Larger
  <2>2. ASSUME NEW d \in 0..Patience, qr <= Limit + d PROVE qr <= MaxAge
    BY <1>1, <2>1, <2>2, KioskAssumption, PolicyAssumption
  <2>3. ASSUME qr + Larger(1, rate - timers[current]) <= Limit PROVE qr <= MaxAge
    <3>1. current \in StartIds /\ Running(current)
      BY DEF KioskIsAlive, KioskTypeOK, StartIds
    <3>2. timers[current] \in 0..TTL /\ rate \in 1..TTL
      BY <3>1 DEF KioskTypeOK, Running
    <3> QED
      BY <1>1, <2>1, <2>3, <3>2, KioskAssumption, PolicyAssumption DEF Larger
  <2> QED
    BY <2>2, <2>3 DEF CodeIsFresh, RenewalComes
<1>3. -qr <= MaxFuture
  BY <1>1, PolicyAssumption
<1> DEFINE loc == [form |-> "dynamic", id |-> "event", age |-> qr]
<1>4. Valid("dynamic-qr", loc)
  BY <1>2, <1>3 DEF Valid
<1>5. ResolveScopeLocator(loc).driver = "dynamic-qr"
  BY <1>4, Resolution
<1> QED
  BY <1>5 DEF Resolves, Unresolved

LEMMA FreshInvariance == KioskSpec => []CodeIsFresh
<1>1. KioskInit => CodeIsFresh
  BY DEF KioskInit, CodeIsFresh
<1> QED
  BY <1>1, FreshInductive, KioskInvariance, PTL DEF KioskSpec

-----------------------------------------------------------------------------
\* Panes, starts, intervals and requests keep their shape.
THEOREM KioskTypeCorrect == KioskSpec => []KioskTypeOK
  BY KioskInvariance, PTL DEF KioskInv

\* A kiosk on its code pane rotates, or is about to rotate or to say that it
\* cannot, whatever starts overlap and whichever requests fail late.
THEOREM KioskNeverFreezes == KioskSpec => []KioskIsAlive
  BY KioskInvariance, PTL DEF KioskInv

\* An interval that runs beside the current one was set by a start that
\* another start, or a failed request, ran into.
THEOREM RotationsDoNotPileUp == KioskSpec => []OneRotation
  BY KioskInvariance, PTL DEF KioskInv

\* A code that a rotating kiosk shows is accepted by a scanner, in whatever order
\* its requests are answered, unless one has gone overdue, or an overdue answer
\* has come, since the last answer in time.
THEOREM CodesAreAccepted == KioskSpec => []ShownCodeIsAccepted
  BY KioskInvariance, FreshInvariance, FreshIsAccepted, PTL
=============================================================================
