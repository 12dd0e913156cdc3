------------------------------ MODULE CheckIn ------------------------------
(***************************************************************************)
(* One visit of the check-in screen (frontend/src/components/check-in)     *)
(* with its camera (components/qr-scanner): a scanned or typed text is     *)
(* resolved to an event id, looked up, and put to the user, who carries    *)
(* the event to the minting screen.  Look-ups and counts of attendees      *)
(* overlap; a camera that is still being probed outlives its view.  The    *)
(* camera library and the browser are external.                            *)
(***************************************************************************)
EXTENDS EventBook, PresenceModule

CONSTANTS
  MaxScanners,  \* bound: how often the camera is opened
  MaxLookups    \* bound: texts that are validated

ASSUME CheckInAssumption == MaxScanners \in Nat /\ MaxLookups \in Nat

VARIABLES
  scanners,    \* the QrScannerComponents: how far each camera is
  viewer,      \* the one on the screen, 0 for none: isScanning
  lookups,     \* the calls of validateCode
  validating,  \* isValidating
  counting,    \* loadingAttendees
  pending,     \* pendingEvent: what the dialog shows
  handed,      \* the event that went to the minting screen
  away         \* the screen has been left

checkInVars == <<scanners, viewer, lookups, validating, counting, pending, handed, away>>

ScannerIds == 1..MaxScanners
LookupIds == 1..MaxLookups
Manual == 0
CameraStates == {"unused", "probe", "starting", "on", "off"}

\* What a camera may read, with ages on both sides of each edge of the policy;
\* typed texts are ids or prefixes (hex digits only).
Typed == [form : {"id"}, id : Ids, age : {0}]
Scanned ==
  Typed
  \cup [form : {"dynamic"}, id : Events, age : {-MaxFuture - 1, -MaxFuture, MaxAge, MaxAge + 1}]
  \cup {[form |-> "claim", id |-> NotAnId, age |-> 0]}

NoLookup == [step |-> "unused", by |-> Manual, loc |-> [form |-> "id", id |-> NotAnId, age |-> 0],
             event |-> NoEvent, matches |-> 0]

CheckInInit ==
  /\ scanners = [s \in ScannerIds |-> "unused"]
  /\ viewer = 0
  /\ lookups = [k \in LookupIds |-> NoLookup]
  /\ validating = FALSE
  /\ counting = FALSE
  /\ pending = NoEvent
  /\ handed = NoEvent
  /\ away = FALSE

-----------------------------------------------------------------------------
(***************************************************************************)
(* The camera.                                                             *)
(***************************************************************************)
\* Destroying the view stops the camera that it has by now; one that is still
\* probed is not there to be stopped, and a start under way ends stopped.
Closed == [s \in ScannerIds |->
  IF s = viewer /\ scanners[s] \in {"starting", "on"} THEN "off" ELSE scanners[s]]

\* The dialog covers the screen.
StartScanning(s) ==
  /\ ~away /\ pending = NoEvent
  /\ viewer = 0
  /\ scanners[s] = "unused"
  /\ scanners' = [scanners EXCEPT ![s] = "probe"]
  /\ viewer' = s
  /\ UNCHANGED <<lookups, validating, counting, pending, handed, away, bookVars>>

StopScanning ==
  /\ ~away /\ pending = NoEvent
  /\ viewer # 0
  /\ scanners' = Closed
  /\ viewer' = 0
  /\ UNCHANGED <<lookups, validating, counting, pending, handed, away, bookVars>>

\* hasCamera, then start: the component that asked goes on, mounted or not.
ScannerStep(s) ==
  /\ \/ scanners[s] = "probe" /\ scanners' = [scanners EXCEPT ![s] = "starting"]
     \/ scanners[s] = "starting" /\ scanners' = [scanners EXCEPT ![s] = "on"]
     \/ scanners[s] \in {"probe", "starting"} /\ scanners' = [scanners EXCEPT ![s] = "off"]
  /\ UNCHANGED <<viewer, lookups, validating, counting, pending, handed, away, bookVars>>

-----------------------------------------------------------------------------
(***************************************************************************)
(* Validating.                                                             *)
(***************************************************************************)
NothingFound(by) == [NoLookup EXCEPT !.step = "done", !.by = by]

\* The part of validateCode up to its first await: a text that does not resolve
\* ends in an error at once.
ValidateCode(by, loc) ==
  \E k \in LookupIds :
    /\ \A n \in LookupIds : lookups[n].step = "unused" <=> n >= k
    /\ validating' = Resolves(loc)
    /\ lookups' = [lookups EXCEPT ![k] =
         IF Resolves(loc)
           THEN [NoLookup EXCEPT !.step = "look up", !.by = by, !.loc = loc]
           ELSE NothingFound(by)]

\* Mutant: the scanner stays open.
ScanOn(loc) ==
  /\ viewer # 0
  /\ scanners[viewer] = "on"
  /\ ValidateCode(viewer, loc)
  /\ UNCHANGED <<scanners, viewer, counting, pending, handed, away, bookVars>>

\* Only the mounted scanner is listened to.
OnQrScanned(loc) ==
  /\ viewer # 0
  /\ scanners[viewer] = "on"
  /\ ValidateCode(viewer, loc)
  /\ scanners' = Closed
  /\ viewer' = 0
  /\ UNCHANGED <<counting, pending, handed, away, bookVars>>

\* The button is off while something is validated; it closes the scanner too.
SubmitManual(loc) ==
  /\ ~away /\ pending = NoEvent
  /\ ~validating
  /\ ValidateCode(Manual, loc)
  /\ scanners' = Closed
  /\ viewer' = 0
  /\ UNCHANGED <<counting, pending, handed, away, bookVars>>

\* getEventByCode returns: the dialog shows the event, over one that it may
\* show, and its attendees are counted.
EventIs(k, e, matches) ==
  /\ lookups' = [lookups EXCEPT ![k].step = "count", ![k].event = e, ![k].matches = matches]
  /\ pending' = e
  /\ counting' = TRUE
  /\ validating' = FALSE
  /\ UNCHANGED <<scanners, viewer, handed, away, bookVars>>

Target(k) == ResolveScopeLocator(lookups[k].loc).id

\* The backend finds it.
EventByCode(k) ==
  /\ lookups[k].step = "look up"
  /\ \E e \in ObserveEvent(Target(k)) : EventIs(k, e, Cardinality(Matching(Target(k))))

\* The backend does not answer, and the page knows the event.
LocalByCode(k) ==
  /\ lookups[k].step = "look up"
  /\ \E e \in LocalEvent(Target(k)) : EventIs(k, e, 1)

\* Mutant: an error leaves without its finally.
ValidationStuck(k) ==
  /\ lookups[k].step = "look up"
  /\ lookups' = [lookups EXCEPT ![k] = NothingFound(lookups[k].by)]
  /\ UNCHANGED <<scanners, viewer, validating, counting, pending, handed, away, bookVars>>

\* No such event, or no answer.
ValidationFails(k) ==
  /\ lookups[k].step = "look up"
  /\ lookups' = [lookups EXCEPT ![k] = NothingFound(lookups[k].by)]
  /\ validating' = FALSE
  /\ UNCHANGED <<scanners, viewer, counting, pending, handed, away, bookVars>>

\* Counted or not, the first answer ends the spinner of all.
LoadAttendeeCount(k) ==
  /\ lookups[k].step = "count"
  /\ lookups' = [lookups EXCEPT ![k].step = "done"]
  /\ counting' = FALSE
  /\ UNCHANGED <<scanners, viewer, validating, pending, handed, away, bookVars>>

-----------------------------------------------------------------------------
CancelCheckIn ==
  /\ ~away /\ pending # NoEvent
  /\ pending' = NoEvent
  /\ UNCHANGED <<scanners, viewer, lookups, validating, counting, handed, away, bookVars>>

\* To the minting screen with the event, or to any other screen: the scanner
\* goes, what is awaited goes on.
LeaveCheckIn(e) ==
  /\ ~away
  /\ pending' = NoEvent
  /\ handed' = e
  /\ away' = TRUE
  /\ scanners' = Closed
  /\ viewer' = 0
  /\ UNCHANGED <<lookups, validating, counting, bookVars>>

ConfirmCheckIn == pending # NoEvent /\ LeaveCheckIn(pending)

CheckInNext ==
  \/ \E s \in ScannerIds : StartScanning(s) \/ ScannerStep(s)
  \/ StopScanning
  \/ \E loc \in Scanned : OnQrScanned(loc)
  \/ \E loc \in Typed : SubmitManual(loc)
  \/ \E k \in LookupIds :
       EventByCode(k) \/ LocalByCode(k) \/ ValidationFails(k) \/ LoadAttendeeCount(k)
  \/ CancelCheckIn \/ ConfirmCheckIn \/ LeaveCheckIn(NoEvent)

CheckInTypeOK ==
  /\ scanners \in [ScannerIds -> CameraStates]
  /\ viewer \in {0} \cup ScannerIds
  /\ \A k \in LookupIds :
       /\ lookups[k].step \in {"unused", "look up", "count", "done"}
       /\ lookups[k].by \in {Manual} \cup ScannerIds
       /\ lookups[k].event \in Stored \cup {NoEvent}
  /\ validating \in BOOLEAN
  /\ counting \in BOOLEAN
  /\ pending \in Stored \cup {NoEvent}
  /\ handed \in Stored \cup {NoEvent}
  /\ away \in BOOLEAN

-----------------------------------------------------------------------------
\* A dynamic code vouches for its event while it is fresh; an id in full
\* always, a prefix when nothing else begins with it.
Vouches(k, e) ==
  LET loc == lookups[k].loc IN
  /\ lookups[k].event = e
  /\ loc.form = "dynamic" => loc.id = e /\ -MaxFuture <= loc.age /\ loc.age <= MaxAge
  /\ loc.id = e \/ (loc.id = Short /\ lookups[k].matches = 1)

\* The event that the dialog shows, and the one that goes to the minting
\* screen, was named by a text of this visit that vouches for it, whichever
\* look-ups were open and whoever answered them (getEventByCode).
PendingIsVouched ==
  \A e \in {pending, handed} \ {NoEvent} : \E k \in LookupIds : Vouches(k, e)

\* A camera decodes several times a second and goes on while it is probed or
\* closed: what is opened once makes one look-up at most, however it is closed
\* and opened again (onQrScanned).
OneLookupPerScanner ==
  \A j, k \in LookupIds :
    j # k /\ lookups[j].by = lookups[k].by => lookups[j].by = Manual

\* No spinner turns for ever: while one is shown a call is under way that will
\* stop it (the finally clauses of validateCode and loadAttendeeCount).
SpinnersEnd ==
  /\ validating => \E k \in LookupIds : lookups[k].step = "look up"
  /\ counting => \E k \in LookupIds : lookups[k].step = "count"
=============================================================================
