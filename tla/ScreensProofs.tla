--------------------------- MODULE ScreensProofs ---------------------------
(***************************************************************************)
(* Proofs about Screens, for all sets of events, accounts, calls, look-ups *)
(* and claims: every behaviour of the screens is one of the recorder, one  *)
(* of the kiosk and one of the events' book, so that what is proved of     *)
(* those holds here, and the properties of check-in, events and claims     *)
(* hold however the screens' calls overlap.                                *)
(***************************************************************************)
EXTENDS Screens, BadgeRecorderProofs, LiveQrProofs, TLAPS

\* What a list that is awaited will bring is in the backend's tables.
FoundAreStored == \A c \in Calls : calls[c].found \subseteq Stored

BookInv == BookTypeOK /\ FoundAreStored /\ WatchesAreKept

\* A list under way was asked for by the opening of the event on the slide-over,
\* or by one that was carried into it.
AwaitedAreOwn ==
  selected # NoEvent => \A r \in awaited : r[1] \in carried \/ r = <<opened, selected>>

DetailsInv == DetailsTypeOK /\ AwaitedAreOwn /\ DetailsAreOwn

Lookup == [step : {"unused", "look up", "count", "done"}, by : {Manual} \cup ScannerIds,
           loc : {NoLookup.loc} \cup Scanned, event : Events \cup {NoEvent},
           matches : {0, 1} \cup {Cardinality(found) : found \in SUBSET Events}]

\* A camera that made a look-up is off for good and not on the screen.
ScannedIsOff ==
  \A k \in LookupIds :
    lookups[k].by # Manual => scanners[lookups[k].by] = "off" /\ viewer # lookups[k].by

UnusedIsManual == \A k \in LookupIds : lookups[k].step = "unused" => lookups[k].by = Manual

VouchedBy(call) ==
  LET loc == call.loc IN
  /\ loc.form = "dynamic" => loc.id = call.event /\ -MaxFuture <= loc.age /\ loc.age <= MaxAge
  /\ loc.id = call.event \/ (loc.id = Short /\ call.matches = 1)

\* A look-up has an event once it is answered, and one that its text vouches for.
LookupsVouch ==
  \A k \in LookupIds :
    /\ lookups[k].step \in {"unused", "look up"} => lookups[k].event = NoEvent
    /\ lookups[k].step = "look up" => lookups[k].loc \in Scanned /\ Resolves(lookups[k].loc)
    /\ lookups[k].event # NoEvent => VouchedBy(lookups[k])

ShownWasLookedUp ==
  \A e \in {pending, handed} \ {NoEvent} : \E k \in LookupIds : lookups[k].event = e

CheckInInv ==
  /\ CheckInTypeOK
  /\ LookupsVouch
  /\ ShownWasLookedUp
  /\ lookups \in [LookupIds -> Lookup]
  /\ ScannedIsOff
  /\ UnusedIsManual
  /\ OneLookupPerScanner
  /\ SpinnersEnd

\* A token that the backend has issued is the creator's and is signed.
IssuedAreSigned == \A t \in issued : IssuerIsCreator(t) /\ SignatureIsValid(t)

\* Nobody makes up a signature: that of a presented token exists.
PresentedIsSigned == verifying # NoCall => verifying.token.signature \in signed

ClaimInv == ClaimTypeOK /\ IssuedAreSigned /\ PresentedIsSigned /\ ClaimIsVouched

ScreensInv == BookInv /\ DetailsInv /\ CheckInInv /\ ClaimInv

-----------------------------------------------------------------------------
(***************************************************************************)
(* A step of a screen is a step of one component, and of the book that the *)
(* others share.                                                           *)
(***************************************************************************)
LEMMA SomeoneExists == Someone \in Accounts
  BY ScreensAssumption DEF Someone

LEMMA RecorderSteps == [ScreensNext]_screensVars => [Next]_vars
  BY DEF ScreensNext, screensVars, vars

LEMMA KioskSteps == [ScreensNext]_screensVars => [KioskNext]_kioskVars
  BY DEF ScreensNext, screensVars, kioskVars

LEMMA BackgroundSteps == Background => BookStep /\ (UNCHANGED <<watched, saved, calls, linked, kept>>)
  BY SomeoneExists DEF Background, BookStep, Activate, AddCreated

\* Check-in and the claim screen read the book.
LEMMA CheckInReads == CheckInNext => UNCHANGED bookVars
  BY DEF CheckInNext, bookVars, StartScanning, StopScanning, ScannerStep, OnQrScanned,
     SubmitManual, EventByCode, LocalByCode, EventIs, ValidationFails, LoadAttendeeCount,
     CancelCheckIn, ConfirmCheckIn, LeaveCheckIn

LEMMA ClaimReads == ClaimNext => UNCHANGED bookVars
  BY DEF ClaimNext, bookVars, ClaimTick, SignClaim, IssueClaim, VerifyClaim, ClaimVerified,
     ClaimFails, ContinueToMint

LEMMA BookSteps == [ScreensNext]_screensVars => [BookNext]_bookVars
<1> SUFFICES ASSUME [ScreensNext]_screensVars PROVE [BookNext]_bookVars
  OBVIOUS
<1>1. CASE UNCHANGED bookVars
  BY <1>1
<1>2. CASE CheckInNext \/ ClaimNext
  BY <1>2, CheckInReads, ClaimReads
<1>3. CASE Background
  BY <1>3, BackgroundSteps DEF BookNext
<1>4. CASE EventsNext
  BY <1>4 DEF EventsNext, BookNext
<1>5. CASE \E e \in Events, a \in Accounts : Activate(e, a)
  BY <1>5 DEF BookNext, BookStep
<1> QED
  BY <1>1, <1>2, <1>3, <1>4, <1>5 DEF ScreensNext, screensVars

\* Every behaviour of the screens is one of the recorder, of the kiosk and of the
\* book, so that the theorems about those hold of the screens.
THEOREM ScreensRunComponents == ScreensSpec => Spec /\ KioskSpec /\ BookSpec
<1>1. ScreensInit => Init /\ KioskInit /\ BookInit
  BY DEF ScreensInit
<1> QED
  BY <1>1, RecorderSteps, KioskSteps, BookSteps, PTL DEF ScreensSpec, Spec, KioskSpec, BookSpec

-----------------------------------------------------------------------------
(***************************************************************************)
(* The book.                                                               *)
(***************************************************************************)
LEMMA BookInitInv == BookInit => BookInv
<1> SUFFICES ASSUME BookInit PROVE BookInv
  OBVIOUS
<1>1. Unused \in Call
  BY DEF Unused, Call, Ids
<1> QED
  BY <1>1 DEF BookInit, BookInv, BookTypeOK, FoundAreStored, WatchesAreKept, Unused

\* No event leaves the backend, and none changes its creator.
LEMMA StoredStays ==
  ASSUME BookTypeOK, [BookNext]_bookVars
  PROVE  \A e \in Stored : e \in Stored' /\ creator'[e] = creator[e]
<1>1. CASE \E e \in Events, a \in Accounts : Activate(e, a)
  BY <1>1, WalletAssumption DEF Activate, Stored, BookTypeOK
<1>2. CASE UNCHANGED creator
  BY <1>2 DEF Stored
<1> QED
  BY <1>1, <1>2 DEF BookNext, BookStep, bookVars, AddCreated, LoadMyEvents, ListEvents,
     MergeEvents, WatchEventById, GetEventById, GetLocalEvent, CallFails, SaveWatched, ReloadEvents

LEMMA FindsStored ==
  ASSUME BookTypeOK, NEW id
  PROVE  ObserveEvent(id) \subseteq Stored /\ LocalEvent(id) \subseteq Stored
  BY DEF BookTypeOK, ObserveEvent, Matching, LocalEvent

LEMMA BookStepInv == BookInv /\ [BookNext]_bookVars => BookInv'
<1> SUFFICES ASSUME BookInv, [BookNext]_bookVars PROVE BookInv'
  OBVIOUS
<1> USE DEF BookInv
<1>1. Finished \in Call /\ Finished.found = {} /\ Unused \in Call /\ Unused.found = {}
  BY DEF Finished, Unused, Call, Ids
<1>2. Stored \subseteq Stored' /\ Stored \subseteq Events
  BY StoredStays DEF Stored
<1>3. CASE UNCHANGED bookVars
  BY <1>3 DEF bookVars, BookTypeOK, FoundAreStored, WatchesAreKept, Stored
<1>4. CASE \E e \in Events, a \in Accounts : Activate(e, a)
  BY <1>2, <1>4 DEF Activate, BookTypeOK, FoundAreStored, WatchesAreKept
<1>5. CASE \E e \in Events : AddCreated(e)
  BY <1>2, <1>5 DEF AddCreated, BookTypeOK, FoundAreStored, WatchesAreKept, Stored
<1>6. ASSUME NEW c \in Calls, NEW id \in Ids, NEW a \in Accounts,
             LoadMyEvents(c, a) \/ WatchEventById(c, id)
      PROVE  BookInv'
  <2> DEFINE call == IF LoadMyEvents(c, a)
                       THEN [calls[c] EXCEPT !.step = "list", !.who = a]
                       ELSE [calls[c] EXCEPT !.step = "look up", !.id = id]
  <2>a. calls[c] \in Call
    BY DEF BookTypeOK
  <2>b. call \in Call /\ call.found = calls[c].found
    BY <2>a DEF Call
  <2>c. calls' = [calls EXCEPT ![c] = call]
    BY <1>6 DEF LoadMyEvents, WatchEventById
  <2>1. calls' \in [Calls -> Call]
    BY <2>b, <2>c DEF BookTypeOK
  <2>2. \A k \in Calls : calls'[k].found = calls[k].found
    BY <2>b, <2>c DEF BookTypeOK
  <2> QED
    BY <1>6, <2>1, <2>2 DEF LoadMyEvents, WatchEventById, BookTypeOK, FoundAreStored,
       WatchesAreKept, Stored
<1>7. ASSUME NEW c \in Calls, ListEvents(c) \/ GetEventById(c) \/ GetLocalEvent(c)
      PROVE  BookInv'
  <2>1. PICK found \in SUBSET Stored, step \in {"merge", "watch"} :
          calls' = Goes(c, step, found)
    BY <1>7, FindsStored DEF ListEvents, GetEventById, GetLocalEvent
  <2> DEFINE call == [calls[c] EXCEPT !.step = step, !.found = found]
  <2>a. call \in Call /\ call.found = found
    BY <1>2 DEF BookTypeOK, Call
  <2>b. calls' = [calls EXCEPT ![c] = call]
    BY <2>1 DEF Goes
  <2>2. calls' \in [Calls -> Call]
    BY <2>a, <2>b DEF BookTypeOK
  <2>3. \A k \in Calls : calls'[k].found = calls[k].found \/ calls'[k].found = found
    BY <2>a, <2>b DEF BookTypeOK
  <2> QED
    BY <1>7, <2>2, <2>3 DEF ListEvents, GetEventById, GetLocalEvent, BookTypeOK,
       FoundAreStored, WatchesAreKept, Stored
<1>8. ASSUME NEW c \in Calls, MergeEvents(c) \/ CallFails(c) \/ SaveWatched(c)
      PROVE  BookInv'
  <2>1. calls' = [calls EXCEPT ![c] = Finished] /\ UNCHANGED creator
    BY <1>8 DEF MergeEvents, CallFails, SaveWatched
  <2>2. calls' \in [Calls -> Call]
    BY <1>1, <2>1 DEF BookTypeOK
  <2>3. FoundAreStored'
    BY <1>1, <2>1 DEF BookTypeOK, FoundAreStored, Stored
  <2>4. calls[c].found \subseteq Stored
    BY DEF FoundAreStored
  <2>5. CASE MergeEvents(c) \/ CallFails(c)
    BY <2>1, <2>2, <2>3, <2>4, <2>5 DEF MergeEvents, CallFails, BookTypeOK, WatchesAreKept, Stored
  <2>6. CASE SaveWatched(c)
    <3>1. calls[c].id \in Ids
      BY DEF BookTypeOK, Call
    <3> QED
      BY <2>1, <2>2, <2>3, <2>4, <2>6, <3>1 DEF SaveWatched, BookTypeOK, WatchesAreKept, Stored
  <2> QED
    BY <1>8, <2>5, <2>6
<1>9. CASE ReloadEvents
  <2>1. calls' \in [Calls -> Call] /\ \A k \in Calls : calls'[k].found = {}
    BY <1>1, <1>9 DEF ReloadEvents
  <2> QED
    BY <1>9, <2>1 DEF ReloadEvents, BookTypeOK, FoundAreStored, WatchesAreKept, Stored
<1>10. Short \in Ids /\ Ids # {}
  BY DEF Ids
<1>11. ASSUME NEW c \in Calls,
              \/ \E a \in Accounts : LoadMyEvents(c, a)
              \/ \E id \in Ids : WatchEventById(c, id)
       PROVE  BookInv'
  BY <1>6, <1>10, <1>11, ScreensAssumption
<1> QED
  BY <1>3, <1>4, <1>5, <1>7, <1>8, <1>9, <1>11 DEF BookNext, BookStep

-----------------------------------------------------------------------------
(***************************************************************************)
(* The slide-over.                                                         *)
(***************************************************************************)
\* Elsewhere nothing happens to it, and the page's events only grow.
LEMMA DetailsRest ==
  ASSUME DetailsInv, UNCHANGED detailVars, known \subseteq known'
  PROVE  DetailsInv'
  BY DEF DetailsInv, DetailsTypeOK, AwaitedAreOwn, DetailsAreOwn, detailVars

LEMMA KnownGrows == BookStep => known \subseteq known'
  BY DEF BookStep, Activate, AddCreated, LoadMyEvents, ListEvents, MergeEvents, WatchEventById,
     GetEventById, GetLocalEvent, CallFails, SaveWatched

LEMMA DetailsStepInv == DetailsInv /\ BookInv /\ EventsNext => DetailsInv'
<1> SUFFICES ASSUME DetailsInv, BookInv, EventsNext PROVE DetailsInv'
  OBVIOUS
<1> USE DEF DetailsInv
<1>1. ASSUME NEW e \in Events, OpenEventDetails(e), UNCHANGED bookVars
      PROVE  DetailsInv'
  <2>1. e \in known /\ e # NoEvent
    BY <1>1, EventBookAssumption DEF OpenEventDetails, MyCreatedEvents
  <2>2. opened + 1 \in 1..MaxOpens /\ opened' = opened + 1
    BY <1>1, DetailsAssumption DEF OpenEventDetails, DetailsTypeOK
  <2>3. /\ awaited' = awaited \cup {<<opened + 1, e>>}
        /\ carried' = {r[1] : r \in awaited} /\ answered' = 0
    BY <1>1 DEF OpenEventDetails, Ask
  <2>4. awaited' \subseteq (1..opened') \X Events
    BY <2>2, <2>3 DEF DetailsTypeOK
  <2>5. carried' \subseteq 1..opened'
    BY <2>2, <2>3 DEF DetailsTypeOK
  <2>6. DetailsTypeOK'
    <3>1. answered' \in 0..opened' /\ opened' \in 0..MaxOpens
      BY <2>2, <2>3
    <3> QED
      BY <1>1, <2>1, <2>4, <2>5, <3>1 DEF OpenEventDetails, DetailsTypeOK, bookVars
  <2>7. AwaitedAreOwn'
    BY <1>1, <2>2, <2>3 DEF OpenEventDetails, AwaitedAreOwn
  <2> QED
    BY <1>1, <2>3, <2>6, <2>7 DEF OpenEventDetails, DetailsAreOwn
<1>2. ASSUME NEW r \in awaited, AttendeesAnswer(r), UNCHANGED bookVars
      PROVE  DetailsInv'
  <2>1. r \in (1..opened) \X Events /\ r[1] \in 0..opened
    BY DEF DetailsTypeOK
  <2>2. attendees' = r[2] \/ attendees' = NoEvent
    BY <1>2 DEF AttendeesAnswer
  <2>3. /\ awaited' = awaited \ {r} /\ answered' = r[1] /\ loadingAttendees' = FALSE
        /\ UNCHANGED <<selected, opened, carried>>
    BY <1>2 DEF AttendeesAnswer
  <2>4. DetailsTypeOK'
    BY <1>2, <2>1, <2>2, <2>3 DEF DetailsTypeOK, bookVars
  <2>5. AwaitedAreOwn'
    BY <2>3 DEF AwaitedAreOwn
  <2>6. ASSUME selected # NoEvent, r[1] \notin carried
        PROVE  attendees' \in {selected, NoEvent} /\ <<opened, selected>> \notin awaited'
    <3>1. r = <<opened, selected>>
      BY <2>6 DEF AwaitedAreOwn
    <3> QED
      BY <2>2, <2>3, <3>1
  <2> QED
    BY <2>3, <2>4, <2>5, <2>6 DEF DetailsAreOwn
<1>3. CASE CloseDetails /\ UNCHANGED bookVars
  BY <1>3 DEF CloseDetails, DetailsTypeOK, AwaitedAreOwn, DetailsAreOwn, bookVars
<1>4. CASE BookStep /\ UNCHANGED detailVars
  BY <1>4, KnownGrows, DetailsRest
<1>5. CASE NewGallery
  <2>1. /\ selected' = NoEvent /\ attendees' = NoEvent /\ loadingAttendees' = FALSE
        /\ awaited' = {} /\ carried' = {} /\ answered' = 0 /\ opened' = opened
    BY <1>5 DEF NewGallery
  <2>2. opened \in 0..MaxOpens /\ 0 \in 0..opened
    BY DetailsAssumption DEF DetailsTypeOK
  <2>3. selected' \in known' \cup {NoEvent} /\ attendees' \in Events \cup {NoEvent}
    BY <2>1
  <2>4. awaited' \subseteq (1..opened') \X Events /\ carried' \subseteq 1..opened'
    BY <2>1
  <2>5. loadingAttendees' \in BOOLEAN /\ opened' \in 0..MaxOpens /\ answered' \in 0..opened'
    BY <2>1, <2>2
  <2> QED
    BY <2>1, <2>3, <2>4, <2>5 DEF DetailsTypeOK, AwaitedAreOwn, DetailsAreOwn
<1> QED
  BY <1>1, <1>2, <1>3, <1>4, <1>5 DEF EventsNext, DetailsNext

-----------------------------------------------------------------------------
(***************************************************************************)
(* Check-in.                                                               *)
(***************************************************************************)
LEMMA NoLookupFacts ==
  /\ NoLookup \in Lookup
  /\ NoLookup.step = "unused"
  /\ NoLookup.by = Manual
  /\ NoLookup.event = NoEvent
  /\ 0 \notin ScannerIds
  /\ Manual = 0
  BY CheckInAssumption DEF NoLookup, Lookup, ScannerIds, Manual

LEMMA CheckInInitInv == CheckInInit => CheckInInv
<1> SUFFICES ASSUME CheckInInit PROVE CheckInInv
  OBVIOUS
<1>1. lookups \in [LookupIds -> Lookup]
  BY NoLookupFacts DEF CheckInInit
<1>2. \A k \in LookupIds : lookups[k] = NoLookup
  BY DEF CheckInInit
<1>3. CheckInTypeOK
  BY <1>2, NoLookupFacts DEF CheckInInit, CheckInTypeOK, CameraStates, NoLookup
<1> QED
  BY <1>1, <1>2, <1>3, NoLookupFacts DEF CheckInInit, CheckInInv, ScannedIsOff, UnusedIsManual,
     OneLookupPerScanner, SpinnersEnd, LookupsVouch, ShownWasLookedUp

\* Elsewhere nothing happens to it, and events stay.
LEMMA CheckInRest ==
  ASSUME CheckInInv, UNCHANGED checkInVars, Stored \subseteq Stored'
  PROVE  CheckInInv'
  BY DEF CheckInInv, CheckInTypeOK, ScannedIsOff, UnusedIsManual, OneLookupPerScanner,
     SpinnersEnd, checkInVars, CameraStates, LookupsVouch, ShownWasLookedUp

\* Closing the view turns a camera off that was on, and no other on.
LEMMA ClosedFacts ==
  ASSUME CheckInInv
  PROVE  /\ Closed \in [ScannerIds -> CameraStates]
         /\ \A s \in ScannerIds : scanners[s] = "off" => Closed[s] = "off"
         /\ viewer # 0 /\ scanners[viewer] = "on" => Closed[viewer] = "off"
  BY DEF CheckInInv, CheckInTypeOK, Closed, CameraStates

\* What looks up and counts as before does not disturb the spinners; what
\* keeps its scanner does not disturb the count per scanner.
LEMMA ScannerInv ==
  ASSUME CheckInInv, UNCHANGED bookVars, UNCHANGED <<lookups, validating, counting>>,
         pending' \in {NoEvent, pending}, handed' \in {NoEvent, handed, pending}, away' \in BOOLEAN,
         scanners' \in [ScannerIds -> CameraStates],
         \A s \in ScannerIds : scanners[s] = "off" => scanners'[s] = "off",
         \/ viewer' \in {0, viewer}
         \/ viewer' \in ScannerIds /\ scanners[viewer'] = "unused"
  PROVE  CheckInInv'
<1> USE DEF CheckInInv
<1>1. Stored' = Stored
  BY DEF bookVars, Stored
<1>2. CheckInTypeOK'
  BY <1>1 DEF CheckInTypeOK
<1>3. ScannedIsOff'
  <2> SUFFICES ASSUME NEW k \in LookupIds, lookups[k].by # Manual
               PROVE  scanners'[lookups[k].by] = "off" /\ viewer' # lookups[k].by
    BY DEF ScannedIsOff
  <2>1. lookups[k].by \in ScannerIds /\ scanners[lookups[k].by] = "off" /\ viewer # lookups[k].by
    BY DEF ScannedIsOff, CheckInTypeOK
  <2> QED
    BY <2>1, NoLookupFacts
<1>4. LookupsVouch' /\ ShownWasLookedUp'
  BY DEF LookupsVouch, ShownWasLookedUp
<1> QED
  BY <1>2, <1>3, <1>4 DEF UnusedIsManual, OneLookupPerScanner, SpinnersEnd

\* A text is validated: a look-up of its own, and the scanner is closed.
LEMMA ValidateInv ==
  ASSUME CheckInInv, UNCHANGED bookVars, UNCHANGED <<counting, pending, handed, away>>,
         NEW by \in {Manual} \cup ScannerIds, NEW loc \in Scanned, ValidateCode(by, loc),
         by # Manual => by = viewer /\ scanners[viewer] = "on",
         scanners' = Closed, viewer' = 0
  PROVE  CheckInInv'
<1> USE DEF CheckInInv
<1> DEFINE call == IF Resolves(loc)
                     THEN [NoLookup EXCEPT !.step = "look up", !.by = by, !.loc = loc]
                     ELSE NothingFound(by)
<1>1. PICK k \in LookupIds :
        /\ \A n \in LookupIds : lookups[n].step = "unused" <=> n >= k
        /\ validating' = Resolves(loc)
        /\ lookups' = [lookups EXCEPT ![k] = call]
  BY DEF ValidateCode
<1>2. lookups[k].step = "unused" /\ lookups[k].by = Manual
  <2>1. k >= k
    BY DEF LookupIds
  <2> QED
    BY <1>1, <2>1 DEF UnusedIsManual
<1>3. /\ call \in Lookup
      /\ call.by = by
      /\ call.event = NoEvent
      /\ call.step = IF Resolves(loc) THEN "look up" ELSE "done"
      /\ Resolves(loc) => call.loc = loc
  BY DEF NothingFound, NoLookup, Lookup
<1> HIDE DEF call
<1>4. lookups' \in [LookupIds -> Lookup]
  BY <1>1, <1>3
<1>5. lookups'[k] = call /\ \A n \in LookupIds : n # k => lookups'[n] = lookups[n]
  BY <1>1
<1>6. CheckInTypeOK'
  <2>1. Stored' = Stored
    BY DEF bookVars, Stored
  <2>2. validating' \in BOOLEAN
    BY <1>1 DEF Resolves
  <2>3. \A n \in LookupIds :
          /\ lookups'[n].step \in {"unused", "look up", "count", "done"}
          /\ lookups'[n].by \in {Manual} \cup ScannerIds
          /\ lookups'[n].event \in Stored \cup {NoEvent}
    BY <1>3, <1>5 DEF CheckInTypeOK
  <2> QED
    BY <2>1, <2>2, <2>3, ClosedFacts DEF CheckInTypeOK
<1>7. \A n \in LookupIds : n # k /\ lookups[n].by # Manual => lookups[n].by # by
  BY DEF ScannedIsOff
<1>8. ScannedIsOff'
  <2> SUFFICES ASSUME NEW n \in LookupIds, lookups'[n].by # Manual
               PROVE  Closed[lookups'[n].by] = "off" /\ 0 # lookups'[n].by
    BY DEF ScannedIsOff
  <2>1. CASE n = k
    BY <1>3, <1>5, <2>1, ClosedFacts, NoLookupFacts
  <2>2. CASE n # k
    <3>1. lookups[n].by \in ScannerIds /\ scanners[lookups[n].by] = "off"
      BY <1>5, <2>2 DEF ScannedIsOff, CheckInTypeOK
    <3> QED
      BY <1>5, <2>2, <3>1, ClosedFacts, NoLookupFacts
  <2> QED
    BY <2>1, <2>2
<1>9. OneLookupPerScanner'
  BY <1>3, <1>5, <1>7 DEF OneLookupPerScanner
<1>10. UnusedIsManual'
  <2>1. lookups'[k].step # "unused"
    BY <1>3, <1>5
  <2> QED
    BY <1>5, <2>1 DEF UnusedIsManual
<1>11. SpinnersEnd'
  <2>1. validating' => lookups'[k].step = "look up"
    BY <1>1, <1>3, <1>5
  <2>2. counting' => \E n \in LookupIds : n # k /\ lookups[n].step = "count"
    BY <1>2 DEF SpinnersEnd
  <2> QED
    BY <1>5, <2>1, <2>2 DEF SpinnersEnd
<1>12. LookupsVouch'
  BY <1>3, <1>5 DEF LookupsVouch
<1>13. ShownWasLookedUp'
  <2>1. lookups[k].event = NoEvent
    BY <1>2 DEF LookupsVouch
  <2> QED
    BY <1>5, <2>1 DEF ShownWasLookedUp
<1> QED
  BY <1>4, <1>6, <1>8, <1>9, <1>10, <1>11, <1>12, <1>13

\* A look-up under way goes on: it keeps its scanner, and the spinner that it
\* leaves off was its own or is stopped.
LEMMA LookupGoesOn ==
  ASSUME CheckInInv, UNCHANGED bookVars, UNCHANGED <<scanners, viewer, handed, away>>,
         NEW k \in LookupIds, NEW call \in Lookup,
         lookups' = [lookups EXCEPT ![k] = call],
         lookups[k].step # "unused", call.step \notin {"unused", "look up"},
         call.by = lookups[k].by,
         lookups[k].event \in {NoEvent, call.event}, call.event # NoEvent => VouchedBy(call),
         call.event \in Stored \cup {NoEvent},
         pending' \in {pending, call.event},
         validating' \in {validating, FALSE}, counting' \in BOOLEAN,
         lookups[k].step = "look up" => validating' = FALSE,
         counting' => (call.step = "count" \/ (counting /\ lookups[k].step # "count"))
  PROVE  CheckInInv'
<1> USE DEF CheckInInv
<1>1. lookups'[k] = call /\ \A n \in LookupIds : n # k => lookups'[n] = lookups[n]
  OBVIOUS
<1>2. \A n \in LookupIds : lookups'[n].by = lookups[n].by
  BY <1>1
<1>3. lookups' \in [LookupIds -> Lookup]
  OBVIOUS
<1>4. CheckInTypeOK'
  <2>1. Stored' = Stored
    BY DEF bookVars, Stored
  <2>2. call.step \in {"unused", "look up", "count", "done"}
    BY DEF Lookup
  <2>3. \A n \in LookupIds :
          /\ lookups'[n].step \in {"unused", "look up", "count", "done"}
          /\ lookups'[n].by \in {Manual} \cup ScannerIds
          /\ lookups'[n].event \in Stored \cup {NoEvent}
    BY <1>1, <2>2 DEF CheckInTypeOK
  <2>4. pending' \in Stored \cup {NoEvent} /\ validating' \in BOOLEAN
    BY DEF CheckInTypeOK
  <2> QED
    BY <2>1, <2>3, <2>4 DEF CheckInTypeOK
<1>5. ScannedIsOff' /\ OneLookupPerScanner'
  BY <1>2 DEF ScannedIsOff, OneLookupPerScanner
<1>6. UnusedIsManual'
  BY <1>1 DEF UnusedIsManual
<1>7. SpinnersEnd'
  <2>1. validating' => \E n \in LookupIds : n # k /\ lookups[n].step = "look up"
    BY DEF SpinnersEnd
  <2>2. counting' =>
          call.step = "count" \/ \E n \in LookupIds : n # k /\ lookups[n].step = "count"
    BY DEF SpinnersEnd
  <2> QED
    BY <1>1, <2>1, <2>2 DEF SpinnersEnd
<1>8. LookupsVouch'
  BY <1>1 DEF LookupsVouch
<1>9. ShownWasLookedUp'
  <2> SUFFICES ASSUME NEW e \in {pending', handed'} \ {NoEvent}
               PROVE  \E n \in LookupIds : lookups'[n].event = e
    BY DEF ShownWasLookedUp
  <2>1. CASE e = call.event
    BY <1>1, <2>1
  <2>2. CASE e # call.event
    <3>1. PICK n \in LookupIds : lookups[n].event = e
      BY <2>2 DEF ShownWasLookedUp
    <3> QED
      BY <1>1, <2>2, <3>1
  <2> QED
    BY <2>1, <2>2
<1> QED
  BY <1>3, <1>4, <1>5, <1>6, <1>7, <1>8, <1>9

\* A text that resolves names its own event, and a dynamic code is then fresh.
LEMMA ResolvesToItsId ==
  ASSUME NEW loc \in Scanned, Resolves(loc)
  PROVE  /\ ResolveScopeLocator(loc).id = loc.id
         /\ loc.form = "dynamic" => -MaxFuture <= loc.age /\ loc.age <= MaxAge /\ loc.id \in Events
<1>1. CASE loc.form = "dynamic"
  <2>1. Valid("dynamic-qr", loc)
    BY <1>1, Resolution DEF Resolves
  <2>2. loc.id \in Events /\ loc.age \in Int
    BY <1>1, PolicyAssumption DEF Scanned, Typed
  <2> QED
    BY <1>1, <2>1, <2>2, Resolution, PolicyAssumption DEF Valid
<1>2. CASE loc.form = "id"
  BY <1>2, Resolution
<1>3. CASE loc.form = "claim"
  <2>1. loc.id = NotAnId
    BY <1>3 DEF Scanned, Typed
  <2> QED
    BY <1>3, <2>1, Resolution
<1> QED
  BY <1>1, <1>2, <1>3 DEF Scanned, Typed

LEMMA CheckInStepInv == CheckInInv /\ BookInv /\ CheckInNext => CheckInInv'
<1> SUFFICES ASSUME CheckInInv, BookInv, CheckInNext PROVE CheckInInv'
  OBVIOUS
<1> USE DEF CheckInInv
<1>1. UNCHANGED bookVars
  BY CheckInReads
<1>2. ASSUME NEW s \in ScannerIds, StartScanning(s) \/ ScannerStep(s)
      PROVE  CheckInInv'
  <2>1. scanners' \in [ScannerIds -> CameraStates]
    BY <1>2 DEF StartScanning, ScannerStep, CheckInTypeOK, CameraStates
  <2>2. \A n \in ScannerIds : scanners[n] = "off" => scanners'[n] = "off"
    BY <1>2 DEF StartScanning, ScannerStep, CheckInTypeOK
  <2>3. \/ viewer' = viewer
        \/ viewer' \in ScannerIds /\ scanners[viewer'] = "unused"
    BY <1>2 DEF StartScanning, ScannerStep
  <2>4. UNCHANGED <<lookups, validating, counting, pending, handed, away>> /\ away \in BOOLEAN
    BY <1>2 DEF StartScanning, ScannerStep, CheckInTypeOK
  <2> QED
    BY <1>1, <2>1, <2>2, <2>3, <2>4, ScannerInv
<1>3. CASE StopScanning \/ CancelCheckIn \/ ConfirmCheckIn \/ LeaveCheckIn(NoEvent)
  <2>1. scanners' = Closed \/ scanners' = scanners
    BY <1>3 DEF StopScanning, CancelCheckIn, ConfirmCheckIn, LeaveCheckIn
  <2>2. /\ scanners' \in [ScannerIds -> CameraStates]
        /\ \A s \in ScannerIds : scanners[s] = "off" => scanners'[s] = "off"
    BY <2>1, ClosedFacts DEF CheckInTypeOK
  <2>3. /\ UNCHANGED <<lookups, validating, counting>>
        /\ pending' \in {NoEvent, pending} /\ handed' \in {NoEvent, handed, pending}
        /\ away' \in BOOLEAN /\ viewer' \in {0, viewer}
    BY <1>3 DEF StopScanning, CancelCheckIn, ConfirmCheckIn, LeaveCheckIn, CheckInTypeOK
  <2> QED
    BY <1>1, <2>2, <2>3, ScannerInv
<1>4. ASSUME NEW loc \in Scanned, OnQrScanned(loc)
      PROVE  CheckInInv'
  <2>1. viewer \in ScannerIds
    BY <1>4 DEF OnQrScanned, CheckInTypeOK
  <2> QED
    BY <1>1, <1>4, <2>1, ValidateInv DEF OnQrScanned
<1>5. ASSUME NEW loc \in Typed, SubmitManual(loc)
      PROVE  CheckInInv'
  <2>1. loc \in Scanned /\ Manual \in {Manual} \cup ScannerIds
    BY DEF Scanned
  <2> QED
    BY <1>1, <1>5, <2>1, ValidateInv DEF SubmitManual
<1>6. ASSUME NEW k \in LookupIds, EventByCode(k) \/ LocalByCode(k)
      PROVE  CheckInInv'
  <2>1. PICK e \in Stored, n \in {0, 1} \cup {Cardinality(found) : found \in SUBSET Events} :
          /\ EventIs(k, e, n)
          /\ lookups[k].step = "look up"
          /\ e = Target(k) \/ (Target(k) = Short /\ n = 1)
    <3>1. CASE EventByCode(k)
      <4>1. Matching(Target(k)) \subseteq Events
        BY DEF Matching, Stored
      <4>2. PICK e \in ObserveEvent(Target(k)) :
              EventIs(k, e, Cardinality(Matching(Target(k)))) /\ lookups[k].step = "look up"
        BY <3>1 DEF EventByCode
      <4>3. e \in Matching(Target(k)) /\ Cardinality(Matching(Target(k))) = 1
        BY DEF ObserveEvent
      <4>4. e = Target(k) \/ Target(k) = Short
        BY <4>3 DEF Matching
      <4> QED
        BY <4>1, <4>2, <4>3, <4>4, FindsStored DEF BookInv
    <3>2. CASE LocalByCode(k)
      <4>1. PICK e \in LocalEvent(Target(k)) : EventIs(k, e, 1) /\ lookups[k].step = "look up"
        BY <3>2 DEF LocalByCode
      <4> QED
        BY <4>1, FindsStored DEF LocalEvent, BookInv
    <3> QED
      BY <1>6, <3>1, <3>2
  <2> DEFINE call == [lookups[k] EXCEPT !.step = "count", !.event = e, !.matches = n]
  <2>2. e \in Events
    BY DEF Stored
  <2>3. /\ call \in Lookup /\ call.by = lookups[k].by /\ call.step = "count" /\ call.event = e
        /\ call.loc = lookups[k].loc /\ call.matches = n
    BY <2>2 DEF Lookup
  <2>4. lookups' = [lookups EXCEPT ![k] = call]
    BY <2>1 DEF EventIs
  <2> HIDE DEF call
  <2>5. lookups[k].event = NoEvent /\ lookups[k].loc \in Scanned /\ Resolves(lookups[k].loc)
    BY <2>1 DEF LookupsVouch
  <2>6. VouchedBy(call)
    BY <2>1, <2>3, <2>5, ResolvesToItsId, EventBookAssumption DEF VouchedBy, Target
  <2> QED
    BY <1>1, <2>1, <2>3, <2>4, <2>5, <2>6, LookupGoesOn DEF EventIs
<1>7. ASSUME NEW k \in LookupIds, ValidationFails(k)
      PROVE  CheckInInv'
  <2> DEFINE call == NothingFound(lookups[k].by)
  <2>1. /\ call \in Lookup
        /\ call.by = lookups[k].by /\ call.step = "done" /\ call.event = NoEvent
    BY DEF NothingFound, NoLookup, Lookup
  <2>2. lookups' = [lookups EXCEPT ![k] = call] /\ lookups[k].step = "look up"
    BY <1>7 DEF ValidationFails
  <2>3. counting \in BOOLEAN /\ lookups[k].event = NoEvent
    BY <2>2 DEF CheckInTypeOK, LookupsVouch
  <2> HIDE DEF call
  <2> QED
    BY <1>1, <1>7, <2>1, <2>2, <2>3, LookupGoesOn DEF ValidationFails
<1>8. ASSUME NEW k \in LookupIds, LoadAttendeeCount(k)
      PROVE  CheckInInv'
  <2> DEFINE call == [lookups[k] EXCEPT !.step = "done"]
  <2>1. /\ call \in Lookup /\ call.event \in Stored \cup {NoEvent}
        /\ call.by = lookups[k].by /\ call.step = "done" /\ call.event = lookups[k].event
        /\ VouchedBy(lookups[k]) => VouchedBy(call)
    BY DEF Lookup, CheckInTypeOK, VouchedBy
  <2>2. lookups' = [lookups EXCEPT ![k] = call] /\ lookups[k].step = "count"
    BY <1>8 DEF LoadAttendeeCount
  <2> HIDE DEF call
  <2>3. call.event # NoEvent => VouchedBy(call)
    BY <2>1 DEF LookupsVouch
  <2> QED
    BY <1>1, <1>8, <2>1, <2>2, <2>3, LookupGoesOn DEF LoadAttendeeCount
<1> QED
  BY <1>2, <1>3, <1>4, <1>5, <1>6, <1>7, <1>8 DEF CheckInNext

-----------------------------------------------------------------------------
(***************************************************************************)
(* Claims.                                                                 *)
(***************************************************************************)
LEMMA ClaimInitInv == ClaimInit => ClaimInv
<1> SUFFICES ASSUME ClaimInit PROVE ClaimInv
  OBVIOUS
<1> QED
  BY ClaimAssumption DEF ClaimInit, ClaimInv, ClaimTypeOK, IssuedAreSigned, PresentedIsSigned,
     ClaimIsVouched

\* A creator stays one, so what its signature vouches for stays vouched for.
LEMMA ClaimRest ==
  ASSUME ClaimInv, UNCHANGED claimVars, BookTypeOK, [BookNext]_bookVars
  PROVE  ClaimInv'
<1> USE DEF ClaimInv
<1>1. ClaimTypeOK'
  BY DEF ClaimTypeOK, claimVars
<1>2. \A e \in Events : creator[e] \in Accounts => creator'[e] = creator[e]
  BY StoredStays, WalletAssumption DEF Stored
<1>3. IssuedAreSigned'
  <2> SUFFICES ASSUME NEW t \in issued PROVE IssuerIsCreator(t)' /\ SignatureIsValid(t)'
    BY DEF IssuedAreSigned, claimVars
  <2>1. t \in Token /\ IssuerIsCreator(t) /\ SignatureIsValid(t)
    BY DEF IssuedAreSigned, ClaimTypeOK
  <2>2. t.message.event \in Events /\ t.issuer \in Accounts
    BY <2>1 DEF Token, Message
  <2> QED
    BY <1>2, <2>1, <2>2 DEF IssuerIsCreator, SignatureIsValid
<1>4. ClaimIsVouched'
  <2> SUFFICES ASSUME NEW c \in {claim, taken} \ {NoCall}
               PROVE  LET m == c.token.message IN
                      /\ [by |-> creator'[m.event], message |-> m] \in signed
                      /\ m.recipient = c.address
                      /\ m.expires = Open \/ c.at <= m.expires
    BY DEF ClaimIsVouched, claimVars
  <2> DEFINE m == c.token.message
  <2>1. m.event \in Events
    BY DEF ClaimTypeOK, Claim, Token, Message
  <2>2. [by |-> creator[m.event], message |-> m] \in signed
    BY DEF ClaimIsVouched
  <2>3. creator[m.event] \in Accounts
    BY <2>2 DEF ClaimTypeOK, Signature
  <2> QED
    BY <1>2, <2>1, <2>2, <2>3 DEF ClaimIsVouched
<1>5. PresentedIsSigned'
  BY DEF PresentedIsSigned, claimVars
<1> QED
  BY <1>1, <1>3, <1>4, <1>5

\* A claim that verifies is vouched for at that moment.
LEMMA VerifiedIsVouched ==
  ASSUME ClaimTypeOK, verifying # NoCall, Verifies(verifying.token, verifying.address)
  PROVE  LET m == verifying.token.message IN
         /\ verifying.token.signature = [by |-> creator[m.event], message |-> m]
         /\ m.recipient = verifying.address
         /\ m.expires = Open \/ time <= m.expires
<1> DEFINE m == verifying.token.message
<1>1. verifying.token \in Token /\ m \in Message
  BY DEF ClaimTypeOK, Claim, Token
<1>2. m.expires = Open \/ m.expires \in 0..MaxTime
  BY <1>1 DEF Message
<1>3. m.expires = Open \/ ~(time > m.expires)
  BY DEF Verifies, IsExpired
<1>4. m.expires = Open \/ time <= m.expires
  BY <1>2, <1>3, ClaimAssumption DEF ClaimTypeOK
<1> QED
  BY <1>4 DEF Verifies, SignatureIsValid, IssuerIsCreator

LEMMA ClaimStepInv == ClaimInv /\ ClaimNext => ClaimInv'
<1> SUFFICES ASSUME ClaimInv, ClaimNext PROVE ClaimInv'
  OBVIOUS
<1> USE DEF ClaimInv
<1>1. creator' = creator
  BY ClaimReads DEF bookVars
<1>2. ASSUME ClaimTick \/ \E a \in Accounts, m \in Message : SignClaim(a, m)
      PROVE  ClaimInv'
  <2>1. signed \subseteq signed' /\ UNCHANGED <<issued, verifying, claim, taken>>
    BY <1>2 DEF ClaimTick, SignClaim
  <2>2. time' \in 0..MaxTime
    BY <1>2, ClaimAssumption DEF ClaimTick, SignClaim, ClaimTypeOK
  <2>3. signed' \subseteq Signature
    BY <1>2 DEF ClaimTick, SignClaim, ClaimTypeOK, Signature
  <2>4. ClaimTypeOK'
    BY <2>1, <2>2, <2>3 DEF ClaimTypeOK
  <2>5. IssuedAreSigned'
    BY <1>1, <2>1 DEF IssuedAreSigned, IssuerIsCreator, SignatureIsValid
  <2>6. ClaimIsVouched'
    BY <1>1, <2>1 DEF ClaimIsVouched
  <2>7. PresentedIsSigned'
    BY <2>1 DEF PresentedIsSigned
  <2> QED
    BY <2>4, <2>5, <2>6, <2>7
<1>3. ASSUME NEW t \in Token, IssueClaim(t)
      PROVE  ClaimInv'
  <2>1. ClaimTypeOK'
    BY <1>3 DEF IssueClaim, ClaimTypeOK
  <2>2. IssuedAreSigned'
    BY <1>1, <1>3 DEF IssueClaim, IssuedAreSigned, IssuerIsCreator, SignatureIsValid
  <2>3. ClaimIsVouched'
    BY <1>1, <1>3 DEF IssueClaim, ClaimIsVouched
  <2>4. PresentedIsSigned'
    BY <1>3 DEF IssueClaim, PresentedIsSigned
  <2> QED
    BY <2>1, <2>2, <2>3, <2>4
<1>4. ASSUME UNCHANGED <<time, signed, issued>>, verifying' \in Claim \cup {NoCall},
             PresentedIsSigned', claim' \in {NoCall, claim}, taken' \in {taken, claim}
      PROVE  ClaimInv'
  <2>1. ClaimTypeOK'
    BY <1>4 DEF ClaimTypeOK
  <2>2. IssuedAreSigned'
    BY <1>1, <1>4 DEF IssuedAreSigned, IssuerIsCreator, SignatureIsValid
  <2>3. ClaimIsVouched'
    BY <1>1, <1>4 DEF ClaimIsVouched
  <2> QED
    BY <1>4, <2>1, <2>2, <2>3
<1>5. ASSUME NEW t \in Token, NEW a \in Accounts, VerifyClaim(t, a)
      PROVE  ClaimInv'
  <2>1. verifying' \in Claim
    BY <1>5 DEF VerifyClaim, Claim, ClaimTypeOK
  <2>2. PresentedIsSigned'
    BY <1>5 DEF VerifyClaim, PresentedIsSigned
  <2> QED
    BY <1>4, <1>5, <2>1, <2>2 DEF VerifyClaim
<1>6. CASE ClaimVerified
  <2> DEFINE verified == [verifying EXCEPT !.at = time]
  <2>1. verifying \in Claim
    BY <1>6 DEF ClaimVerified, ClaimTypeOK
  <2>2. /\ verified \in Claim
        /\ verified.token = verifying.token
        /\ verified.address = verifying.address
        /\ verified.at = time
    BY <2>1 DEF Claim, ClaimTypeOK
  <2>3. /\ claim' = verified /\ verifying' = NoCall /\ UNCHANGED <<time, signed, issued, taken>>
        /\ Verifies(verifying.token, verifying.address) /\ verifying # NoCall
    BY <1>6 DEF ClaimVerified
  <2> HIDE DEF verified
  <2>4. ClaimTypeOK'
    BY <2>2, <2>3 DEF ClaimTypeOK
  <2>5. IssuedAreSigned'
    BY <1>1, <2>3 DEF IssuedAreSigned, IssuerIsCreator, SignatureIsValid
  <2>6. verifying.token.signature \in signed
    BY <2>3 DEF PresentedIsSigned
  <2>7. ClaimIsVouched'
    BY <1>1, <2>2, <2>3, <2>6, VerifiedIsVouched DEF ClaimIsVouched
  <2>8. PresentedIsSigned'
    BY <2>3 DEF PresentedIsSigned
  <2> QED
    BY <2>4, <2>5, <2>7, <2>8
<1>7. CASE ClaimFails \/ ContinueToMint
  BY <1>4, <1>7 DEF ClaimFails, ContinueToMint, ClaimTypeOK, PresentedIsSigned
<1> QED
  BY <1>2, <1>3, <1>5, <1>6, <1>7 DEF ClaimNext

-----------------------------------------------------------------------------
(***************************************************************************)
(* All of them.                                                            *)
(***************************************************************************)
LEMMA ScreensInitInv == ScreensInit => ScreensInv
<1> SUFFICES ASSUME ScreensInit PROVE ScreensInv
  OBVIOUS
<1>1. DetailsInv
  <2>1. DetailsInit
    BY DEF ScreensInit
  <2>2. DetailsTypeOK
    <3>1. opened \in 0..MaxOpens
      BY <2>1, DetailsAssumption DEF DetailsInit
    <3>2. awaited \subseteq (1..opened) \X Events /\ carried \subseteq 1..opened /\ answered \in 0..opened
      BY <2>1 DEF DetailsInit
    <3> QED
      BY <2>1, <3>1, <3>2, Zenon DEF DetailsInit, DetailsTypeOK
  <2> QED
    BY <2>1, <2>2 DEF DetailsInit, DetailsInv, AwaitedAreOwn, DetailsAreOwn
<1> QED
  BY <1>1, BookInitInv, CheckInInitInv, ClaimInitInv DEF ScreensInit, ScreensInv

LEMMA ScreensStepInv == ScreensInv /\ [ScreensNext]_screensVars => ScreensInv'
<1> SUFFICES ASSUME ScreensInv, [ScreensNext]_screensVars PROVE ScreensInv'
  OBVIOUS
<1> USE DEF ScreensInv
<1>1. [BookNext]_bookVars /\ BookInv'
  BY BookSteps, BookStepInv
<1>2. Stored \subseteq Stored'
  BY <1>1, StoredStays DEF BookInv
<1>3. CheckInInv'
  <2>1. CASE UNCHANGED checkInVars
    BY <1>2, <2>1, CheckInRest
  <2>2. CASE CheckInNext
    BY <2>2, CheckInStepInv
  <2> QED
    BY <2>1, <2>2 DEF ScreensNext, screensVars
<1>4. ClaimInv'
  <2>1. CASE UNCHANGED claimVars
    BY <1>1, <2>1, ClaimRest DEF BookInv
  <2>2. CASE ClaimNext
    BY <2>2, ClaimStepInv
  <2> QED
    BY <2>1, <2>2 DEF ScreensNext, screensVars
<1>5. DetailsInv'
  <2>1. CASE EventsNext
    BY <2>1, DetailsStepInv
  <2>2. CASE UNCHANGED detailVars /\ known \subseteq known'
    BY <2>2, DetailsRest
  <2>3. Background => known \subseteq known'
    BY BackgroundSteps, KnownGrows
  <2>4. ASSUME NEW e \in Events, NEW a \in Accounts, Activate(e, a)
        PROVE  known \subseteq known'
    BY <2>4 DEF Activate
  <2>5. CheckInNext \/ ClaimNext => known' = known
    BY CheckInReads, ClaimReads DEF bookVars
  <2> QED
    BY <2>1, <2>2, <2>3, <2>4, <2>5, KnownGrows, BackgroundSteps
       DEF ScreensNext, screensVars, bookVars
<1> QED
  BY <1>1, <1>3, <1>4, <1>5

LEMMA ScreensInvariance == ScreensSpec => []ScreensInv
  BY ScreensInitInv, ScreensStepInv, PTL DEF ScreensSpec

\* Every variable of every screen keeps its shape.
THEOREM ScreensTypeCorrect == ScreensSpec => []ScreensTypeOK
<1> DEFINE Routed == shownScreen \in {"badges", "kiosk", "check-in", "events", "claim"}
<1>1. ScreensInit => Routed
  BY DEF ScreensInit
<1>2. Routed /\ [ScreensNext]_screensVars => Routed'
  BY DEF ScreensNext, screensVars
<1>3. ScreensSpec => []Routed
  BY <1>1, <1>2, PTL DEF ScreensSpec
<1>4. Routed /\ ScreensInv /\ TypeOK /\ KioskTypeOK => ScreensTypeOK
  BY DEF ScreensInv, BookInv, DetailsInv, CheckInInv, ClaimInv, ScreensTypeOK
<1> HIDE DEF Routed
<1> QED
  BY <1>3, <1>4, ScreensRunComponents, RecorderTypeCorrect, KioskTypeCorrect,
     ScreensInvariance, PTL

\* While routes change, dialogs open and events load, the recorder and the kiosk
\* keep what they promise alone: no record that is owed to the backend is lost,
\* a pending badge is polled, a badge shown stays, a kiosk does not freeze, its
\* rotations do not pile up, and the scanners accept the code it shows.
THEOREM ScreensKeepPromises ==
  ScreensSpec => /\ [](RecordsAreKept /\ PendingIsPolled)
                 /\ ShownBadgesStay
                 /\ [](KioskIsAlive /\ OneRotation /\ ShownCodeIsAccepted)
<1>1. Spec => [](RecordsAreKept /\ PendingIsPolled)
  BY NoRecordIsLost, PendingBadgesArePolled, PTL
<1>2. KioskSpec => [](KioskIsAlive /\ OneRotation /\ ShownCodeIsAccepted)
  BY KioskNeverFreezes, RotationsDoNotPileUp, CodesAreAccepted, PTL
<1> QED
  BY <1>1, <1>2, BadgesStay, ScreensRunComponents, PTL

\* The event of the check-in dialog, and the one taken to the minting screen, was
\* named by a text of this visit that vouches for it.
THEOREM ShownEventsAreVouched == ScreensSpec => []PendingIsVouched
<1>1. ScreensInv => PendingIsVouched
  <2> SUFFICES ASSUME ScreensInv, NEW e \in {pending, handed} \ {NoEvent}
               PROVE  \E k \in LookupIds : Vouches(k, e)
    BY DEF PendingIsVouched
  <2>1. PICK k \in LookupIds : lookups[k].event = e
    BY DEF ScreensInv, CheckInInv, ShownWasLookedUp
  <2>2. VouchedBy(lookups[k])
    BY <2>1 DEF ScreensInv, CheckInInv, LookupsVouch
  <2> QED
    BY <2>1, <2>2 DEF VouchedBy, Vouches
<1> QED
  BY <1>1, ScreensInvariance, PTL

\* An id that was saved stays watched and saved, across calls that overlap and
\* reloads of the page.
THEOREM SavedWatchesStay == ScreensSpec => []WatchesAreKept
<1>1. ScreensInv => WatchesAreKept
  BY DEF ScreensInv, BookInv
<1> QED
  BY <1>1, ScreensInvariance, PTL

\* The slide-over shows the attendees of its own event, and its spinner turns
\* until they are there, unless a list that it was opened over answered last.
THEOREM AttendeesAreOwn == ScreensSpec => []DetailsAreOwn
<1>1. ScreensInv => DetailsAreOwn
  BY DEF ScreensInv, DetailsInv
<1> QED
  BY <1>1, ScreensInvariance, PTL

\* A camera makes one look-up at most, however views and probes overlap.
THEOREM ScannersLookUpOnce == ScreensSpec => []OneLookupPerScanner
<1>1. ScreensInv => OneLookupPerScanner
  BY DEF ScreensInv, CheckInInv
<1> QED
  BY <1>1, ScreensInvariance, PTL

\* A spinner of check-in turns only while a call is under way that stops it.
THEOREM SpinnersDoEnd == ScreensSpec => []SpinnersEnd
<1>1. ScreensInv => SpinnersEnd
  BY DEF ScreensInv, CheckInInv
<1> QED
  BY <1>1, ScreensInvariance, PTL

\* A claim on the screen or taken to the minting screen was signed by the
\* creator for the address that presented it and had not expired.
THEOREM ShownClaimsAreVouched == ScreensSpec => []ClaimIsVouched
<1>1. ScreensInv => ClaimIsVouched
  BY DEF ScreensInv, ClaimInv
<1> QED
  BY <1>1, ScreensInvariance, PTL

\* What the backend has issued verifies for its recipient until it expires.
THEOREM IssuedClaimsVerify == ScreensSpec => []IssuedVerifies
<1>1. ScreensInv => IssuedVerifies
  <2> SUFFICES ASSUME ScreensInv, NEW t \in issued,
                      t.message.expires = Open \/ time <= t.message.expires
               PROVE  Verifies(t, t.message.recipient)
    BY DEF IssuedVerifies
  <2>1. IssuerIsCreator(t) /\ SignatureIsValid(t)
    BY DEF ScreensInv, ClaimInv, IssuedAreSigned
  <2>2. t.message \in Message /\ time \in 0..MaxTime
    BY DEF ScreensInv, ClaimInv, ClaimTypeOK, Token
  <2>3. t.message.expires = Open \/ t.message.expires \in 0..MaxTime
    BY <2>2 DEF Message
  <2>4. ~IsExpired(t.message)
    BY <2>2, <2>3, ClaimAssumption DEF IsExpired
  <2> QED
    BY <2>1, <2>4 DEF Verifies
<1> QED
  BY <1>1, ScreensInvariance, PTL
=============================================================================
