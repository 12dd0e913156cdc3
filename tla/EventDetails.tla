---------------------------- MODULE EventDetails ----------------------------
(***************************************************************************)
(* The slide-over of the gallery's events tab (openEventDetails of         *)
(* frontend/src/components/gallery with getAttendees of                    *)
(* services/poap.service.ts): it shows one event and the list of its       *)
(* attendees, which is asked for when it opens.  Another event can be      *)
(* opened while a list is awaited, and lists answer in any order.          *)
(***************************************************************************)
EXTENDS EventBook

CONSTANT MaxOpens  \* bound: openings of the slide-over

ASSUME DetailsAssumption == MaxOpens \in Nat

VARIABLES
  selected,          \* selectedEvent
  attendees,         \* whose list the slide-over holds, NoEvent when it is empty
  loadingAttendees,  \* its spinner
  opened,            \* how often it was opened
  awaited,           \* the lists under way: which opening asked for which event
  carried,           \* history: the openings that were awaited at the last one
  answered           \* history: the opening that was answered last since, 0 for none

detailVars == <<selected, attendees, loadingAttendees, opened, awaited, carried, answered>>

DetailsInit ==
  /\ selected = NoEvent
  /\ attendees = NoEvent
  /\ loadingAttendees = FALSE
  /\ opened = 0
  /\ awaited = {}
  /\ carried = {}
  /\ answered = 0

Ask(e) ==
  /\ awaited' = awaited \cup {<<opened + 1, e>>}
  /\ carried' = {r[1] : r \in awaited}
  /\ answered' = 0

\* Mutant: the old list stays until the new one is there.
OpenOverOld(e) ==
  /\ opened < MaxOpens
  /\ \E a \in Accounts : e \in MyCreatedEvents(a)
  /\ selected' = e
  /\ loadingAttendees' = TRUE
  /\ opened' = opened + 1
  /\ Ask(e)
  /\ UNCHANGED attendees

\* From the list of the wallet's events; the slide-over may show another one.
OpenEventDetails(e) ==
  /\ opened < MaxOpens
  /\ \E a \in Accounts : e \in MyCreatedEvents(a)
  /\ selected' = e
  /\ attendees' = NoEvent
  /\ loadingAttendees' = TRUE
  /\ opened' = opened + 1
  /\ Ask(e)

\* The list, or an empty one in place of any failure.
AttendeesAnswer(r) ==
  /\ attendees' \in {r[2], NoEvent}
  /\ loadingAttendees' = FALSE
  /\ awaited' = awaited \ {r}
  /\ answered' = r[1]
  /\ UNCHANGED <<selected, opened, carried>>

CloseDetails ==
  /\ selected # NoEvent
  /\ selected' = NoEvent
  /\ UNCHANGED <<attendees, loadingAttendees, opened, awaited, carried, answered>>

\* A gallery that is opened anew has its own slide-over.
NewGallery ==
  /\ selected' = NoEvent
  /\ attendees' = NoEvent
  /\ loadingAttendees' = FALSE
  /\ awaited' = {}
  /\ carried' = {}
  /\ answered' = 0
  /\ UNCHANGED opened

DetailsNext ==
  \/ \E e \in Events : OpenEventDetails(e)
  \/ \E r \in awaited : AttendeesAnswer(r)
  \/ CloseDetails
  \/ NewGallery

\* The events tab: its lists, its slide-over, and a reload of the page.
EventsNext ==
  \/ DetailsNext /\ UNCHANGED bookVars
  \/ BookStep /\ UNCHANGED detailVars
  \/ ReloadEvents /\ NewGallery

DetailsTypeOK ==
  /\ selected \in known \cup {NoEvent}
  /\ attendees \in Events \cup {NoEvent}
  /\ loadingAttendees \in BOOLEAN
  /\ opened \in 0..MaxOpens
  /\ awaited \subseteq (1..opened) \X Events
  /\ carried \subseteq 1..opened
  /\ answered \in 0..opened

\* The spinner turns only while a list is awaited.  What is shown under an event
\* is its own list, and the spinner turns until that list is there, unless an
\* opening that was already awaited when the event was opened answered last:
\* nothing ties an answer to the event that asked for it (openEventDetails), but
\* no list outlives the opening that clears it, and a later answer of the event's
\* own opening puts it right.
DetailsAreOwn ==
  /\ loadingAttendees => awaited # {}
  /\ selected # NoEvent /\ answered \notin carried =>
       /\ attendees \in {selected, NoEvent}
       /\ <<opened, selected>> \in awaited => loadingAttendees
=============================================================================
