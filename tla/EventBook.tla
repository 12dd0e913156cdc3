----------------------------- MODULE EventBook -----------------------------
(***************************************************************************)
(* The events that a page knows and those it watches by id                 *)
(* (eventsSignal and watchedIdsSignal of frontend/src/services/            *)
(* poap.service.ts, the events tab of the gallery), and how the backend    *)
(* finds an event by its id or by a prefix of it (observe_event).  Calls   *)
(* of the page overlap at their awaits; a reload drops all but             *)
(* localStorage.  The order of the list is left out.                       *)
(***************************************************************************)
EXTENDS Naturals, FiniteSets, Wallets

CONSTANTS
  Events,    \* ids in full
  Short,     \* a text that every id begins with
  NoEvent,   \* no event
  Calls      \* bound: calls of the page

ASSUME EventBookAssumption ==
  Short \notin Events /\ NoEvent \notin Events /\ Short # NoEvent

VARIABLES
  creator,  \* active_events of the backend: who created the event, or NoOne
  known,    \* eventsSignal
  watched,  \* watchedIdsSignal
  saved,    \* the same in localStorage
  calls,    \* the calls of loadMyEventsFromBackend and watchEventById
  linked,   \* history: the events that watchEventById has returned for since the page loaded
  kept      \* history: the ids that localStorage has taken

bookVars == <<creator, known, watched, saved, calls, linked, kept>>

Ids == Events \cup {Short}
Stored == {e \in Events : creator[e] # NoOne}
Call == [step : {"unused", "list", "merge", "look up", "watch", "done"},
         who : Accounts \cup {NoOne},       \* loadMyEventsFromBackend: for whom
         id : Ids,                          \* watchEventById: what was typed
         found : SUBSET Events]
Unused == [step |-> "unused", who |-> NoOne, id |-> Short, found |-> {}]
Finished == [Unused EXCEPT !.step = "done"]
Goes(c, step, found) == [calls EXCEPT ![c].step = step, ![c].found = found]

BookInit ==
  /\ creator = [e \in Events |-> NoOne]
  /\ known = {}
  /\ watched = {}
  /\ saved = {}
  /\ calls = [c \in Calls |-> Unused]
  /\ linked = {}
  /\ kept = {}

\* The page's record of an event names the backend's creator as issuer.
Issuer(e) == creator[e]

\* A wallet sees the events it created and those watched under their own id.
MyCreatedEvents(a) == {e \in known : Issuer(e) = a \/ e \in watched}

Matching(id) == IF id = Short THEN Stored ELSE Stored \cap {id}

\* Mutant: one of several matches is taken.
AnyMatch(id) == IF Matching(id) = {} THEN {} ELSE {CHOOSE e \in Matching(id) : TRUE}

\* An id in full, or a prefix that fits one event; a prefix that fits several
\* finds nothing.
ObserveEvent(id) == IF Cardinality(Matching(id)) = 1 THEN Matching(id) ELSE {}

\* Without the backend, an event of the page with exactly that id.
LocalEvent(id) == known \cap {id}

-----------------------------------------------------------------------------
\* Someone activates an event.
Activate(e, a) ==
  /\ creator[e] = NoOne
  /\ creator' = [creator EXCEPT ![e] = a]
  /\ UNCHANGED <<known, watched, saved, calls, linked, kept>>

\* createEvent of this page returns (module MintingPage).
AddCreated(e) ==
  /\ e \in Stored \ known
  /\ known' = known \cup {e}
  /\ UNCHANGED <<creator, watched, saved, calls, linked, kept>>

LoadMyEvents(c, a) ==
  /\ calls[c].step = "unused"
  /\ calls' = [calls EXCEPT ![c].step = "list", ![c].who = a]
  /\ UNCHANGED <<creator, known, watched, saved, linked, kept>>

ListEvents(c) ==
  /\ calls[c].step = "list"
  /\ calls' = Goes(c, "merge", Stored)
  /\ UNCHANGED <<creator, known, watched, saved, linked, kept>>

\* The list is back: the wallet's own events and the watched ones are added.
MergeEvents(c) ==
  /\ calls[c].step = "merge"
  /\ known' = known \cup {e \in calls[c].found : creator[e] = calls[c].who \/ e \in watched}
  /\ calls' = [calls EXCEPT ![c] = Finished]
  /\ UNCHANGED <<creator, watched, saved, linked, kept>>

WatchEventById(c, id) ==
  /\ calls[c].step = "unused"
  /\ calls' = [calls EXCEPT ![c].step = "look up", ![c].id = id]
  /\ UNCHANGED <<creator, known, watched, saved, linked, kept>>

GetEventById(c) ==
  /\ calls[c].step = "look up"
  /\ ObserveEvent(calls[c].id) # {}
  /\ calls' = Goes(c, "watch", ObserveEvent(calls[c].id))
  /\ UNCHANGED <<creator, known, watched, saved, linked, kept>>

\* The backend does not answer and the page knows the event.
GetLocalEvent(c) ==
  /\ calls[c].step = "look up"
  /\ LocalEvent(calls[c].id) # {}
  /\ calls' = Goes(c, "watch", LocalEvent(calls[c].id))
  /\ UNCHANGED <<creator, known, watched, saved, linked, kept>>

\* No such event, or no answer: the list keeps what it has, the watch is refused.
CallFails(c) ==
  /\ calls[c].step \in {"list", "look up"}
  /\ calls' = [calls EXCEPT ![c] = Finished]
  /\ UNCHANGED <<creator, known, watched, saved, linked, kept>>

\* Mutant: localStorage gets the new id instead of the new list.
SaveLast(c) ==
  LET id == calls[c].id IN
  /\ calls[c].step = "watch"
  /\ watched' = watched \cup {id}
  /\ \/ id \notin watched /\ saved' = {id} /\ kept' = kept \cup {id}
     \/ UNCHANGED <<saved, kept>>
  /\ known' = known \cup calls[c].found
  /\ linked' = linked \cup calls[c].found
  /\ calls' = [calls EXCEPT ![c] = Finished]
  /\ UNCHANGED creator

\* Mutant: what is saved is not watched before the next load of the page.
SaveUnwatched(c) ==
  LET id == calls[c].id IN
  /\ calls[c].step = "watch"
  /\ \/ id \notin watched /\ saved' = watched \cup {id} /\ kept' = kept \cup saved'
     \/ UNCHANGED <<saved, kept>>
  /\ known' = known \cup calls[c].found
  /\ linked' = linked \cup calls[c].found
  /\ calls' = [calls EXCEPT ![c] = Finished]
  /\ UNCHANGED <<creator, watched>>

\* What was typed is watched and saved, unless localStorage refuses or it was
\* watched before; the event joins the list.
SaveWatched(c) ==
  LET id == calls[c].id IN
  /\ calls[c].step = "watch"
  /\ watched' = watched \cup {id}
  /\ \/ id \notin watched /\ saved' = watched' /\ kept' = kept \cup watched'
     \/ UNCHANGED <<saved, kept>>
  /\ known' = known \cup calls[c].found
  /\ linked' = linked \cup calls[c].found
  /\ calls' = [calls EXCEPT ![c] = Finished]
  /\ UNCHANGED creator

ReloadEvents ==
  /\ known' = {}
  /\ watched' = saved
  /\ calls' = [c \in Calls |-> IF calls[c].step = "unused" THEN Unused ELSE Finished]
  /\ linked' = {}
  /\ UNCHANGED <<creator, saved, kept>>

BookStep ==
  \/ \E e \in Events, a \in Accounts : Activate(e, a)
  \/ \E e \in Events : AddCreated(e)
  \/ \E c \in Calls :
       \/ \E a \in Accounts : LoadMyEvents(c, a)
       \/ \E id \in Ids : WatchEventById(c, id)
       \/ ListEvents(c) \/ MergeEvents(c)
       \/ GetEventById(c) \/ GetLocalEvent(c) \/ CallFails(c) \/ SaveWatched(c)

BookNext == BookStep \/ ReloadEvents

BookSpec == BookInit /\ [][BookNext]_bookVars

BookTypeOK ==
  /\ creator \in [Events -> Accounts \cup {NoOne}]
  /\ known \subseteq Stored
  /\ watched \subseteq Ids
  /\ saved \subseteq watched
  /\ calls \in [Calls -> Call]
  /\ linked \subseteq known
  /\ kept \subseteq Ids

\* An id that was saved stays watched and saved, across calls that overlap and
\* reloads, as long as one page writes localStorage (watchEventById).
WatchesAreKept == kept \subseteq saved /\ kept \subseteq watched

\* The doc comment of watchEventById: it "saves the ID to localStorage so it
\* persists across sessions, and adds it to myCreatedEvents immediately".
WatchedIsListed == \A a \in Accounts : linked \subseteq MyCreatedEvents(a)
=============================================================================
