------------------------------ MODULE Screens ------------------------------
(***************************************************************************)
(* The frontend shows one screen at a time, and each of these keeps its    *)
(* state to itself: the badges of the gallery (with what the page records  *)
(* of mints), the kiosk, check-in, the events of the gallery, the claim    *)
(* screen.  A behaviour of this module is one of one of these screens,     *)
(* with whatever its page and the backend do meanwhile.  What screens do   *)
(* share is the list of events (check-in falls back on it) and the router, *)
(* which takes the event of CheckIn and ClaimFlow to MintingPage.          *)
(***************************************************************************)
EXTENDS BadgeRecorder, LiveQr, CheckIn, ClaimFlow, EventDetails

ASSUME ScreensAssumption == Accounts # {}

VARIABLE shownScreen  \* the route

screensVars == <<shownScreen, vars, kioskVars, bookVars, checkInVars, claimVars,
                 detailVars>>

ScreensInit ==
  /\ shownScreen \in {"badges", "kiosk", "check-in", "events", "claim"}
  /\ Init
  /\ KioskInit /\ (shownScreen # "kiosk" => ~connected)
  /\ BookInit /\ DetailsInit /\ CheckInInit /\ ClaimInit

\* Meanwhile someone (check-in does not look at who) activates an event, or a
\* creation that this page began returns.
Someone == CHOOSE a \in Accounts : TRUE
Background ==
  \E e \in Events : Activate(e, Someone) \/ AddCreated(e)

ScreensNext ==
  /\ UNCHANGED shownScreen
  /\ \/ /\ shownScreen = "badges" /\ Next
        /\ UNCHANGED <<kioskVars, bookVars, detailVars, checkInVars, claimVars>>
     \/ /\ shownScreen = "kiosk" /\ KioskNext
        /\ UNCHANGED <<vars, bookVars, detailVars, checkInVars, claimVars>>
     \/ /\ shownScreen = "check-in"
        /\ CheckInNext \/ (Background /\ UNCHANGED checkInVars)
        /\ UNCHANGED <<vars, kioskVars, detailVars, claimVars>>
     \/ /\ shownScreen = "events" /\ EventsNext
        /\ UNCHANGED <<vars, kioskVars, checkInVars, claimVars>>
     \/ /\ shownScreen = "claim"
        /\ \/ ClaimNext
           \/ (\E e \in Events, a \in Accounts : Activate(e, a)) /\ UNCHANGED claimVars
        /\ UNCHANGED <<vars, kioskVars, checkInVars, detailVars>>

\* Timers and intervals fire.  A poll is answered in the end, and of the requests
\* for a code that are made again and again some are settled in time.  Nothing
\* says that a user acts, or that an overdue request ever returns.
ScreensFairness ==
  /\ \A t \in Txs : WF_vars(shownScreen = "badges" /\ PollConfirms(t))
  /\ WF_kioskVars(shownScreen = "kiosk" /\ Tick)
  /\ SF_kioskVars(shownScreen = "kiosk" /\ SettlesInTime)

ScreensSpec == ScreensInit /\ [][ScreensNext]_screensVars /\ ScreensFairness

ScreensTypeOK ==
  /\ shownScreen \in {"badges", "kiosk", "check-in", "events", "claim"}
  /\ TypeOK /\ KioskTypeOK /\ BookTypeOK /\ DetailsTypeOK
  /\ CheckInTypeOK /\ ClaimTypeOK

\* A screen catches up with what it shows, again and again.  Badges: the blocks
\* of all committed badges are shown in the end, but for those that a poll gave
\* up on (pollForConfirmation).  Kiosk: a code past its life is renewed, or an
\* error takes its place (the interval of startRotation).  No user has to act.
ScreensCatchUp == []<>(~Behind /\ ~Overdue)
=============================================================================
