---------------------------- MODULE MintingPage ----------------------------
(***************************************************************************)
(* The screens that make a page send transactions: minting                 *)
(* (components/minting) and creating an event (components/create-event     *)
(* with createEvent of services/poap.service.ts), composed with the wallet *)
(* and the builder.  Leaving a screen stops neither its timers nor its     *)
(* promises.  The backend's POST /events/create is external here (module   *)
(* EventActivation).                                                       *)
(***************************************************************************)
EXTENDS ContractService, FiniteSets

CONSTANTS
  Mints,      \* the builds of minting screens
  Creations,  \* the builds of create screens
  Nothing     \* no build

ASSUME PageAssumption ==
  Builds = Mints \cup Creations /\ Mints \cap Creations = {} /\ Nothing \notin Builds

VARIABLES
  screen,     \* currentStep of the minting screen, with its dialog, or away
  event,      \* the event of the minting screen, from the router's state
  visit,      \* the build that this visit of the minting screen has started
  confirmed,  \* history: the builds that this visit has started
  form,       \* currentStep of the create screen
  current,    \* the creation that the create screen waits for
  creations,  \* the calls of createEvent: step and creator
  created,    \* the events that the backend has, by their creation
  listed      \* eventsSignal: those that the page knows

screenVars == <<screen, event, visit, confirmed>>
createVars == <<form, current, creations, created, listed>>
vars == <<signer, connecting, modal, height, cells, spent, pool, mined, deployed, builds,
          screen, event, visit, confirmed, form, current, creations, created, listed>>

Creation == [step : {"unused", "sign", "post", "anchor", "done", "failed", "lost"},
             creator : Accounts \cup {NoOne}]

\* Panes of the minting screen, and the form of the create screen.
Waiting(b) == visit = b /\ screen = "minting"
ShowsBadge == screen = "success"
Answered(b) == builds[b].step \in {"sent", "simulated"}
FormOpen == screen = "away" /\ form = "form" /\ IsConnected

Init ==
  /\ WalletInit
  /\ ContractInit
  /\ screen = "away"
  /\ event \in Scopes
  /\ visit = Nothing
  /\ confirmed = {}
  /\ form = "form"
  /\ current = Nothing
  /\ creations = [c \in Creations |-> [step |-> "unused", creator |-> NoOne]]
  /\ created = {}
  /\ listed = {}

-----------------------------------------------------------------------------
(***************************************************************************)
(* The minting screen.                                                     *)
(***************************************************************************)
\* Navigation brings the event along (without one, the screen goes to check-in)
\* and leaves the create screen.
OpenMinting(e) ==
  /\ screen = "away"
  /\ screen' = "confirm"
  /\ event' = e
  /\ visit' = Nothing
  /\ confirmed' = {}
  /\ form' = "form"
  /\ current' = Nothing
  /\ UNCHANGED <<creations, created, listed, walletVars, contractVars>>

LeaveMinting ==
  /\ screen # "away"
  /\ screen' = "away"
  /\ visit' = Nothing
  /\ confirmed' = {}
  /\ UNCHANGED <<event, walletVars, contractVars, createVars>>

\* The panel offers the dialog to a connected wallet only.
ShowConfirmDialog ==
  /\ screen = "confirm"
  /\ IsConnected
  /\ screen' = "dialog"
  /\ UNCHANGED <<event, visit, confirmed, walletVars, contractVars, createVars>>

HideConfirmDialog ==
  /\ screen = "dialog"
  /\ screen' = "confirm"
  /\ UNCHANGED <<event, visit, confirmed, walletVars, contractVars, createVars>>

\* Mutant: the panel stays until the timer fires.
ConfirmAndStay(b) ==
  /\ screen = "dialog"
  /\ builds[b].step = "unused"
  /\ builds' = [builds EXCEPT ![b].step = "timer", ![b].scope = event]
  /\ screen' = "confirm"
  /\ visit' = b
  /\ confirmed' = confirmed \cup {b}
  /\ UNCHANGED <<event, walletVars, chainVars, createVars>>

ConfirmAndMint(b) ==
  /\ screen = "dialog"
  /\ builds[b].step = "unused"
  /\ builds' = [builds EXCEPT ![b].step = "timer", ![b].scope = event]
  /\ screen' = "signing"
  /\ visit' = b
  /\ confirmed' = confirmed \cup {b}
  /\ UNCHANGED <<event, walletVars, chainVars, createVars>>

\* 800 ms later the address is read and the mint starts, on this screen or not.
MintBadge(b) ==
  /\ builds[b].step = "timer"
  /\ builds' = [builds EXCEPT ![b] = Begun("badge", builds[b].scope, signer)]
  /\ screen' = IF visit = b THEN "minting" ELSE screen
  /\ UNCHANGED <<event, visit, confirmed, walletVars, chainVars, createVars>>

\* Mutant: the badge is shown without waiting for the send.
ShowAtOnce(b) ==
  /\ Waiting(b)
  /\ screen' = "success"
  /\ UNCHANGED <<event, visit, confirmed, walletVars, contractVars, createVars>>

\* A second after the hash is back, whatever became of the transaction.  A mint
\* that failed has no handler: its screen stays as it is until the user leaves.
ShowBadge(b) ==
  /\ Waiting(b)
  /\ Answered(b)
  /\ screen' = "success"
  /\ UNCHANGED <<event, visit, confirmed, walletVars, contractVars, createVars>>

-----------------------------------------------------------------------------
(***************************************************************************)
(* The create screen.                                                      *)
(***************************************************************************)
SetCreation(c, step) == creations' = [creations EXCEPT ![c].step = step]
Show(c, step) == form' = IF current = c THEN step ELSE form

\* The form is there for a connected wallet; its address names the creator and
\* its signer is asked for the signature before anything else runs.
Create(c) ==
  /\ FormOpen
  /\ creations[c].step = "unused"
  /\ creations' = [creations EXCEPT ![c] = [step |-> "sign", creator |-> signer]]
  /\ form' = "creating"
  /\ current' = c
  /\ UNCHANGED <<created, listed, walletVars, contractVars, screenVars>>

\* The signature is posted and the backend creates the event.
PostCreate(c) ==
  /\ creations[c].step = "sign"
  /\ SetCreation(c, "post")
  /\ created' = created \cup {c}
  /\ UNCHANGED <<form, current, listed, walletVars, contractVars, screenVars>>

\* Mutant: the event is listed before it is known to exist.
CreateFailsListed(c) ==
  /\ creations[c].step \in {"sign", "post"}
  /\ SetCreation(c, IF c \in created THEN "lost" ELSE "failed")
  /\ listed' = listed \cup {c}
  /\ Show(c, "form")
  /\ UNCHANGED <<current, created, walletVars, contractVars, screenVars>>

\* Declined, no answer, or one that is not ok: back to the form.  When only the
\* answer was lost, the backend has the event all the same.
CreateFails(c) ==
  /\ creations[c].step \in {"sign", "post"}
  /\ SetCreation(c, IF c \in created THEN "lost" ELSE "failed")
  /\ Show(c, "form")
  /\ UNCHANGED <<current, created, listed, walletVars, contractVars, screenVars>>

\* The answer is back: the anchor of the event is built for its creator.
CreateAnchor(c) ==
  /\ creations[c].step = "post"
  /\ SetCreation(c, "anchor")
  /\ \E e \in Scopes :
       builds' = [builds EXCEPT ![c] = Begun("anchor", e, creations[c].creator)]
  /\ UNCHANGED <<form, current, created, listed, walletVars, chainVars, screenVars>>

\* Mutant: an anchor that fails makes createEvent fail.
AnchorMustSucceed(c) ==
  /\ creations[c].step = "anchor"
  /\ Answered(c) \/ builds[c].step = "failed"
  /\ SetCreation(c, "done")
  /\ listed' = IF Answered(c) THEN listed \cup {c} ELSE listed
  /\ Show(c, IF Answered(c) THEN "success" ELSE "form")
  /\ UNCHANGED <<current, created, walletVars, contractVars, screenVars>>

\* Sent or not, the anchor does not decide: the event is listed and shown.
AnchorSettles(c) ==
  /\ creations[c].step = "anchor"
  /\ Answered(c) \/ builds[c].step = "failed"
  /\ SetCreation(c, "done")
  /\ listed' = listed \cup {c}
  /\ Show(c, "success")
  /\ UNCHANGED <<current, created, walletVars, contractVars, screenVars>>

\* Reset after success, or leaving the screen and coming back: an empty form.
ResetForm ==
  /\ form # "form"
  /\ form' = "form"
  /\ current' = Nothing
  /\ UNCHANGED <<creations, created, listed, walletVars, contractVars, screenVars>>

-----------------------------------------------------------------------------
Next ==
  \/ WalletNext /\ UNCHANGED <<contractVars, screenVars, createVars>>
  \/ ContractNext /\ UNCHANGED <<walletVars, screenVars, createVars>>
  \/ \E e \in Scopes : OpenMinting(e)
  \/ LeaveMinting \/ ShowConfirmDialog \/ HideConfirmDialog
  \/ \E b \in Mints : ConfirmAndMint(b) \/ MintBadge(b) \/ ShowBadge(b)
  \/ \E c \in Creations :
       Create(c) \/ PostCreate(c) \/ CreateFails(c) \/ CreateAnchor(c) \/ AnchorSettles(c)
  \/ ResetForm

Spec == Init /\ [][Next]_vars

-----------------------------------------------------------------------------
TypeOK ==
  /\ WalletTypeOK
  /\ ContractTypeOK
  /\ screen \in {"away", "confirm", "dialog", "signing", "minting", "success"}
  /\ event \in Scopes
  /\ visit \in Mints \cup {Nothing}
  /\ confirmed \subseteq Mints
  /\ form \in {"form", "creating", "success"}
  /\ current \in Creations \cup {Nothing}
  /\ creations \in [Creations -> Creation]
  /\ created \subseteq Creations
  /\ listed \subseteq created

\* One visit of the minting screen starts one mint at most, whatever dialogs are
\* opened and closed while timers and sends are under way (startMinting).
OneMintPerVisit == Cardinality(confirmed) <= 1

\* The cells that carry the artifact of a build, and those that carry its id.
MintedAs(b) == {o \in Chain!BadgeCells : cells[o].type = Artifact(b)}
UnderIdOf(b) == {o \in Chain!BadgeCells : cells[o].type.id = builds[b].id}

\* A screen that shows success shows the mint of this visit (startMinting's
\* promise), for the scope of the visit.  Without contracts it was simulated;
\* else it was sent, and what was sent is still what will be or was minted:
\* pending, its inputs are unspent and its id is unused, so that a block can
\* take it; in a block, its badge is in a live cell that no other build of the
\* page has spent, and no other cell carries its id.
SuccessIsSent ==
  ShowsBadge =>
    /\ builds[visit].scope = event
    /\ builds[visit].step = IF deployed THEN "sent" ELSE "simulated"
    /\ visit \in pool => Chain!InputsAreLive(builds[visit].ins) /\ UnderIdOf(visit) = {}
    /\ visit \in mined => \E o \in MintedAs(visit) \ spent : UnderIdOf(visit) = {o}

\* What the success pane says of a badge that was not simulated ("Status:
\* Observed on-chain"): a block has the transaction that minted it.
ObservedOnChain == ShowsBadge /\ deployed => visit \in mined

\* An event that the backend has created is listed by the page once createEvent
\* returns, whether its anchor went through or not; the form comes back for
\* another try only when the answer was lost (createEvent, create).
CreatedIsListed ==
  \A c \in created :
    /\ creations[c].step \in {"post", "anchor", "lost"} \/ c \in listed
    /\ current = c /\ form = "form" => creations[c].step = "lost"
=============================================================================
