--------------------------- MODULE PresenceModule ---------------------------
(***************************************************************************)
(* How the reference presence module turns what was scanned or typed into  *)
(* an event id (packages/ckb-presence/src/module.ts).  A locator is the    *)
(* text by its form: the part that names the event, and for a dynamic code *)
(* the age of its timestamp, negative when it is ahead of this clock.      *)
(***************************************************************************)
EXTENDS Integers

CONSTANTS
  MaxAge,     \* DEFAULT_DYNAMIC_QR_POLICY.maxAgeMs
  MaxFuture   \* DEFAULT_DYNAMIC_QR_POLICY.maxFutureMs

ASSUME PolicyAssumption == MaxAge \in Nat /\ MaxFuture \in Nat

NotAnId == "not an id"

\* What a driver parses; each wants the form that its text begins with or is
\* split by, and one without delimiter will do for a plain id.
Forms(driver) ==
  CASE driver = "dynamic-qr"       -> {"dynamic"}
    [] driver = "plain-event-id"   -> {"id", "claim", "submission"}
    [] driver = "signed-claim"     -> {"claim"}
    [] driver = "submission-proof" -> {"submission"}

\* The drivers in the order of their registration.
ProofDrivers == <<"dynamic-qr", "plain-event-id", "signed-claim", "submission-proof">>

\* The plain driver takes the whole text for the id.
IdFor(driver, loc) ==
  IF driver = "plain-event-id" /\ loc.form # "id" THEN NotAnId ELSE loc.id

\* Only the dynamic driver validates.
Valid(driver, loc) ==
  driver = "dynamic-qr" => loc.age <= MaxAge /\ -loc.age <= MaxFuture

Unresolved == [driver |-> "none", id |-> NotAnId]

First(places) == CHOOSE i \in places : \A j \in places : i <= j

\* The first driver that parses the text decides; when it does not validate,
\* no other is asked.  The empty text has no form that a driver parses.
ResolveScopeLocator(loc) ==
  LET fitting == {i \in DOMAIN ProofDrivers : loc.form \in Forms(ProofDrivers[i])}
      driver == ProofDrivers[First(fitting)] IN
  IF fitting = {} \/ ~Valid(driver, loc)
    THEN Unresolved
    ELSE [driver |-> driver, id |-> IdFor(driver, loc)]

Resolves(loc) == ResolveScopeLocator(loc) # Unresolved
=============================================================================
