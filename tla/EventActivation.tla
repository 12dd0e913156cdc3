--------------------------- MODULE EventActivation ---------------------------
(***************************************************************************)
(* How an event comes to life in the backend: the tables payment_intents,  *)
(* payment_observations and active_events and the handlers that write      *)
(* them: POST /events/intent, /events/create, /events/:id/activate and     *)
(* /events/:id/window.  No handler runs in a transaction: each SQL         *)
(* statement and each RPC call is a step, the other handlers run between   *)
(* two of them, and any of them may fail or be the last before a crash.    *)
(***************************************************************************)
EXTENDS Naturals, FiniteSets

CONSTANTS
  Events,       \* event ids: hash of creator, second and nonce, fresh per submission
  Payments,     \* hashes of payment transactions
  Windows,      \* attendance windows that a creator signs
  NoPayment,    \* the empty payment hash of an event created without payment
  NoWindow,     \* window_json is NULL
  Requests,     \* slots for concurrent requests
  Blocks,       \* bound: block numbers of the chain
  MaxFailures,  \* bound: SQL statements and RPC calls that fail
  MaxRestarts   \* bound: process restarts

ASSUME BlocksAssumption == Blocks \subseteq Nat \ {0}
ASSUME EventsAssumption == Events # {}
ASSUME NoneAssumption == NoPayment \notin Payments /\ NoWindow \notin Windows
ASSUME RequestsAssumption == IsFiniteSet(Requests)
ASSUME BoundsAssumption == MaxFailures \in Nat /\ MaxRestarts \in Nat

VARIABLES
  chain,     \* block of each payment transaction; 0 = not committed
  intents,   \* payment_intents
  observed,  \* payment_observations, by event id
  active,    \* active_events, by event id
  requests,  \* what each request slot is doing
  failures,  \* how many calls failed so far
  restarts   \* how many times the process restarted

vars == <<chain, intents, observed, active, requests, failures, restarts>>

Observation == [tx : Payments, block : Blocks]
Event == [tx : Payments \cup {NoPayment}, block : Blocks \cup {0},
          window : Windows \cup {NoWindow}]
Calls == {"get active", "get intent", "get transaction", "record payment", "store paid",
          "store created", "update window"}
Request == [event  : Events,
            step   : Calls \cup {"done"},
            tx     : Payments \cup {NoPayment},
            block  : Blocks \cup {0},
            window : Windows \cup {NoWindow}]

\* A slot that never served a request (the event is of no account).
Idle == [event |-> CHOOSE e \in Events : TRUE, step |-> "done", tx |-> NoPayment,
         block |-> 0, window |-> NoWindow]

Init ==
  /\ chain = [t \in Payments |-> 0]
  /\ intents = {}
  /\ observed = <<>>
  /\ active = <<>>
  /\ requests = [r \in Requests |-> Idle]
  /\ failures = 0
  /\ restarts = 0

(***************************************************************************)
(* The chain and the process.                                              *)
(***************************************************************************)
Commit(t) ==
  /\ chain[t] = 0
  /\ \E b \in Blocks : chain' = [chain EXCEPT ![t] = b]
  /\ UNCHANGED <<intents, observed, active, requests, failures, restarts>>

\* Requests in flight are gone; the three tables stay.
Restart ==
  /\ restarts < MaxRestarts
  /\ restarts' = restarts + 1
  /\ requests' = [r \in Requests |-> Idle]
  /\ UNCHANGED <<chain, intents, observed, active, failures>>

(***************************************************************************)
(* Steps of a request.                                                     *)
(***************************************************************************)
At(r, step) == requests[r].step = step

Begin(r, e, t, w, step) ==
  /\ At(r, "done")
  /\ requests' = [requests EXCEPT ![r] =
                    [event |-> e, step |-> step, tx |-> t, block |-> 0, window |-> w]]

Go(r, step) == requests' = [requests EXCEPT ![r].step = step]

\* The call returns an error, and the handler returns it at once.
Fails(r, step) ==
  /\ At(r, step)
  /\ failures < MaxFailures
  /\ failures' = failures + 1
  /\ Go(r, "done")
  /\ UNCHANGED <<chain, intents, observed, active, restarts>>

Put(table, e, row) == [f \in DOMAIN table \cup {e} |-> IF f = e THEN row ELSE table[f]]

\* INSERT OR REPLACE: the whole row, its window included.
StoreActiveEvent(e, t, b) ==
  active' = Put(active, e, [tx |-> t, block |-> b, window |-> NoWindow])

(***************************************************************************)
(* POST /events/intent and POST /events/create.                            *)
(***************************************************************************)
SubmitIntent(e) ==
  /\ e \notin intents
  /\ intents' = intents \cup {e}
  /\ UNCHANGED <<chain, observed, active, requests, failures, restarts>>

CreateEvent(r, e) ==
  /\ e \notin intents
  /\ intents' = intents \cup {e}
  /\ Begin(r, e, NoPayment, NoWindow, "store created")
  /\ UNCHANGED <<chain, observed, active, failures, restarts>>

StoreCreated(r) ==
  /\ At(r, "store created")
  /\ StoreActiveEvent(requests[r].event, NoPayment, 0)
  /\ Go(r, "done")
  /\ UNCHANGED <<chain, intents, observed, failures, restarts>>

(***************************************************************************)
(* POST /events/:id/activate.                                              *)
(***************************************************************************)
\* Mutant: every activation goes on to look the payment up.
ActivateUnchecked(r, e, t) ==
  /\ Begin(r, e, t, NoWindow, "get intent")
  /\ UNCHANGED <<chain, intents, observed, active, failures, restarts>>

\* An event whose payment was observed before is only read.
ActivateEvent(r, e, t) ==
  /\ Begin(r, e, t, NoWindow, IF e \in DOMAIN observed THEN "get active" ELSE "get intent")
  /\ UNCHANGED <<chain, intents, observed, active, failures, restarts>>

GetActive(r) ==
  /\ At(r, "get active")
  /\ Go(r, "done")
  /\ UNCHANGED <<chain, intents, observed, active, failures, restarts>>

GetIntent(r) ==
  /\ At(r, "get intent")
  /\ Go(r, IF requests[r].event \in intents THEN "get transaction" ELSE "done")
  /\ UNCHANGED <<chain, intents, observed, active, failures, restarts>>

\* Mutant: an unconfirmed payment is accepted at block 0.
GetTransactionUnconfirmed(r) ==
  /\ At(r, "get transaction")
  /\ requests' = [requests EXCEPT ![r] =
                    [@ EXCEPT !.step = "record payment", !.block = chain[requests[r].tx]]]
  /\ UNCHANGED <<chain, intents, observed, active, failures, restarts>>

\* The payment must be committed and its block known (a look-up of the block
\* that failed shows as a call that failed).
GetTransaction(r) ==
  LET block == chain[requests[r].tx]
  IN /\ At(r, "get transaction")
     /\ requests' = [requests EXCEPT ![r] =
                       [@ EXCEPT !.step = IF block > 0 THEN "record payment" ELSE "done",
                                 !.block = block]]
     /\ UNCHANGED <<chain, intents, observed, active, failures, restarts>>

RecordPayment(r) ==
  /\ At(r, "record payment")
  /\ observed' = Put(observed, requests[r].event,
                     [tx |-> requests[r].tx, block |-> requests[r].block])
  /\ Go(r, "store paid")
  /\ UNCHANGED <<chain, intents, active, failures, restarts>>

\* Mutant: a payment that has activated another event is rejected, too late.
StoreUnlessUsed(r) ==
  /\ At(r, "store paid")
  /\ IF \E e \in DOMAIN active : active[e].tx = requests[r].tx
       THEN UNCHANGED active
       ELSE StoreActiveEvent(requests[r].event, requests[r].tx, requests[r].block)
  /\ Go(r, "done")
  /\ UNCHANGED <<chain, intents, observed, failures, restarts>>

StorePaid(r) ==
  /\ At(r, "store paid")
  /\ StoreActiveEvent(requests[r].event, requests[r].tx, requests[r].block)
  /\ Go(r, "done")
  /\ UNCHANGED <<chain, intents, observed, failures, restarts>>

(***************************************************************************)
(* POST /events/:id/window: the event is read to check the creator's       *)
(* signature, and updated in a second statement.                           *)
(***************************************************************************)
SubmitWindow(r, e, w) ==
  /\ e \in DOMAIN active
  /\ Begin(r, e, NoPayment, w, "update window")
  /\ UNCHANGED <<chain, intents, observed, active, failures, restarts>>

UpdateWindow(r) ==
  /\ At(r, "update window")
  /\ active' = [e \in DOMAIN active |->
                  IF e = requests[r].event
                  THEN [active[e] EXCEPT !.window = requests[r].window] ELSE active[e]]
  /\ Go(r, "done")
  /\ UNCHANGED <<chain, intents, observed, failures, restarts>>

Step(r) ==
  \/ StoreCreated(r)
  \/ GetActive(r) \/ GetIntent(r) \/ GetTransaction(r) \/ RecordPayment(r) \/ StorePaid(r)
  \/ UpdateWindow(r)
  \/ \E step \in Calls : Fails(r, step)

Next ==
  \/ \E t \in Payments : Commit(t)
  \/ Restart
  \/ \E e \in Events : SubmitIntent(e)
  \/ \E r \in Requests, e \in Events :
       \/ CreateEvent(r, e)
       \/ \E t \in Payments : ActivateEvent(r, e, t)
       \/ \E w \in Windows : SubmitWindow(r, e, w)
  \/ \E r \in Requests : Step(r)

Spec == Init /\ [][Next]_vars

-----------------------------------------------------------------------------
\* The tables and the requests have the shape the code gives them.
TypeOK ==
  /\ chain \in [Payments -> Blocks \cup {0}]
  /\ intents \subseteq Events
  /\ DOMAIN observed \subseteq Events /\ observed \in [DOMAIN observed -> Observation]
  /\ DOMAIN active \subseteq Events /\ active \in [DOMAIN active -> Event]
  /\ requests \in [Requests -> Request]
  /\ failures \in 0..MaxFailures
  /\ restarts \in 0..MaxRestarts

\* Every event in the tables has an intent, and what the tables say about a
\* payment is what the chain says: an event is active as paid only after the
\* payment was observed, with the block that committed it, whatever runs or
\* crashes between the three statements of an activation.
ActivationsAreJustified ==
  /\ DOMAIN observed \cup DOMAIN active \subseteq intents
  /\ \A e \in DOMAIN observed : chain[observed[e].tx] = observed[e].block
  /\ \A e \in DOMAIN active : active[e].tx # NoPayment =>
       /\ e \in DOMAIN observed
       /\ chain[active[e].tx] = active[e].block

\* No activation of e is past its check for an earlier payment.
NoLateActivation(e) ==
  \A r \in Requests :
    requests[r].event = e =>
      requests[r].step \notin {"get intent", "get transaction", "record payment", "store paid",
                               "store created"}

\* The row of an event in active_events, if it has one.
RowOf(e) == {active[f] : f \in {e} \cap DOMAIN active}

\* What a step does to settled events: those whose payment was observed and
\* that no late activation works on.
SettledStep ==
  \A e \in DOMAIN observed :
    NoLateActivation(e) =>
      /\ NoLateActivation(e)'
      /\ e \in DOMAIN observed' /\ observed'[e] = observed[e]
      /\ \/ RowOf(e)' = RowOf(e)
         \/ e \in DOMAIN active /\ \E r \in Requests : UpdateWindow(r) /\ requests[r].event = e

\* Once the payment of an event was observed and the requests that had not
\* seen it are over, no other can begin that does not see it: its observation
\* stays, and activating it again neither changes nor makes its row, also when a
\* failure has left it without one.  From then on only the creator's window
\* requests change the row (activate_event, "already activated").
SettledEventsStay == [][SettledStep]_vars

\* The events whose payment is on record and that are neither active nor about to be.
LostEvents ==
  {e \in DOMAIN observed \ DOMAIN active :
     ~\E r \in Requests : At(r, "store paid") /\ requests[r].event = e}

\* A paid event gets lost only between the two writes of its activation: each call
\* that fails loses one at most, and each restart one for every request in flight.
LossesAreCounted ==
  Cardinality(LostEvents) <= failures + restarts * Cardinality(Requests)

-----------------------------------------------------------------------------
\* What the code takes for granted (routes.rs, "Check if already activated via
\* a prior payment observation"): an event with an observed payment is active,
\* or the request that observed it is about to store it.
ObservedPaymentIsActivated ==
  \A e \in DOMAIN observed :
    \/ e \in DOMAIN active
    \/ \E r \in Requests : At(r, "store paid") /\ requests[r].event = e
=============================================================================
