----------------------- MODULE EventActivationProofs ------------------------
(***************************************************************************)
(* Proofs about EventActivation for all events, payments and requests, and *)
(* for any number of failures and restarts.                                *)
(***************************************************************************)
EXTENDS EventActivation, FiniteSetTheorems, TLAPS

\* What a request carries from one call to the next still holds when it uses
\* it: the intent it read, the block of its payment, the observation it wrote.
RequestInv(r) ==
  /\ requests[r].step \in {"get transaction", "record payment", "store paid", "store created"} =>
       requests[r].event \in intents
  /\ requests[r].step \in {"get intent", "get transaction", "record payment", "store paid"} =>
       requests[r].tx \in Payments
  /\ requests[r].step \in {"record payment", "store paid"} =>
       requests[r].block \in Blocks /\ chain[requests[r].tx] = requests[r].block
  /\ requests[r].step = "store paid" => requests[r].event \in DOMAIN observed

RequestsInv == \A r \in Requests : RequestInv(r)

\* A paid event has a block, so that its payment is not committed again.
PaidHaveBlocks == \A e \in DOMAIN active : active[e].tx # NoPayment => active[e].block \in Blocks

IInv == TypeOK /\ ActivationsAreJustified /\ PaidHaveBlocks /\ RequestsInv

-----------------------------------------------------------------------------
LEMMA IdleType == Idle \in Request
  BY EventsAssumption DEF Idle, Request

\* A request moves on and keeps what it carries.
LEMMA GoType ==
  ASSUME TypeOK, NEW r \in Requests, NEW step \in Calls \cup {"done"}, Go(r, step)
  PROVE  /\ requests' \in [Requests -> Request]
         /\ requests'[r].step = step
         /\ requests'[r].event = requests[r].event
         /\ requests'[r].tx = requests[r].tx
         /\ requests'[r].block = requests[r].block
         /\ requests'[r].window = requests[r].window
         /\ \A q \in Requests \ {r} : requests'[q] = requests[q]
<1>1. requests[r] \in Request /\ requests \in [Requests -> Request]
  BY DEF TypeOK
<1>2. [requests[r] EXCEPT !.step = step] \in Request
  BY <1>1 DEF Request
<1>3. requests' = [requests EXCEPT ![r] = [requests[r] EXCEPT !.step = step]]
  BY DEF Go
<1>4. requests'[r] = [requests[r] EXCEPT !.step = step]
  BY <1>1, <1>3
<1> QED
  BY <1>1, <1>2, <1>3, <1>4 DEF Request

LEMMA SetRequest ==
  ASSUME TypeOK, NEW r \in Requests, NEW q \in Request, requests' = [requests EXCEPT ![r] = q]
  PROVE  /\ requests' \in [Requests -> Request]
         /\ requests'[r] = q
         /\ \A s \in Requests \ {r} : requests'[s] = requests[s]
  BY DEF TypeOK

\* A step of one request that writes no table and keeps the chain.
LEMMA OneRequestInv ==
  ASSUME IInv, NEW r \in Requests, requests' \in [Requests -> Request],
         \A s \in Requests \ {r} : requests'[s] = requests[s],
         RequestInv(r)', failures' \in 0..MaxFailures,
         UNCHANGED <<chain, intents, observed, active, restarts>>
  PROVE  IInv'
<1>1. TypeOK'
  BY DEF IInv, TypeOK
<1>2. ASSUME NEW s \in Requests PROVE RequestInv(s)'
  BY DEF IInv, RequestsInv, RequestInv
<1> QED
  BY <1>1, <1>2 DEF IInv, RequestsInv, ActivationsAreJustified, PaidHaveBlocks

-----------------------------------------------------------------------------
\* Initially the tables are empty and no request runs.
LEMMA InitInv == Init => IInv
<1> SUFFICES ASSUME Init PROVE IInv
  OBVIOUS
<1>1. TypeOK
  BY IdleType, BoundsAssumption DEF Init, TypeOK
<1>2. RequestsInv
  BY DEF Init, RequestsInv, RequestInv, Idle
<1> QED
  BY <1>1, <1>2 DEF Init, IInv, ActivationsAreJustified, PaidHaveBlocks

\* A payment that a table or a request relies on is committed already.
LEMMA CommitInv == ASSUME IInv, NEW t \in Payments, Commit(t) PROVE IInv'
<1>1. PICK b \in Blocks : chain' = [chain EXCEPT ![t] = b]
  BY DEF Commit
<1>2. chain \in [Payments -> Blocks \cup {0}] /\ chain[t] = 0
  BY DEF IInv, TypeOK, Commit
<1>3. \A u \in Payments : chain[u] \in Blocks => u # t /\ chain'[u] = chain[u]
  BY <1>1, <1>2, BlocksAssumption
<1>4. TypeOK'
  BY <1>1, <1>2 DEF IInv, TypeOK, Commit
<1>5. ASSUME NEW e \in DOMAIN observed PROVE chain'[observed[e].tx] = observed[e].block
  <2>1. observed[e] \in Observation /\ chain[observed[e].tx] = observed[e].block
    BY DEF IInv, TypeOK, ActivationsAreJustified
  <2>2. observed[e].tx \in Payments /\ observed[e].block \in Blocks
    BY <2>1 DEF Observation
  <2> QED
    BY <2>1, <2>2, <1>3
<1>6. ASSUME NEW e \in DOMAIN active, active[e].tx # NoPayment
      PROVE  chain'[active[e].tx] = active[e].block
  <2>1. /\ active[e] \in Event /\ chain[active[e].tx] = active[e].block
        /\ active[e].block \in Blocks
    BY <1>6 DEF IInv, TypeOK, ActivationsAreJustified, PaidHaveBlocks
  <2>2. active[e].tx \in Payments
    BY <2>1, <1>6 DEF Event
  <2> QED
    BY <2>1, <2>2, <1>3
<1>7. ASSUME NEW r \in Requests PROVE RequestInv(r)'
  <2>1. RequestInv(r)
    BY DEF IInv, RequestsInv
  <2> QED
    BY <2>1, <1>3 DEF RequestInv, Commit
<1>8. ActivationsAreJustified'
  BY <1>5, <1>6 DEF IInv, ActivationsAreJustified, Commit
<1> QED
  BY <1>4, <1>7, <1>8 DEF IInv, RequestsInv, PaidHaveBlocks, Commit

LEMMA RestartInv == ASSUME IInv, Restart PROVE IInv'
<1>1. TypeOK'
  BY IdleType, BoundsAssumption DEF IInv, TypeOK, Restart
<1>2. RequestsInv'
  BY DEF RequestsInv, RequestInv, Restart, Idle
<1> QED
  BY <1>1, <1>2 DEF IInv, Restart, ActivationsAreJustified, PaidHaveBlocks

LEMMA SubmitIntentInv == ASSUME IInv, NEW e \in Events, SubmitIntent(e) PROVE IInv'
<1>1. TypeOK'
  BY DEF IInv, TypeOK, SubmitIntent
<1>2. RequestsInv'
  BY DEF IInv, RequestsInv, RequestInv, SubmitIntent
<1> QED
  BY <1>1, <1>2 DEF IInv, SubmitIntent, ActivationsAreJustified, PaidHaveBlocks

-----------------------------------------------------------------------------
\* What a request carries when it begins.
LEMMA BeginType ==
  ASSUME TypeOK, NEW r \in Requests, NEW e \in Events, NEW t \in Payments \cup {NoPayment},
         NEW w \in Windows \cup {NoWindow}, NEW step \in Calls, Begin(r, e, t, w, step)
  PROVE  /\ requests' \in [Requests -> Request]
         /\ requests'[r].step = step /\ requests'[r].event = e /\ requests'[r].tx = t
         /\ \A s \in Requests \ {r} : requests'[s] = requests[s]
<1> DEFINE q == [event |-> e, step |-> step, tx |-> t, block |-> 0, window |-> w]
<1>1. q \in Request
  BY DEF Request
<1>2. requests' = [requests EXCEPT ![r] = q]
  BY DEF Begin
<1> HIDE DEF q
<1>3. /\ requests' \in [Requests -> Request] /\ requests'[r] = q
      /\ \A s \in Requests \ {r} : requests'[s] = requests[s]
  BY <1>1, <1>2, SetRequest
<1> QED
  BY <1>3 DEF q

LEMMA CreateEventInv ==
  ASSUME IInv, NEW r \in Requests, NEW e \in Events, CreateEvent(r, e) PROVE IInv'
<1>1. /\ requests' \in [Requests -> Request]
      /\ requests'[r].step = "store created" /\ requests'[r].event = e
      /\ \A s \in Requests \ {r} : requests'[s] = requests[s]
  BY BeginType DEF IInv, CreateEvent, Calls
<1>2. TypeOK'
  BY <1>1 DEF IInv, TypeOK, CreateEvent
<1>3. ASSUME NEW s \in Requests PROVE RequestInv(s)'
  BY <1>1 DEF IInv, RequestsInv, RequestInv, CreateEvent
<1> QED
  BY <1>2, <1>3 DEF IInv, RequestsInv, CreateEvent, ActivationsAreJustified, PaidHaveBlocks

LEMMA ActivateEventInv ==
  ASSUME IInv, NEW r \in Requests, NEW e \in Events, NEW t \in Payments, ActivateEvent(r, e, t)
  PROVE  IInv'
<1> DEFINE step == IF e \in DOMAIN observed THEN "get active" ELSE "get intent"
<1>1. step \in {"get active", "get intent"} /\ Begin(r, e, t, NoWindow, step)
  BY DEF ActivateEvent
<1> HIDE DEF step
<1>2. /\ requests' \in [Requests -> Request]
      /\ requests'[r].step = step /\ requests'[r].tx = t
      /\ \A s \in Requests \ {r} : requests'[s] = requests[s]
  <2>1. TypeOK /\ step \in Calls /\ NoWindow \in Windows \cup {NoWindow}
        /\ t \in Payments \cup {NoPayment}
    BY <1>1 DEF IInv, Calls
  <2> QED
    BY <1>1, <2>1, BeginType
<1>3. RequestInv(r)'
  BY <1>1, <1>2 DEF RequestInv
<1>4. failures' \in 0..MaxFailures
  BY DEF IInv, TypeOK, ActivateEvent
<1> QED
  BY <1>2, <1>3, <1>4, OneRequestInv DEF ActivateEvent

LEMMA SubmitWindowInv ==
  ASSUME IInv, NEW r \in Requests, NEW e \in Events, NEW w \in Windows, SubmitWindow(r, e, w)
  PROVE  IInv'
<1>1. /\ requests' \in [Requests -> Request] /\ requests'[r].step = "update window"
      /\ \A s \in Requests \ {r} : requests'[s] = requests[s]
  BY BeginType DEF IInv, SubmitWindow, Calls
<1>2. RequestInv(r)'
  BY <1>1 DEF RequestInv
<1>3. failures' \in 0..MaxFailures
  BY DEF IInv, TypeOK, SubmitWindow
<1> QED
  BY <1>1, <1>2, <1>3, OneRequestInv DEF SubmitWindow

-----------------------------------------------------------------------------
\* A request that is over, with or without an error.
LEMMA DoneInv ==
  ASSUME IInv, NEW r \in Requests, Go(r, "done"), failures' \in 0..MaxFailures,
         UNCHANGED <<chain, intents, observed, active, restarts>>
  PROVE  IInv'
<1>1. /\ requests' \in [Requests -> Request] /\ requests'[r].step = "done"
      /\ \A s \in Requests \ {r} : requests'[s] = requests[s]
  BY GoType DEF IInv
<1>2. RequestInv(r)'
  BY <1>1 DEF RequestInv
<1> QED
  BY <1>1, <1>2, OneRequestInv

LEMMA FailsInv == ASSUME IInv, NEW r \in Requests, NEW step \in Calls, Fails(r, step) PROVE IInv'
<1>1. failures' \in 0..MaxFailures
  BY BoundsAssumption DEF IInv, TypeOK, Fails
<1> QED
  BY <1>1, DoneInv DEF Fails

LEMMA GetActiveInv == ASSUME IInv, NEW r \in Requests, GetActive(r) PROVE IInv'
<1>1. failures' \in 0..MaxFailures
  BY DEF IInv, TypeOK, GetActive
<1> QED
  BY <1>1, DoneInv DEF GetActive

LEMMA GetIntentInv == ASSUME IInv, NEW r \in Requests, GetIntent(r) PROVE IInv'
<1>1. failures' \in 0..MaxFailures
  BY DEF IInv, TypeOK, GetIntent
<1>2. CASE requests[r].event \notin intents
  BY <1>1, <1>2, DoneInv DEF GetIntent
<1>3. CASE requests[r].event \in intents
  <2>1. Go(r, "get transaction")
    BY <1>3 DEF GetIntent
  <2>2. /\ requests' \in [Requests -> Request] /\ requests'[r].step = "get transaction"
        /\ requests'[r].event = requests[r].event /\ requests'[r].tx = requests[r].tx
        /\ \A s \in Requests \ {r} : requests'[s] = requests[s]
    BY <2>1, GoType DEF IInv, Calls
  <2>3. RequestInv(r) /\ requests[r].step = "get intent"
    BY DEF IInv, RequestsInv, GetIntent, At
  <2>4. RequestInv(r)'
    BY <1>3, <2>2, <2>3 DEF RequestInv, GetIntent
  <2> QED
    BY <1>1, <2>2, <2>4, OneRequestInv DEF GetIntent
<1> QED
  BY <1>2, <1>3

\* Past this step the request holds the block of a committed payment.
LEMMA GetTransactionInv == ASSUME IInv, NEW r \in Requests, GetTransaction(r) PROVE IInv'
<1> DEFINE block == chain[requests[r].tx]
           step == IF block > 0 THEN "record payment" ELSE "done"
           q == [requests[r] EXCEPT !.step = step, !.block = block]
<1>1. /\ requests[r] \in Request /\ RequestInv(r) /\ requests[r].step = "get transaction"
  BY DEF IInv, TypeOK, RequestsInv, GetTransaction, At
<1>2. requests[r].tx \in Payments /\ requests[r].event \in intents
  BY <1>1 DEF RequestInv
<1>3. block \in Blocks \cup {0}
  BY <1>2 DEF IInv, TypeOK
<1>4. step \in Calls \cup {"done"} /\ (step = "record payment" => block \in Blocks)
  BY <1>3 DEF Calls
<1>5. step \in {"record payment", "done"}
  OBVIOUS
<1>6. requests' = [requests EXCEPT ![r] = q]
  BY DEF GetTransaction
<1> HIDE DEF step
<1>7. /\ q \in Request /\ q.step = step /\ q.block = block
      /\ q.tx = requests[r].tx /\ q.event = requests[r].event
  BY <1>1, <1>3, <1>4 DEF Request
<1> HIDE DEF q
<1>8. /\ requests' \in [Requests -> Request] /\ requests'[r] = q
      /\ \A s \in Requests \ {r} : requests'[s] = requests[s]
  BY <1>6, <1>7, SetRequest DEF IInv
<1>9. UNCHANGED <<chain, intents, observed, active, failures, restarts>>
  BY DEF GetTransaction
<1>10. RequestInv(r)'
  BY <1>2, <1>4, <1>5, <1>7, <1>8, <1>9 DEF RequestInv
<1>11. failures' \in 0..MaxFailures
  BY <1>9 DEF IInv, TypeOK
<1> QED
  BY <1>8, <1>9, <1>10, <1>11, OneRequestInv

\* The observation is stored with the block that the request looked up.
LEMMA RecordPaymentInv == ASSUME IInv, NEW r \in Requests, RecordPayment(r) PROVE IInv'
<1> DEFINE e == requests[r].event
           row == [tx |-> requests[r].tx, block |-> requests[r].block]
<1>1. /\ requests[r] \in Request /\ RequestInv(r) /\ requests[r].step = "record payment"
  BY DEF IInv, TypeOK, RequestsInv, RecordPayment, At
<1>2. /\ requests[r].tx \in Payments /\ e \in intents /\ e \in Events
      /\ requests[r].block \in Blocks /\ chain[requests[r].tx] = requests[r].block
  BY <1>1 DEF RequestInv, Request
<1>3. row \in Observation /\ row.tx = requests[r].tx /\ row.block = requests[r].block
  BY <1>2 DEF Observation
<1>4. DOMAIN observed \subseteq Events /\ observed \in [DOMAIN observed -> Observation]
  BY DEF IInv, TypeOK
<1>5. observed' = Put(observed, e, row) /\ Go(r, "store paid")
      /\ UNCHANGED <<chain, intents, active, failures, restarts>>
  BY DEF RecordPayment
<1> HIDE DEF row, e
<1>6. /\ DOMAIN observed' = DOMAIN observed \cup {e} /\ DOMAIN observed' \subseteq Events
      /\ observed' \in [DOMAIN observed' -> Observation] /\ observed'[e] = row
      /\ \A f \in DOMAIN observed \ {e} : observed'[f] = observed[f]
  BY <1>2, <1>3, <1>4, <1>5 DEF Put
<1>7. /\ requests' \in [Requests -> Request] /\ requests'[r].step = "store paid"
      /\ requests'[r].event = e /\ requests'[r].tx = requests[r].tx
      /\ requests'[r].block = requests[r].block
      /\ \A s \in Requests \ {r} : requests'[s] = requests[s]
  <2>1. "store paid" \in Calls \cup {"done"}
    BY DEF Calls
  <2> QED
    BY <2>1, <1>5, GoType DEF IInv, e
<1>8. TypeOK'
  BY <1>5, <1>6, <1>7 DEF IInv, TypeOK
<1>9. ActivationsAreJustified'
  BY <1>2, <1>3, <1>5, <1>6 DEF IInv, ActivationsAreJustified
<1>10. ASSUME NEW s \in Requests PROVE RequestInv(s)'
  BY <1>2, <1>5, <1>6, <1>7 DEF IInv, RequestsInv, RequestInv
<1> QED
  BY <1>5, <1>8, <1>9, <1>10 DEF IInv, RequestsInv, PaidHaveBlocks

\* Storing an event leaves the other tables, and ends the request.
LEMMA StoreInv ==
  ASSUME IInv, NEW r \in Requests, Go(r, "done"),
         UNCHANGED <<chain, intents, observed, failures, restarts>>,
         NEW t \in Payments \cup {NoPayment}, NEW b \in Blocks \cup {0},
         NEW e \in intents, StoreActiveEvent(e, t, b),
         t # NoPayment => e \in DOMAIN observed /\ b \in Blocks /\ chain[t] = b
  PROVE  IInv'
<1> DEFINE row == [tx |-> t, block |-> b, window |-> NoWindow]
<1>1. row \in Event /\ row.tx = t /\ row.block = b
  BY DEF Event
<1>2. /\ e \in Events /\ DOMAIN active \subseteq Events
      /\ active \in [DOMAIN active -> Event]
  BY DEF IInv, TypeOK
<1>3. active' = Put(active, e, row)
  BY DEF StoreActiveEvent
<1> HIDE DEF row
<1>4. /\ DOMAIN active' = DOMAIN active \cup {e} /\ DOMAIN active' \subseteq Events
      /\ active' \in [DOMAIN active' -> Event] /\ active'[e] = row
      /\ \A f \in DOMAIN active \ {e} : active'[f] = active[f]
  BY <1>1, <1>2, <1>3 DEF Put
<1>5. /\ requests' \in [Requests -> Request] /\ requests'[r].step = "done"
      /\ \A s \in Requests \ {r} : requests'[s] = requests[s]
  BY GoType DEF IInv
<1>6. TypeOK'
  BY <1>4, <1>5 DEF IInv, TypeOK
<1>7. ActivationsAreJustified' /\ PaidHaveBlocks'
  BY <1>1, <1>4 DEF IInv, ActivationsAreJustified, PaidHaveBlocks
<1>8. ASSUME NEW s \in Requests PROVE RequestInv(s)'
  BY <1>5 DEF IInv, RequestsInv, RequestInv
<1> QED
  BY <1>6, <1>7, <1>8 DEF IInv, RequestsInv

LEMMA StoreCreatedInv == ASSUME IInv, NEW r \in Requests, StoreCreated(r) PROVE IInv'
<1>1. requests[r].event \in intents
  BY DEF IInv, RequestsInv, RequestInv, StoreCreated, At
<1> QED
  BY <1>1, StoreInv DEF StoreCreated

LEMMA StorePaidInv == ASSUME IInv, NEW r \in Requests, StorePaid(r) PROVE IInv'
<1>1. RequestInv(r) /\ requests[r].step = "store paid"
  BY DEF IInv, RequestsInv, StorePaid, At
<1>2. /\ requests[r].event \in intents /\ requests[r].event \in DOMAIN observed
      /\ requests[r].tx \in Payments /\ requests[r].block \in Blocks
      /\ chain[requests[r].tx] = requests[r].block
  BY <1>1 DEF RequestInv
<1> QED
  BY <1>2, StoreInv DEF StorePaid

\* A window changes nothing else of its event.
LEMMA UpdateWindowInv == ASSUME IInv, NEW r \in Requests, UpdateWindow(r) PROVE IInv'
<1>1. requests[r] \in Request /\ active \in [DOMAIN active -> Event]
  BY DEF IInv, TypeOK
<1>2. requests[r].window \in Windows \cup {NoWindow}
  BY <1>1 DEF Request
<1>3. DOMAIN active' = DOMAIN active
  BY DEF UpdateWindow
<1>4. ASSUME NEW e \in DOMAIN active
      PROVE  active'[e] \in Event /\ active'[e].tx = active[e].tx
             /\ active'[e].block = active[e].block
  <2>1. active[e] \in Event
    BY <1>1
  <2>2. active'[e] = IF e = requests[r].event
                     THEN [active[e] EXCEPT !.window = requests[r].window] ELSE active[e]
    BY DEF UpdateWindow
  <2> QED
    BY <2>1, <2>2, <1>2 DEF Event
<1>5. active' \in [DOMAIN active' -> Event]
  BY <1>3, <1>4 DEF UpdateWindow
<1>6. /\ requests' \in [Requests -> Request] /\ requests'[r].step = "done"
      /\ \A s \in Requests \ {r} : requests'[s] = requests[s]
  BY GoType DEF IInv, UpdateWindow
<1>7. TypeOK'
  BY <1>3, <1>5, <1>6 DEF IInv, TypeOK, UpdateWindow
<1>8. ActivationsAreJustified' /\ PaidHaveBlocks'
  BY <1>3, <1>4 DEF IInv, ActivationsAreJustified, PaidHaveBlocks, UpdateWindow
<1>9. ASSUME NEW s \in Requests PROVE RequestInv(s)'
  BY <1>6 DEF IInv, RequestsInv, RequestInv, UpdateWindow
<1> QED
  BY <1>7, <1>8, <1>9 DEF IInv, RequestsInv

LEMMA StepInv == ASSUME IInv, NEW r \in Requests, Step(r) PROVE IInv'
  BY StoreCreatedInv, GetActiveInv, GetIntentInv, GetTransactionInv, RecordPaymentInv,
     StorePaidInv, UpdateWindowInv, FailsInv DEF Step

\* The invariant is inductive: one step per action.
LEMMA Inductive == IInv /\ [Next]_vars => IInv'
<1> SUFFICES ASSUME IInv, [Next]_vars PROVE IInv'
  OBVIOUS
<1>1. CASE UNCHANGED vars
  BY <1>1 DEF vars, IInv, TypeOK, ActivationsAreJustified, PaidHaveBlocks, RequestsInv, RequestInv
<1>2. CASE \E t \in Payments : Commit(t)
  BY <1>2, CommitInv
<1>3. CASE Restart
  BY <1>3, RestartInv
<1>4. CASE \E e \in Events : SubmitIntent(e)
  BY <1>4, SubmitIntentInv
<1>5. CASE \E r \in Requests, e \in Events : CreateEvent(r, e)
  BY <1>5, CreateEventInv
<1>6. CASE \E r \in Requests, e \in Events, t \in Payments : ActivateEvent(r, e, t)
  BY <1>6, ActivateEventInv
<1>7. CASE \E r \in Requests, e \in Events, w \in Windows : SubmitWindow(r, e, w)
  BY <1>7, SubmitWindowInv
<1>8. CASE \E r \in Requests : Step(r)
  BY <1>8, StepInv
<1> QED
  BY <1>1, <1>2, <1>3, <1>4, <1>5, <1>6, <1>7, <1>8 DEF Next

LEMMA Invariance == Spec => []IInv
  BY InitInv, Inductive, PTL DEF Spec

-----------------------------------------------------------------------------
\* The tables and the requests keep their shape.
THEOREM TypeCorrect == Spec => []TypeOK
  BY Invariance, PTL DEF IInv

\* An event is active as paid only after its payment was observed, with the
\* block that committed it, for any interleaving, failure and restart.
THEOREM ActivationIsJustified == Spec => []ActivationsAreJustified
  BY Invariance, PTL DEF IInv

\* A step of one request keeps an event settled unless that request is late.
LEMMA StaysSettled ==
  ASSUME NEW e, NoLateActivation(e), NEW r \in Requests,
         \A q \in Requests \ {r} : requests'[q] = requests[q],
         requests'[r].event = e => requests'[r].step \in {"done", "get active", "update window"}
  PROVE  NoLateActivation(e)'
  BY DEF NoLateActivation

\* No request becomes late for an event whose payment was observed.
LEMMA NobodyIsLate ==
  ASSUME IInv, Next, NEW e \in DOMAIN observed, NoLateActivation(e)
  PROVE  NoLateActivation(e)'
<1>1. e \in intents
  BY DEF IInv, ActivationsAreJustified
<1>2. CASE UNCHANGED requests
  BY <1>2 DEF NoLateActivation
<1>3. CASE Restart
  BY <1>3 DEF Restart, NoLateActivation, Idle
<1>4. ASSUME NEW r \in Requests, NEW f \in Events, CreateEvent(r, f)
      PROVE  NoLateActivation(e)'
  <2>1. /\ requests'[r].event = f /\ f # e
        /\ \A q \in Requests \ {r} : requests'[q] = requests[q]
    BY <1>1, <1>4, BeginType DEF IInv, CreateEvent, Calls
  <2> QED
    BY <2>1, StaysSettled
<1>5. ASSUME NEW r \in Requests, NEW f \in Events, NEW t \in Payments, ActivateEvent(r, f, t)
      PROVE  NoLateActivation(e)'
  <2> DEFINE step == IF f \in DOMAIN observed THEN "get active" ELSE "get intent"
  <2>1. /\ step \in Calls /\ Begin(r, f, t, NoWindow, step) /\ TypeOK
        /\ NoWindow \in Windows \cup {NoWindow} /\ t \in Payments \cup {NoPayment}
    BY <1>5 DEF ActivateEvent, Calls, IInv
  <2>2. f = e => step = "get active"
    OBVIOUS
  <2> HIDE DEF step
  <2>3. /\ requests'[r].event = f /\ requests'[r].step = step
        /\ \A q \in Requests \ {r} : requests'[q] = requests[q]
    BY <2>1, BeginType
  <2> QED
    BY <2>2, <2>3, StaysSettled
<1>6. ASSUME NEW r \in Requests, NEW f \in Events, NEW w \in Windows, SubmitWindow(r, f, w)
      PROVE  NoLateActivation(e)'
  <2>1. /\ requests'[r].step = "update window"
        /\ \A q \in Requests \ {r} : requests'[q] = requests[q]
    BY <1>6, BeginType DEF IInv, SubmitWindow, Calls
  <2> QED
    BY <2>1, StaysSettled
<1>7. ASSUME NEW r \in Requests, Step(r) PROVE NoLateActivation(e)'
  <2>1. requests'[r].event = requests[r].event
        /\ \A q \in Requests \ {r} : requests'[q] = requests[q]
    <3>1. requests \in [Requests -> Request]
      BY DEF IInv, TypeOK
    <3>2. CASE GetTransaction(r)
      BY <3>1, <3>2 DEF GetTransaction, Request
    <3>3. CASE ~GetTransaction(r)
      <4>1. \E step : requests' = [requests EXCEPT ![r].step = step]
        BY <1>7, <3>3 DEF Step, StoreCreated, GetActive, GetIntent, RecordPayment, StorePaid,
                           UpdateWindow, Fails, Go
      <4> QED
        BY <3>1, <4>1 DEF Request
    <3> QED
      BY <3>2, <3>3
  <2>2. CASE requests[r].event # e
    BY <2>1, <2>2, StaysSettled
  <2>3. CASE requests[r].event = e
    <3>1. \/ GetActive(r) \/ UpdateWindow(r)
          \/ \E step \in Calls : Fails(r, step)
      BY <1>7, <2>3 DEF Step, NoLateActivation, At, StoreCreated, GetIntent, GetTransaction,
                        RecordPayment, StorePaid
    <3>2. Go(r, "done")
      BY <3>1 DEF GetActive, UpdateWindow, Fails
    <3>3. requests'[r].step = "done"
      BY <3>2, GoType DEF IInv
    <3> QED
      BY <2>1, <3>3, StaysSettled
  <2> QED
    BY <2>2, <2>3
<1>8. \/ UNCHANGED requests
      \/ Restart
      \/ \E r \in Requests, f \in Events : CreateEvent(r, f)
      \/ \E r \in Requests, f \in Events, t \in Payments : ActivateEvent(r, f, t)
      \/ \E r \in Requests, f \in Events, w \in Windows : SubmitWindow(r, f, w)
      \/ \E r \in Requests : Step(r)
  BY DEF Next, Commit, SubmitIntent
<1> QED
  BY <1>2, <1>3, <1>4, <1>5, <1>6, <1>7, <1>8

\* Recording one payment leaves the others as they are.
LEMMA RecordOther ==
  ASSUME NEW e \in DOMAIN observed, NEW f, NEW row, observed' = Put(observed, f, row), f # e
  PROVE  e \in DOMAIN observed' /\ observed'[e] = observed[e]
  BY DEF Put

\* Every step leaves settled events settled, and as they are.
LEMMA SettledStepHolds == IInv /\ [Next]_vars => [SettledStep]_vars
<1> DEFINE Kept(e) ==
             \/ RowOf(e)' = RowOf(e)
             \/ e \in DOMAIN active /\ \E r \in Requests : UpdateWindow(r) /\ requests[r].event = e
<1> SUFFICES ASSUME IInv, Next, NEW e \in DOMAIN observed, NoLateActivation(e)
             PROVE  /\ NoLateActivation(e)'
                    /\ e \in DOMAIN observed' /\ observed'[e] = observed[e]
                    /\ Kept(e)
  BY DEF SettledStep
<1>0. NoLateActivation(e)'
  BY NobodyIsLate
<1>a. e \in DOMAIN observed' /\ observed'[e] = observed[e]
  <2>1. ASSUME NEW r \in Requests, RecordPayment(r)
        PROVE  e \in DOMAIN observed' /\ observed'[e] = observed[e]
    <3>1. requests[r].event # e
      BY <2>1 DEF NoLateActivation, RecordPayment, At
    <3> QED
      BY <2>1, <3>1, RecordOther DEF RecordPayment
  <2>2. UNCHANGED observed \/ \E r \in Requests : RecordPayment(r)
    BY DEF Next, Step, Commit, Restart, SubmitIntent, CreateEvent, ActivateEvent, SubmitWindow,
           StoreCreated, StorePaid, UpdateWindow, GetActive, GetIntent, GetTransaction, Fails
  <2> QED
    BY <2>1, <2>2
<1>1. UNCHANGED active => Kept(e)
  BY DEF RowOf
<1>b. ASSUME e \in DOMAIN active' <=> e \in DOMAIN active,
             e \in DOMAIN active => active'[e] = active[e]
      PROVE  Kept(e)
  BY <1>b DEF RowOf
<1>2. ASSUME NEW r \in Requests, StoreCreated(r) \/ StorePaid(r) PROVE Kept(e)
  <2>1. requests[r].event # e
    BY <1>2 DEF NoLateActivation, StoreCreated, StorePaid, At
  <2>2. /\ e \in DOMAIN active' <=> e \in DOMAIN active
        /\ e \in DOMAIN active => active'[e] = active[e]
    BY <1>2, <2>1 DEF StoreCreated, StorePaid, StoreActiveEvent, Put
  <2> QED
    BY <2>2, <1>b
<1>3. ASSUME NEW r \in Requests, UpdateWindow(r) PROVE Kept(e)
  <2>1. CASE requests[r].event = e /\ e \in DOMAIN active
    BY <1>3, <2>1
  <2>2. CASE requests[r].event # e \/ e \notin DOMAIN active
    <3>1. /\ e \in DOMAIN active' <=> e \in DOMAIN active
          /\ e \in DOMAIN active => active'[e] = active[e]
      BY <1>3, <2>2 DEF UpdateWindow
    <3> QED
      BY <3>1, <1>b
  <2> QED
    BY <2>1, <2>2
<1>4. \/ UNCHANGED active
      \/ \E r \in Requests : StoreCreated(r) \/ StorePaid(r) \/ UpdateWindow(r)
  BY DEF Next, Step, Commit, Restart, SubmitIntent, CreateEvent, ActivateEvent, SubmitWindow,
         GetActive, GetIntent, GetTransaction, RecordPayment, Fails
<1> QED
  BY <1>0, <1>a, <1>1, <1>2, <1>3, <1>4

\* Once no activation of an observed event is past its check, none ever is
\* again: the observation stays, no row is made or lost, and only the creator's
\* window requests change the row.
THEOREM SettledEventsAreStable == Spec => SettledEventsStay
  BY SettledStepHolds, Invariance, PTL DEF Spec, SettledEventsStay

\* An event that was paid for and that no activation works on any more, without a
\* row: the failure or the restart came between the two writes.
Stranded(e) == e \in DOMAIN observed \ DOMAIN active /\ NoLateActivation(e)

\* Such an event stays as it is: every later activation answers that the payment
\* was observed, and none stores the event (activate_event).
THEOREM StrandedForEver ==
  ASSUME NEW e \in Events
  PROVE  Spec => [](Stranded(e) => []Stranded(e))
<1>1. IInv /\ Stranded(e) /\ [Next]_vars => Stranded(e)'
  <2> SUFFICES ASSUME IInv, Stranded(e), [Next]_vars PROVE Stranded(e)'
    OBVIOUS
  <2>1. CASE UNCHANGED vars
    BY <2>1 DEF vars, Stranded, NoLateActivation
  <2>2. CASE SettledStep
    <3>1. /\ NoLateActivation(e)' /\ e \in DOMAIN observed'
          /\ RowOf(e)' = RowOf(e)
      BY <2>2 DEF SettledStep, Stranded
    <3>2. e \notin DOMAIN active'
      BY <3>1 DEF RowOf, Stranded
    <3> QED
      BY <3>1, <3>2 DEF Stranded
  <2> QED
    BY <2>1, <2>2, SettledStepHolds
<1> QED
  BY <1>1, Invariance, PTL DEF Spec

-----------------------------------------------------------------------------
(***************************************************************************)
(* How many paid events get lost.                                          *)
(***************************************************************************)
LossInv == IsFiniteSet(LostEvents) /\ LossesAreCounted

\* No event gets lost but those of a set that is paid for.
LEMMA LossesGrow ==
  ASSUME IInv, LossInv, NEW S, IsFiniteSet(S), LostEvents' \subseteq LostEvents \cup S,
         Cardinality(S) + failures + restarts * Cardinality(Requests)
           <= failures' + restarts' * Cardinality(Requests),
         failures' \in Nat, restarts' \in Nat
  PROVE  LossInv'
<1> DEFINE n == Cardinality(Requests)
           paid == failures + restarts * n
           paidNext == failures' + restarts' * n
<1>1. n \in Nat /\ Cardinality(S) \in Nat /\ Cardinality(LostEvents) \in Nat
  BY RequestsAssumption, FS_CardinalityType DEF LossInv
<1>2. failures \in Nat /\ restarts \in Nat
  BY BoundsAssumption DEF IInv, TypeOK
<1>3. IsFiniteSet(LostEvents \cup S) /\ Cardinality(LostEvents \cup S) <= Cardinality(LostEvents) + Cardinality(S)
  <2>1. /\ IsFiniteSet(LostEvents \cup S) /\ IsFiniteSet(LostEvents \cap S)
        /\ Cardinality(LostEvents \cup S)
             = Cardinality(LostEvents) + Cardinality(S) - Cardinality(LostEvents \cap S)
    BY FS_Union, FS_Intersection DEF LossInv
  <2>2. Cardinality(LostEvents \cap S) \in Nat
    BY <2>1, FS_CardinalityType
  <2> QED
    BY <1>1, <2>1, <2>2
<1>4. IsFiniteSet(LostEvents') /\ Cardinality(LostEvents') <= Cardinality(LostEvents \cup S)
  BY <1>3, FS_Subset
<1>5. Cardinality(LostEvents') \in Nat /\ Cardinality(LostEvents \cup S) \in Nat
  BY <1>3, <1>4, FS_CardinalityType
<1>6. restarts * n \in Nat /\ restarts' * n \in Nat
  BY <1>1, <1>2
<1>7. paid \in Nat /\ paidNext \in Nat /\ Cardinality(S) + paid <= paidNext
      /\ Cardinality(LostEvents) <= paid
  BY <1>1, <1>2, <1>6 DEF LossInv, LossesAreCounted
<1> HIDE DEF paid, paidNext, n
<1>8. Cardinality(LostEvents') <= paidNext
  BY <1>1, <1>3, <1>4, <1>5, <1>7
<1> QED
  BY <1>4, <1>8 DEF LossInv, LossesAreCounted, paidNext, n

\* Nothing is lost by a step that counts no failure and no restart.
LEMMA NothingLost ==
  ASSUME IInv, LossInv, LostEvents' \subseteq LostEvents, UNCHANGED <<failures, restarts>>
  PROVE  LossInv'
<1>1. IsFiniteSet({}) /\ Cardinality({}) = 0
  BY FS_EmptySet
<1>2. failures \in Nat /\ restarts \in Nat /\ Cardinality(Requests) \in Nat
  BY BoundsAssumption, RequestsAssumption, FS_CardinalityType DEF IInv, TypeOK
<1>3. restarts * Cardinality(Requests) \in Nat
  BY <1>2
<1>4. 0 + failures + restarts * Cardinality(Requests) <= failures' + restarts' * Cardinality(Requests)
  BY <1>2, <1>3
<1> QED
  BY <1>1, <1>2, <1>4, LossesGrow

\* A request that was not about to store its event, or that stores it, loses nothing.
LEMMA QuietStep ==
  ASSUME IInv, LossInv, UNCHANGED <<observed, failures, restarts>>, DOMAIN active \subseteq DOMAIN active',
         \A q \in Requests : At(q, "store paid") =>
           \/ requests'[q] = requests[q]
           \/ requests[q].event \in DOMAIN active'
  PROVE  LossInv'
<1>1. LostEvents' \subseteq LostEvents
  BY DEF LostEvents, At
<1> QED
  BY <1>1, NothingLost

LEMMA StepCounts == ASSUME IInv, LossInv, NEW r \in Requests, Step(r) PROVE LossInv'
<1> USE DEF IInv
<1>0. requests \in [Requests -> Request]
  BY DEF TypeOK
<1>1. CASE StoreCreated(r) \/ StorePaid(r)
  <2>1. /\ DOMAIN active' = DOMAIN active \cup {requests[r].event}
        /\ \A q \in Requests \ {r} : requests'[q] = requests[q]
    BY <1>0, <1>1 DEF StoreCreated, StorePaid, StoreActiveEvent, Put, Go
  <2> QED
    BY <1>1, <2>1, QuietStep DEF StoreCreated, StorePaid
<1>2. CASE GetActive(r) \/ GetIntent(r) \/ GetTransaction(r) \/ UpdateWindow(r)
  <2>1. /\ DOMAIN active' = DOMAIN active
        /\ ~At(r, "store paid")
        /\ \A q \in Requests \ {r} : requests'[q] = requests[q]
    BY <1>0, <1>2 DEF GetActive, GetIntent, GetTransaction, UpdateWindow, Go, At
  <2> QED
    BY <1>2, <2>1, QuietStep DEF GetActive, GetIntent, GetTransaction, UpdateWindow
<1>3. CASE RecordPayment(r)
  <2>1. /\ DOMAIN observed' = DOMAIN observed \cup {requests[r].event}
        /\ UNCHANGED <<active, failures, restarts>>
    BY <1>3 DEF RecordPayment, Put
  <2>2. /\ requests'[r].step = "store paid" /\ requests'[r].event = requests[r].event
        /\ \A q \in Requests \ {r} : requests'[q] = requests[q]
    BY <1>3, GoType DEF RecordPayment, Calls
  <2>3. ~At(r, "store paid")
    BY <1>3 DEF RecordPayment, At
  <2>4. LostEvents' \subseteq LostEvents
    BY <2>1, <2>2, <2>3 DEF LostEvents, At
  <2> QED
    BY <2>1, <2>4, NothingLost
<1>4. CASE \E step \in Calls : Fails(r, step)
  <2>1. /\ failures' = failures + 1 /\ UNCHANGED <<observed, active, restarts>>
        /\ \A q \in Requests \ {r} : requests'[q] = requests[q]
    BY <1>0, <1>4 DEF Fails, Go
  <2>2. LostEvents' \subseteq LostEvents \cup {requests[r].event}
    BY <2>1 DEF LostEvents, At
  <2>3. IsFiniteSet({requests[r].event}) /\ Cardinality({requests[r].event}) = 1
    BY FS_Singleton
  <2>4. failures \in Nat /\ restarts \in Nat /\ Cardinality(Requests) \in Nat
    BY BoundsAssumption, RequestsAssumption, FS_CardinalityType DEF TypeOK
  <2>5. restarts * Cardinality(Requests) \in Nat
    BY <2>4
  <2>6. 1 + failures + restarts * Cardinality(Requests) <= failures' + restarts' * Cardinality(Requests)
    BY <2>1, <2>4, <2>5
  <2> QED
    BY <2>1, <2>2, <2>3, <2>4, <2>6, LossesGrow
<1> QED
  BY <1>1, <1>2, <1>3, <1>4 DEF Step

\* A restart loses the events of the requests that it cuts off.
LEMMA RestartCounts == ASSUME IInv, LossInv, Restart PROVE LossInv'
<1> DEFINE n == Cardinality(Requests)
           S == {requests[r].event : r \in Requests}
<1>1. IsFiniteSet(S) /\ Cardinality(S) <= n
  <2> DEFINE f == [r \in Requests |-> requests[r].event]
  <2>1. f \in Surjection(Requests, S)
    BY DEF Surjection
  <2> QED
    BY <2>1, RequestsAssumption, FS_Surjection
<1>2. LostEvents' \subseteq LostEvents \cup S
  BY DEF LostEvents, At, Restart
<1>3. failures \in Nat /\ restarts \in Nat /\ n \in Nat /\ Cardinality(S) \in Nat
  BY <1>1, BoundsAssumption, RequestsAssumption, FS_CardinalityType DEF IInv, TypeOK
<1>4. restarts' = restarts + 1 /\ failures' = failures
  BY DEF Restart
<1> HIDE DEF n, S
<1>5. (restarts + 1) * n = restarts * n + n /\ restarts * n \in Nat
  BY <1>3
<1>6. Cardinality(S) + failures + restarts * n <= failures' + restarts' * n
  BY <1>1, <1>3, <1>4, <1>5
<1> QED
  BY <1>1, <1>2, <1>3, <1>4, <1>6, LossesGrow DEF n

LEMMA LossInductive == IInv /\ LossInv /\ [Next]_vars => LossInv'
<1> SUFFICES ASSUME IInv, LossInv, [Next]_vars PROVE LossInv'
  OBVIOUS
<1>1. CASE UNCHANGED <<observed, active, requests, failures, restarts>>
  BY <1>1, QuietStep
<1>2. ASSUME NEW r \in Requests, UNCHANGED <<observed, active, failures, restarts>>,
             \E q : requests' = [requests EXCEPT ![r] = q], At(r, "done")
      PROVE  LossInv'
  BY <1>2, QuietStep DEF IInv, TypeOK, At
<1>3. CASE \E r \in Requests, e \in Events :
             \/ CreateEvent(r, e)
             \/ \E t \in Payments : ActivateEvent(r, e, t)
             \/ \E w \in Windows : SubmitWindow(r, e, w)
  BY <1>2, <1>3 DEF CreateEvent, ActivateEvent, SubmitWindow, Begin
<1>4. CASE \/ \E t \in Payments : Commit(t)
           \/ \E e \in Events : SubmitIntent(e)
           \/ UNCHANGED vars
  BY <1>1, <1>4 DEF Commit, SubmitIntent, vars
<1> QED
  BY <1>3, <1>4, RestartCounts, StepCounts DEF Next

\* A paid event is lost only to a failed call or to a restart: one event for a
\* failure, one for each request that a restart cuts off.
THEOREM LossesAreBounded == Spec => []LossesAreCounted
<1>1. Init => LossInv
  <2> SUFFICES ASSUME Init PROVE LossInv
    OBVIOUS
  <2>1. LostEvents = {} /\ failures = 0 /\ restarts = 0
    BY DEF Init, LostEvents
  <2>2. Cardinality(Requests) \in Nat
    BY RequestsAssumption, FS_CardinalityType
  <2>3. 0 <= failures + restarts * Cardinality(Requests)
    BY <2>1, <2>2
  <2> QED
    BY <2>1, <2>3, FS_EmptySet DEF LossInv, LossesAreCounted
<1> QED
  BY <1>1, LossInductive, Invariance, PTL DEF Spec, LossInv
=============================================================================
