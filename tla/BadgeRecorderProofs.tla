------------------------ MODULE BadgeRecorderProofs ------------------------
(***************************************************************************)
(* Proofs about BadgeRecorder for every number of mints, attempts, loads   *)
(* and failures: no record is lost but in the two windows that owed leaves *)
(* out, a pending badge is polled for, and a badge once shown stays.       *)
(***************************************************************************)
EXTENDS BadgeRecorder, TLAPS

\* A record that nobody is posting is in the stash, and every flush under way
\* still has it to post or to write back.
StashedIsHeld ==
  \A t \in owed :
    attempt[t] = 0 =>
      /\ t \in stash
      /\ \A l \in LoadIds : Flushing(l) => t \in loads[l].todo \cup loads[l].remaining

RecorderInv == TypeOK /\ StashedIsHeld /\ PendingIsPolled

-----------------------------------------------------------------------------
LEMMA LoadTypes ==
  /\ NewLoad \in Load /\ NewLoad.step = "unused"
  /\ Ended \in Load /\ Ended.step = "done"
  BY DEF NewLoad, Ended, Load

LEMMA StartedType ==
  ASSUME TypeOK, NEW a \in Holders \cup {NoOne}
  PROVE  /\ Started(a) \in Load
         /\ Started(a).step = "flush" => Started(a).todo = stash
  BY DEF TypeOK, Started, NewLoad, Load

LEMMA RecorderInitInv == Init => RecorderInv
<1> SUFFICES ASSUME Init PROVE RecorderInv
  OBVIOUS
<1>1. TypeOK
  BY LoadTypes, RecorderAssumption DEF Init, TypeOK
<1> QED
  BY <1>1 DEF Init, RecorderInv, StashedIsHeld, PendingIsPolled, Pending, Shown

-----------------------------------------------------------------------------
\* What an action that leaves badges and polls alone keeps.
LEMMA PolledStays ==
  ASSUME PendingIsPolled, UNCHANGED <<badges, polls>>, gaveUp \subseteq gaveUp'
  PROVE  PendingIsPolled'
  BY DEF PendingIsPolled, Pending, Shown

\* What an action that leaves stash, attempts and loads alone keeps.
LEMMA HeldStays ==
  ASSUME StashedIsHeld, UNCHANGED <<stash, attempt, loads>>, owed' \subseteq owed
  PROVE  StashedIsHeld'
  BY DEF StashedIsHeld, Flushing

LEMMA ChainInv ==
  ASSUME RecorderInv, NEW t \in Txs, Commit(t) \/ Send(t)
  PROVE  RecorderInv'
<1>1. TypeOK'
  <2>1. CASE Commit(t)
    BY <2>1 DEF RecorderInv, TypeOK, Commit, page
  <2>2. CASE Send(t)
    <3>1. holder' \in [Txs -> Holders \cup {NoOne}]
      BY <2>2 DEF RecorderInv, TypeOK, Send
    <3>2. committed' \subseteq {u \in Txs : holder'[u] # NoOne}
      BY <2>2 DEF RecorderInv, TypeOK, Send, IsConnected
    <3> QED
      BY <2>2, <3>1, <3>2 DEF RecorderInv, TypeOK, Send
  <2> QED
    BY <2>1, <2>2
<1>2. UNCHANGED <<stash, attempt, loads, owed, badges, polls, gaveUp>>
  BY DEF Commit, Send, page
<1> QED
  BY <1>1, <1>2, PolledStays, HeldStays DEF RecorderInv

\* A mint whose hash is back is owed, posted, shown and polled for.
LEMMA MintBadgeInv ==
  ASSUME RecorderInv, NEW t \in Txs, MintBadge(t)
  PROVE  RecorderInv'
<1> USE DEF RecorderInv
<1>1. TypeOK'
  <2>1. [tx |-> t, origin |-> "mint", block |-> FALSE] \in Badge
    BY DEF Badge
  <2>2. attempt' \in [Txs -> 0..(Attempts + 1)]
    BY RecorderAssumption DEF MintBadge, TypeOK
  <2>3. polls' \in [Txs -> Nat]
    BY DEF MintBadge, TypeOK
  <2>4. badges' \subseteq Badge /\ owed' \subseteq Txs /\ sending' \subseteq Txs
    BY <2>1 DEF MintBadge, TypeOK
  <2> QED
    BY <2>2, <2>3, <2>4 DEF TypeOK, MintBadge, world
<1>2. StashedIsHeld'
  BY DEF StashedIsHeld, MintBadge, TypeOK, Flushing
<1>3. PendingIsPolled'
  <2> SUFFICES ASSUME NEW u \in Txs, Pending(u)' PROVE polls'[u] > 0 \/ u \in gaveUp'
    BY DEF PendingIsPolled
  <2>1. CASE u = t
    BY <2>1 DEF MintBadge, TypeOK
  <2>2. CASE u # t
    <3>1. Pending(u)
      BY <2>2 DEF Pending, Shown, MintBadge
    <3> QED
      BY <2>2, <3>1 DEF PendingIsPolled, MintBadge, TypeOK
  <2> QED
    BY <2>1, <2>2
<1> QED
  BY <1>1, <1>2, <1>3

\* A record that is posted, fails to be, or is stashed.
LEMMA RecordInv ==
  ASSUME RecorderInv, NEW t \in Txs, RecordBadge(t) \/ RecordFails(t) \/ StashPendingRecord(t)
  PROVE  RecorderInv'
<1> USE DEF RecorderInv
<1>1. /\ UNCHANGED <<world, account, sending, badges, polls, loads, started, gaveUp>>
      /\ rows' \subseteq Txs /\ owed' \subseteq owed /\ stash \subseteq stash'
      /\ stash' \subseteq Txs /\ failures' \in 0..MaxFailures
  BY RecorderAssumption
     DEF RecordBadge, RecordFails, StashPendingRecord, Post, Fails, TypeOK
<1>2. /\ attempt' \in [Txs -> 0..(Attempts + 1)]
      /\ \A u \in Txs \ {t} : attempt'[u] = attempt[u]
  BY RecorderAssumption
     DEF RecordBadge, RecordFails, StashPendingRecord, Posting, TypeOK
<1>3. TypeOK'
  BY <1>1, <1>2 DEF TypeOK, world
<1>4. t \in owed' /\ attempt'[t] = 0 =>
        t \in stash' /\ \A l \in LoadIds : ~Flushing(l)
  <2>1. CASE RecordBadge(t)
    BY <2>1 DEF RecordBadge, Post
  <2>2. CASE RecordFails(t)
    BY <2>2, RecorderAssumption DEF RecordFails, Posting, TypeOK
  <2>3. CASE StashPendingRecord(t)
    BY <2>3 DEF StashPendingRecord
  <2> QED
    BY <2>1, <2>2, <2>3
<1>5. StashedIsHeld'
  BY <1>1, <1>2, <1>4 DEF StashedIsHeld, Flushing, TypeOK
<1> QED
  BY <1>1, <1>3, <1>5, PolledStays

\* A poll that ends: the badge has its block, or the poll gave up.
LEMMA PollInv ==
  ASSUME RecorderInv, NEW t \in Txs, PollConfirms(t) \/ PollGivesUp(t)
  PROVE  RecorderInv'
<1> USE DEF RecorderInv
<1>1. CASE PollConfirms(t)
  <2>1. badges' \subseteq Badge
    BY <1>1 DEF PollConfirms, WithBlock, TypeOK, Badge
  <2>2. polls' \in [Txs -> Nat] /\ \A u \in Txs \ {t} : polls'[u] = polls[u]
    BY <1>1 DEF PollConfirms, TypeOK
  <2>3. TypeOK'
    BY <1>1, <2>1, <2>2 DEF TypeOK, PollConfirms, world
  <2>4. ~Pending(t)'
    BY <1>1 DEF PollConfirms, WithBlock, Pending, Shown, TypeOK, Badge
  <2>5. \A u \in Txs \ {t} : Pending(u)' => Pending(u)
    BY <1>1 DEF PollConfirms, WithBlock, Pending, Shown, TypeOK, Badge
  <2>6. PendingIsPolled'
    BY <1>1, <2>2, <2>4, <2>5 DEF PendingIsPolled, PollConfirms
  <2>7. StashedIsHeld'
    BY <1>1, HeldStays DEF PollConfirms
  <2> QED
    BY <2>3, <2>6, <2>7
<1>2. CASE PollGivesUp(t)
  <2>1. polls' \in [Txs -> Nat] /\ \A u \in Txs \ {t} : polls'[u] = polls[u]
    BY <1>2 DEF PollGivesUp, TypeOK
  <2>2. TypeOK'
    BY <1>2, <2>1, RecorderAssumption DEF TypeOK, PollGivesUp, Fails, world
  <2>3. PendingIsPolled'
    BY <1>2, <2>1 DEF PendingIsPolled, PollGivesUp, Pending, Shown
  <2>4. StashedIsHeld'
    BY <1>2, HeldStays DEF PollGivesUp
  <2> QED
    BY <2>2, <2>3, <2>4
<1> QED
  BY <1>1, <1>2

-----------------------------------------------------------------------------
\* A load that starts reads the whole stash.
LEMMA StartLoadsInv ==
  ASSUME RecorderInv, NEW k \in Nat, NEW a \in Holders \cup {NoOne}, StartLoads(k, a),
         UNCHANGED <<owed, attempt, stash>>
  PROVE  /\ loads' \in [LoadIds -> Load]
         /\ started' \in 0..MaxLoads
         /\ StashedIsHeld'
<1> USE DEF RecorderInv
<1>1. \A l \in LoadIds : loads'[l] = Started(a) \/ loads'[l] = loads[l]
  BY DEF StartLoads
<1>2. loads' \in [LoadIds -> Load]
  BY StartedType DEF StartLoads, TypeOK
<1>3. started' \in 0..MaxLoads
  BY RecorderAssumption DEF StartLoads, TypeOK
<1>4. StashedIsHeld'
  BY <1>1, StartedType DEF StashedIsHeld, Flushing
<1> QED
  BY <1>2, <1>3, <1>4

LEMMA OpenInv ==
  ASSUME RecorderInv, OpenGallery \/ \E a \in Holders : SwitchAccount(a)
  PROVE  RecorderInv'
<1> USE DEF RecorderInv
<1>1. CASE OpenGallery
  <2>1. loads' \in [LoadIds -> Load] /\ started' \in 0..MaxLoads /\ StashedIsHeld'
    BY <1>1, StartLoadsInv DEF OpenGallery, TypeOK, page
  <2> QED
    BY <1>1, <2>1, PolledStays DEF OpenGallery, TypeOK, world, page
<1>2. ASSUME NEW a \in Holders, SwitchAccount(a) PROVE RecorderInv'
  <2>1. loads' \in [LoadIds -> Load] /\ started' \in 0..MaxLoads /\ StashedIsHeld'
    <3>1. CASE StartLoads(1, a)
      BY <1>2, <3>1, StartLoadsInv DEF SwitchAccount
    <3>2. CASE UNCHANGED <<started, loads>>
      BY <1>2, <3>2, HeldStays DEF SwitchAccount, TypeOK
    <3> QED
      BY <1>2, <3>1, <3>2 DEF SwitchAccount
  <2> QED
    BY <1>2, <2>1, PolledStays DEF SwitchAccount, TypeOK, world
<1> QED
  BY <1>1, <1>2

\* A flush posts a record, or keeps it for the write-back.
LEMMA FlushInv ==
  ASSUME RecorderInv, NEW l \in LoadIds, NEW t \in Txs, FlushRecord(l, t) \/ FlushFails(l, t)
  PROVE  RecorderInv'
<1> USE DEF RecorderInv
<1>1. /\ UNCHANGED <<world, page, stash, started>>
      /\ rows' \subseteq Txs /\ owed' \subseteq owed /\ failures' \in 0..MaxFailures
      /\ t \notin owed' \/ FlushFails(l, t)
  <2>1. CASE FlushRecord(l, t)
    BY <2>1, RecorderAssumption DEF FlushRecord, Post, TypeOK, world, page
  <2>2. CASE FlushFails(l, t)
    <3>1. failures' \in 0..MaxFailures
      BY <2>2, RecorderAssumption DEF FlushFails, Fails, TypeOK
    <3>2. rows' \subseteq Txs /\ owed' \subseteq owed
      BY <2>2 DEF FlushFails, Post, TypeOK
    <3> QED
      BY <2>2, <3>1, <3>2 DEF FlushFails, world, page
  <2> QED
    BY <2>1, <2>2
<1>2. /\ loads' \in [LoadIds -> Load]
      /\ \A m \in LoadIds \ {l} : loads'[m] = loads[m]
      /\ loads'[l].todo = loads[l].todo \ {t}
      /\ loads[l].remaining \subseteq loads'[l].remaining
      /\ FlushFails(l, t) => t \in loads'[l].remaining
      /\ loads'[l].step = loads[l].step
  BY DEF FlushRecord, FlushFails, TypeOK, Load
<1>3. TypeOK'
  BY <1>1, <1>2 DEF TypeOK, world, page
<1>4. StashedIsHeld'
  <2> SUFFICES ASSUME NEW u \in owed', attempt'[u] = 0
               PROVE  /\ u \in stash'
                      /\ \A m \in LoadIds : Flushing(m)' => u \in loads'[m].todo \cup loads'[m].remaining
    BY DEF StashedIsHeld
  <2>1. u \in stash /\ \A m \in LoadIds : Flushing(m) => u \in loads[m].todo \cup loads[m].remaining
    BY <1>1 DEF StashedIsHeld, page
  <2>2. \A m \in LoadIds : Flushing(m)' => Flushing(m)
    BY <1>2 DEF Flushing
  <2> QED
    BY <1>1, <1>2, <2>1, <2>2
<1> QED
  BY <1>1, <1>3, <1>4, PolledStays DEF page

\* What the write-back leaves in the stash is all that anyone is owed.
LEMMA WriteBackInv ==
  ASSUME RecorderInv, NEW l \in LoadIds, WriteBack(l)
  PROVE  RecorderInv'
<1> USE DEF RecorderInv
<1>1. /\ loads' \in [LoadIds -> Load]
      /\ \A m \in LoadIds \ {l} : loads'[m] = loads[m]
      /\ loads'[l].step = "observe"
      /\ stash' \subseteq Txs
  BY DEF WriteBack, TypeOK, Load
<1>2. TypeOK'
  BY <1>1 DEF WriteBack, TypeOK, world, page
<1>3. \A t \in owed : attempt[t] = 0 => t \in stash'
  BY DEF WriteBack, StashedIsHeld
<1>4. StashedIsHeld'
  BY <1>1, <1>3 DEF WriteBack, StashedIsHeld, Flushing, page
<1> QED
  BY <1>2, <1>4, PolledStays DEF WriteBack, page

\* The backend's list, and the look-ups after it, touch their load only.
LEMMA ObserveInv ==
  ASSUME RecorderInv, NEW l \in LoadIds, Observe(l) \/ ObserveFails(l) \/ ResolveBlockNumbers(l)
  PROVE  RecorderInv'
<1> USE DEF RecorderInv
<1>1. \A t \in Txs, b \in BOOLEAN : BackendBadge(t, b) \in Badge
  BY DEF BackendBadge, Badge
<1>2. /\ loads' \in [LoadIds -> Load]
      /\ \A m \in LoadIds \ {l} : loads'[m] = loads[m]
      /\ loads'[l].step # "flush"
      /\ failures' \in 0..MaxFailures
  <2>1. CASE Observe(l)
    <3>1. PICK seen \in SUBSET Txs, known \in SUBSET Txs, todo \in SUBSET Txs :
            loads' = [loads EXCEPT ![l].step = "resolve", ![l].todo = todo,
                                   ![l].found = {BackendBadge(t, TRUE) : t \in known}]
      <4>1. PICK seen \in SUBSET ({t \in Txs : holder[t] = loads[l].account} \cap committed) :
              \E known \in SUBSET seen : loads' = [loads EXCEPT
                ![l].step = "resolve",
                ![l].todo = ((rows \cap {t \in Txs : holder[t] = loads[l].account}) \cup seen) \ known,
                ![l].found = {BackendBadge(t, TRUE) : t \in known}]
        BY <2>1 DEF Observe
      <4> QED
        BY <4>1
    <3>2. {BackendBadge(t, TRUE) : t \in known} \subseteq Badge
      BY <1>1
    <3>3. loads[l] \in Load /\ loads \in [LoadIds -> Load]
      BY DEF TypeOK
    <3>4. loads'[l] = [loads[l] EXCEPT !.step = "resolve", !.todo = todo,
                                       !.found = {BackendBadge(t, TRUE) : t \in known}]
      BY <3>1, <3>3
    <3>5. loads'[l] \in Load /\ loads'[l].step = "resolve"
      BY <3>2, <3>3, <3>4 DEF Load
    <3> QED
      BY <2>1, <3>1, <3>3, <3>5 DEF Observe, TypeOK
  <2>2. CASE ObserveFails(l)
    BY <2>2, LoadTypes, RecorderAssumption DEF ObserveFails, Fails, TypeOK
  <2>3. CASE ResolveBlockNumbers(l)
    <3>1. PICK known \in SUBSET (loads[l].todo \cap committed) :
            loads' = [loads EXCEPT
              ![l].step = "merge",
              ![l].todo = {},
              ![l].found = @ \cup {BackendBadge(t, t \in known) : t \in loads[l].todo}]
      BY <2>3, Zenon DEF ResolveBlockNumbers
    <3> DEFINE late == {BackendBadge(t, t \in known) : t \in loads[l].todo}
    <3>2. late \subseteq Badge
      <4> SUFFICES ASSUME NEW t \in loads[l].todo PROVE BackendBadge(t, t \in known) \in Badge
        OBVIOUS
      <4>1. t \in Txs
        BY DEF TypeOK, Load
      <4>2. (t \in known) \in BOOLEAN
        OBVIOUS
      <4> QED
        BY <1>1, <4>1, <4>2
    <3>3. loads[l] \in Load /\ loads \in [LoadIds -> Load]
      BY DEF TypeOK
    <3>4. loads' = [loads EXCEPT ![l].step = "merge", ![l].todo = {}, ![l].found = @ \cup late]
      BY <3>1
    <3> HIDE DEF late
    <3>5. loads'[l] = [loads[l] EXCEPT !.step = "merge", !.todo = {}, !.found = @ \cup late]
      BY <3>3, <3>4
    <3>6. loads'[l] \in Load /\ loads'[l].step = "merge"
      BY <3>2, <3>3, <3>5 DEF Load
    <3> QED
      BY <2>3, <3>3, <3>4, <3>6 DEF ResolveBlockNumbers, TypeOK
  <2> QED
    BY <2>1, <2>2, <2>3
<1>3. UNCHANGED <<world, page, rows, stash, started, owed>>
  BY DEF Observe, ObserveFails, ResolveBlockNumbers
<1>4. TypeOK'
  BY <1>2, <1>3 DEF TypeOK, world, page
<1>5. StashedIsHeld'
  BY <1>2, <1>3 DEF StashedIsHeld, Flushing, page
<1> QED
  BY <1>3, <1>4, <1>5, PolledStays DEF page

\* A badge that a merge leaves pending was pending before, or is polled now.
LEMMA MergeInv ==
  ASSUME RecorderInv, NEW l \in LoadIds, Merge(l)
  PROVE  RecorderInv'
<1> USE DEF RecorderInv
<1> DEFINE found == loads[l].found
<1>1. found \subseteq Badge
  BY DEF TypeOK, Load
<1>2. badges' = found \cup LocalOnly(found) /\ badges' \subseteq Badge
  BY <1>1 DEF Merge, LocalOnly, TypeOK
<1>3. /\ polls' \in [Txs -> Nat]
      /\ \A t \in Txs : polls'[t] >= polls[t]
      /\ \A t \in Txs : t \in Unconfirmed(found) => polls'[t] > 0
  BY DEF Merge, TypeOK
<1>4. loads' \in [LoadIds -> Load] /\ \A m \in LoadIds : loads'[m] = loads[m] \/ ~Flushing(m)'
  BY LoadTypes DEF Merge, TypeOK, Flushing
<1>5. TypeOK'
  BY <1>2, <1>3, <1>4 DEF Merge, TypeOK, world
<1>6. PendingIsPolled'
  <2> SUFFICES ASSUME NEW t \in Txs, NEW b \in badges', b.tx = t, ~b.block
               PROVE  polls'[t] > 0 \/ t \in gaveUp'
    BY DEF PendingIsPolled, Pending, Shown
  <2>1. CASE b \in found
    BY <1>3, <2>1 DEF Unconfirmed
  <2>2. CASE b \in LocalOnly(found)
    <3>1. Pending(t)
      BY <2>2 DEF LocalOnly, Pending, Shown
    <3> QED
      BY <1>3, <3>1 DEF PendingIsPolled, Merge, TypeOK
  <2> QED
    BY <1>2, <2>1, <2>2
<1>7. StashedIsHeld'
  BY <1>4 DEF StashedIsHeld, Flushing, Merge
<1> QED
  BY <1>5, <1>6, <1>7

\* A reload ends all flushes; what is still owed is in the stash.
LEMMA ReloadInv == ASSUME RecorderInv, Reload PROVE RecorderInv'
<1> USE DEF RecorderInv
<1>1. loads' \in [LoadIds -> Load] /\ \A l \in LoadIds : ~Flushing(l)'
  BY LoadTypes DEF Reload, TypeOK, Flushing, Loading
<1>2. attempt' \in [Txs -> 0..(Attempts + 1)] /\ polls' \in [Txs -> Nat]
  BY RecorderAssumption DEF Reload
<1>3. TypeOK'
  BY <1>1, <1>2 DEF Reload, TypeOK, world
<1>4. StashedIsHeld'
  BY <1>1 DEF Reload, StashedIsHeld, TypeOK
<1>5. PendingIsPolled'
  BY DEF Reload, PendingIsPolled, Pending, Shown
<1> QED
  BY <1>3, <1>4, <1>5

-----------------------------------------------------------------------------
LEMMA RecorderInductive == RecorderInv /\ [Next]_vars => RecorderInv'
<1> SUFFICES ASSUME RecorderInv, [Next]_vars PROVE RecorderInv'
  OBVIOUS
<1>1. CASE UNCHANGED vars
  BY <1>1, PolledStays, HeldStays DEF vars, RecorderInv, TypeOK
<1>2. CASE \E t \in Txs :
        \/ Commit(t) \/ Send(t) \/ MintBadge(t)
        \/ RecordBadge(t) \/ RecordFails(t) \/ StashPendingRecord(t)
        \/ PollConfirms(t) \/ PollGivesUp(t)
  BY <1>2, ChainInv, MintBadgeInv, RecordInv, PollInv
<1>3. CASE OpenGallery \/ \E a \in Holders : SwitchAccount(a)
  BY <1>3, OpenInv
<1>4. CASE \E l \in LoadIds : LoadStep(l)
  BY <1>4, FlushInv, WriteBackInv, ObserveInv, MergeInv DEF LoadStep
<1>5. CASE Reload
  BY <1>5, ReloadInv
<1> QED
  BY <1>1, <1>2, <1>3, <1>4, <1>5 DEF Next

LEMMA RecorderInvariance == Spec => []RecorderInv
  BY RecorderInitInv, RecorderInductive, PTL DEF Spec

-----------------------------------------------------------------------------
\* Badges, loads, records and polls keep their shape.
THEOREM RecorderTypeCorrect == Spec => []TypeOK
  BY RecorderInvariance, PTL DEF RecorderInv

\* A record whose mint the page knows reaches the backend, is being posted or is
\* stashed, whatever retries, flushes and loads overlap.
THEOREM NoRecordIsLost == Spec => []RecordsAreKept
<1>1. RecorderInv => RecordsAreKept
  BY RecorderAssumption DEF RecorderInv, TypeOK, StashedIsHeld, RecordsAreKept
<1> QED
  BY <1>1, RecorderInvariance, PTL

\* A badge that is shown as pending is polled for, or a poll gave up on it.
THEOREM PendingBadgesArePolled == Spec => []PendingIsPolled
  BY RecorderInvariance, PTL DEF RecorderInv

\* A badge once shown stays until the page is reloaded.
THEOREM BadgesStay == Spec => ShownBadgesStay
<1> DEFINE Stays ==
      \A t \in Txs : Shown(t) # {} /\ Shown(t)' = {} => badges' = {} /\ account' = NoOne
<1>1. ASSUME RecorderInv, [Next]_vars PROVE [Stays]_vars
  <2>1. CASE UNCHANGED badges
    BY <2>1 DEF Shown
  <2>2. ASSUME NEW t \in Txs, MintBadge(t) PROVE Stays
    BY <2>2 DEF MintBadge, Shown
  <2>3. ASSUME NEW t \in Txs, PollConfirms(t) PROVE Stays
    <3>1. \A b \in badges : \E c \in badges' : c.tx = b.tx
      <4> TAKE b \in badges
      <4> DEFINE c == IF b.tx = t THEN [b EXCEPT !.block = TRUE] ELSE b
      <4>1. c \in badges'
        BY <2>3 DEF PollConfirms, WithBlock
      <4>2. c.tx = b.tx
        BY <1>1 DEF RecorderInv, TypeOK, Badge
      <4> QED
        BY <4>1, <4>2
    <3> QED
      BY <3>1 DEF Shown
  <2>4. ASSUME NEW l \in LoadIds, Merge(l) PROVE Stays
    BY <2>4 DEF Merge, LocalOnly, Shown
  <2>5. CASE Reload
    BY <2>5 DEF Reload
  <2> QED
    BY <1>1, <2>1, <2>2, <2>3, <2>4, <2>5
       DEF Next, vars, page, Commit, Send, RecordBadge, RecordFails, StashPendingRecord, PollGivesUp,
           OpenGallery, SwitchAccount, LoadStep, FlushRecord, FlushFails, WriteBack, Observe,
           ObserveFails, ResolveBlockNumbers
<1> QED
  BY <1>1, RecorderInvariance, PTL DEF Spec, ShownBadgesStay
=============================================================================
