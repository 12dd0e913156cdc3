--------------------------- MODULE BadgeRecorder ---------------------------
(***************************************************************************)
(* What a page of the frontend knows of minted badges, and how it tells    *)
(* the backend of them (frontend/src/services/poap.service.ts, the gallery *)
(* component).  A mint is recorded with retries and stashed in             *)
(* localStorage when they fail; opening the gallery flushes the stash,     *)
(* loads the backend's list and merges it with the page's own; badges that *)
(* have no block yet are polled for.  Every await lets other handlers run, *)
(* and a reload of the page drops all but localStorage.  The wallet, the   *)
(* chain and the backend are external.                                     *)
(***************************************************************************)
EXTENDS Naturals, Wallets

CONSTANTS
  Txs,          \* hashes of mint transactions
  Holders,      \* the accounts that this page's user has
  Attempts,     \* how often a record is posted before it is stashed
  MaxLoads,     \* bound: loads of the gallery
  MaxFailures   \* bound: requests that fail

ASSUME RecorderAssumption ==
  /\ Holders \subseteq Accounts
  /\ Attempts \in Nat \ {0}
  /\ MaxLoads \in Nat
  /\ MaxFailures \in Nat

VARIABLES
  holder,     \* the account that sent each mint, or NoOne
  committed,  \* the mints that are in a block
  rows,       \* the mints whose record the backend has taken
  stash,      \* localStorage: the mints whose record waits for a flush
  account,    \* the connected wallet
  sending,    \* the mints whose hash has not come back to the page
  attempt,    \* the post that records each mint, 0 when there is none
  badges,     \* badgesSignal: what the page shows
  polls,      \* how many timers poll for each mint
  loads,      \* the calls of loadBadges
  started,    \* how many of them have started
  owed,       \* history: the mints whose record the page has and the backend not,
              \* but those that a reload or an overlapping flush exposed to loss
  gaveUp,     \* history: the mints a poll of this page gave up on
  failures    \* how many requests have failed

world == <<holder, committed>>
page == <<account, sending, attempt, badges, polls, gaveUp>>
vars == <<holder, committed, rows, stash, account, sending, attempt, badges, polls,
          loads, started, owed, gaveUp, failures>>

LoadIds == 1..MaxLoads
\* An artifact of the backend's list, with its block or without one.
BackendBadge(t, block) == [tx |-> t, origin |-> "backend", block |-> block]

Badge == [tx : Txs, origin : {"mint", "backend"}, block : BOOLEAN]
Load == [step : {"unused", "flush", "observe", "resolve", "merge", "done"},
         account : Holders \cup {NoOne},
         todo : SUBSET Txs, remaining : SUBSET Txs, found : SUBSET Badge]
NewLoad == [step |-> "unused", account |-> NoOne,
            todo |-> {}, remaining |-> {}, found |-> {}]
Ended == [NewLoad EXCEPT !.step = "done"]

IsConnected == account # NoOne
Shown(t) == {b \in badges : b.tx = t}
Pending(t) == \E b \in Shown(t) : ~b.block
Flushing(l) == loads[l].step = "flush"
Loading(l) == loads[l].step \notin {"unused", "done"}

Init ==
  /\ holder = [t \in Txs |-> NoOne]
  /\ committed = {}
  /\ rows = {}
  /\ stash = {}
  /\ account = NoOne
  /\ sending = {}
  /\ attempt = [t \in Txs |-> 0]
  /\ badges = {}
  /\ polls = [t \in Txs |-> 0]
  /\ loads = [l \in LoadIds |-> NewLoad]
  /\ started = 0
  /\ owed = {}
  /\ gaveUp = {}
  /\ failures = 0

Fails == failures < MaxFailures /\ failures' = failures + 1

-----------------------------------------------------------------------------
(***************************************************************************)
(* The chain.                                                              *)
(***************************************************************************)
Commit(t) ==
  /\ holder[t] # NoOne
  /\ t \notin committed
  /\ committed' = committed \cup {t}
  /\ UNCHANGED <<page, holder, rows, stash, loads, started, owed, failures>>

-----------------------------------------------------------------------------
(***************************************************************************)
(* Mint, record, stash.                                                    *)
(***************************************************************************)
Send(t) ==
  /\ IsConnected
  /\ holder[t] = NoOne
  /\ holder' = [holder EXCEPT ![t] = account]
  /\ sending' = sending \cup {t}
  /\ UNCHANGED <<committed, rows, stash, account, attempt, badges, polls, loads, started,
                 owed, gaveUp, failures>>

\* The hash is back: the record is posted and not awaited, the badge is shown
\* and polled for.
MintBadge(t) ==
  /\ t \in sending
  /\ sending' = sending \ {t}
  /\ attempt' = [attempt EXCEPT ![t] = 1]
  /\ owed' = owed \cup {t}
  /\ badges' = badges \cup {[tx |-> t, origin |-> "mint", block |-> FALSE]}
  /\ polls' = [polls EXCEPT ![t] = @ + 1]
  /\ UNCHANGED <<world, rows, stash, account, loads, started,
                 gaveUp, failures>>

\* POST /badges/record arrived.
Post(t) == rows' = rows \cup {t} /\ owed' = owed \ {t}

Posting(t) == attempt[t] \in 1..Attempts

RecordBadge(t) ==
  /\ Posting(t)
  /\ Post(t)
  /\ attempt' = [attempt EXCEPT ![t] = 0]
  /\ UNCHANGED <<world, stash, account, sending, badges, polls, loads, started,
                 gaveUp, failures>>

\* No answer, or one that is not ok: the backend may have stored it all the
\* same.  The next attempt waits, and so does the stash after the last.
RecordFails(t) ==
  /\ Posting(t)
  /\ Fails
  /\ Post(t) \/ UNCHANGED <<rows, owed>>
  /\ attempt' = [attempt EXCEPT ![t] = @ + 1]
  /\ UNCHANGED <<world, stash, account, sending, badges, polls, loads, started,
                 gaveUp>>

\* Mutant: the last failure returns without the stash.
ForgetRecord(t) ==
  /\ attempt[t] = Attempts + 1
  /\ attempt' = [attempt EXCEPT ![t] = 0]
  /\ owed' = IF \E l \in LoadIds : Flushing(l) THEN owed \ {t} ELSE owed
  /\ UNCHANGED <<world, rows, stash, account, sending, badges, polls, loads, started,
                 gaveUp, failures>>

StashPendingRecord(t) ==
  /\ attempt[t] = Attempts + 1
  /\ attempt' = [attempt EXCEPT ![t] = 0]
  /\ stash' = stash \cup {t}
  /\ owed' = IF \E l \in LoadIds : Flushing(l) THEN owed \ {t} ELSE owed
  /\ UNCHANGED <<world, rows, account, sending, badges, polls, loads, started,
                 gaveUp, failures>>

-----------------------------------------------------------------------------
(***************************************************************************)
(* Polling for the block of a mint: every answer that is not ok ends it.   *)
(***************************************************************************)
\* Mutant: only a badge that this page minted gets its block.
WithBlockOfMint(shown, t) ==
  {IF b.tx = t /\ b.origin = "mint" THEN [b EXCEPT !.block = TRUE] ELSE b : b \in shown}

WithBlock(shown, t) ==
  {IF b.tx = t THEN [b EXCEPT !.block = TRUE] ELSE b : b \in shown}

\* While the answer is "not yet", or there is none, the timer is set again and
\* nothing changes.
PollConfirms(t) ==
  /\ polls[t] > 0
  /\ t \in committed
  /\ badges' = WithBlock(badges, t)
  /\ polls' = [polls EXCEPT ![t] = @ - 1]
  /\ UNCHANGED <<world, rows, stash, account, sending, attempt, loads, started,
                 owed, gaveUp, failures>>

PollGivesUp(t) ==
  /\ polls[t] > 0
  /\ Fails
  /\ polls' = [polls EXCEPT ![t] = @ - 1]
  /\ gaveUp' = gaveUp \cup {t}
  /\ UNCHANGED <<world, rows, stash, account, sending, attempt, badges, loads, started,
                 owed>>

-----------------------------------------------------------------------------
(***************************************************************************)
(* Loading the gallery.                                                    *)
(***************************************************************************)
\* The part of loadBadges up to its first await: it reads address and stash.
Started(a) ==
  [NewLoad EXCEPT !.step = IF stash = {} THEN "observe" ELSE "flush",
                  !.account = a, !.todo = stash]

StartLoads(k, a) ==
  /\ started + k <= MaxLoads
  /\ started' = started + k
  /\ loads' = [l \in LoadIds |-> IF l \in (started + 1)..(started + k) THEN Started(a) ELSE loads[l]]

\* ngOnInit and the constructor's effect both load, one after the other.
OpenGallery ==
  /\ IsConnected
  /\ StartLoads(2, account)
  /\ UNCHANGED <<world, page, rows, stash, owed, failures>>

\* The user connects a wallet, or another one (nothing on the page disconnects);
\* the effect of a gallery that is open loads again.
SwitchAccount(a) ==
  /\ a # account
  /\ account' = a
  /\ StartLoads(1, a) \/ UNCHANGED <<started, loads>>
  /\ UNCHANGED <<world, rows, stash, sending, attempt, badges, polls,
                 owed, gaveUp, failures>>

FlushRecord(l, t) ==
  /\ Flushing(l)
  /\ t \in loads[l].todo
  /\ Post(t)
  /\ loads' = [loads EXCEPT ![l].todo = @ \ {t}]
  /\ UNCHANGED <<world, page, stash, started, failures>>

FlushFails(l, t) ==
  /\ Flushing(l)
  /\ t \in loads[l].todo
  /\ Fails
  /\ Post(t) \/ UNCHANGED <<rows, owed>>
  /\ loads' = [loads EXCEPT ![l].todo = @ \ {t}, ![l].remaining = @ \cup {t}]
  /\ UNCHANGED <<world, page, stash, started>>

\* What could not be posted is written back, over whatever the stash holds now.
WriteBack(l) ==
  /\ Flushing(l)
  /\ loads[l].todo = {}
  /\ stash' = loads[l].remaining
  /\ loads' = [loads EXCEPT ![l].step = "observe", ![l].remaining = {}]
  /\ UNCHANGED <<world, page, rows, started, owed, failures>>

\* The backend lists the account's records, and mints that it found on chain
\* itself (module BadgeCache); it may know the block of what is committed.  The
\* others are looked up one by one.
Observe(l) ==
  LET own == {t \in Txs : holder[t] = loads[l].account} IN
  /\ loads[l].step = "observe"
  /\ \E seen \in SUBSET (own \cap committed) : \E known \in SUBSET seen :
       loads' = [loads EXCEPT
         ![l].step = "resolve",
         ![l].todo = ((rows \cap own) \cup seen) \ known,
         ![l].found = {BackendBadge(t, TRUE) : t \in known}]
  /\ UNCHANGED <<world, page, rows, stash, started, owed, failures>>

ObserveFails(l) ==
  /\ loads[l].step = "observe"
  /\ Fails
  /\ loads' = [loads EXCEPT ![l] = Ended]
  /\ UNCHANGED <<world, page, rows, stash, started, owed>>

\* The look-ups of the pending ones, taken at one moment: one that finds no
\* block, or fails, leaves its badge pending.
ResolveBlockNumbers(l) ==
  /\ loads[l].step = "resolve"
  /\ \E known \in SUBSET (loads[l].todo \cap committed) :
       loads' = [loads EXCEPT
         ![l].step = "merge",
         ![l].todo = {},
         ![l].found = @ \cup {BackendBadge(t, t \in known) : t \in loads[l].todo}]
  /\ UNCHANGED <<world, page, rows, stash, started, owed, failures>>

LocalOnly(found) == {b \in badges : \A f \in found : f.tx # b.tx}
Unconfirmed(found) == {f.tx : f \in {b \in found : ~b.block}}

\* Mutant: only badges that are new to the page are polled for.
MergeNew(l) ==
  /\ loads[l].step = "merge"
  /\ badges' = loads[l].found \cup LocalOnly(loads[l].found)
  /\ polls' = [t \in Txs |-> IF t \in Unconfirmed(loads[l].found) /\ Shown(t) = {}
                               THEN polls[t] + 1 ELSE polls[t]]
  /\ loads' = [loads EXCEPT ![l] = Ended]
  /\ UNCHANGED <<world, rows, stash, account, sending, attempt, started,
                 owed, gaveUp, failures>>

\* Mutant: the backend's list replaces the page's.
MergeBackendOnly(l) ==
  /\ loads[l].step = "merge"
  /\ badges' = loads[l].found
  /\ polls' = [t \in Txs |-> IF t \in Unconfirmed(loads[l].found) THEN polls[t] + 1 ELSE polls[t]]
  /\ loads' = [loads EXCEPT ![l] = Ended]
  /\ UNCHANGED <<world, rows, stash, account, sending, attempt, started,
                 owed, gaveUp, failures>>

\* The backend's badges, and those of the page's own that it does not list.
Merge(l) ==
  /\ loads[l].step = "merge"
  /\ badges' = loads[l].found \cup LocalOnly(loads[l].found)
  /\ polls' = [t \in Txs |-> IF t \in Unconfirmed(loads[l].found) THEN polls[t] + 1 ELSE polls[t]]
  /\ loads' = [loads EXCEPT ![l] = Ended]
  /\ UNCHANGED <<world, rows, stash, account, sending, attempt, started,
                 owed, gaveUp, failures>>

\* A reload keeps localStorage.  A record that is being posted may arrive, and
\* is not tried again.
Reload ==
  /\ \E arrived \in SUBSET {t \in Txs : Posting(t)} : rows' = rows \cup arrived
  /\ owed' = {t \in owed : attempt[t] = 0}
  /\ account' = NoOne
  /\ sending' = {}
  /\ attempt' = [t \in Txs |-> 0]
  /\ badges' = {}
  /\ polls' = [t \in Txs |-> 0]
  /\ loads' = [l \in LoadIds |-> IF Loading(l) THEN Ended ELSE loads[l]]
  /\ gaveUp' = {}
  /\ UNCHANGED <<world, stash, started, failures>>

-----------------------------------------------------------------------------
LoadStep(l) ==
  \/ \E t \in Txs : FlushRecord(l, t) \/ FlushFails(l, t)
  \/ WriteBack(l) \/ Observe(l) \/ ObserveFails(l)
  \/ ResolveBlockNumbers(l) \/ Merge(l)

Next ==
  \/ \E t \in Txs :
       \/ Commit(t)
       \/ Send(t) \/ MintBadge(t)
       \/ RecordBadge(t) \/ RecordFails(t) \/ StashPendingRecord(t)
       \/ PollConfirms(t) \/ PollGivesUp(t)
  \/ OpenGallery
  \/ \E a \in Holders : SwitchAccount(a)
  \/ \E l \in LoadIds : LoadStep(l)
  \/ Reload

Spec == Init /\ [][Next]_vars

-----------------------------------------------------------------------------
TypeOK ==
  /\ holder \in [Txs -> Holders \cup {NoOne}]
  /\ committed \subseteq {t \in Txs : holder[t] # NoOne}
  /\ rows \subseteq Txs
  /\ stash \subseteq Txs
  /\ account \in Holders \cup {NoOne}
  /\ sending \subseteq Txs
  /\ attempt \in [Txs -> 0..(Attempts + 1)]
  /\ badges \subseteq Badge
  /\ polls \in [Txs -> Nat]
  /\ loads \in [LoadIds -> Load]
  /\ started \in 0..MaxLoads
  /\ owed \subseteq Txs
  /\ gaveUp \subseteq Txs
  /\ failures \in 0..MaxFailures

\* The record of a mint whose hash the page has reached the backend, is being
\* posted or is stashed, whatever retries, flushes and loads overlap.  Two
\* windows lose it, and these are taken out of owed: a reload during the retries,
\* and a stash while a flush is under way (recordBadgeWithRetry,
\* flushPendingRecords).
RecordsAreKept == \A t \in owed : t \in stash \/ attempt[t] > 0

\* A badge that is shown without a block has a timer that polls for it, or a
\* poll that gave up on an answer that was not ok: a merge that brings back a
\* pending badge over one that was confirmed polls again.
PendingIsPolled ==
  \A t \in Txs : Pending(t) => polls[t] > 0 \/ t \in gaveUp

\* A badge once shown stays until the page is reloaded: a list that was
\* requested before a mint does not remove it (loadBadgesFromBackend's merge).
ShownBadgesStay ==
  [][\A t \in Txs : Shown(t) # {} /\ Shown(t)' = {} => badges' = {} /\ account' = NoOne]_vars

\* A committed badge is shown as pending, and no poll gave up on it.
Behind == \E t \in committed : Pending(t) /\ t \notin gaveUp
=============================================================================
