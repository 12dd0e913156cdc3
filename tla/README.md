# Formal model of ckb-pop

ckb-pop gives proof of attendance on the Nervos CKB chain: an organiser creates
an event, attendees scan a code that changes every few seconds, and each gets a
badge cell on chain. This directory holds TLA+ modules for the parts of the
program that carry its logic, the TLC configurations that check them on small
instances, and theorems about them that the TLA+ proof system checks for every
value of the constants. Paths below are relative to the repository.

## 1. Inventory

| component | code | state | operations | interacts with |
|---|---|---|---|---|
| badge cache and chain sync | `scripts/src/observe/badges.rs`, `cache/sqlite.rs`, `rpc/ckb.rs`, `main.rs` | `badge_observations`, `active_events` (read) | `/badges/record`, `/badges/build`, confirmation task, sync for an address or an event, rehydration | chain node and indexer (RPC), event activation |
| event activation and windows | `routes.rs`, `observe/events.rs`, `observe/payments.rs` | `payment_intents`, `payment_observations`, `active_events` | intent, create, activate, window | chain node, QR attendance |
| QR attendance | `routes.rs`, `relay/tx.rs`, `crypto/qr.rs` | window of the event, `qr_replay_log` | show a code, check and record a code, clean up | event activation, kiosk and scanner screens |
| type scripts | `contracts/dob-badge`, `contracts/event-anchor` | the cells of the chain | mint, move, burn, anchor | whoever builds a transaction |
| signed claims | `routes.rs`, `relay/tx.rs`, `types/proofs.rs` | none | issue, verify | event activation |
| read-only routes, prefix look-up | `routes.rs`, `observe/`, `cache/sqlite.rs:261` | none | list, look up, payment and transaction status | all tables |
| signatures and addresses | `crypto/signatures.rs` | none | verify, parse | all handlers |
| HTTP layer, state, manifest | `http.rs`, `state.rs`, `module/mod.rs` | none | headers, shared handles, `/module` | all handlers |
| `ckb-presence` package | `packages/ckb-presence/src` | lists of drivers | script args and data, locators, QR policy, claim messages | frontend |
| transaction builder | `frontend/src/services/contract.service.ts` | locals of a build | anchor, mint | wallet, type scripts |
| attendance and record service | `frontend/src/services/poap.service.ts` | badges, events, watched ids, the stash and the watched ids in `localStorage` | mint, record, flush, load, poll, look up, watch, create | backend, builder |
| wallet service, header, wallet modal | `frontend/src/services/wallet.service.ts`, `components/header`, `wallet-modal` | signer, connection under way, modal | connect, send, sign | the user's wallets |
| minting and create screens | `components/minting`, `create-event` | pane, dialog, timer, promise | mint, create an event | wallet, builder, record service |
| kiosk screen | `components/live-qr` | pane, interval, shown code | start, rotate, retry, leave | wallet, `/events/:id/window`, `/events/:id/qr` |
| check-in screen and scanner | `components/check-in`, `qr-scanner` | camera, dialog, spinners | scan, type, validate, confirm | `ckb-presence`, record service, minting screen |
| gallery screen | `components/gallery` | loading, slide-over | load, watch by id, list attendees | record service |
| claim screen | `components/claim`, `services/claim.service.ts` | the claim it shows | verify, take to minting | `/claims/verify`, minting screen |
| routes | `app.routes.ts` | the shown screen | navigation, with an event or a claim along | all screens |
| other services and components, docs site | `frontend/src`, `docs` | single signals | presentation | |

What is hard here:

- **No handler runs in a transaction.** Every SQL statement and RPC call is an
  `.await`; other handlers, the confirmation task and the syncs run in between,
  and the process may stop there.
- **Two sources of truth.** The badge table is a copy of the chain that five
  writers update with `INSERT OR REPLACE`, from reports, guesses and look-ups
  that are several awaits old.
- **Time.** Codes live for 60 s, windows close, the replay log is cleaned, and
  requests stall between checks.
- **A page never waits.** Effects, timers and promises of the frontend overlap
  and outlive the screen that began them; answers come late, out of order or not
  at all; a reload keeps only `localStorage`; the wallet may be another one after
  any await.
- **The chain checks little.** A type script sees its own cells of one
  transaction; what holds over a history of transactions is a consequence, not
  a check.

What makes each part correct:

- badge cache: what was learned from the chain is true, whatever clients report;
  a badge on chain is found and listed; a pending badge gets confirmed; startup
  ends;
- activation: a paid event rests on a committed payment; a settled event keeps
  its window; a payment that was seen is not lost;
- attendance: a code counts only in its window and its life, and only once;
- scripts: a badge is a unique token that names one scope and recipient, an
  anchor is for ever; one badge per scope and address (documented; see section
  5);
- builder and minting: what is built is accepted by the scripts, a badge is paid
  for by the wallet it names, a visit mints once, success is shown for the mint
  of the visit, which was sent and can be mined or has been (that it is on chain
  is what the screen says; see section 5), an event the backend has created is
  listed;
- recorder: no record of a mint is lost, a pending badge is polled for and shown
  as confirmed in the end, a badge once shown stays;
- kiosk: it never freezes without an error, retries do not pile up intervals,
  the code it shows is one that a scanner accepts, or the next answer in time
  makes it one;
- check-in: the event that is put to the user was named by what was scanned or
  typed, a camera makes one look-up, spinners end;
- events: watched ids stay watched, attendees are shown under their own event, a
  watched event is listed (documented; see section 5);
- claims: a claim that reaches the minting screen was signed by the event's
  creator for the address that presented it, and not over; an issued claim can
  be used until it is over.

## 2. Modules

| module | what it is |
|---|---|
| `BadgeCache` | the badge table, its five writers and its readers, one action per await |
| `BadgeCacheProofs` | inductive invariant and theorems |
| `UniqueTokens` | abstract specification: every token is in at most one place, and a burnt one never returns |
| `CkbCells` | cells of the chain under the two type scripts; refines `UniqueTokens` |
| `CkbCellsProofs` | inductive invariant, theorems and the refinement |
| `EventActivation` | the three event tables and the handlers that write them |
| `EventActivationProofs` | inductive invariant and theorems |
| `QrAttendance` | windows, codes, checks of a code and the replay log |
| `QrAttendanceProofs` | inductive invariant and theorems |
| `Wallets` | the accounts of a page |
| `WalletSession` | connecting a wallet, with its modal |
| `ContractService` | builds of badges and anchors, over `CkbCells` and `WalletSession` |
| `MintingPage` | the minting and create screens, composed with wallet, builder and chain |
| `MintingPageProofs` | inductive invariant and theorems of builder and both screens |
| `BadgeRecorder` | what a page knows of badges: mint, record, stash, flush, load, merge, poll |
| `BadgeRecorderProofs` | inductive invariant and theorems |
| `LiveQr` | the kiosk |
| `LiveQrProofs` | inductive invariant and theorems |
| `PresenceModule` | how a scanned or typed text is resolved (operators only) |
| `EventBook` | the events a page knows and watches, and the backend's look-up by id or prefix |
| `EventDetails` | the slide-over of an event with its attendees, over `EventBook` |
| `CheckIn` | one visit of the check-in screen, over `EventBook` and `PresenceModule` |
| `ClaimFlow` | claims from signature to minting screen, over the events of `EventBook` |
| `Screens` | the screens, one at a time |
| `ScreensProofs` | that the screens run recorder, kiosk and book, and the theorems of check-in, events and claims |
| `MC...` | instances for TLC (symmetry sets where there is no liveness, otherwise only model values) |

### BadgeCache

`rows` is `badge_observations` by its primary key (event, holder); a row holds
the transaction hash and the block number, 0 for pending. `jobs[w]` is the chain
sync that a task runs: `Main` rehydrates before the server listens
(`rehydrate_from_chain`), a request syncs for an address or an event and then
reads its rows. `page`, `cursor`, `cell` and `block` are the locals of
`sync_cells_from_search` and `process_badge_cell`; `clean`, `must` and `result`
are history for the properties. `confirm` is the confirmation task with its
snapshot of pending hashes. `txs` is the chain: a transaction makes one badge
cell or moves one; the indexer lists live cells in the order of their hashes.

`Lookup` is `get_transaction`: two RPC calls, so a committed transaction may
come back without its block. `BuildBadge` stores the hash that the code makes up
from event and address (`Placeholder`), which never resolves. `RecordBadge`
takes what a client reports, and the backend checks nothing: any event, any
holder, any hash, at any time and over any row, also one that a sync has just
stored. A row remembers, as history, whether a client or a sync stored it (`by`),
since only of the latter can one say what it means; a row that a client reported
falsely is given the block of whatever transaction its hash names.
`Restart` loses everything in flight, and may lose the badge table.

An address is a string, and several strings encode one lock
(`crypto/signatures.rs:88`): `Canonical` gives for each the form that
`encode_lock_as_address` makes. Cells have owners (`Owners`, one canonical
address per lock). A request searches by the lock (`InSearch`), the sync stores
under the canonical form (`CellKey`), and the rows are read by the string of the
request (`ReadRows`). So a request in another form finds all cells and lists
none of them, and `ResponseComplete` says for every form what is stored and only
for the canonical one what is listed.

Left out: the observation time, `verified_at_block` (written together with the
block number), reorganisations of the chain, searches by lock args that are a
prefix of another owner's args.

### CkbCells and UniqueTokens

`cells` is every cell ever made, by out point, and `spent` the out points used
as input. `Submit` is a block taking one transaction of any shape: the chain
requires live, distinct inputs, and every type script on an input or output to
accept (`ScriptsAccept`). `BadgeAccepts` is `check_truncated_type_id` with
`locate_output_index`, `AnchorAccepts` is `validate` of the event anchor. A type
id is the pair of first input and output position: the hash is taken to be
injective. `UniqueTokens` promises that each step only moves, makes or drops
tokens, that no token is in two places, and that what was born once is never
born again; `BadgesAreUniqueTokens` says that badges by type id are such tokens.

### EventActivation

`intents`, `observed` and `active` are the tables `payment_intents`,
`payment_observations` and `active_events`. A request holds the event, payment,
block and window it carries and the call it makes next; `Fails` is any of these
calls returning an error, `Restart` a crash. Event ids are fresh per submission
(they hash creator, second and nonce). Signatures are taken as checked. The
chain does not take back a committed payment. `LostEvents` are the events whose
payment was observed, that have no row, and that no activation under way will
store: the second write of `/events/activate` did not follow its first. There
may be as many as calls failed and requests were in flight at restarts.

### QrAttendance

One event. `windows` are the windows signed so far, `current` the one the event
holds. A code is the window whose secret made it, and a second. The secret is a
hash of start and signature, and the signature covers start and end, so two
windows have the same secret only when they are the same; `Signatures` are what
a wallet may return for one message. A check of a code goes through `ReadEvent`,
`Validate`, `CheckReplay` and `RecordUsage`, with `Tick`, `CleanUp`,
`SubmitWindow` and other requests between them. `everUsed`, `late` and `at` are
history. The log is keyed by event and second, so one displayed code serves one
attendee. The clock does not go back and does not advance inside the synchronous
block that checks window, secret and age; a request stalls for at most
`MaxStall` afterwards. The last is an assumption on the runtime, and
`RetentionAssumption` (24 h against 60 s and a stall) is what it is compared
with.

### ContractService, WalletSession, MintingPage

A build is one call of `mintBadge` or `createEventAnchor`; its record holds the
locals that survive an await. `CompleteInputs` picks live plain cells of the
signer and computes the type id from the first of them, `CompleteFee` may add an
input at the end and a change output. `SendTransaction` is the node taking the
transaction into its pool, in the place of those that use the same cells
(`Rivals`): that is when the hash comes back. `Mine` is a block taking it (the
chain's `Submit`), `Drop` the pool giving it up. Without deployed contracts
(`deployed`, which the build of the page fixes) both calls wait and return a
random hash (`Simulate`).
A badge keeps the signer that it found at its start; an anchor goes through
`WalletService.sendTransaction`, which reads the signer at that moment
(`SignerOf`). `ConnectWallet` may come at any time after the modal asked for it,
also when the modal was closed. It is one step: the awaits of `connectWallet`
(`connect()`, `getRecommendedAddress()`) come before the signals are set, and
what happens in between shows only the old wallet. A signer is one account here;
in the library `connect()` changes the signer object itself, so a user who
switches accounts inside one wallet changes, before the signals are set, the
object that a running build holds. That case is left out. `MintingPage` adds the minting screen (dialog,
the timer of 800 ms, the promise that shows success) and the create screen
(signature, `POST /events/create`, anchor). The backend's side of a creation is
one step here and all of `EventActivation` there.

Left out: the existence hints, amounts (a build succeeds with any cells),
`disconnect` (no caller), builds on outputs that are still pending, a send whose
answer is lost although the node has the transaction, and transactions of other
pages.

### BadgeRecorder

`badges` is `badgesSignal`, `stash` the list in `localStorage`, `polls[t]` the
number of timers for a mint, `loads[l]` one call of `loadBadgesFromBackend` with
its flush. `rows` is what the backend has taken (the table of `BadgeCache`,
whose syncs may also list a mint that nobody recorded: `Observe` allows both).
`OpenGallery` starts two loads, from the effect and from `ngOnInit`. `owed` is
history: the mints whose record the page has and the backend has not. Two known
windows are taken out of it, a reload during the retries and a stash beside a
flush that is under way; in both the code loses the record.

### LiveQr

`starts[s]` is a call of `startKiosk`, `timers[s]` the interval that it set,
`current` the one that `intervalId` names: nothing clears an older one.
`asked[d]` counts the requests for a code that were made `d` ticks ago, so that
answers overlap and come out of order. No request is bounded, since `fetch` sets
no timeout: one that takes longer than `Patience` is `overdue` and may be
answered at any later time, with a code of any age, or never. `Patience` is what
the policy of the scanners leaves room for beside the life of a code
(`RotationAssumption`: `maxAgeMs` is 60 s, a code is replaced after 30 s), not a
promise of the network. `late` is history: a request went overdue, or an overdue
answer came, since the last answer in time; the shown code may be dead just then.
That the clocks of backend, kiosk and scanners agree is assumed. `LeaveKiosk` clears what is current and stops nothing that is awaited.

### PresenceModule, CheckIn, EventBook, EventDetails

A text is a record of its form (id, dynamic code, claim, submission), the id
that it carries and the age of its timestamp. `ResolveScopeLocator` asks the
drivers in the order of their registration and lets the first that parses
decide. `ObserveEvent` is the look-up of the backend: a full id, or a prefix
that fits one event. `CheckIn` has the camera component by component, since one
that is still being probed outlives its view, and look-ups that overlap.
`EventBook` has the lists and the watched ids, with `saved` for what is in
`localStorage`; `Short` stands for any text that is a prefix of every id.
`EventDetails` has one request for attendees per opening. `carried` and
`answered` are history: the openings that were awaited when the slide-over was
opened last, and the one that answered last since. Nothing ties an answer to its
event, so one that was carried over and comes last is shown under the wrong
event; every other order ends with the event's own list, which `DetailsAreOwn`
says.

### ClaimFlow

Wallets sign any claim; a token is any combination of claim, issuer and an
existing signature, so altered tokens are tried as well. `IssueClaim` and
`Verifies` are the checks of `issue_claim` and `verify_signed_claim_proof`. A
claim on the screen is held with the address and the second of its verification.

### Screens

One screen is shown at a time and each keeps its state to itself; what they
share is the list of events and the event that the router hands on. A behaviour
of `Screens` is one of one screen, chosen at the start, with what the rest of
the page and the backend do meanwhile (`Background`). It lets one run check all
of them, and it states the liveness property for badges and kiosk together.

## 3. Runs

| run | what it asks | bounds |
|---|---|---|
| `badge_cache` | is what was learned from the chain true; does a response list all badges; does the page loop never stand still | 1 event, 2 owners and a second form of one's address, 2 transactions, 2 blocks, 1 request and the main task, pages of one cell, 1 failure, 1 reported row at a time |
| `badge_cache_live` | does a rehydration find all badges; is a committed badge confirmed; does startup end | 2 events, 1 address, 2 transactions, no request, 1 failure, 1 restart, 2 reported rows at a time |
| `ckb_cells` | unique tokens, one script per type id, anchors for ever | 1 scope, 2 addresses, 3 transactions of up to 2 inputs and 2 outputs |
| `event_activation` | are activations justified, do settled events stay, how many paid events get lost | 2 events, 2 payments, 2 requests, 2 blocks, 1 failure, 1 restart |
| `qr_attendance` | no late replay, accepted only in window and life | 2 scans, 1 display, life 2, retention 3, stall 1, seconds 0..5, 2 windows, 2 codes, 1 restart |
| `mint_flow` | are built transactions accepted, paid by whom they name; is success shown for a mint that was sent and can be mined or is the live badge of its id; are created events listed | 2 accounts, 2 plain cells, 1 scope, 2 mints and 1 creation, 3 transactions in blocks, builds leave change |
| `screens` | the properties of badges, kiosk, check-in, events and claims, and that badges and codes catch up | badges: 2 mints, 1 attempt, 2 loads, 2 failures; kiosk: 3 starts, life 3, patience 1, scanners accept up to 4; check-in: 2 events, 2 cameras, 2 texts; events: 2 calls, 2 openings; claims: 1 signature, seconds 0..1 |
| `ckb_one_badge`, `mint_observed`, `event_crash`, `qr_replay`, `watch_short_id` | the five statements of section 5, refuted | the smallest instance that shows each |

Why the bounds are enough to mean something: two transactions give two rows with
one key, a mint and its transfer, or two pages of a search; a reported row may
have any key and hash and be replaced by the next report, so that one at a time
meets every sync, and two meet each other in the confirmation task; one failure falls on
any call, and one restart between any two steps; three transactions are a mint,
a move and a second use of the id, or a burn and a mint. Two scans are the least
that replay a code. Two loads overlap in every way (a flush beside a flush, a
merge beside a merge), and one attempt is enough for a record to reach the stash,
since the attempts before the last only repeat; the theorems cover more of both.
Two plain cells and three builds make every conflict in the pool: two builds of
one first input, a build that replaces two, and one that comes after a block.
Three kiosk starts are a rotation, a retry that overlaps it and one more after an
error. Two events have one prefix that is ambiguous. A claim needs one signature,
because a second one is another token for the same checks; times 0 and 1 have a
moment before, at and after an expiry of 0. The theorems carry over to all sizes what they state.

Deadlock is checked except in `ckb_cells`, where the history of transactions is
bounded and the chain may have nothing left to spend, and in `screens`, where a
screen that was left does nothing more. A clock at `MaxTime` is
not a stop: the health route can always be called.

Fairness. `badge_cache_live` uses weak fairness of the rehydration's steps
(startup awaits it) and of the confirmation task (an interval in a spawned
task). It assumes that every call to the node returns, with an answer or an
error: the HTTP client sets no timeout, so a node that accepts a connection and
never answers would hold up startup and the task. Clients, the chain and failures get none. A pending row is confirmed
because failures are bounded: each cycle that follows the last failure resolves
every hash that is committed. The property allows a row that is replaced or lost
to stay behind.

In `screens`, a poll for a committed badge is fair (its timer is set again until
it has an answer), as is the tick of the kiosk's intervals. Of requests that are
made again and again some are settled in time (strong fairness of
`SettlesInTime`); nothing is assumed of one request, nor that an overdue one is
ever answered. Users, wallets and the backend get none: no badge
need be loaded, no retry clicked. `ScreensCatchUp` leaves out badges whose poll
gave up, which only a later load takes up again.

Each property of a passing run has a mutant: a definition that stands in for one
of the model's as a likely bug would, such as a swapped key, a forgotten cursor
or a clean-up that drops entries too early, and TLC refutes the property with it
in place.

## 4. Proofs

All theorems hold for every value of the constants under the named assumptions
of the modules.

- `BadgeCacheProofs`: `TypeCorrect`, `RowsTruthful`, `InFlightTruthful`,
  `ResponsesAreComplete`, `RehydrationsAreComplete`, `LoopsAdvance`. The second and third need
  each other: a row that a sync stored is right because the value stored was, a
  block number because it was looked up for the row's own hash, whoever reported
  that, and the value in flight stays right because a committed transaction keeps
  its block and its owner. Addresses need only `CanonicalAssumption`: the form
  that the backend makes of an address is its own form. The two on completeness rest on `SyncsAreComplete`: as long as no call of a sync
  failed, a badge that it must find and that is still live has a row, or lies in
  the page at hand, or after the cursor (`Accounted`). Pages keep that because a
  page is the first of what comes after the cursor and the cursor moves to its
  last cell; the chain keeps it because a spent cell is never live again
  (`LiveShrinks`), so that nothing sought can appear before the cursor.
  `LoopsAdvance` proves `SyncsAdvance`, the safety part of `StartupServes`: every
  step inside the page loop takes a page behind the cursor and moves the cursor
  past it, or leaves the cursor and goes on in its page. A task fetches only when
  its page is used up and stores only a cell of its page (`PageIsKept`). What is
  left to liveness is that the chain lists finitely many cells and that steps
  are taken.
- `CkbCellsProofs`: `TypeCorrect`, `TypeIdsNameOneBadge`, `AnchorsAreForEver`,
  `ImplementsUniqueTokens`. The argument: a type id contains an out point that
  its mint spends, so a second mint of the id would spend it again. The
  invariant therefore adds that the out point of every id in use is spent, and
  that at most one live cell holds the id. For a transaction with the badge as
  input, the script's own count gives at most one successor. The refinement
  follows by showing that each step keeps tokens apart and gives birth only to
  ids never used (`TokensInit`, `TokensStep`, which `MintingPageProofs` uses
  again). The chain may start with plain cells of any owner and content.
- `EventActivationProofs`: `TypeCorrect`, `ActivationIsJustified`,
  `SettledEventsAreStable`, `StrandedForEver`, `LossesAreBounded`. The tables are
  not enough: the invariant says for
  each request what it carries from one call to the next (the intent it read,
  the block of a committed payment, the observation it wrote), and that a paid
  event has a block, so that committing its payment again is impossible.
  `SettledEventsAreStable` covers the events without a row too: once the payment
  was observed and no activation is past its check, the observation stays and
  the row is neither made nor changed, except by the creator's windows.
  `StrandedForEver` follows: an event cut off between the two writes never gets
  a row. `LossesAreBounded` says how many there can be; its invariant (`LossInv`)
  is that the lost events are finitely many and counted: a failure loses at most
  the event of its request, a restart at most one for each slot, and
  no other step loses any. It needs finitely many slots (`RequestsAssumption`).
- `QrAttendanceProofs`: `TypeCorrect`, `ReplayIsRefused`, `AttendanceInWindow`.
  The heart: an entry that left the log is older than the retention
  (`ForgottenIsOld`), a request that queries the log is within its stall, and
  its code was within its life when it was checked; with
  `Retention >= TTL * 2 + MaxStall` the two cannot meet.

- `LiveQrProofs`: `KioskTypeCorrect`, `KioskNeverFreezes`,
  `RotationsDoNotPileUp`, `CodesAreAccepted`. The first two are inductive
  together. For the third the invariant says that starts that overlap know of it
  (`OverlapsAreDisturbed`) and that a start can be under way beside a current
  interval only if the start of that interval was run into
  (`CurrentIsDisturbed`), which rests on nothing being started while the event
  is looked up or the wallet is missing (`NothingStarted`). The fourth needs
  `RotationAssumption` (a life and `Patience` fit into the scanners'
  `maxAgeMs`; it defines what is overdue and bounds no request): unless `late`
  holds, a code stays fresh (`CodeIsFresh`) because either a request for its
  successor is under way and not overdue, or the current interval is due before
  the code is over (`RenewalComes`), whatever rate the last answer has set; a
  request that goes overdue makes the code `late`, and the next answer in time
  ends that, whatever came before. What `ResolveScopeLocator` makes of a dynamic
  code (`Resolution`) is a lemma of its own, which rests on the order in which
  the drivers were registered.
- `BadgeRecorderProofs`: `RecorderTypeCorrect`, `NoRecordIsLost`,
  `PendingBadgesArePolled`, `BadgesStay`. The record's invariant is stronger
  than the property (`StashedIsHeld`): a record that nobody is posting is in the
  stash *and* in the hands of every flush under way, because any of them will
  overwrite the stash with what it holds.
- `MintingPageProofs`: `TypeCorrect`, `BuildsAreAccepted`, `RecipientsSign`,
  `VisitsMintOnce`, `SuccessWasSent`, `CreatedAreListed`, `PageRunsTheChain`,
  `ChainKeepsItsPromises`, `PageMintsUniqueTokens`, `SentBadgesDiffer`, from
  `FundsAssumption` and the assumptions of `CkbCells`. What a build found out
  before an await must hold after it: its inputs are plain cells (`Fits`),
  which other transactions may spend but not change, so either one of them is
  spent and the chain refuses, or the type id computed from the first of them is
  still the one that the script computes, since completing for the fee only
  appends. What is pending could be mined now: its inputs are live and no two
  pending transactions share one (`PoolInv`), because a send replaces its rivals
  and a block that spends the inputs of one does not touch those of another. What
  a block has taken stays: a page spends plain cells only, so its badges are
  never spent, and the first inputs of its mined badges are spent and differ
  (`OnChainInv`). From the two follow `SuccessWasSent` and `SentBadgesDiffer`,
  which is about badges that are pending or mined: one that was dropped frees its
  first input, and the next build may carry the same id. `VisitFits` is
  that a visit keeps the build it began, `AnchorsWait` that the anchor of an event
  is built once its creation is answered. `PageRunsTheChain` is the composition: every step
  of the page is a step of `CkbCells` or leaves the chain alone, since what a
  block takes from the pool is a transaction that `Submit` allows. The lemmas of
  `CkbCellsProofs` are therefore instantiated (`CP`) and carry over:
  `ChainKeepsItsPromises` for `TypeIdNamesOneBadge` and `AnchorsStay`,
  `PageMintsUniqueTokens` for the refinement. Here the chain has the transactions
  of this page only; what others may do to a badge (move or burn it) is in
  `CkbCells`. `CreationFits` says for each creation what its form, its answer and
  its list may be.
- `ScreensProofs`: `ScreensRunComponents` first: every behaviour of `Screens` is
  one of `BadgeRecorder`, one of `LiveQr` and one of the book of events.
  `ScreensKeepPromises` draws the conclusion: what `BadgeRecorderProofs` and
  `LiveQrProofs` prove of their modules holds of the screens. Then `ScreensTypeCorrect`,
  `ShownEventsAreVouched`, `ScannersLookUpOnce`, `SpinnersDoEnd`,
  `SavedWatchesStay`, `AttendeesAreOwn`, `ShownClaimsAreVouched` and
  `IssuedClaimsVerify`, from `ScreensAssumption` (there is an account). For
  check-in: whatever event is shown or handed on was the answer to a look-up of
  this visit (`ShownWasLookedUp`), every answer is vouched for by its own text
  (`LookupsVouch`), whichever look-up was overtaken, and a camera that made a
  look-up is off for good (`ScannedIsOff`). For events: what a list will bring is
  already stored (`FoundAreStored`), stored events stay, so no list takes an id
  away; attendees under way are of the opening that is shown or were carried over by it
  (`AwaitedAreOwn`), so that an answer that was not carried over is the event's
  own. For claims: an issued token carries the creator's
  signature (`IssuedAreSigned`), and nobody presents a signature that was not
  made (`PresentedIsSigned`).

Every invariant and action property of the passing runs is stated by a theorem.
Only model-checked: the liveness properties, which are out of the prover's reach
(`PendingIsConfirmed` and `StartupServes` of the badge cache, of which
`SyncsAdvance` is the safety part and proved, and `ScreensCatchUp` of the screens). The statements of section 5 are false. What a recursive definition
computes is out of reach too; no module here has one.

## 5. What the code does not do

Five statements of the documents or of the code's own comments are refuted by
what the code does; each has a run and an entry under `findings`.

- *One badge per scope and address* (`SECURITY.md:54`): the script makes the type
  id unique, not the pair. Two mint transactions with different first inputs give
  two badges (`ckb_one_badge`, whose transactions have one input and one output).
- *Observed on-chain* (the success pane, `minting.component.ts:159`): it is shown
  a second after the node took the transaction into its pool; no block has it
  yet, and the pool may drop or replace it (`mint_observed`).
- *Already activated via a prior payment observation* (`routes.rs:263`): the
  observation is written first, and a crash before the event is stored leaves the
  event inactive, with `NotFound` for every later activation (`event_crash`).
  It stays so for ever (theorem `StrandedForEver`), and there are no more such
  events than failures and interrupted requests (`LossesAreCounted`).
- *Codes prevent replay* (`frontend/README.md:20`): check and insert are two
  statements, and two requests pass between them (`qr_replay`).
- *It saves the ID to localStorage so it persists across sessions, and adds it to
  myCreatedEvents immediately* (`poap.service.ts:536`): what was typed is
  watched. A short id finds its event and is no event's id, so that another
  wallet's event is neither listed nor found after a reload (`watch_short_id`).

Noticed without a run: *Metadata is immutable after mint*
(`contracts/dob-badge/README.md:58`, `SECURITY.md:56`), although the script looks
at no data when a badge moves (`dob-badge/src/main.rs:96`); the list of badges is
read by the string of the request and stored under one encoding of the lock
(`cache/sqlite.rs:410`, `observe/badges.rs:395`), so that a short or a bech32
address lists nothing that a sync found; `/badges/record` stores what it is sent
(`routes.rs:503`), and the confirmation task then gives it the block of the
transaction it names; *one scope anchor per (scope, creator)*
(`SECURITY.md:55`) is checked within one transaction only, so that a second
transaction adds a second anchor; `ARCHITECTURE.md:162` calls badges
non-transferable while the script accepts transfers; the
former owner's row stays in the badge table after a transfer; an intent's expiry
is never checked, and one payment may activate several events; of two
activations of one event with different payments, the observation may keep one
and the event the other.

In the frontend: `mintBadge` returns the promise of its send without awaiting
it, so a rejection is not mapped although `poap.service.ts:277` means to
"Surface chain rejection to user"; the minting screen has no handler for it and
stays on *broadcasting*. `createEventAnchor`'s comment (`contract.service.ts:265`)
says that the chain rejects a second anchor, and it does not. The kiosk's comment
"Signed once per kiosk session" (`live-qr.component.ts:130`) stands over a field
that is never read: each start asks again. An interval that is set after the
kiosk was left is never cleared, and a request that fails during a retry leaves
an interval under the error pane. Nothing calls `disconnect`. The drivers for
claims and submissions are never reached through a scope locator, since
`plain-event-id` accepts any text without a delimiter before them. What check-in
sends on is the event, not the scanned code, so the code's signature is never
shown to the backend. Lists and counts of attendees are not tied to the event
that asked for them, so that the attendees of one event stand under another when
they come last. Without deployed contracts a random hash is shown as observed on
chain too. After a switch of wallets the badges of both are shown.

## 6. Not modelled, and the plan

Not modelled because there is nothing for a model checker in it: cryptography,
address parsing, HTTP headers, the static manifest, presentation (landing page,
integration guide, header menu, styles, toasts, boundaries), the services that
hold one signal, the docs site. Not modelled although it could be: payment and
transaction status, which pass on what the node says; submission proofs, which
have no caller; the cases that section 2 lists as left out.

Planned, in this order:

1. `BadgeView`: an abstract badge list that `BadgeCache` implements, and
   `BadgeRecorder` composed with it instead of `rows`.
2. `CheckIn` and `ClaimFlow` handing their event to `MintingPage` in one module,
   to state which proof a minted badge names.
