----------------------------- MODULE BadgeCache -----------------------------
(***************************************************************************)
(* The backend's table badge_observations and everything that writes it:   *)
(* POST /badges/record and /badges/build, the confirmation task that runs  *)
(* every 15 s, the chain syncs that GET /badges and the badge-holders      *)
(* route make before they answer, and the rehydration at startup.  Each    *)
(* SQL statement and each RPC call is atomic; every .await between two of  *)
(* them is a point where the other tasks run, so it is a step of its own.  *)
(* The CKB chain, its mempool and its indexer are external: the part of    *)
(* them the backend reads through rpc/ckb.rs.                              *)
(***************************************************************************)
EXTENDS Naturals, FiniteSets

CONSTANTS
  Events,       \* event ids
  Addresses,    \* CKB addresses, as strings: several may encode one lock
  Canonical,    \* per address: the one form in which the backend encodes its lock
  Txs,          \* hashes of chain transactions, ordered as the indexer lists them
  Placeholder,  \* the hash /badges/build makes up: sha256("event:address")
  Requests,     \* slots for concurrent read requests that sync from the chain
  Main,         \* the main task, which rehydrates before the server listens
  Blocks,       \* bound: the block numbers of the chain
  PageSize,     \* the indexer page (100 in the code)
  MaxFailures,  \* bound: RPC calls, cache reads and cache writes that fail
  MaxRestarts,  \* bound: process restarts
  MaxReported   \* bound: rows that clients have stored, at any one time

ASSUME TxsAssumption == Txs \subseteq Nat \ {0}
ASSUME CanonicalAssumption ==
  /\ Canonical \in [Addresses -> Addresses]
  /\ \A a \in Addresses : Canonical[Canonical[a]] = Canonical[a]
ASSUME BlocksAssumption == Blocks \subseteq Nat \ {0}
ASSUME PlaceholderAssumption == Placeholder \notin Nat
ASSUME TasksAssumption == Main \notin Requests
ASSUME PageAssumption == PageSize \in Nat \ {0}
ASSUME BoundsAssumption ==
  MaxFailures \in Nat /\ MaxRestarts \in Nat /\ MaxReported \in Nat

VARIABLES
  txs,           \* badge transactions sent to the chain, by hash; block 0 = not committed
  activeEvents,  \* the ids in active_events
  rows,          \* badge_observations: primary key (event_id, holder_address)
  jobs,          \* per task: the chain sync it is running
  confirm,       \* the confirmation task
  failures,      \* how many calls failed so far
  restarts       \* how many times the process restarted

vars == <<txs, activeEvents, rows, jobs, confirm, failures, restarts>>

Tasks == Requests \cup {Main}
Keys == Events \X Addresses
Hashes == Txs \cup {Placeholder}

\* The addresses that name the owners of cells, one for each lock.
Owners == {a \in Addresses : Canonical[a] = a}

Row == [tx    : Hashes,
        block : Nat,
        by    : {"client", "chain"}]    \* history: who stored the row
Tx == [event : Events, holder : Addresses, from : Txs \cup {0}, block : Nat]
Job == [kind   : {"startup", "address", "event"},
        target : Addresses \cup Events \cup {Main},
        step   : {"start", "fetch", "cells", "store", "read", "done"},
        events : SUBSET Events,         \* the event hash map
        cursor : Nat,                   \* after_cursor; 0 = None
        page   : SUBSET Txs,            \* cells of the page still to process
        cell   : Txs \cup {0},          \* cell whose transaction was just looked up
        block  : Nat,                   \* the block that look-up gave
        clean  : BOOLEAN,               \* history: no call of this sync failed
        must   : SUBSET Txs,            \* history: matching cells live at the start
        result : SUBSET Keys]           \* rows the response lists
Confirm == [step  : {"idle", "lookup", "update"},
            todo  : SUBSET Hashes,      \* pending hashes of the snapshot still to check
            cur   : Hashes,
            block : Nat]

(***************************************************************************)
(* The chain: a transaction creates one badge cell (mint), or moves one to *)
(* another lock (transfer); the indexer lists the cells that are live.     *)
(***************************************************************************)
Committed == {t \in DOMAIN txs : txs[t].block > 0}
Live == {t \in Committed : \A u \in Committed : txs[u].from # t}
KeyOf(t) == <<txs[t].event, txs[t].holder>>

AddTx(t, e, a, s) ==
  txs' = [u \in DOMAIN txs \cup {t} |->
            IF u = t THEN [event |-> e, holder |-> a, from |-> s, block |-> 0]
                     ELSE txs[u]]

SendMint(t, e, a) ==
  /\ t \notin DOMAIN txs
  /\ AddTx(t, e, a, 0)
  /\ UNCHANGED <<activeEvents, rows, jobs, confirm, failures, restarts>>

SendTransfer(t, s, a) ==
  /\ t \notin DOMAIN txs
  /\ s \in Live
  /\ AddTx(t, txs[s].event, a, s)
  /\ UNCHANGED <<activeEvents, rows, jobs, confirm, failures, restarts>>

Commit(t) ==
  /\ t \in DOMAIN txs \ Committed
  /\ txs[t].from \in Live \cup {0}
  /\ \E b \in Blocks :
       /\ \A u \in Committed : txs[u].block <= b
       /\ txs' = [txs EXCEPT ![t].block = b]
  /\ UNCHANGED <<activeEvents, rows, jobs, confirm, failures, restarts>>

(***************************************************************************)
(* RPC calls.  get_transaction asks for the transaction and then for its   *)
(* block: either call may fail, and a committed transaction whose block    *)
(* look-up failed has no block number.  0 stands for all of these and for  *)
(* a transaction that is unknown or not committed.                         *)
(***************************************************************************)
MayFail == failures < MaxFailures

\* Mutant: the number of the newest block instead of the transaction's own.
TipFor(t) ==
  IF t \in Committed
  THEN CHOOSE b \in Blocks : /\ \E u \in Committed : txs[u].block = b
                             /\ \A u \in Committed : txs[u].block <= b
  ELSE 0

BlockOf(t) == IF t \in Committed THEN txs[t].block ELSE 0

Lookup(t, b) ==
  \/ b = BlockOf(t) /\ UNCHANGED failures
  \/ b = 0 /\ t \in Committed /\ MayFail /\ failures' = failures + 1

(***************************************************************************)
(* SQL statements on badge_observations.                                   *)
(***************************************************************************)
\* Mutant: the two columns of the primary key are bound in the wrong order.
StoreSwapped(k, t, b, by) ==
  LET key == <<k[2], k[1]>>
  IN rows' = [j \in DOMAIN rows \cup {key} |->
                IF j = key THEN [tx |-> t, block |-> b, by |-> by] ELSE rows[j]]

StoreBadge(k, t, b, by) ==      \* INSERT OR REPLACE
  rows' = [j \in DOMAIN rows \cup {k} |->
             IF j = k THEN [tx |-> t, block |-> b, by |-> by] ELSE rows[j]]

UpdateBlockNumber(t, b) ==      \* UPDATE ... WHERE mint_tx_hash = t
  rows' = [k \in DOMAIN rows |->
             IF rows[k].tx = t THEN [rows[k] EXCEPT !.block = b] ELSE rows[k]]

PendingHashes == {rows[k].tx : k \in {j \in DOMAIN rows : rows[j].block = 0}}

(***************************************************************************)
(* Startup and restart.                                                    *)
(***************************************************************************)
IdleJob(kind) ==
  [kind |-> kind, target |-> Main, step |-> IF kind = "startup" THEN "start" ELSE "done",
   events |-> {}, cursor |-> 0, page |-> {}, cell |-> 0, block |-> 0,
   clean |-> FALSE, must |-> {}, result |-> {}]
NoJobs == [w \in Tasks |-> IdleJob(IF w = Main THEN "startup" ELSE "event")]
IdleConfirm == [step |-> "idle", todo |-> {}, cur |-> Placeholder, block |-> 0]

Serving == jobs[Main].step = "done"

Init ==
  /\ txs = <<>>
  /\ activeEvents = {}
  /\ rows = <<>>
  /\ jobs = NoJobs
  /\ confirm = IdleConfirm
  /\ failures = 0
  /\ restarts = 0

\* The process dies at any point: handlers in flight are gone, the database
\* stays, except that the badge rows may be lost with their table.
Restart(wiped) ==
  /\ restarts < MaxRestarts
  /\ rows' = IF wiped THEN <<>> ELSE rows
  /\ jobs' = NoJobs
  /\ confirm' = IdleConfirm
  /\ restarts' = restarts + 1
  /\ UNCHANGED <<txs, activeEvents, failures>>

(***************************************************************************)
(* Handlers that write one row.                                            *)
(***************************************************************************)
\* An event enters active_events (module EventActivation has the handlers).
EventStored(e) ==
  /\ Serving
  /\ activeEvents' = activeEvents \cup {e}
  /\ UNCHANGED <<txs, rows, jobs, confirm, failures, restarts>>

\* Bound: another row may be a client's.
RoomFor(k) ==
  Cardinality({j \in DOMAIN rows : rows[j].by = "client"} \cup {k}) <= MaxReported

\* A client reports a mint.  Nothing of the report is checked: the event and
\* the holder may be any strings, the hash one that was never sent or that
\* moves another badge.  The frontend's own reports are some of these, and a
\* retry may report a mint again later.
RecordBadge(k, t) ==
  /\ Serving
  /\ RoomFor(k)
  /\ StoreBadge(k, t, 0, "client")
  /\ UNCHANGED <<txs, activeEvents, jobs, confirm, failures, restarts>>

\* The proof was accepted; the event the request names is not looked up and
\* the made-up hash names no chain transaction.
BuildBadge(k) ==
  /\ Serving
  /\ RoomFor(k)
  /\ StoreBadge(k, Placeholder, 0, "client")
  /\ UNCHANGED <<txs, activeEvents, jobs, confirm, failures, restarts>>

(***************************************************************************)
(* The confirmation task: a snapshot of the pending rows, then for each    *)
(* hash one look-up and one update.                                        *)
(***************************************************************************)
ConfirmTick ==
  /\ Serving
  /\ confirm.step = "idle"
  /\ PendingHashes # {}
  /\ confirm' = [confirm EXCEPT !.step = "lookup", !.todo = PendingHashes]
  /\ UNCHANGED <<txs, activeEvents, rows, jobs, failures, restarts>>

\* Where the loop goes when the hash is dealt with and `rest` is left.
\* Mutant: an unresolved badge ends the cycle instead of being skipped.
NextPendingOrStop(rest, b) ==
  IF rest = {} \/ b = 0 THEN IdleConfirm
  ELSE [step |-> "lookup", todo |-> rest, cur |-> Placeholder, block |-> 0]

NextPending(rest, b) ==
  IF rest = {} THEN IdleConfirm
  ELSE [step |-> "lookup", todo |-> rest, cur |-> Placeholder, block |-> 0]

ConfirmLookup(h) ==
  /\ confirm.step = "lookup"
  /\ h \in confirm.todo
  /\ \E b \in {0, BlockOf(h)} :
       /\ Lookup(h, b)
       /\ confirm' = IF b > 0
                     THEN [confirm EXCEPT !.step = "update", !.cur = h, !.block = b]
                     ELSE NextPending(confirm.todo \ {h}, b)
  /\ UNCHANGED <<txs, activeEvents, rows, jobs, restarts>>

ConfirmUpdate ==
  /\ confirm.step = "update"
  /\ \/ UpdateBlockNumber(confirm.cur, confirm.block) /\ UNCHANGED failures
     \/ MayFail /\ failures' = failures + 1 /\ UNCHANGED rows
  /\ confirm' = NextPending(confirm.todo \ {confirm.cur}, confirm.block)
  /\ UNCHANGED <<txs, activeEvents, jobs, restarts>>

(***************************************************************************)
(* Chain syncs.                                                            *)
(***************************************************************************)
\* An address is parsed and the indexer searched for its lock, whatever the
\* form of the address.
InSearch(kind, target, t) == kind = "address" => txs[t].holder = Canonical[target]

\* What a sync must have found when none of its calls fails.
Wanted(kind, target, es) ==
  {t \in Live : InSearch(kind, target, t) /\ txs[t].event \in es}

SyncJob(kind, target, es, first) ==
  [kind |-> kind, target |-> target, step |-> first, events |-> es, cursor |-> 0,
   page |-> {}, cell |-> 0, block |-> 0, clean |-> TRUE,
   must |-> Wanted(kind, target, es), result |-> {}]

SetJob(w, j) == jobs' = [jobs EXCEPT ![w] = j]
RestUnchanged == UNCHANGED <<txs, activeEvents, confirm, restarts>>

StartRehydrate ==
  /\ jobs[Main].step = "start"
  /\ SetJob(Main, SyncJob("startup", Main, activeEvents,
                          IF activeEvents = {} THEN "done" ELSE "fetch"))
  /\ UNCHANGED <<rows, failures>> /\ RestUnchanged

\* The list of known events cannot be read: the sync ends before any search.
UnmappedJob(kind, target, first) ==
  [SyncJob(kind, target, {}, first) EXCEPT !.clean = FALSE]

RehydrateMapFails ==
  /\ jobs[Main].step = "start"
  /\ MayFail /\ failures' = failures + 1
  /\ SetJob(Main, UnmappedJob("startup", Main, "done"))
  /\ UNCHANGED rows /\ RestUnchanged

StartByAddress(r, a) ==
  /\ Serving
  /\ jobs[r].step = "done"
  /\ SetJob(r, SyncJob("address", a, activeEvents,
                       IF activeEvents = {} THEN "read" ELSE "fetch"))
  /\ UNCHANGED <<rows, failures>> /\ RestUnchanged

\* The request logs the failed sync and answers from the rows it has; so does
\* one whose address does not parse.
AddressMapFails(r, a) ==
  /\ Serving
  /\ jobs[r].step = "done"
  /\ MayFail /\ failures' = failures + 1
  /\ SetJob(r, UnmappedJob("address", a, "read"))
  /\ UNCHANGED rows /\ RestUnchanged

StartByEvent(r, e) ==
  /\ Serving
  /\ jobs[r].step = "done"
  /\ SetJob(r, SyncJob("event", e, {e}, "fetch"))
  /\ UNCHANGED <<rows, failures>> /\ RestUnchanged

\* The sync is over: rehydration returns, a request goes on to read its rows.
AfterSync(w) == IF w = Main THEN "done" ELSE "read"

\* Where the page loop resumes.  Mutant: the last cursor is not kept.
CursorForgotten(w, page) == {jobs[w].cursor}

CursorAfter(w, page) == {c \in page : \A d \in page : d <= c}

\* The cells the indexer lists after the cursor.
Match(w) == {t \in Live : t > jobs[w].cursor /\ InSearch(jobs[w].kind, jobs[w].target, t)}

\* The first PageSize of them, or all when there are fewer.
FirstPage(match, page) ==
  /\ page # {} /\ Cardinality(page) <= PageSize
  /\ Cardinality(page) < PageSize => page = match
  /\ \A c \in page, d \in match \ page : c < d

FetchPage(w) ==
  /\ jobs[w].step = "fetch"
  /\ \E page \in SUBSET Match(w) :
       /\ FirstPage(Match(w), page)
       /\ \E c \in CursorAfter(w, page) :
            SetJob(w, [jobs[w] EXCEPT !.step = "cells", !.page = page, !.cursor = c])
  /\ UNCHANGED <<rows, failures>> /\ RestUnchanged

EndOfCells(w) ==
  /\ jobs[w].step = "fetch"
  /\ Match(w) = {}
  /\ SetJob(w, [jobs[w] EXCEPT !.step = AfterSync(w)])
  /\ UNCHANGED <<rows, failures>> /\ RestUnchanged

SearchFails(w) ==
  /\ jobs[w].step = "fetch"
  /\ MayFail /\ failures' = failures + 1
  /\ SetJob(w, [jobs[w] EXCEPT !.step = AfterSync(w), !.clean = FALSE])
  /\ UNCHANGED rows /\ RestUnchanged

IsNext(w, c) == c \in jobs[w].page /\ \A d \in jobs[w].page : c <= d

\* Where the loop goes after a cell.  Mutant: the first page is the only one.
OnePageOnly(page) == IF page = {} THEN "done" ELSE "cells"

PastCell(page) == IF page = {} THEN "fetch" ELSE "cells"

\* A cell of an event that is not in the map is passed over.
SkipCell(w, c) ==
  /\ jobs[w].step = "cells"
  /\ IsNext(w, c)
  /\ txs[c].event \notin jobs[w].events
  /\ SetJob(w, [jobs[w] EXCEPT !.page = @ \ {c}, !.step = PastCell(jobs[w].page \ {c})])
  /\ UNCHANGED <<rows, failures>> /\ RestUnchanged

\* Mutant: a cell whose transaction cannot be resolved is passed over.
LookupCellOrDrop(w, c) ==
  /\ jobs[w].step = "cells"
  /\ IsNext(w, c)
  /\ txs[c].event \in jobs[w].events
  /\ \E b \in {0, BlockOf(c)} :
       /\ Lookup(c, b)
       /\ SetJob(w, IF b > 0
            THEN [jobs[w] EXCEPT !.step = "store", !.cell = c, !.block = b]
            ELSE [jobs[w] EXCEPT !.page = @ \ {c}, !.step = PastCell(jobs[w].page \ {c})])
  /\ UNCHANGED rows /\ RestUnchanged

\* An unresolved transaction leaves the badge pending (block 0), not unlisted.
LookupCell(w, c) ==
  /\ jobs[w].step = "cells"
  /\ IsNext(w, c)
  /\ txs[c].event \in jobs[w].events
  /\ \E b \in {0, BlockOf(c)} :
       /\ Lookup(c, b)
       /\ SetJob(w, [jobs[w] EXCEPT !.step = "store", !.cell = c, !.block = b])
  /\ UNCHANGED rows /\ RestUnchanged

\* Mutant: the holder is the recipient named in the type args, who keeps
\* being named there after the cell moves to another lock.
RecipientKey(t) == IF txs[t].from = 0 THEN KeyOf(t) ELSE KeyOf(txs[t].from)

\* The holder is the owner of the cell's lock, in its canonical form.
CellKey(t) == KeyOf(t)

StoreCell(w) ==
  LET page == jobs[w].page \ {jobs[w].cell}
      stored == [jobs[w] EXCEPT !.page = page, !.step = PastCell(page), !.cell = 0, !.block = 0]
  IN /\ jobs[w].step = "store"
     /\ \/ /\ StoreBadge(CellKey(jobs[w].cell), jobs[w].cell, jobs[w].block, "chain")
           /\ SetJob(w, stored)
           /\ UNCHANGED failures
        \/ /\ MayFail /\ failures' = failures + 1
           /\ SetJob(w, [stored EXCEPT !.clean = FALSE])
           /\ UNCHANGED rows
     /\ RestUnchanged

\* The rows are selected by the very string of the request.
ReadRows(r) ==
  /\ r \in Requests
  /\ jobs[r].step = "read"
  /\ SetJob(r, [jobs[r] EXCEPT !.step = "done",
                               !.result = {k \in DOMAIN rows : jobs[r].target \in {k[1], k[2]}}])
  /\ UNCHANGED <<rows, failures>> /\ RestUnchanged

\* The rows cannot be read: the request answers with an error.
ReadFails(r) ==
  /\ r \in Requests
  /\ jobs[r].step = "read"
  /\ MayFail /\ failures' = failures + 1
  /\ SetJob(r, [jobs[r] EXCEPT !.step = "done", !.clean = FALSE])
  /\ UNCHANGED rows /\ RestUnchanged

SyncStep(w) ==
  \/ FetchPage(w) \/ EndOfCells(w) \/ SearchFails(w)
  \/ \E c \in Txs : SkipCell(w, c) \/ LookupCell(w, c)
  \/ StoreCell(w)
  \/ ReadRows(w) \/ ReadFails(w)

ConfirmStep == ConfirmTick \/ (\E h \in Hashes : ConfirmLookup(h)) \/ ConfirmUpdate

Next ==
  \/ \E t \in Txs, e \in Events, a \in Owners : SendMint(t, e, a)
  \/ \E t, s \in Txs, a \in Owners : SendTransfer(t, s, a)
  \/ \E t \in Txs : Commit(t)
  \/ \E wiped \in BOOLEAN : Restart(wiped)
  \/ \E e \in Events : EventStored(e)
  \/ \E k \in Keys : BuildBadge(k) \/ \E t \in Txs : RecordBadge(k, t)
  \/ StartRehydrate \/ RehydrateMapFails
  \/ \E r \in Requests, a \in Addresses : StartByAddress(r, a) \/ AddressMapFails(r, a)
  \/ \E r \in Requests, e \in Events : StartByEvent(r, e)
  \/ \E w \in Tasks : SyncStep(w)
  \/ ConfirmStep

Spec == Init /\ [][Next]_vars

\* The runtime polls the startup task until it returns and the confirmation
\* task on every tick; nothing says that a client ever calls.
FairSpec ==
  Spec /\ WF_vars(StartRehydrate) /\ WF_vars(SyncStep(Main)) /\ WF_vars(ConfirmStep)

-----------------------------------------------------------------------------
\* Every row, task and chain transaction has the shape the code gives it.
TypeOK ==
  /\ DOMAIN txs \subseteq Txs /\ txs \in [DOMAIN txs -> Tx]
  /\ activeEvents \subseteq Events
  /\ DOMAIN rows \subseteq Keys /\ rows \in [DOMAIN rows -> Row]
  /\ jobs \in [Tasks -> Job]
  /\ confirm \in Confirm
  /\ failures \in 0..MaxFailures
  /\ restarts \in 0..MaxRestarts

\* What the backend learned from the chain is what the chain says: a row with
\* a block number names a transaction that this very block committed, and a
\* row that a sync stored names the cell's transaction under its event and its
\* owner, however requests, syncs, the confirmation task, restarts and reports
\* of clients interleave (store_badge_observation, update_badge_block_number).
\* So a row that contradicts the chain is what a client reported, and its hash
\* may be anything; the confirmation task gives it the block of whatever
\* transaction the hash names, never an invented one.
RowsReflectChain ==
  \A k \in DOMAIN rows :
    /\ rows[k].by = "chain" => rows[k].tx \in Committed /\ k = KeyOf(rows[k].tx)
    /\ rows[k].block > 0 =>
         rows[k].tx \in Committed /\ rows[k].block = txs[rows[k].tx].block

\* What a task carries across an await is still true when it is used: cells of
\* a page and hashes looked up name committed transactions, and a block number
\* waiting to be stored is the number of that transaction's block.
InFlightReflectsChain ==
  /\ \A w \in Tasks :
       /\ jobs[w].page \subseteq Committed
       /\ jobs[w].step = "store" =>
            /\ jobs[w].cell \in Committed
            /\ jobs[w].block \in {0, txs[jobs[w].cell].block}
  /\ confirm.step = "update" =>
       confirm.cur \in Committed /\ confirm.block = txs[confirm.cur].block

\* After a read request whose searches, reads and writes all succeed, every
\* badge that was live when it started and still is has a row, although pages
\* are fetched one at a time while the chain moves and single transaction
\* look-ups may fail; and the response lists the row when the request names
\* the event, or the owner in the form the sync stores (observe_badges_by_event,
\* observe_badges_by_address).  A request in another form of the owner's address
\* searches for the same cells and misses the rows it has just stored.
ResponseComplete ==
  \A r \in Requests :
    (jobs[r].step = "done" /\ jobs[r].clean) =>
      \A t \in jobs[r].must \cap Live :
        /\ KeyOf(t) \in DOMAIN rows
        /\ jobs[r].target \in {txs[t].event, txs[t].holder} => KeyOf(t) \in jobs[r].result

\* When the server starts listening after a rehydration without failures,
\* every badge of a known event that is on chain has a row again, even if
\* the badge table was lost (rehydrate_from_chain).
RehydrateComplete ==
  (jobs[Main].step = "done" /\ jobs[Main].clean) =>
    \A t \in jobs[Main].must \cap Live : KeyOf(t) \in DOMAIN rows

\* The page loop never goes over a cell twice: a step inside the loop either
\* takes a page that lies wholly behind the cursor and moves the cursor past
\* it, when the page before is used up, or deals with cells of the page it has,
\* and only the look-up of a cell that is stored next leaves the page as it
\* is (sync_cells_from_search: after_cursor, for cell in objects).
Looping == {"fetch", "cells", "store"}

NewPage(j, k) ==
  j.page = {} /\ k.page # {} /\ \A c \in k.page : j.cursor < c /\ c <= k.cursor

SamePage(j, k) ==
  /\ k.cursor = j.cursor
  /\ k.page \subseteq j.page
  /\ k.page = j.page => j.step = "cells" /\ k.step = "store"

LoopAdvances(w) ==
  (jobs'[w] # jobs[w] /\ jobs[w].step \in Looping /\ jobs'[w].step \in Looping)
    => NewPage(jobs[w], jobs'[w]) \/ SamePage(jobs[w], jobs'[w])

SyncsAdvance == [][\A w \in Tasks : LoopAdvances(w)]_vars

PendingRow(k, t) == k \in DOMAIN rows /\ rows[k].tx = t /\ rows[k].block = 0

\* A pending row whose transaction is committed does not stay pending: the
\* confirmation task gives it its block number unless the row is replaced or
\* lost meanwhile, although other pending rows never resolve.
PendingIsConfirmed ==
  \A k \in Keys, t \in Txs : (PendingRow(k, t) /\ t \in Committed) ~> ~PendingRow(k, t)

\* Startup always ends: the pagination of the rehydration reaches its last
\* page, or gives up on a failure, and the server starts listening.  A call
\* that the node never answers is not a failure and would hold the startup up.
StartupServes == (~Serving) ~> Serving
=============================================================================
