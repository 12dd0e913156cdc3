-------------------------- MODULE BadgeCacheProofs --------------------------
(***************************************************************************)
(* Type correctness of BadgeCache, that its rows reflect the chain and that *)
(* its syncs are complete, for every set of events, addresses, transactions *)
(* and concurrent requests and for pages of every size.                     *)
(***************************************************************************)
EXTENDS BadgeCache, TLAPS

USE TxsAssumption, BlocksAssumption, PlaceholderAssumption, TasksAssumption,
    PageAssumption, BoundsAssumption

-----------------------------------------------------------------------------
\* A task's sync record replaced by another sync record keeps the table typed.
LEMMA SetJobType ==
  ASSUME NEW w \in Tasks, NEW j \in Job, jobs \in [Tasks -> Job], SetJob(w, j)
  PROVE  jobs' \in [Tasks -> Job]
BY DEF SetJob

\* INSERT OR REPLACE of a well-typed row keeps the table well typed.
LEMMA StoreBadgeType ==
  ASSUME NEW k \in Keys, NEW t \in Hashes, NEW b \in Nat, NEW by \in {"client", "chain"},
         DOMAIN rows \subseteq Keys, rows \in [DOMAIN rows -> Row],
         StoreBadge(k, t, b, by)
  PROVE  DOMAIN rows' \subseteq Keys /\ rows' \in [DOMAIN rows' -> Row]
BY DEF StoreBadge, Row

\* The record of a new sync is a sync record.
LEMMA SyncJobType ==
  ASSUME TypeOK, NEW kind \in {"startup", "address", "event"},
         NEW target \in Addresses \cup Events \cup {Main},
         NEW es \in SUBSET Events, NEW first \in {"fetch", "read", "done"}
  PROVE  SyncJob(kind, target, es, first) \in Job
BY DEF TypeOK, SyncJob, Job, Wanted, Live, Committed

\* So is the record of a sync whose event map could not be read.
LEMMA UnmappedJobType ==
  ASSUME TypeOK, NEW kind \in {"startup", "address", "event"},
         NEW target \in Addresses \cup Events \cup {Main},
         NEW first \in {"read", "done"}
  PROVE  /\ UnmappedJob(kind, target, first) \in Job
         /\ UnmappedJob(kind, target, first).page = {}
         /\ UnmappedJob(kind, target, first).step # "store"
<1>1. SyncJob(kind, target, {}, first) \in Job
  BY SyncJobType
<1>2. SyncJob(kind, target, {}, first).page = {} /\ SyncJob(kind, target, {}, first).step = first
  BY DEF SyncJob
<1>3. QED
  BY <1>1, <1>2 DEF UnmappedJob, Job

\* The tasks of a process that has just started.
LEMMA NoJobsType == NoJobs \in [Tasks -> Job] /\ IdleConfirm \in Confirm
BY DEF NoJobs, IdleJob, Job, Tasks, IdleConfirm, Confirm, Hashes

\* The answer to a transaction look-up counts at most one failure.
LEMMA LookupType ==
  ASSUME TypeOK, NEW t \in Hashes, NEW b \in {0, BlockOf(t)}, Lookup(t, b)
  PROVE  b \in Nat /\ failures' \in 0..MaxFailures
BY DEF TypeOK, Lookup, BlockOf, Committed, MayFail, Tx

LEMMA InitType == Init => TypeOK
<1> SUFFICES ASSUME Init PROVE TypeOK
  OBVIOUS
<1>1. DOMAIN txs = {} /\ txs \in [DOMAIN txs -> Tx]
  BY DEF Init
<1>2. DOMAIN rows = {} /\ rows \in [DOMAIN rows -> Row]
  BY DEF Init
<1>3. QED
  BY <1>1, <1>2, NoJobsType DEF Init, TypeOK

\* The type of the rows needs more than the types: a sync stores a row for a cell
\* whose transaction must be one the chain knows.
LEMMA StepType == TypeOK /\ InFlightReflectsChain /\ [Next]_vars => TypeOK'
<1> SUFFICES ASSUME TypeOK, InFlightReflectsChain, [Next]_vars PROVE TypeOK'
  OBVIOUS
<1>1. ASSUME NEW t \in Txs, NEW e \in Events, NEW a \in Owners, SendMint(t, e, a)
      PROVE  TypeOK'
  BY <1>1 DEF SendMint, AddTx, TypeOK, Tx, Owners
<1>2. ASSUME NEW t \in Txs, NEW s \in Txs, NEW a \in Owners, SendTransfer(t, s, a)
      PROVE  TypeOK'
  BY <1>2 DEF SendTransfer, AddTx, TypeOK, Tx, Live, Committed, Owners
<1>3. ASSUME NEW t \in Txs, Commit(t)
      PROVE  TypeOK'
  BY <1>3 DEF Commit, TypeOK, Tx, Committed
<1>4. ASSUME NEW k \in Keys, NEW t \in Txs, RecordBadge(k, t)
      PROVE  TypeOK'
  BY <1>4, StoreBadgeType DEF RecordBadge, TypeOK, Hashes
<1>5. ASSUME NEW wiped \in BOOLEAN, Restart(wiped)
      PROVE  TypeOK'
  <2>1. DOMAIN rows' \subseteq Keys /\ rows' \in [DOMAIN rows' -> Row]
    <3>1. CASE wiped
      BY <1>5, <3>1 DEF Restart
    <3>2. CASE ~wiped
      BY <1>5, <3>2 DEF Restart, TypeOK
    <3>3. QED
      BY <3>1, <3>2
  <2>2. QED
    BY <1>5, <2>1, NoJobsType DEF Restart, TypeOK
<1>6. ASSUME NEW e \in Events, EventStored(e)
      PROVE  TypeOK'
  BY <1>6 DEF EventStored, TypeOK
<1>7. ASSUME NEW k \in Keys, BuildBadge(k)
      PROVE  TypeOK'
  BY <1>7, StoreBadgeType DEF BuildBadge, TypeOK, Hashes
<1>8. ASSUME StartRehydrate
      PROVE  TypeOK'
  <2> DEFINE j == SyncJob("startup", Main, activeEvents,
                          IF activeEvents = {} THEN "done" ELSE "fetch")
  <2>1. j \in Job
    BY SyncJobType DEF TypeOK
  <2>2. SetJob(Main, j)
    BY <1>8 DEF StartRehydrate
  <2>3. QED
    BY <1>8, <2>1, <2>2, SetJobType DEF StartRehydrate, RestUnchanged, TypeOK, Tasks
<1>9. ASSUME NEW r \in Requests, NEW a \in Addresses, StartByAddress(r, a)
      PROVE  TypeOK'
  <2> DEFINE j == SyncJob("address", a, activeEvents,
                          IF activeEvents = {} THEN "read" ELSE "fetch")
  <2>1. j \in Job
    BY SyncJobType DEF TypeOK
  <2>2. SetJob(r, j)
    BY <1>9 DEF StartByAddress
  <2>3. QED
    BY <1>9, <2>1, <2>2, SetJobType DEF StartByAddress, RestUnchanged, TypeOK, Tasks
<1>10. ASSUME NEW r \in Requests, NEW e \in Events, StartByEvent(r, e)
       PROVE  TypeOK'
  <2> DEFINE j == SyncJob("event", e, {e}, "fetch")
  <2>1. j \in Job
    BY SyncJobType
  <2>2. SetJob(r, j)
    BY <1>10 DEF StartByEvent
  <2>3. QED
    BY <1>10, <2>1, <2>2, SetJobType DEF StartByEvent, RestUnchanged, TypeOK, Tasks
<1>11. ASSUME NEW w \in Tasks, SyncStep(w)
       PROVE  TypeOK'
  <2> DEFINE j == jobs[w]
  <2>0. j \in Job
    BY DEF TypeOK
  <2>1. CASE FetchPage(w)
    <3>0. PICK page \in SUBSET Match(w) :
            \E c \in CursorAfter(w, page) :
              SetJob(w, [j EXCEPT !.step = "cells", !.page = page, !.cursor = c])
      BY <2>1 DEF FetchPage
    <3>1. PICK c \in CursorAfter(w, page) :
            SetJob(w, [j EXCEPT !.step = "cells", !.page = page, !.cursor = c])
      BY <3>0
    <3>2. page \subseteq Txs /\ c \in Nat
      BY <3>1 DEF Match, Live, Committed, TypeOK, CursorAfter
    <3>3. [j EXCEPT !.step = "cells", !.page = page, !.cursor = c] \in Job
      BY <2>0, <3>2 DEF Job
    <3>4. jobs' \in [Tasks -> Job]
      BY <3>1, <3>3, SetJobType DEF TypeOK
    <3>5. QED
      BY <2>1, <3>4 DEF FetchPage, RestUnchanged, TypeOK
  <2>2. CASE EndOfCells(w)
    <3>1. [j EXCEPT !.step = AfterSync(w)] \in Job
      BY <2>0 DEF Job, AfterSync
    <3>2. jobs' \in [Tasks -> Job]
      BY <2>2, <3>1, SetJobType DEF EndOfCells, TypeOK
    <3>3. QED
      BY <2>2, <3>2 DEF EndOfCells, RestUnchanged, TypeOK
  <2>3. CASE SearchFails(w)
    <3>1. [j EXCEPT !.step = AfterSync(w), !.clean = FALSE] \in Job
      BY <2>0 DEF Job, AfterSync
    <3>2. jobs' \in [Tasks -> Job]
      BY <2>3, <3>1, SetJobType DEF SearchFails, TypeOK
    <3>3. QED
      BY <2>3, <3>2 DEF SearchFails, RestUnchanged, TypeOK, MayFail
  <2>4. ASSUME NEW c \in Txs, SkipCell(w, c)
        PROVE  TypeOK'
    <3>1. [j EXCEPT !.page = @ \ {c}, !.step = PastCell(j.page \ {c})] \in Job
      BY <2>0 DEF Job, PastCell
    <3>2. jobs' \in [Tasks -> Job]
      BY <2>4, <3>1, SetJobType DEF SkipCell, TypeOK
    <3>3. QED
      BY <2>4, <3>2 DEF SkipCell, RestUnchanged, TypeOK
  <2>5. ASSUME NEW c \in Txs, LookupCell(w, c)
        PROVE  TypeOK'
    <3>1. PICK b \in {0, BlockOf(c)} :
            /\ Lookup(c, b)
            /\ SetJob(w, [j EXCEPT !.step = "store", !.cell = c, !.block = b])
      BY <2>5 DEF LookupCell
    <3>2. b \in Nat /\ failures' \in 0..MaxFailures
      BY <3>1, LookupType DEF Hashes
    <3>3. [j EXCEPT !.step = "store", !.cell = c, !.block = b] \in Job
      BY <2>0, <3>2 DEF Job
    <3>4. jobs' \in [Tasks -> Job]
      BY <3>1, <3>3, SetJobType DEF TypeOK
    <3>5. QED
      BY <2>5, <3>2, <3>4 DEF LookupCell, RestUnchanged, TypeOK
  <2>6. CASE StoreCell(w)
    <3> DEFINE page == j.page \ {j.cell}
               stored == [j EXCEPT !.page = page, !.step = PastCell(page),
                                   !.cell = 0, !.block = 0]
    <3>1. stored \in Job /\ [stored EXCEPT !.clean = FALSE] \in Job
      BY <2>0 DEF Job, PastCell
    <3>2. jobs' \in [Tasks -> Job]
      BY <2>6, <3>1, SetJobType DEF StoreCell, TypeOK
    <3>3. j.cell \in DOMAIN txs /\ j.block \in Nat
      BY <2>0, <2>6 DEF StoreCell, InFlightReflectsChain, Committed, Job
    <3>4. CellKey(j.cell) \in Keys /\ j.cell \in Hashes
      BY <3>3 DEF CellKey, KeyOf, Keys, TypeOK, Tx, Hashes
    <3>5. DOMAIN rows' \subseteq Keys /\ rows' \in [DOMAIN rows' -> Row]
      BY <2>6, <3>3, <3>4, StoreBadgeType DEF StoreCell, TypeOK
    <3>6. failures' \in 0..MaxFailures
      BY <2>6 DEF StoreCell, MayFail, TypeOK
    <3>7. QED
      BY <2>6, <3>2, <3>5, <3>6 DEF StoreCell, RestUnchanged, TypeOK
  <2>7. CASE ReadRows(w)
    <3> DEFINE result == {k \in DOMAIN rows : j.target \in {k[1], k[2]}}
    <3>1. [j EXCEPT !.step = "done", !.result = result] \in Job
      BY <2>0 DEF Job, TypeOK
    <3>2. jobs' \in [Tasks -> Job]
      BY <2>7, <3>1, SetJobType DEF ReadRows, TypeOK
    <3>3. QED
      BY <2>7, <3>2 DEF ReadRows, ReadFails, RestUnchanged, TypeOK
  <2>8. CASE ReadFails(w)
    <3>1. [j EXCEPT !.step = "done", !.clean = FALSE] \in Job
      BY <2>0 DEF Job
    <3>2. jobs' \in [Tasks -> Job]
      BY <2>8, <3>1, SetJobType DEF ReadFails, TypeOK
    <3>3. QED
      BY <2>8, <3>2 DEF ReadFails, RestUnchanged, TypeOK, MayFail
  <2>9. QED
    BY <1>11, <2>1, <2>2, <2>3, <2>4, <2>5, <2>6, <2>7, <2>8 DEF SyncStep
<1>12. CASE ConfirmTick
  <2>1. PendingHashes \in SUBSET Hashes
    BY DEF PendingHashes, TypeOK, Row
  <2>2. confirm' \in Confirm
    BY <1>12, <2>1 DEF ConfirmTick, TypeOK, Confirm
  <2>3. QED
    BY <1>12, <2>2 DEF ConfirmTick, TypeOK
<1>13. ASSUME NEW h \in Hashes, ConfirmLookup(h)
       PROVE  TypeOK'
  <2>1. PICK b \in {0, BlockOf(h)} :
          /\ Lookup(h, b)
          /\ confirm' = IF b > 0
                        THEN [confirm EXCEPT !.step = "update", !.cur = h, !.block = b]
                        ELSE NextPending(confirm.todo \ {h}, b)
    BY <1>13 DEF ConfirmLookup
  <2>2. b \in Nat /\ failures' \in 0..MaxFailures
    BY <2>1, LookupType
  <2>3. confirm' \in Confirm
    BY <2>1, <2>2 DEF TypeOK, Confirm, NextPending, IdleConfirm, Hashes
  <2>4. QED
    BY <1>13, <2>2, <2>3 DEF ConfirmLookup, TypeOK
<1>14. CASE ConfirmUpdate
  <2>1. confirm' \in Confirm
    BY <1>14 DEF ConfirmUpdate, NextPending, IdleConfirm, TypeOK, Confirm, Hashes
  <2>2. DOMAIN rows' \subseteq Keys /\ rows' \in [DOMAIN rows' -> Row]
    BY <1>14 DEF ConfirmUpdate, UpdateBlockNumber, TypeOK, Row, Confirm
  <2>3. failures' \in 0..MaxFailures
    BY <1>14 DEF ConfirmUpdate, MayFail, TypeOK
  <2>4. QED
    BY <1>14, <2>1, <2>2, <2>3 DEF ConfirmUpdate, TypeOK
<1>15. CASE RehydrateMapFails
  <2>1. Main \in Tasks /\ UnmappedJob("startup", Main, "done") \in Job
    BY UnmappedJobType DEF Tasks
  <2>2. jobs' \in [Tasks -> Job]
    BY <1>15, <2>1, SetJobType DEF RehydrateMapFails, TypeOK
  <2>3. QED
    BY <1>15, <2>2 DEF RehydrateMapFails, RestUnchanged, TypeOK, MayFail
<1>16. ASSUME NEW r \in Requests, NEW a \in Addresses, AddressMapFails(r, a)
       PROVE  TypeOK'
  <2>1. r \in Tasks /\ UnmappedJob("address", a, "read") \in Job
    BY UnmappedJobType DEF Tasks
  <2>2. jobs' \in [Tasks -> Job]
    BY <1>16, <2>1, SetJobType DEF AddressMapFails, TypeOK
  <2>3. QED
    BY <1>16, <2>2 DEF AddressMapFails, RestUnchanged, TypeOK, MayFail
<1>17. CASE UNCHANGED vars
  BY <1>17 DEF vars, TypeOK
<1>18. QED
  BY <1>1, <1>2, <1>3, <1>4, <1>5, <1>6, <1>7, <1>8, <1>9, <1>10, <1>11, <1>12,
     <1>13, <1>14, <1>15, <1>16, <1>17 DEF Next, ConfirmStep

-----------------------------------------------------------------------------
\* The chain only grows: no step forgets a transaction, changes what it
\* created, or moves a committed one to another block.
ChainGrows ==
  /\ DOMAIN txs \subseteq DOMAIN txs'
  /\ \A t \in DOMAIN txs : KeyOf(t)' = KeyOf(t)
  /\ \A t \in Committed : t \in Committed' /\ txs'[t].block = txs[t].block

LEMMA ChainStep == TypeOK /\ [Next]_vars => ChainGrows
<1> SUFFICES ASSUME TypeOK, [Next]_vars PROVE ChainGrows
  OBVIOUS
<1>1. CASE UNCHANGED txs
  BY <1>1 DEF ChainGrows, KeyOf, Committed
<1>2. ASSUME NEW t \in Txs, NEW e \in Events, NEW a \in Owners, SendMint(t, e, a)
      PROVE  ChainGrows
  BY <1>2 DEF SendMint, AddTx, ChainGrows, KeyOf, Committed
<1>3. ASSUME NEW t \in Txs, NEW s \in Txs, NEW a \in Owners, SendTransfer(t, s, a)
      PROVE  ChainGrows
  BY <1>3 DEF SendTransfer, AddTx, ChainGrows, KeyOf, Committed
<1>4. ASSUME NEW t \in Txs, Commit(t)
      PROVE  ChainGrows
  BY <1>4 DEF Commit, TypeOK, Tx, ChainGrows, KeyOf, Committed
<1>5. QED
  BY <1>1, <1>2, <1>3, <1>4
  DEF Next, vars, RecordBadge, Restart, EventStored, BuildBadge, StartRehydrate,
      StartByAddress, StartByEvent, SyncStep, FetchPage, EndOfCells, SearchFails,
      SkipCell, LookupCell, StoreCell, ReadRows, ReadFails, RehydrateMapFails,
      AddressMapFails, RestUnchanged, ConfirmStep,
      ConfirmTick, ConfirmLookup, ConfirmUpdate

\* A look-up that names a block names the block that committed the transaction.
LEMMA LookupBlock ==
  ASSUME NEW t \in Hashes, NEW b \in {0, BlockOf(t)}, b # 0
  PROVE  t \in Committed /\ b = txs[t].block
BY DEF BlockOf

\* What tasks carry stays true when the chain grows and they stand still.
LEMMA TasksAtRest ==
  ASSUME TypeOK, InFlightReflectsChain, ChainGrows,
         NEW w \in Tasks, jobs'[w] = jobs[w]
  PROVE  /\ jobs'[w].page \subseteq Committed'
         /\ jobs'[w].step = "store" =>
              /\ jobs'[w].cell \in Committed'
              /\ jobs'[w].block \in {0, txs'[jobs'[w].cell].block}
BY DEF InFlightReflectsChain, ChainGrows

LEMMA ConfirmAtRest ==
  ASSUME TypeOK, InFlightReflectsChain, ChainGrows, UNCHANGED confirm
  PROVE  confirm'.step = "update" =>
           confirm'.cur \in Committed' /\ confirm'.block = txs'[confirm'.cur].block
BY DEF InFlightReflectsChain, ChainGrows

\* A step of one task leaves the records of the others alone.
LEMMA OneTaskMoves ==
  ASSUME TypeOK, InFlightReflectsChain, ChainGrows, UNCHANGED confirm,
         NEW w \in Tasks, NEW j \in Job, SetJob(w, j),
         j.page \subseteq Committed',
         j.step = "store" => j.cell \in Committed' /\ j.block \in {0, txs'[j.cell].block}
  PROVE  InFlightReflectsChain'
<1>1. ASSUME NEW v \in Tasks
      PROVE  /\ jobs'[v].page \subseteq Committed'
             /\ jobs'[v].step = "store" =>
                  /\ jobs'[v].cell \in Committed'
                  /\ jobs'[v].block \in {0, txs'[jobs'[v].cell].block}
  <2>1. CASE v = w
    BY <2>1 DEF SetJob, TypeOK
  <2>2. CASE v # w
    <3>1. jobs'[v] = jobs[v]
      BY <2>2 DEF SetJob, TypeOK
    <3>2. QED
      BY <3>1, TasksAtRest
  <2>3. QED
    BY <2>1, <2>2
<1>2. QED
  BY <1>1, ConfirmAtRest DEF InFlightReflectsChain

LEMMA NobodyMoves ==
  ASSUME TypeOK, InFlightReflectsChain, ChainGrows, UNCHANGED <<jobs, confirm>>
  PROVE  InFlightReflectsChain'
BY TasksAtRest, ConfirmAtRest DEF InFlightReflectsChain

LEMMA InFlightStep == TypeOK /\ InFlightReflectsChain /\ [Next]_vars => InFlightReflectsChain'
<1> SUFFICES ASSUME TypeOK, InFlightReflectsChain, [Next]_vars
             PROVE  InFlightReflectsChain'
  OBVIOUS
<1>0. ChainGrows
  BY ChainStep
<1>1. CASE UNCHANGED <<jobs, confirm>>
  BY <1>0, <1>1, NobodyMoves
<1>2. ASSUME NEW wiped \in BOOLEAN, Restart(wiped)
      PROVE  InFlightReflectsChain'
  BY <1>2 DEF Restart, NoJobs, IdleJob, IdleConfirm, InFlightReflectsChain, Tasks
<1>3. ASSUME NEW w \in Tasks, NEW j \in Job, SetJob(w, j), j.page = {}, j.step # "store",
             UNCHANGED confirm
      PROVE  InFlightReflectsChain'
  BY <1>0, <1>3, OneTaskMoves
<1>4. CASE StartRehydrate
  <2> DEFINE j == SyncJob("startup", Main, activeEvents,
                          IF activeEvents = {} THEN "done" ELSE "fetch")
  <2>1. j \in Job
    BY SyncJobType DEF TypeOK
  <2>2. j.page = {} /\ j.step # "store"
    BY DEF SyncJob
  <2>3. QED
    BY <1>3, <1>4, <2>1, <2>2 DEF StartRehydrate, RestUnchanged, Tasks
<1>5. ASSUME NEW r \in Requests, NEW a \in Addresses, StartByAddress(r, a)
      PROVE  InFlightReflectsChain'
  <2> DEFINE j == SyncJob("address", a, activeEvents,
                          IF activeEvents = {} THEN "read" ELSE "fetch")
  <2>1. j \in Job
    BY SyncJobType DEF TypeOK
  <2>2. j.page = {} /\ j.step # "store"
    BY DEF SyncJob
  <2>3. QED
    BY <1>3, <1>5, <2>1, <2>2 DEF StartByAddress, RestUnchanged, Tasks
<1>6. ASSUME NEW r \in Requests, NEW e \in Events, StartByEvent(r, e)
      PROVE  InFlightReflectsChain'
  <2> DEFINE j == SyncJob("event", e, {e}, "fetch")
  <2>1. j \in Job
    BY SyncJobType
  <2>2. j.page = {} /\ j.step # "store"
    BY DEF SyncJob
  <2>3. QED
    BY <1>3, <1>6, <2>1, <2>2 DEF StartByEvent, RestUnchanged, Tasks
<1>7. ASSUME NEW w \in Tasks, SyncStep(w)
      PROVE  InFlightReflectsChain'
  <2> DEFINE page == jobs[w].page \ {jobs[w].cell}
             stored == [jobs[w] EXCEPT !.page = page, !.step = PastCell(page),
                                       !.cell = 0, !.block = 0]
  <2>a. ASSUME StoreCell(w)
        PROVE  jobs'[w].page = page /\ jobs'[w].step = PastCell(page)
    <3>1. SetJob(w, stored) \/ SetJob(w, [stored EXCEPT !.clean = FALSE])
      BY <2>a DEF StoreCell
    <3>2. jobs'[w] = stored \/ jobs'[w] = [stored EXCEPT !.clean = FALSE]
      BY <3>1 DEF SetJob, TypeOK
    <3>3. jobs[w] \in Job
      BY DEF TypeOK
    <3>4. QED
      BY <3>2, <3>3 DEF Job
  <2>0. jobs[w] \in Job /\ jobs'[w] \in Job /\ jobs'[w].page \subseteq Committed'
    <3>1. jobs' \in [Tasks -> Job]
      BY StepType DEF TypeOK
    <3>2. UNCHANGED txs
      BY <1>7 DEF SyncStep, FetchPage, EndOfCells, SearchFails, SkipCell, LookupCell,
                  StoreCell, ReadRows, ReadFails, RestUnchanged
    <3>3. jobs'[w].page \subseteq Committed
      <4>1. jobs[w].page \subseteq Committed /\ jobs[w] \in Job
        BY DEF InFlightReflectsChain, TypeOK
      <4>2. ASSUME NEW j, SetJob(w, j) PROVE jobs'[w] = j
        BY <4>2 DEF SetJob, TypeOK
      <4>3. CASE FetchPage(w)
        BY <4>1, <4>2, <4>3 DEF FetchPage, Match, Live, Job
      <4>4. CASE EndOfCells(w) \/ SearchFails(w) \/ ReadRows(w) \/ ReadFails(w)
        BY <4>1, <4>2, <4>4 DEF EndOfCells, SearchFails, ReadRows, ReadFails, Job
      <4>5. ASSUME NEW c \in Txs, SkipCell(w, c) \/ LookupCell(w, c)
            PROVE  jobs'[w].page \subseteq Committed
        <5>1. CASE SkipCell(w, c)
          <6>1. SetJob(w, [jobs[w] EXCEPT !.page = @ \ {c},
                                          !.step = PastCell(jobs[w].page \ {c})])
            BY <5>1 DEF SkipCell
          <6>2. jobs'[w].page = jobs[w].page \ {c}
            BY <4>1, <4>2, <6>1 DEF Job
          <6>3. QED
            BY <4>1, <6>2
        <5>2. CASE LookupCell(w, c)
          <6>1. PICK b \in {0, BlockOf(c)} :
                  SetJob(w, [jobs[w] EXCEPT !.step = "store", !.cell = c, !.block = b])
            BY <5>2 DEF LookupCell
          <6>2. jobs'[w].page = jobs[w].page
            BY <4>1, <4>2, <6>1 DEF Job
          <6>3. QED
            BY <4>1, <6>2
        <5>3. QED
          BY <4>5, <5>1, <5>2
      <4>6. CASE StoreCell(w)
        BY <2>a, <4>1, <4>6
      <4>7. QED
        BY <1>7, <4>3, <4>4, <4>5, <4>6 DEF SyncStep
    <3>4. QED
      BY <3>1, <3>2, <3>3 DEF TypeOK, Committed
  <2>1. jobs'[w].step = "store" =>
          /\ jobs'[w].cell \in Committed'
          /\ jobs'[w].block \in {0, txs'[jobs'[w].cell].block}
    <3>1. ASSUME NEW j, SetJob(w, j) PROVE jobs'[w] = j
      BY <3>1 DEF SetJob, TypeOK
    <3>0. CASE FetchPage(w)
      <4>1. PICK q \in SUBSET Match(w) : \E c \in CursorAfter(w, q) :
              SetJob(w, [jobs[w] EXCEPT !.step = "cells", !.page = q, !.cursor = c])
        BY <3>0 DEF FetchPage
      <4>2. PICK c \in CursorAfter(w, q) :
              SetJob(w, [jobs[w] EXCEPT !.step = "cells", !.page = q, !.cursor = c])
        BY <4>1
      <4>3. jobs'[w].step = "cells"
        BY <2>0, <3>1, <4>2 DEF Job
      <4>4. QED
        BY <4>3
    <3>2. CASE EndOfCells(w) \/ SearchFails(w) \/ ReadRows(w) \/ ReadFails(w)
      <4>1. CASE EndOfCells(w)
        BY <2>0, <3>1, <4>1 DEF EndOfCells, AfterSync, Job
      <4>2. CASE SearchFails(w)
        <5>1. SetJob(w, [jobs[w] EXCEPT !.step = AfterSync(w), !.clean = FALSE])
          BY <4>2 DEF SearchFails
        <5>2. jobs'[w].step = AfterSync(w)
          BY <2>0, <3>1, <5>1 DEF Job
        <5>3. QED
          BY <5>2 DEF AfterSync
      <4>3. CASE ReadRows(w)
        <5> DEFINE result == {k \in DOMAIN rows : jobs[w].target \in {k[1], k[2]}}
        <5>1. SetJob(w, [jobs[w] EXCEPT !.step = "done", !.result = result])
          BY <4>3 DEF ReadRows
        <5> HIDE DEF result
        <5>2. jobs'[w].step = "done"
          BY <2>0, <3>1, <5>1 DEF Job
        <5>3. QED
          BY <5>2
      <4>4. CASE ReadFails(w)
        BY <2>0, <3>1, <4>4 DEF ReadFails, Job
      <4>5. QED
        BY <3>2, <4>1, <4>2, <4>3, <4>4
    <3>3. ASSUME NEW c \in Txs, SkipCell(w, c)
          PROVE  jobs'[w].step # "store"
      BY <2>0, <3>1, <3>3 DEF SkipCell, PastCell, Job
    <3>4. ASSUME NEW c \in Txs, LookupCell(w, c)
          PROVE  /\ jobs'[w].cell \in Committed'
                 /\ jobs'[w].block \in {0, txs'[jobs'[w].cell].block}
      <4>1. PICK b \in {0, BlockOf(c)} :
              SetJob(w, [jobs[w] EXCEPT !.step = "store", !.cell = c, !.block = b])
        BY <3>4 DEF LookupCell
      <4>2. jobs'[w].cell = c /\ jobs'[w].block = b
        BY <2>0, <3>1, <4>1 DEF Job
      <4>3. c \in Committed
        BY <3>4 DEF LookupCell, IsNext, InFlightReflectsChain
      <4>4. UNCHANGED txs
        BY <3>4 DEF LookupCell, RestUnchanged
      <4>5. QED
        BY <4>2, <4>3, <4>4 DEF BlockOf, Committed
    <3>5. CASE StoreCell(w)
      BY <2>a, <3>5 DEF PastCell
    <3>6. QED
      BY <1>7, <3>0, <3>2, <3>3, <3>4, <3>5 DEF SyncStep
  <2>2. SetJob(w, jobs'[w])
    BY <1>7 DEF SyncStep, FetchPage, EndOfCells, SearchFails, SkipCell, LookupCell,
                StoreCell, ReadRows, ReadFails, SetJob, TypeOK
  <2>3. UNCHANGED confirm
    BY <1>7 DEF SyncStep, FetchPage, EndOfCells, SearchFails, SkipCell, LookupCell,
                StoreCell, ReadRows, ReadFails, RestUnchanged
  <2>4. QED
    BY <1>0, <2>0, <2>1, <2>2, <2>3, OneTaskMoves
<1>8. ASSUME UNCHANGED <<txs, jobs>>,
             confirm'.step = "update" =>
               confirm'.cur \in Committed /\ confirm'.block = txs[confirm'.cur].block
      PROVE  InFlightReflectsChain'
  BY <1>8 DEF InFlightReflectsChain, Committed
<1>9. CASE ConfirmTick
  BY <1>8, <1>9 DEF ConfirmTick, TypeOK, Confirm
<1>10. ASSUME NEW h \in Hashes, ConfirmLookup(h)
       PROVE  InFlightReflectsChain'
  <2>1. PICK b \in {0, BlockOf(h)} :
          confirm' = IF b > 0
                     THEN [confirm EXCEPT !.step = "update", !.cur = h, !.block = b]
                     ELSE NextPending(confirm.todo \ {h}, b)
    BY <1>10 DEF ConfirmLookup
  <2>2. CASE b > 0
    <3>1. h \in Committed /\ b = txs[h].block
      BY <2>2, LookupBlock
    <3>2. QED
      BY <1>8, <1>10, <2>1, <2>2, <3>1 DEF ConfirmLookup, TypeOK, Confirm
  <2>3. CASE ~(b > 0)
    BY <1>8, <1>10, <2>1, <2>3 DEF ConfirmLookup, NextPending, IdleConfirm
  <2>4. QED
    BY <2>2, <2>3
<1>11. CASE ConfirmUpdate
  BY <1>8, <1>11 DEF ConfirmUpdate, NextPending, IdleConfirm
<1>12. CASE RehydrateMapFails
  BY <1>3, <1>12, UnmappedJobType DEF RehydrateMapFails, RestUnchanged, Tasks
<1>13. ASSUME NEW r \in Requests, NEW a \in Addresses, AddressMapFails(r, a)
       PROVE  InFlightReflectsChain'
  BY <1>3, <1>13, UnmappedJobType DEF AddressMapFails, RestUnchanged, Tasks
<1>14. QED
  BY <1>1, <1>2, <1>4, <1>5, <1>6, <1>7, <1>9, <1>10, <1>11, <1>12, <1>13
  DEF Next, vars, SendMint, SendTransfer, Commit, RecordBadge, EventStored, BuildBadge,
      ConfirmStep

-----------------------------------------------------------------------------
\* What RowsReflectChain says of one row, of the chain T.
RowReflects(T, k, r) ==
  /\ r.by = "chain" =>
       /\ r.tx \in DOMAIN T /\ T[r.tx].block > 0
       /\ k = <<T[r.tx].event, T[r.tx].holder>>
  /\ r.block > 0 => r.tx \in DOMAIN T /\ T[r.tx].block > 0 /\ r.block = T[r.tx].block

LEMMA RowByRow ==
  /\ RowsReflectChain <=> \A k \in DOMAIN rows : RowReflects(txs, k, rows[k])
  /\ RowsReflectChain' <=> \A k \in DOMAIN rows' : RowReflects(txs', k, rows'[k])
BY DEF RowsReflectChain, RowReflects, KeyOf, Committed

\* A row that reflects the chain goes on reflecting it when the chain grows.
LEMMA RowAtRest ==
  ASSUME ChainGrows, NEW k, NEW r, RowReflects(txs, k, r)
  PROVE  RowReflects(txs', k, r)
BY DEF RowReflects, ChainGrows, Committed, KeyOf

\* A stored row reflects the chain if its key and block come from the chain.
LEMMA StoreReflects ==
  ASSUME RowsReflectChain, ChainGrows,
         NEW k, NEW t, NEW b, NEW by, StoreBadge(k, t, b, by),
         RowReflects(txs', k, [tx |-> t, block |-> b, by |-> by])
  PROVE  RowsReflectChain'
<1>1. ASSUME NEW j \in DOMAIN rows' PROVE RowReflects(txs', j, rows'[j])
  <2>1. CASE j = k
    <3>1. rows'[j] = [tx |-> t, block |-> b, by |-> by]
      BY <2>1 DEF StoreBadge
    <3>2. QED
      BY <2>1, <3>1
  <2>2. CASE j # k
    <3>1. j \in DOMAIN rows /\ rows'[j] = rows[j]
      BY <2>2 DEF StoreBadge
    <3>2. QED
      BY <3>1, RowAtRest, RowByRow
  <2>3. QED
    BY <2>1, <2>2
<1>2. QED
  BY <1>1, RowByRow

LEMMA RowsAtRest ==
  ASSUME RowsReflectChain, ChainGrows, UNCHANGED rows
  PROVE  RowsReflectChain'
BY RowAtRest, RowByRow

LEMMA RowsStep ==
  TypeOK /\ InFlightReflectsChain /\ RowsReflectChain /\ [Next]_vars => RowsReflectChain'
<1> SUFFICES ASSUME TypeOK, InFlightReflectsChain, RowsReflectChain, [Next]_vars
             PROVE  RowsReflectChain'
  OBVIOUS
<1>0. ChainGrows
  BY ChainStep
<1>1. CASE UNCHANGED rows
  BY <1>0, <1>1, RowsAtRest
<1>2. ASSUME NEW k \in Keys, NEW t \in Txs, RecordBadge(k, t)
      PROVE  RowsReflectChain'
  <2>1. RowReflects(txs', k, [tx |-> t, block |-> 0, by |-> "client"])
    BY DEF RowReflects
  <2>2. QED
    BY <1>0, <1>2, <2>1, StoreReflects DEF RecordBadge
<1>3. ASSUME NEW k \in Keys, BuildBadge(k)
      PROVE  RowsReflectChain'
  <2>1. RowReflects(txs', k, [tx |-> Placeholder, block |-> 0, by |-> "client"])
    BY DEF RowReflects
  <2>2. QED
    BY <1>0, <1>3, <2>1, StoreReflects DEF BuildBadge
<1>4. ASSUME NEW wiped \in BOOLEAN, Restart(wiped)
      PROVE  RowsReflectChain'
  <2>1. CASE wiped
    BY <1>4, <2>1 DEF Restart, RowsReflectChain
  <2>2. CASE ~wiped
    BY <1>0, <1>4, <2>2, RowsAtRest DEF Restart
  <2>3. QED
    BY <2>1, <2>2
<1>5. ASSUME NEW w \in Tasks, StoreCell(w)
      PROVE  RowsReflectChain'
  <2> DEFINE c == jobs[w].cell
             b == jobs[w].block
  <2>1. CASE StoreBadge(CellKey(c), c, b, "chain")
    <3>1. c \in Committed /\ b \in {0, txs[c].block} /\ txs' = txs
      BY <1>5 DEF StoreCell, InFlightReflectsChain, RestUnchanged
    <3>2. RowReflects(txs', CellKey(c), [tx |-> c, block |-> b, by |-> "chain"])
      BY <3>1 DEF RowReflects, CellKey, KeyOf, Committed
    <3>3. QED
      BY <1>0, <2>1, <3>2, StoreReflects
  <2>2. CASE UNCHANGED rows
    BY <1>0, <2>2, RowsAtRest
  <2>3. QED
    BY <1>5, <2>1, <2>2 DEF StoreCell
<1>6. CASE ConfirmUpdate
  <2>1. CASE UpdateBlockNumber(confirm.cur, confirm.block)
    <3>1. confirm.cur \in Committed /\ confirm.block = txs[confirm.cur].block /\ txs' = txs
      BY <1>6 DEF ConfirmUpdate, InFlightReflectsChain
    <3>2. ASSUME NEW k \in DOMAIN rows' PROVE RowReflects(txs', k, rows'[k])
      <4>1. k \in DOMAIN rows /\ RowReflects(txs, k, rows[k]) /\ rows[k] \in Row
        BY <2>1, RowByRow DEF UpdateBlockNumber, TypeOK
      <4>2. CASE rows[k].tx = confirm.cur
        <5>1. /\ rows'[k].tx = rows[k].tx /\ rows'[k].by = rows[k].by
              /\ rows'[k].block = confirm.block
          BY <2>1, <4>1, <4>2 DEF UpdateBlockNumber, Row
        <5>2. QED
          BY <3>1, <4>1, <4>2, <5>1 DEF RowReflects, Committed
      <4>3. CASE rows[k].tx # confirm.cur
        BY <2>1, <3>1, <4>1, <4>3 DEF UpdateBlockNumber
      <4>4. QED
        BY <4>2, <4>3
    <3>3. QED
      BY <3>2, RowByRow
  <2>2. CASE UNCHANGED rows
    BY <1>0, <2>2, RowsAtRest
  <2>3. QED
    BY <1>6, <2>1, <2>2 DEF ConfirmUpdate
<1>7. QED
  BY <1>1, <1>2, <1>3, <1>4, <1>5, <1>6
  DEF Next, vars, SendMint, SendTransfer, Commit, EventStored, StartRehydrate,
      StartByAddress, StartByEvent, SyncStep, FetchPage, EndOfCells, SearchFails,
      SkipCell, LookupCell, ReadRows, ReadFails, RehydrateMapFails, AddressMapFails,
      ConfirmStep, ConfirmTick, ConfirmLookup

-----------------------------------------------------------------------------
\* The inductive invariant: what the tasks write into rows is true because what
\* they carry is.
IInv == TypeOK /\ InFlightReflectsChain /\ RowsReflectChain

LEMMA Inductive == Spec => []IInv
<1>1. Init => IInv
  <2>1. Init => InFlightReflectsChain /\ RowsReflectChain
    BY DEF Init, InFlightReflectsChain, RowsReflectChain, NoJobs, IdleJob, IdleConfirm
  <2>2. QED
    BY <2>1, InitType DEF IInv
<1>2. IInv /\ [Next]_vars => IInv'
  BY StepType, InFlightStep, RowsStep DEF IInv
<1>3. QED
  BY <1>1, <1>2, PTL DEF Spec

\* The tables and tasks keep their shape, whatever interleaves.
THEOREM TypeCorrect == Spec => []TypeOK
BY Inductive, PTL DEF IInv

\* Neither a stale snapshot of the confirmation task, nor a sync that was
\* overtaken, nor a false report makes the backend itself say of a badge what
\* the chain does not: only what a client reported can.
THEOREM RowsTruthful == Spec => []RowsReflectChain
BY Inductive, PTL DEF IInv

\* Cells, hashes and block numbers held across an await stay true.
THEOREM InFlightTruthful == Spec => []InFlightReflectsChain
BY Inductive, PTL DEF IInv

-----------------------------------------------------------------------------
(***************************************************************************)
(* Completeness of the syncs.  What a sync must find is of its search and  *)
(* of its events; and as long as none of its calls failed, a badge that is *)
(* still live has its row, or is still to come: in the page at hand, or    *)
(* after the cursor.                                                       *)
(***************************************************************************)
Sought(w, t) ==
  /\ t \in Committed
  /\ InSearch(jobs[w].kind, jobs[w].target, t)
  /\ txs[t].event \in jobs[w].events

HasRow(t) == KeyOf(t) \in DOMAIN rows

Accounted(w, t) ==
  /\ jobs[w].step = "fetch" => HasRow(t) \/ t > jobs[w].cursor
  /\ jobs[w].step \in {"cells", "store"} =>
       HasRow(t) \/ t > jobs[w].cursor \/ t \in jobs[w].page
  /\ jobs[w].step = "read" => HasRow(t)
  /\ jobs[w].step = "done" =>
       /\ HasRow(t)
       /\ (w # Main /\ jobs[w].target \in {txs[t].event, txs[t].holder}) =>
            KeyOf(t) \in jobs[w].result

SyncIsComplete(w) ==
  jobs[w].clean =>
    \A t \in jobs[w].must : Sought(w, t) /\ (t \in Live => Accounted(w, t))

SyncsAreComplete == \A w \in Tasks : SyncIsComplete(w)

\* A committed transaction whose cell was spent does not come back to life.
LEMMA LiveShrinks ==
  ASSUME TypeOK, [Next]_vars, NEW t \in Committed, t \in Live'
  PROVE  t \in Live
<1>1. ChainGrows
  BY ChainStep
<1>2. \A u \in DOMAIN txs : u \in DOMAIN txs' /\ txs'[u].from = txs[u].from
  <2>1. CASE UNCHANGED txs
    BY <2>1
  <2>2. ASSUME NEW n \in Txs, NEW e \in Events, NEW a \in Owners,
               SendMint(n, e, a) \/ (\E s \in Txs : SendTransfer(n, s, a))
        PROVE  \A u \in DOMAIN txs : u \in DOMAIN txs' /\ txs'[u].from = txs[u].from
    BY <2>2 DEF SendMint, SendTransfer, AddTx
  <2>3. ASSUME NEW n \in Txs, Commit(n)
        PROVE  \A u \in DOMAIN txs : u \in DOMAIN txs' /\ txs'[u].from = txs[u].from
    BY <2>3 DEF Commit, TypeOK, Tx
  <2>4. ASSUME NEW n \in Txs, NEW s \in Txs, NEW a \in Owners, SendTransfer(n, s, a)
        PROVE  \A u \in DOMAIN txs : u \in DOMAIN txs' /\ txs'[u].from = txs[u].from
    BY <2>4 DEF SendTransfer, AddTx
  <2> QED
    BY <2>1, <2>2, <2>3, <2>4
    DEF Next, vars, RecordBadge, Restart, EventStored, BuildBadge, StartRehydrate,
        StartByAddress, StartByEvent, SyncStep, FetchPage, EndOfCells, SearchFails,
        SkipCell, LookupCell, StoreCell, ReadRows, ReadFails, RehydrateMapFails,
        AddressMapFails, RestUnchanged, ConfirmStep,
        ConfirmTick, ConfirmLookup, ConfirmUpdate
<1> QED
  BY <1>1, <1>2 DEF ChainGrows, Live, Committed

\* Only a restart takes rows away.
LEMMA RowsStay ==
  ASSUME [Next]_vars, \A wiped \in BOOLEAN : ~Restart(wiped)
  PROVE  DOMAIN rows \subseteq DOMAIN rows'
BY DEF Next, vars, SendMint, SendTransfer, Commit, EventStored, StartRehydrate,
       StartByAddress, StartByEvent, SyncStep, FetchPage, EndOfCells, SearchFails,
       SkipCell, LookupCell, StoreCell, ReadRows, ReadFails, RehydrateMapFails,
       AddressMapFails, ConfirmStep, ConfirmTick, ConfirmLookup, ConfirmUpdate,
       RecordBadge, BuildBadge, StoreBadge, UpdateBlockNumber

\* A sync that stands still stays complete while the chain and the rows grow.
LEMMA SyncAtRest ==
  ASSUME TypeOK, [Next]_vars, DOMAIN rows \subseteq DOMAIN rows',
         NEW w \in Tasks, SyncIsComplete(w), jobs'[w] = jobs[w]
  PROVE  SyncIsComplete(w)'
<1> SUFFICES ASSUME jobs[w].clean, NEW t \in jobs[w].must
             PROVE  Sought(w, t)' /\ (t \in Live' => Accounted(w, t)')
  BY DEF SyncIsComplete
<1>1. ChainGrows
  BY ChainStep
<1>2. Sought(w, t) /\ (t \in Live => Accounted(w, t))
  BY DEF SyncIsComplete
<1>3. /\ t \in Committed' /\ KeyOf(t)' = KeyOf(t)
      /\ txs'[t].event = txs[t].event /\ txs'[t].holder = txs[t].holder
  BY <1>1, <1>2 DEF ChainGrows, Sought, Committed, KeyOf
<1>4. Sought(w, t)'
  BY <1>2, <1>3 DEF Sought, InSearch
<1>5. t \in Live' => Accounted(w, t)
  BY <1>2, LiveShrinks DEF Sought
<1>6. HasRow(t) => HasRow(t)'
  BY <1>3 DEF HasRow
<1> QED
  BY <1>3, <1>4, <1>5, <1>6 DEF Accounted

\* A step of one task leaves the other syncs alone.
LEMMA OneSyncMoves ==
  ASSUME TypeOK, SyncsAreComplete, [Next]_vars, DOMAIN rows \subseteq DOMAIN rows',
         NEW w \in Tasks, \A v \in Tasks \ {w} : jobs'[v] = jobs[v],
         SyncIsComplete(w)'
  PROVE  SyncsAreComplete'
BY SyncAtRest DEF SyncsAreComplete

\* A sync that begins has everything it must find before it.
LEMMA SyncBegins ==
  ASSUME TypeOK, UNCHANGED txs, NEW w \in Tasks, NEW kind, NEW target,
         NEW es \in SUBSET Events, NEW first \in {"fetch", "read", "done"},
         first # "fetch" => es = {},
         SetJob(w, SyncJob(kind, target, es, first))
  PROVE  SyncIsComplete(w)' /\ \A v \in Tasks \ {w} : jobs'[v] = jobs[v]
<1>1. /\ jobs'[w] = SyncJob(kind, target, es, first)
      /\ \A v \in Tasks \ {w} : jobs'[v] = jobs[v]
  BY DEF SetJob, TypeOK
<1> SUFFICES ASSUME NEW t \in jobs'[w].must
             PROVE  Sought(w, t)' /\ Accounted(w, t)'
  BY <1>1 DEF SyncIsComplete
<1>2. t \in Wanted(kind, target, es)
  BY <1>1 DEF SyncJob
<1>3. t \in Live /\ InSearch(kind, target, t) /\ txs[t].event \in es
  BY <1>2 DEF Wanted
<1>4. t \in Committed /\ t \in Nat /\ t > 0
  BY <1>3 DEF Live, Committed, TypeOK
<1>5. Sought(w, t)'
  BY <1>1, <1>3, <1>4 DEF Sought, SyncJob, InSearch, Committed
<1>6. first = "fetch" /\ jobs'[w].step = first /\ jobs'[w].cursor = 0
  BY <1>1, <1>3 DEF SyncJob
<1> QED
  BY <1>4, <1>5, <1>6 DEF Accounted

\* A sync that has failed promises nothing any more.
LEMMA UncleanIsComplete ==
  ASSUME TypeOK, NEW w \in Tasks, NEW j, SetJob(w, j), j.clean = FALSE
  PROVE  SyncIsComplete(w)' /\ \A v \in Tasks \ {w} : jobs'[v] = jobs[v]
BY DEF SetJob, TypeOK, SyncIsComplete

\* A step of a sync that goes on keeps what it seeks, and has to account for each
\* badge again.
LEMMA SyncGoesOn ==
  ASSUME TypeOK, NEW w \in Tasks, SyncIsComplete(w), NEW j \in Job, SetJob(w, j), UNCHANGED txs,
         j.kind = jobs[w].kind, j.target = jobs[w].target, j.events = jobs[w].events,
         j.must = jobs[w].must, j.clean = jobs[w].clean,
         \A t \in Live : Sought(w, t) /\ Accounted(w, t) => Accounted(w, t)'
  PROVE  SyncIsComplete(w)'
<1>1. jobs'[w] = j
  BY DEF SetJob, TypeOK
<1> SUFFICES ASSUME jobs[w].clean, NEW t \in jobs[w].must
             PROVE  Sought(w, t)' /\ (t \in Live' => Accounted(w, t)')
  BY <1>1 DEF SyncIsComplete
<1>2. Sought(w, t) /\ (t \in Live => Accounted(w, t))
  BY DEF SyncIsComplete
<1>3. Live' = Live
  BY DEF Live, Committed
<1>4. Sought(w, t)'
  BY <1>1, <1>2 DEF Sought, InSearch, Committed
<1> QED
  BY <1>2, <1>3, <1>4

LEMMA SyncStepComplete ==
  ASSUME IInv, NEW w \in Tasks, SyncIsComplete(w), SyncStep(w), [Next]_vars
  PROVE  SyncIsComplete(w)'
<1> DEFINE job == jobs[w]
<1> USE DEF IInv
<1>1. job \in Job /\ UNCHANGED txs
  BY DEF TypeOK, SyncStep, FetchPage, EndOfCells, SearchFails, SkipCell, LookupCell,
         StoreCell, ReadRows, ReadFails, RestUnchanged
<1>2. ASSUME NEW j, SetJob(w, j) PROVE jobs'[w] = j
  BY <1>2 DEF SetJob, TypeOK
<1>3. \A t \in Live : t \in Nat /\ KeyOf(t)' = KeyOf(t)
  BY <1>1 DEF Live, Committed, TypeOK, KeyOf
<1>4. ASSUME UNCHANGED rows, NEW t \in Live, HasRow(t) PROVE HasRow(t)'
  BY <1>3, <1>4 DEF HasRow
<1>5. CASE FetchPage(w)
  <2>1. PICK page \in SUBSET Match(w) :
          /\ FirstPage(Match(w), page)
          /\ \E c \in CursorAfter(w, page) :
               SetJob(w, [job EXCEPT !.step = "cells", !.page = page, !.cursor = c])
    BY <1>5 DEF FetchPage
  <2>2. PICK c \in CursorAfter(w, page) :
          SetJob(w, [job EXCEPT !.step = "cells", !.page = page, !.cursor = c])
    BY <2>1
  <2> DEFINE j == [job EXCEPT !.step = "cells", !.page = page, !.cursor = c]
  <2>3. c \in page /\ page \subseteq Txs /\ c \in Nat
    BY DEF CursorAfter, Match, Live, Committed, TypeOK
  <2>4. j \in Job
    BY <1>1, <2>3 DEF Job
  <2>5. ASSUME NEW t \in Live, Sought(w, t), Accounted(w, t) PROVE Accounted(w, t)'
    <3>1. jobs'[w] = j /\ j.step = "cells" /\ j.page = page /\ j.cursor = c
      BY <1>1, <1>2, <2>2 DEF Job
    <3>2. HasRow(t) \/ t > job.cursor
      BY <1>5, <2>5 DEF Accounted, FetchPage
    <3>3. t > job.cursor => t \in Match(w)
      BY <2>5 DEF Match, Sought
    <3>4. t \in Match(w) => t \in page \/ t > c
      BY <1>3, <2>1, <2>3 DEF FirstPage
    <3>5. HasRow(t)' \/ t > c \/ t \in page
      BY <1>4, <1>5, <3>2, <3>3, <3>4 DEF FetchPage
    <3> QED
      BY <3>1, <3>5 DEF Accounted
  <2> HIDE DEF j
  <2>6. SetJob(w, j)
    BY <2>2 DEF j
  <2>7. j.kind = job.kind /\ j.target = job.target /\ j.events = job.events
        /\ j.must = job.must /\ j.clean = job.clean
    BY <1>1 DEF j, Job
  <2> QED
    BY <1>1, <2>4, <2>5, <2>6, <2>7, SyncGoesOn
<1>6. CASE EndOfCells(w)
  <2> DEFINE j == [job EXCEPT !.step = AfterSync(w)]
  <2>1. SetJob(w, j) /\ job.step = "fetch" /\ Match(w) = {} /\ UNCHANGED rows
    BY <1>6 DEF EndOfCells
  <2>2. j \in Job
    BY <1>1 DEF Job, AfterSync
  <2>3. /\ j.kind = job.kind /\ j.target = job.target /\ j.events = job.events
        /\ j.must = job.must /\ j.clean = job.clean /\ j.step = AfterSync(w)
    BY <1>1 DEF Job
  <2> HIDE DEF j
  <2>4. ASSUME NEW t \in Live, Sought(w, t), Accounted(w, t) PROVE Accounted(w, t)'
    <3>1. HasRow(t) \/ t \in Match(w)
      BY <2>1, <2>4 DEF Accounted, Match, Sought
    <3>2. HasRow(t)'
      BY <1>4, <2>1, <3>1
    <3>3. jobs'[w].step = AfterSync(w)
      BY <1>2, <2>1, <2>3
    <3> QED
      BY <3>2, <3>3 DEF Accounted, AfterSync
  <2> QED
    BY <1>1, <2>1, <2>2, <2>3, <2>4, SyncGoesOn
<1>7. CASE SearchFails(w)
  <2>1. jobs'[w].clean = FALSE
    BY <1>1, <1>2, <1>7 DEF SearchFails, Job
  <2> QED
    BY <2>1 DEF SyncIsComplete
<1>8. ASSUME NEW c \in Txs, SkipCell(w, c) PROVE SyncIsComplete(w)'
  <2> DEFINE rest == job.page \ {c}
             j == [job EXCEPT !.page = rest, !.step = PastCell(rest)]
  <2>1. SetJob(w, j) /\ job.step = "cells" /\ txs[c].event \notin job.events /\ UNCHANGED rows
    BY <1>1, <1>8 DEF SkipCell, Job
  <2>2. j \in Job
    BY <1>1 DEF Job, PastCell
  <2>3. /\ j.kind = job.kind /\ j.target = job.target /\ j.events = job.events
        /\ j.must = job.must /\ j.clean = job.clean /\ j.step = PastCell(rest)
        /\ j.page = rest /\ j.cursor = job.cursor
    BY <1>1 DEF Job
  <2> HIDE DEF j
  <2>4. ASSUME NEW t \in Live, Sought(w, t), Accounted(w, t) PROVE Accounted(w, t)'
    <3>1. HasRow(t) \/ t > job.cursor \/ t \in rest
      BY <2>1, <2>4 DEF Accounted, Sought
    <3>2. HasRow(t)' \/ t > job.cursor \/ t \in rest
      BY <1>4, <2>1, <3>1
    <3>3. jobs'[w] = j
      BY <1>2, <2>1
    <3> QED
      BY <2>3, <3>2, <3>3 DEF Accounted, PastCell
  <2> QED
    BY <1>1, <2>1, <2>2, <2>3, <2>4, SyncGoesOn
<1>9. ASSUME NEW c \in Txs, LookupCell(w, c) PROVE SyncIsComplete(w)'
  <2>1. PICK b \in {0, BlockOf(c)} :
          SetJob(w, [job EXCEPT !.step = "store", !.cell = c, !.block = b])
    BY <1>9 DEF LookupCell
  <2> DEFINE j == [job EXCEPT !.step = "store", !.cell = c, !.block = b]
  <2>2. SetJob(w, j) /\ job.step = "cells" /\ UNCHANGED rows
    BY <1>9, <2>1 DEF LookupCell
  <2>3. b \in Nat
    BY DEF BlockOf, Committed, TypeOK, Tx
  <2>4. j \in Job
    BY <1>1, <2>3 DEF Job
  <2>5. /\ j.kind = job.kind /\ j.target = job.target /\ j.events = job.events
        /\ j.must = job.must /\ j.clean = job.clean /\ j.step = "store"
        /\ j.page = job.page /\ j.cursor = job.cursor
    BY <1>1 DEF Job
  <2> HIDE DEF j
  <2>6. ASSUME NEW t \in Live, Sought(w, t), Accounted(w, t) PROVE Accounted(w, t)'
    <3>1. HasRow(t)' \/ t > job.cursor \/ t \in job.page
      BY <1>4, <2>2, <2>6 DEF Accounted
    <3>2. jobs'[w] = j
      BY <1>2, <2>2
    <3> QED
      BY <2>5, <3>1, <3>2 DEF Accounted
  <2> QED
    BY <1>1, <2>2, <2>4, <2>5, <2>6, SyncGoesOn
<1>10. CASE StoreCell(w)
  <2> DEFINE page == job.page \ {job.cell}
             j == [job EXCEPT !.page = page, !.step = PastCell(page), !.cell = 0, !.block = 0]
  <2>1. CASE SetJob(w, [j EXCEPT !.clean = FALSE])
    <3>1. jobs'[w].clean = FALSE
      BY <1>1, <1>2, <2>1 DEF Job
    <3> QED
      BY <3>1 DEF SyncIsComplete
  <2>2. CASE StoreBadge(CellKey(job.cell), job.cell, job.block, "chain") /\ SetJob(w, j)
    <3>1. job.step = "store" /\ SetJob(w, j)
      BY <1>10, <2>2 DEF StoreCell
    <3>2. j \in Job
      BY <1>1 DEF Job, PastCell
    <3>3. /\ j.kind = job.kind /\ j.target = job.target /\ j.events = job.events
          /\ j.must = job.must /\ j.clean = job.clean /\ j.step = PastCell(page)
          /\ j.page = page /\ j.cursor = job.cursor
      BY <1>1 DEF Job
    <3> HIDE DEF j
    <3>4. DOMAIN rows' = DOMAIN rows \cup {KeyOf(job.cell)}
      BY <2>2 DEF StoreBadge, CellKey
    <3>5. ASSUME NEW t \in Live, Sought(w, t), Accounted(w, t) PROVE Accounted(w, t)'
      <4>1. HasRow(t) \/ t > job.cursor \/ t \in job.page
        BY <3>1, <3>5 DEF Accounted
      <4>2. HasRow(t) \/ t = job.cell => HasRow(t)'
        BY <1>3, <3>4 DEF HasRow
      <4>3. HasRow(t)' \/ t > job.cursor \/ t \in page
        BY <4>1, <4>2
      <4>4. jobs'[w] = j
        BY <1>2, <3>1
      <4> QED
        BY <3>3, <4>3, <4>4 DEF Accounted, PastCell
    <3> QED
      BY <1>1, <3>1, <3>2, <3>3, <3>5, SyncGoesOn
  <2> QED
    BY <1>10, <2>1, <2>2 DEF StoreCell
<1>11. CASE ReadRows(w)
  <2> DEFINE listed == {k \in DOMAIN rows : job.target \in {k[1], k[2]}}
             j == [job EXCEPT !.step = "done", !.result = listed]
  <2>1. SetJob(w, j) /\ job.step = "read" /\ w # Main
    BY <1>11 DEF ReadRows
  <2>2. j \in Job
    BY <1>1 DEF Job, TypeOK
  <2>3. /\ j.kind = job.kind /\ j.target = job.target /\ j.events = job.events
        /\ j.must = job.must /\ j.clean = job.clean /\ j.step = "done" /\ j.result = listed
    BY <1>1 DEF Job
  <2>4. ASSUME NEW t \in Live, Sought(w, t), Accounted(w, t) PROVE Accounted(w, t)'
    <3>1. KeyOf(t) \in DOMAIN rows
      BY <2>1, <2>4 DEF Accounted, HasRow
    <3>2. UNCHANGED <<rows, txs>> /\ j.target = job.target
      BY <1>1, <1>11, <2>3 DEF ReadRows
    <3>3. job.target \in {txs[t].event, txs[t].holder} => KeyOf(t) \in listed
      BY <3>1 DEF KeyOf
    <3>4. jobs'[w] = j
      BY <1>2, <2>1
    <3> HIDE DEF j, listed
    <3> QED
      BY <1>3, <2>1, <2>3, <3>1, <3>2, <3>3, <3>4 DEF Accounted, HasRow
  <2> HIDE DEF j
  <2> QED
    BY <1>1, <2>1, <2>2, <2>3, <2>4, SyncGoesOn
<1>12. CASE ReadFails(w)
  <2>1. jobs'[w].clean = FALSE
    BY <1>1, <1>2, <1>12 DEF ReadFails, Job
  <2> QED
    BY <2>1 DEF SyncIsComplete
<1> QED
  BY <1>5, <1>6, <1>7, <1>8, <1>9, <1>10, <1>11, <1>12 DEF SyncStep

LEMMA CompleteStep == IInv /\ SyncsAreComplete /\ [Next]_vars => SyncsAreComplete'
<1> SUFFICES ASSUME IInv, SyncsAreComplete, [Next]_vars PROVE SyncsAreComplete'
  OBVIOUS
<1> USE DEF IInv
<1>1. ASSUME NEW wiped \in BOOLEAN, Restart(wiped) PROVE SyncsAreComplete'
  BY <1>1 DEF Restart, NoJobs, IdleJob, SyncsAreComplete, SyncIsComplete
<1> SUFFICES ASSUME \A wiped \in BOOLEAN : ~Restart(wiped) PROVE SyncsAreComplete'
  BY <1>1
<1>2. DOMAIN rows \subseteq DOMAIN rows'
  BY RowsStay
<1>3. CASE UNCHANGED jobs
  BY <1>2, <1>3, SyncAtRest DEF SyncsAreComplete
<1>4. ASSUME NEW w \in Tasks, SyncIsComplete(w)', \A v \in Tasks \ {w} : jobs'[v] = jobs[v]
      PROVE  SyncsAreComplete'
  BY <1>2, <1>4, OneSyncMoves
<1>5. Main \in Tasks /\ \A r \in Requests : r \in Tasks /\ r # Main
  BY DEF Tasks
<1>6. CASE StartRehydrate
  <2>1. SyncIsComplete(Main)' /\ \A v \in Tasks \ {Main} : jobs'[v] = jobs[v]
    BY <1>5, <1>6, SyncBegins DEF StartRehydrate, RestUnchanged, TypeOK
  <2> QED
    BY <1>4, <1>5, <2>1
<1>7. CASE RehydrateMapFails
  <2>1. UnmappedJob("startup", Main, "done").clean = FALSE
    BY DEF UnmappedJob, SyncJob
  <2>2. SyncIsComplete(Main)' /\ \A v \in Tasks \ {Main} : jobs'[v] = jobs[v]
    BY <1>5, <1>7, <2>1, UncleanIsComplete DEF RehydrateMapFails
  <2> QED
    BY <1>4, <1>5, <2>2
<1>8. ASSUME NEW r \in Requests, NEW a \in Addresses, StartByAddress(r, a)
      PROVE  SyncsAreComplete'
  <2>1. SyncIsComplete(r)' /\ \A v \in Tasks \ {r} : jobs'[v] = jobs[v]
    BY <1>5, <1>8, SyncBegins DEF StartByAddress, RestUnchanged, TypeOK
  <2> QED
    BY <1>4, <1>5, <2>1
<1>9. ASSUME NEW r \in Requests, NEW a \in Addresses, AddressMapFails(r, a)
      PROVE  SyncsAreComplete'
  <2>1. UnmappedJob("address", a, "read").clean = FALSE
    BY DEF UnmappedJob, SyncJob
  <2>2. SyncIsComplete(r)' /\ \A v \in Tasks \ {r} : jobs'[v] = jobs[v]
    BY <1>5, <1>9, <2>1, UncleanIsComplete DEF AddressMapFails
  <2> QED
    BY <1>4, <1>5, <2>2
<1>10. ASSUME NEW r \in Requests, NEW e \in Events, StartByEvent(r, e)
       PROVE  SyncsAreComplete'
  <2>1. SyncIsComplete(r)' /\ \A v \in Tasks \ {r} : jobs'[v] = jobs[v]
    BY <1>5, <1>10, SyncBegins DEF StartByEvent, RestUnchanged
  <2> QED
    BY <1>4, <1>5, <2>1
<1>11. ASSUME NEW w \in Tasks, SyncStep(w) PROVE SyncsAreComplete'
  <2>1. \A v \in Tasks \ {w} : jobs'[v] = jobs[v]
    BY <1>11 DEF TypeOK, SetJob, SyncStep, FetchPage, EndOfCells, SearchFails, SkipCell,
                 LookupCell, StoreCell, ReadRows, ReadFails
  <2>2. SyncIsComplete(w)'
    BY <1>11, SyncStepComplete DEF SyncsAreComplete
  <2> QED
    BY <1>4, <2>1, <2>2
<1> QED
  BY <1>3, <1>6, <1>7, <1>8, <1>9, <1>10, <1>11
  DEF Next, vars, SendMint, SendTransfer, Commit, EventStored, RecordBadge, BuildBadge,
      ConfirmStep, ConfirmTick, ConfirmLookup, ConfirmUpdate

LEMMA CompleteInvariance == Spec => []SyncsAreComplete
<1>1. Init => SyncsAreComplete
  BY DEF Init, NoJobs, IdleJob, SyncsAreComplete, SyncIsComplete
<1> QED
  BY <1>1, CompleteStep, Inductive, PTL DEF Spec

\* After a sync that went well every badge that was live when it began and still
\* is has its row, and the response lists it for the form of the address that
\* the sync stores: for pages of any size, however the chain moves between them
\* and whatever the forms of addresses are.
THEOREM ResponsesAreComplete == Spec => []ResponseComplete
<1>1. SyncsAreComplete => ResponseComplete
  BY TasksAssumption
  DEF SyncsAreComplete, SyncIsComplete, Accounted, HasRow, ResponseComplete, Tasks
<1> QED
  BY <1>1, CompleteInvariance, PTL

\* A rehydration that went well leaves a row for every badge of a known event.
THEOREM RehydrationsAreComplete == Spec => []RehydrateComplete
<1>1. SyncsAreComplete => RehydrateComplete
  BY DEF SyncsAreComplete, SyncIsComplete, Accounted, HasRow, RehydrateComplete, Tasks
<1> QED
  BY <1>1, CompleteInvariance, PTL

-----------------------------------------------------------------------------
(***************************************************************************)
(* Progress of the page loop.  A task fetches only when its page is used   *)
(* up, and what it stores is a cell of its page: so every step inside the  *)
(* loop moves the cursor forward or makes the page smaller.                *)
(***************************************************************************)
PageIsKept(j) ==
  /\ j.step = "fetch" => j.page = {}
  /\ j.step = "store" => j.cell \in j.page

PagesAreKept == \A w \in Tasks : PageIsKept(jobs[w])

\* Outside the loop: the job of a new process, of a sync that begins, of one
\* that could not begin.
LEMMA NewJobLoops ==
  ASSUME NEW kind, NEW target, NEW es, NEW first \in {"fetch", "read", "done"}
  PROVE  /\ PageIsKept(SyncJob(kind, target, es, first))
         /\ first # "fetch" => /\ PageIsKept(UnmappedJob(kind, target, first))
                               /\ UnmappedJob(kind, target, first).step \notin Looping
<1>1. /\ SyncJob(kind, target, es, first).step = first
      /\ SyncJob(kind, target, es, first).page = {}
      /\ UnmappedJob(kind, target, first).step = first
      /\ UnmappedJob(kind, target, first).page = {}
  BY DEF SyncJob, UnmappedJob
<1> QED
  BY <1>1 DEF PageIsKept, Looping

LEMMA SyncStepLoops ==
  ASSUME TypeOK, NEW w \in Tasks, PageIsKept(jobs[w]), SyncStep(w)
  PROVE  PageIsKept(jobs'[w]) /\ LoopAdvances(w)
<1> DEFINE job == jobs[w]
<1> USE DEF LoopAdvances, Looping
<1>1. job \in Job
  BY DEF TypeOK
<1>2. ASSUME NEW j, SetJob(w, j) PROVE jobs'[w] = j
  BY <1>2 DEF SetJob, TypeOK
<1>3. CASE FetchPage(w)
  <2>1. PICK page \in SUBSET Match(w) :
          /\ FirstPage(Match(w), page)
          /\ \E c \in CursorAfter(w, page) :
               SetJob(w, [job EXCEPT !.step = "cells", !.page = page, !.cursor = c])
    BY <1>3 DEF FetchPage
  <2>2. PICK c \in CursorAfter(w, page) :
          SetJob(w, [job EXCEPT !.step = "cells", !.page = page, !.cursor = c])
    BY <2>1
  <2>3. /\ jobs'[w].step = "cells" /\ jobs'[w].page = page /\ jobs'[w].cursor = c
    BY <1>1, <1>2, <2>2 DEF Job
  <2>4. job.page = {} /\ page # {}
    BY <1>3, <2>1 DEF FetchPage, PageIsKept, FirstPage
  <2>5. ASSUME NEW d \in page PROVE job.cursor < d /\ d <= c
    BY <1>1 DEF Match, Live, Committed, TypeOK, CursorAfter, Job
  <2> QED
    BY <2>3, <2>4, <2>5 DEF PageIsKept, NewPage
<1>4. CASE EndOfCells(w) \/ SearchFails(w) \/ ReadRows(w) \/ ReadFails(w)
  <2>1. jobs'[w].step \in {"read", "done"}
    <3>1. CASE EndOfCells(w)
      <4>1. jobs'[w] = [job EXCEPT !.step = AfterSync(w)]
        BY <1>2, <3>1 DEF EndOfCells
      <4> QED
        BY <1>1, <4>1 DEF AfterSync, Job
    <3>2. CASE SearchFails(w)
      <4>1. jobs'[w] = [job EXCEPT !.step = AfterSync(w), !.clean = FALSE]
        BY <1>2, <3>2 DEF SearchFails
      <4> QED
        BY <1>1, <4>1 DEF AfterSync, Job
    <3>3. CASE ReadRows(w)
      <4> DEFINE listed == {k \in DOMAIN rows : job.target \in {k[1], k[2]}}
      <4>1. jobs'[w] = [job EXCEPT !.step = "done", !.result = listed]
        BY <1>2, <3>3 DEF ReadRows
      <4> HIDE DEF listed
      <4> QED
        BY <1>1, <4>1 DEF Job
    <3>4. CASE ReadFails(w)
      <4>1. jobs'[w] = [job EXCEPT !.step = "done", !.clean = FALSE]
        BY <1>2, <3>4 DEF ReadFails
      <4> QED
        BY <1>1, <4>1 DEF Job
    <3> QED
      BY <1>4, <3>1, <3>2, <3>3, <3>4
  <2> QED
    BY <2>1 DEF PageIsKept
<1>5. ASSUME NEW c \in Txs, SkipCell(w, c) PROVE PageIsKept(jobs'[w]) /\ LoopAdvances(w)
  <2> DEFINE rest == job.page \ {c}
  <2>1. SetJob(w, [job EXCEPT !.page = rest, !.step = PastCell(rest)]) /\ c \in job.page
    BY <1>1, <1>5 DEF SkipCell, IsNext, Job
  <2>2. jobs'[w].step = PastCell(rest) /\ jobs'[w].page = rest /\ jobs'[w].cursor = job.cursor
    BY <1>1, <1>2, <2>1 DEF Job
  <2> QED
    BY <2>1, <2>2 DEF PageIsKept, PastCell, SamePage
<1>6. ASSUME NEW c \in Txs, LookupCell(w, c) PROVE PageIsKept(jobs'[w]) /\ LoopAdvances(w)
  <2>1. PICK b \in {0, BlockOf(c)} :
          SetJob(w, [job EXCEPT !.step = "store", !.cell = c, !.block = b])
    BY <1>6 DEF LookupCell
  <2> DEFINE j == [job EXCEPT !.step = "store", !.cell = c, !.block = b]
  <2>a. /\ j.step = "store" /\ j.page = job.page /\ j.cursor = job.cursor
        /\ j.cell = c
    BY <1>1 DEF Job
  <2>b. jobs'[w] = j
    BY <1>2, <2>1
  <2> HIDE DEF j
  <2>2. /\ jobs'[w].step = "store" /\ jobs'[w].page = job.page /\ jobs'[w].cursor = job.cursor
        /\ jobs'[w].cell = c
    BY <2>a, <2>b
  <2>3. job.step = "cells" /\ c \in job.page
    BY <1>6 DEF LookupCell, IsNext
  <2> QED
    BY <2>2, <2>3 DEF PageIsKept, SamePage
<1>7. CASE StoreCell(w)
  <2> DEFINE page == job.page \ {job.cell}
             j == [job EXCEPT !.page = page, !.step = PastCell(page), !.cell = 0, !.block = 0]
  <2>1. SetJob(w, j) \/ SetJob(w, [j EXCEPT !.clean = FALSE])
    BY <1>7 DEF StoreCell
  <2>2. jobs'[w] = j \/ jobs'[w] = [j EXCEPT !.clean = FALSE]
    BY <1>2, <2>1
  <2>3. jobs'[w].step = PastCell(page) /\ jobs'[w].page = page /\ jobs'[w].cursor = job.cursor
    BY <1>1, <2>2 DEF Job
  <2>4. job.cell \in job.page
    BY <1>7 DEF StoreCell, PageIsKept
  <2> HIDE DEF j
  <2> QED
    BY <2>3, <2>4 DEF PageIsKept, PastCell, SamePage
<1> QED
  BY <1>3, <1>4, <1>5, <1>6, <1>7 DEF SyncStep

LEMMA LoopStep ==
  IInv /\ PagesAreKept /\ [Next]_vars => PagesAreKept' /\ \A w \in Tasks : LoopAdvances(w)
<1> SUFFICES ASSUME IInv, PagesAreKept, [Next]_vars, NEW w \in Tasks
             PROVE  PageIsKept(jobs'[w]) /\ LoopAdvances(w)
  BY DEF PagesAreKept
<1> USE DEF IInv
<1>0. PageIsKept(jobs[w])
  BY DEF PagesAreKept
<1>1. CASE jobs'[w] = jobs[w]
  BY <1>0, <1>1 DEF LoopAdvances
<1>2. ASSUME NEW wiped \in BOOLEAN, Restart(wiped)
      PROVE  PageIsKept(jobs'[w]) /\ LoopAdvances(w)
  <2>1. jobs'[w].step \in {"start", "done"}
    BY <1>2 DEF Restart, NoJobs, IdleJob
  <2> QED
    BY <2>1 DEF PageIsKept, LoopAdvances, Looping
<1>3. ASSUME NEW v \in Tasks, NEW j, SetJob(v, j), jobs[v].step \notin Looping, PageIsKept(j)
      PROVE  PageIsKept(jobs'[w]) /\ LoopAdvances(w)
  BY <1>1, <1>3 DEF SetJob, TypeOK, LoopAdvances
<1>4. Main \in Tasks /\ \A r \in Requests : r \in Tasks
  BY DEF Tasks
<1>5. CASE StartRehydrate \/ RehydrateMapFails
  BY <1>3, <1>4, <1>5, NewJobLoops DEF StartRehydrate, RehydrateMapFails, Looping
<1>6. ASSUME NEW r \in Requests, NEW a \in Addresses,
             StartByAddress(r, a) \/ AddressMapFails(r, a)
      PROVE  PageIsKept(jobs'[w]) /\ LoopAdvances(w)
  BY <1>3, <1>4, <1>6, NewJobLoops DEF StartByAddress, AddressMapFails, Looping
<1>7. ASSUME NEW r \in Requests, NEW e \in Events, StartByEvent(r, e)
      PROVE  PageIsKept(jobs'[w]) /\ LoopAdvances(w)
  BY <1>3, <1>4, <1>7, NewJobLoops DEF StartByEvent, Looping
<1>8. ASSUME NEW v \in Tasks, SyncStep(v)
      PROVE  PageIsKept(jobs'[w]) /\ LoopAdvances(w)
  <2>1. v # w => jobs'[w] = jobs[w]
    BY <1>8 DEF TypeOK, SetJob, SyncStep, FetchPage, EndOfCells, SearchFails, SkipCell,
                LookupCell, StoreCell, ReadRows, ReadFails
  <2> QED
    BY <1>0, <1>1, <1>8, <2>1, SyncStepLoops
<1>9. CASE UNCHANGED jobs
  BY <1>1, <1>9
<1> QED
  BY <1>2, <1>5, <1>6, <1>7, <1>8, <1>9
  DEF Next, vars, SendMint, SendTransfer, Commit, EventStored, RecordBadge, BuildBadge,
      ConfirmStep, ConfirmTick, ConfirmLookup, ConfirmUpdate

\* No sync goes over a cell twice or stands still in its loop: the safety of
\* "startup ends", for pages of any size and however the chain moves.
THEOREM LoopsAdvance == Spec => SyncsAdvance
<1>1. Init => PagesAreKept
  BY DEF Init, NoJobs, IdleJob, PagesAreKept, PageIsKept
<1>2. IInv /\ PagesAreKept /\ [Next]_vars => PagesAreKept'
  BY LoopStep
<1>3. IInv /\ PagesAreKept /\ [Next]_vars => [\A w \in Tasks : LoopAdvances(w)]_vars
  BY LoopStep
<1> QED
  BY <1>1, <1>2, <1>3, Inductive, PTL DEF Spec, SyncsAdvance
=============================================================================
