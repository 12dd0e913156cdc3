-------------------------- MODULE ContractService --------------------------
(***************************************************************************)
(* The transactions that a page builds (frontend/src/services/             *)
(* contract.service.ts, with the args of packages/ckb-presence/src/ckb.ts  *)
(* and sendTransaction of the wallet service), over the chain of CkbCells  *)
(* and the wallet of WalletSession.  A build makes a badge or an event     *)
(* anchor; each of its awaits lets the wallet change, other builds run and *)
(* the chain move on.  What is sent waits in the pool of the node: a block *)
(* may take it, another transaction replace it, or the pool drop it.  The  *)
(* library that picks cells, the wallet and the node are external.         *)
(***************************************************************************)
EXTENDS WalletSession, Sequences

CONSTANTS
  Scopes,     \* ids of events
  Builds,     \* bound: the transactions a page builds
  Funds,      \* how many plain cells the wallets start with
  MaxTxs,     \* bound: transactions of the chain
  Changes     \* bound: whether what is built leaves change, BOOLEAN or a part of it

ASSUME FundsAssumption == Funds \in Nat /\ MaxTxs \in Nat /\ Changes \subseteq BOOLEAN

VARIABLES
  height, cells, spent,  \* the chain of CkbCells
  pool,                  \* the builds whose transaction the node holds, in no block yet
  mined,                 \* the builds whose transaction a block has taken
  deployed,              \* CONTRACTS_DEPLOYED, which the build of the page fixes
  builds                 \* the locals of mintBadge and createEventAnchor

cellVars == <<height, cells, spent>>
chainVars == <<height, cells, spent, pool, mined, deployed>>
contractVars == <<height, cells, spent, pool, mined, deployed, builds>>

Chain == INSTANCE CkbCells WITH
  Addresses <- Accounts, Locks <- Accounts, Data <- {"data"},
  MaxInputs <- 3, MaxOutputs <- 2

NoId == <<>>
Unused == [kind |-> "none", step |-> "unused", scope |-> "none", who |-> NoOne,
           signer |-> NoOne, ins |-> <<>>, id |-> NoId, change |-> FALSE]

\* A call that has failed leaves nothing behind.
Over(step) == [Unused EXCEPT !.step = step]

ContractInit ==
  /\ height = 0
  /\ spent = {}
  /\ \E owner \in [1..Funds -> Accounts] :
       cells = [o \in {0} \X (1..Funds) |->
                  [type |-> Chain!NoType, lock |-> owner[o[2]], data |-> "data"]]
  /\ pool = {}
  /\ mined = {}
  /\ deployed \in BOOLEAN
  /\ builds = [b \in Builds |-> Unused]

\* The part of a build up to its first await: without contracts it only waits,
\* else no wallet is an error and a badge keeps the signer it finds here.
Begun(kind, scope, who) ==
  [Unused EXCEPT !.kind = kind, !.scope = scope, !.who = who, !.signer = signer,
                 !.step = IF ~deployed THEN "simulate"
                          ELSE IF IsConnected THEN "build" ELSE "failed"]

\* 1.5 s later a random hash is returned; nothing is built, signed or sent.
Simulate(b) ==
  /\ builds[b].step = "simulate"
  /\ builds' = [builds EXCEPT ![b].step = "simulated"]
  /\ UNCHANGED chainVars

\* Mutant: every transaction is sent by the wallet service, which looks for the
\* signer when it starts.
CurrentSigner(b) == signer

\* mintBadge completes and sends with the signer it began with; an anchor goes
\* through sendTransaction of the wallet service, which reads the signer now.
SignerOf(b) == IF builds[b].kind = "badge" THEN builds[b].signer ELSE signer

Plain(a) == {o \in Chain!Live : cells[o].type = Chain!NoType /\ cells[o].lock = a}

\* Mutant: the id is taken from the last input.
LastInputId(ins) == Chain!TypeId(ins[Len(ins)], 1)

\* The id of a badge: first input, first output.
TypeIdOf(ins) == Chain!TypeId(ins[1], 1)

\* The skeleton is there: completeInputsByCapacity picks plain cells of the
\* signer, as many as needed; then the id is computed and put into the args.
CompleteInputs(b) ==
  /\ builds[b].step = "build"
  /\ \E ins \in Chain!Tuples(Plain(SignerOf(b)), 2) :
       /\ \A i, j \in DOMAIN ins : ins[i] = ins[j] => i = j
       /\ builds' = [builds EXCEPT ![b].step = "fee", ![b].signer = SignerOf(b), ![b].ins = ins,
                                   ![b].id = IF builds[b].kind = "badge" THEN TypeIdOf(ins) ELSE NoId]
  /\ UNCHANGED chainVars

\* completeFeeBy may add an input at the end, and a change output after the first.
CompleteFee(b) ==
  /\ builds[b].step = "fee"
  /\ \E change \in Changes :
       \E more \in {<<>>} \cup {<<o>> : o \in Plain(builds[b].signer)} :
         /\ \A i \in DOMAIN builds[b].ins : more # <<builds[b].ins[i]>>
         /\ builds' = [builds EXCEPT ![b].step = "send", ![b].change = change,
                                     ![b].ins = @ \o more]
  /\ UNCHANGED chainVars

\* No funds or no answer from the node: the error is mapped for the caller.
BuildFails(b) ==
  /\ builds[b].step \in {"build", "fee"}
  /\ builds' = [builds EXCEPT ![b] = Over("failed")]
  /\ UNCHANGED chainVars

Artifact(b) ==
  LET build == builds[b] IN
  IF build.kind = "badge"
    THEN [code |-> "badge", id |-> build.id, scope |-> build.scope, who |-> build.who]
    ELSE [code |-> "anchor", scope |-> build.scope, who |-> build.who]

Outputs(b) ==
  <<[type |-> Artifact(b), lock |-> builds[b].who, data |-> "data"]>>
  \o IF builds[b].change
       THEN <<[type |-> Chain!NoType, lock |-> builds[b].signer, data |-> "data"]>>
       ELSE <<>>

\* The pending transactions that use an input of b.
Rivals(b) ==
  {a \in pool : \E i \in DOMAIN builds[a].ins, j \in DOMAIN builds[b].ins :
                  builds[a].ins[i] = builds[b].ins[j]}

\* The user signs and the node takes the transaction into its pool, in the place
\* of those it conflicts with; the hash is back before any block has it.
SendTransaction(b) ==
  /\ builds[b].step = "send"
  /\ Chain!InputsAreLive(builds[b].ins)
  /\ Chain!ScriptsAccept(builds[b].ins, Outputs(b))
  /\ builds' = [builds EXCEPT ![b].step = "sent"]
  /\ pool' = (pool \ Rivals(b)) \cup {b}
  /\ UNCHANGED <<cellVars, mined, deployed>>

\* A block takes a pending transaction.
Mine(b) ==
  /\ b \in pool
  /\ Chain!Submit(builds[b].ins, Outputs(b))
  /\ pool' = pool \ {b}
  /\ mined' = mined \cup {b}
  /\ UNCHANGED <<deployed, builds>>

\* The pool gives a pending transaction up: its time is over or there is no room.
Drop(b) ==
  /\ b \in pool
  /\ pool' = pool \ {b}
  /\ UNCHANGED <<cellVars, mined, deployed, builds>>

\* The user declines, or the node rejects.  mintBadge returns the promise of
\* the send without awaiting it, so this error leaves its catch unmapped.
SendRejected(b) ==
  /\ builds[b].step = "send"
  /\ builds' = [builds EXCEPT ![b] = Over(IF builds[b].kind = "badge" THEN "escaped" ELSE "failed")]
  /\ UNCHANGED chainVars

ContractNext ==
  \E b \in Builds :
    \/ Simulate(b)
    \/ CompleteInputs(b) \/ CompleteFee(b) \/ BuildFails(b)
    \/ SendTransaction(b) \/ SendRejected(b)
    \/ Mine(b) \/ Drop(b)

\* What is ready to be sent is accepted by the scripts as long as its inputs
\* are live, whatever inputs and outputs were completed: the type id is that of
\* the final first input and of the output that carries it.
BuiltIsAccepted ==
  \A b \in Builds :
    builds[b].step = "send" /\ Chain!InputsAreLive(builds[b].ins)
      => Chain!ScriptsAccept(builds[b].ins, Outputs(b))

\* A badge is paid for and signed by the account that it names, however the
\* wallet changes between the awaits of its build.
RecipientSigns ==
  \A b \in Builds :
    builds[b].kind = "badge" /\ builds[b].step \in {"fee", "send", "sent"}
      => builds[b].signer = builds[b].who

ContractTypeOK ==
  /\ Chain!TypeOK
  /\ pool \subseteq Builds /\ mined \subseteq Builds /\ deployed \in BOOLEAN
  /\ \A b \in Builds :
       /\ builds[b].kind \in {"none", "badge", "anchor"}
       /\ builds[b].step \in {"unused", "timer", "simulate", "simulated", "build", "fee",
                             "send", "sent", "failed", "escaped"}
       /\ builds[b].who \in Accounts \cup {NoOne}
       /\ builds[b].signer \in Accounts \cup {NoOne}
=============================================================================
