------------------------------ MODULE CkbCells ------------------------------
(***************************************************************************)
(* The cells of the CKB chain under the two type scripts of this           *)
(* repository: the DOB badge (contracts/dob-badge) and the event anchor    *)
(* (contracts/event-anchor).  A cell is made by one transaction and spent  *)
(* by at most one; the chain takes a transaction when its inputs are live  *)
(* and every type script that an input or an output carries accepts it.    *)
(* Cells, inputs and the order of transactions are the chain's (external); *)
(* what the scripts accept is translated from their source.                *)
(***************************************************************************)
EXTENDS Naturals

CONSTANTS
  Scopes,      \* hashes of scope ids
  Addresses,   \* hashes of recipient and creator addresses
  Locks,       \* lock scripts: the owner of a cell
  Data,        \* contents of a cell
  Funds,       \* how many plain cells the chain starts with
  MaxTxs,      \* bound: transactions after the first
  MaxInputs,   \* bound: inputs of a transaction
  MaxOutputs   \* bound: outputs of a transaction

ASSUME SizesAssumption ==
  Funds \in Nat /\ MaxTxs \in Nat /\ MaxInputs \in Nat /\ MaxOutputs \in Nat

VARIABLES
  height,  \* how many transactions the chain has taken
  cells,   \* every cell ever made, by out point <<transaction, position>>
  spent    \* the out points that a transaction used as input

vars == <<height, cells, spent>>

OutPoints == Nat \X Nat

(***************************************************************************)
(* A type id stands for blake2b(first input, output position): different   *)
(* inputs or positions give different ids.                                 *)
(***************************************************************************)
TypeIds == OutPoints \X Nat

Badge == [code : {"badge"}, id : TypeIds, scope : Scopes, who : Addresses]
Anchor == [code : {"anchor"}, scope : Scopes, who : Addresses]
NoType == [code |-> "none"]
Cell == [type : Badge \cup Anchor \cup {NoType}, lock : Locks, data : Data]

Live == DOMAIN cells \ spent
BadgeCells == {o \in DOMAIN cells : cells[o].type.code = "badge"}
AnchorCells == {o \in DOMAIN cells : cells[o].type.code = "anchor"}

Tuples(S, n) == UNION {[1..k -> S] : k \in 1..n}

(***************************************************************************)
(* The cells of a transaction that carry type script s.                    *)
(***************************************************************************)
GroupInput(s, ins) == {i \in DOMAIN ins : cells[ins[i]].type = s}
GroupOutput(s, outs) == {j \in DOMAIN outs : outs[j].type = s}
AtMostOne(group) == \A i, j \in group : i = j

TypeId(first, position) == <<first, position>>

\* Mutant: a second output with the same script is not rejected.
BadgeInputsOnly(s, ins, outs) ==
  /\ AtMostOne(GroupInput(s, ins))
  /\ GroupInput(s, ins) = {} =>
       \E j \in GroupOutput(s, outs) : s.id = TypeId(ins[1], j)

\* Mutant: the type id is not recomputed when a badge is minted.
BadgeNoTypeId(s, ins, outs) ==
  AtMostOne(GroupInput(s, ins)) /\ AtMostOne(GroupOutput(s, outs))

\* check_truncated_type_id: one cell on each side at most, and a mint (no
\* input) must carry the type id of this transaction.
BadgeAccepts(s, ins, outs) ==
  /\ AtMostOne(GroupInput(s, ins))
  /\ AtMostOne(GroupOutput(s, outs))
  /\ GroupInput(s, ins) = {} =>
       \E j \in GroupOutput(s, outs) : s.id = TypeId(ins[1], j)

\* Mutant: inputs are not counted.
AnchorOutputsOnly(s, ins, outs) == \E j \in DOMAIN outs : GroupOutput(s, outs) = {j}

\* Exactly one output with these args, and none among the inputs: an anchor
\* can be made, and never modified or destroyed.
AnchorAccepts(s, ins, outs) ==
  /\ \E j \in DOMAIN outs : GroupOutput(s, outs) = {j}
  /\ GroupInput(s, ins) = {}

TypeScripts(ins, outs) ==
  {cells[ins[i]].type : i \in DOMAIN ins} \cup {outs[j].type : j \in DOMAIN outs}

ScriptsAccept(ins, outs) ==
  \A s \in TypeScripts(ins, outs) :
    /\ s.code = "badge" => BadgeAccepts(s, ins, outs)
    /\ s.code = "anchor" => AnchorAccepts(s, ins, outs)

InputsAreLive(ins) ==
  /\ \A i \in DOMAIN ins : ins[i] \in Live
  /\ \A i, j \in DOMAIN ins : ins[i] = ins[j] => i = j

(***************************************************************************)
(* Transactions.                                                           *)
(***************************************************************************)
Init ==
  /\ height = 0
  /\ spent = {}
  /\ \E owner \in [1..Funds -> Locks], content \in [1..Funds -> Data] :
       cells = [o \in {0} \X (1..Funds) |->
                  [type |-> NoType, lock |-> owner[o[2]], data |-> content[o[2]]]]

\* Mutant: the cells that a transaction spends are forgotten.
SubmitAndPrune(ins, outs) ==
  /\ height < MaxTxs
  /\ InputsAreLive(ins)
  /\ ScriptsAccept(ins, outs)
  /\ height' = height + 1
  /\ spent' = spent \cup {ins[i] : i \in DOMAIN ins}
  /\ cells' = [o \in (Live \ spent') \cup {<<height + 1, j>> : j \in DOMAIN outs} |->
                 IF o \in DOMAIN cells THEN cells[o] ELSE outs[o[2]]]

\* The chain takes a transaction that anyone built: a mint, a transfer, a burn,
\* an anchor, or several of these at once.
Submit(ins, outs) ==
  /\ height < MaxTxs
  /\ InputsAreLive(ins)
  /\ ScriptsAccept(ins, outs)
  /\ height' = height + 1
  /\ spent' = spent \cup {ins[i] : i \in DOMAIN ins}
  /\ cells' = [o \in DOMAIN cells \cup {<<height + 1, j>> : j \in DOMAIN outs} |->
                 IF o \in DOMAIN cells THEN cells[o] ELSE outs[o[2]]]

Outputs(ids) ==
  [type : [code : {"badge"}, id : ids, scope : Scopes, who : Addresses]
          \cup Anchor \cup {NoType},
   lock : Locks, data : Data]

\* The ids worth trying: those of this transaction and all that were used
\* before; a script rejects every other id like an old one.
CandidateIds(ins) ==
  {<<ins[1], j>> : j \in 1..MaxOutputs} \cup {cells[o].type.id : o \in BadgeCells}

Next ==
  \E ins \in Tuples(Live, MaxInputs) :
    \E outs \in Tuples(Outputs(CandidateIds(ins)), MaxOutputs) : Submit(ins, outs)

Spec == Init /\ [][Next]_vars

-----------------------------------------------------------------------------
\* Out points, scripts and cells have the shape the chain gives them.
TypeOK ==
  /\ height \in 0..MaxTxs
  /\ DOMAIN cells \subseteq (0..height) \X Nat
  /\ cells \in [DOMAIN cells -> Cell]
  /\ spent \subseteq DOMAIN cells

\* All cells that ever carried a type id carried the same script: a badge
\* keeps its scope and its recipient through every transfer, and no other
\* badge is ever minted under its id (check_truncated_type_id).
TypeIdNamesOneBadge ==
  \A o, p \in BadgeCells : cells[o].type.id = cells[p].type.id => cells[o].type = cells[p].type

\* An anchor, once on chain, stays live for ever (validate of event-anchor).
AnchorsStay == AnchorCells \cap spent = {}

(***************************************************************************)
(* The badge cells as the tokens of UniqueTokens: a type id is a token and *)
(* the out point that holds it is its place.                               *)
(***************************************************************************)
BornTokens == {cells[o].type.id : o \in BadgeCells}
HeldTokens == {<<cells[o].type.id, o>> : o \in BadgeCells \ spent}

Token == INSTANCE UniqueTokens WITH born <- BornTokens, held <- HeldTokens

\* Mints, transfers and burns, in any combination, keep the promise of
\* UniqueTokens: one live cell for each type id, and none after a burn.
BadgesAreUniqueTokens == Token!Spec

-----------------------------------------------------------------------------
\* What the documents say (SECURITY.md, "The contracts protect: one badge per
\* (scope_id, address)"): no two live badges name one scope and one address.
OneBadgePerScopeAndAddress ==
  \A o, p \in BadgeCells \ spent :
    /\ cells[o].type.scope = cells[p].type.scope
    /\ cells[o].type.who = cells[p].type.who
    => o = p
=============================================================================
