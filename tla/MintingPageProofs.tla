------------------------- MODULE MintingPageProofs -------------------------
(***************************************************************************)
(* Proofs about MintingPage for all sets of accounts, scopes and builds    *)
(* and for every length of the chain.  The argument: cells stay once they  *)
(* are made, so what a build found out about its inputs remains true while *)
(* wallets change and other builds run; a build keeps who it is for, and a *)
(* visit of the minting screen keeps the build that it has started.        *)
(***************************************************************************)
EXTENDS MintingPage, FiniteSetTheorems, SequenceTheorems, TLAPS

OutPoints == Nat \X Nat
Build == [kind : {"none", "badge", "anchor"},
          step : {"unused", "timer", "simulate", "simulated", "build", "fee", "send", "sent",
                  "failed", "escaped"},
          scope : Scopes \cup {"none"}, who : Accounts \cup {NoOne},
          signer : Accounts \cup {NoOne}, ins : Seq(OutPoints),
          id : (OutPoints \X Nat) \cup {NoId}, change : BOOLEAN]

Begins(build) == build.step \in {"build", "fee", "send", "sent"}
Simulates(build) == build.step \in {"simulate", "simulated"}
HasInputs(build) == build.step \in {"fee", "send", "sent"}
Plain_(o) == o \in DOMAIN cells /\ cells[o].type = Chain!NoType

\* A build names its kind and whom it is for from the start, a badge its signer
\* too; its inputs are plain cells, and its id is made from the first of them.
\* Without contracts there are only simulations.
Fits(build) ==
  /\ Simulates(build) => ~deployed
  /\ build.step = "timer" => build.scope \in Scopes
  /\ Begins(build) =>
       /\ deployed
       /\ build.kind \in {"badge", "anchor"}
       /\ build.scope \in Scopes
       /\ build.who \in Accounts
       /\ build.kind = "badge" => build.signer = build.who
  /\ HasInputs(build) =>
       /\ build.signer \in Accounts
       /\ Len(build.ins) \in 1..(IF build.step = "fee" THEN 2 ELSE 3)
       /\ \A i \in 1..Len(build.ins) : Plain_(build.ins[i])
       /\ build.kind = "badge" => build.id = <<build.ins[1], 1>>

Meet(a, b) ==
  \E i \in DOMAIN builds[a].ins, j \in DOMAIN builds[b].ins : builds[a].ins[i] = builds[b].ins[j]
OnCell(b) == \E o \in DOMAIN cells : cells[o].type = Artifact(b)

\* The pool holds sent transactions whose inputs are unspent, and no two that
\* use one cell: a block can take each, after any of the others.
PoolInv ==
  /\ pool \subseteq Builds /\ mined \subseteq Builds
  /\ \A b \in pool \cup mined : builds[b].step = "sent"
  /\ \A b \in pool : Chain!InputsAreLive(builds[b].ins)
  /\ \A a, b \in pool : Meet(a, b) => a = b
  /\ \A b \in mined : OnCell(b)

BuildsInv ==
  /\ Chain!TypeOK
  /\ deployed \in BOOLEAN
  /\ builds \in [Builds -> Build]
  /\ \A b \in Builds : Fits(builds[b])

ContractInv == BuildsInv /\ PoolInv

-----------------------------------------------------------------------------
(***************************************************************************)
(* The builds.                                                             *)
(***************************************************************************)
LEMMA CallShapes ==
  /\ Unused \in Build /\ Fits(Unused) /\ Unused.step = "unused"
  /\ \A step \in {"failed", "escaped"} :
       Over(step) \in Build /\ Fits(Over(step)) /\ Over(step).step = step
<1>1. <<>> \in Seq(OutPoints)
  OBVIOUS
<1>2. Unused \in Build /\ Unused.step = "unused"
  BY <1>1 DEF Unused, Build, NoId
<1>3. ASSUME NEW step \in {"failed", "escaped"}
      PROVE  Over(step) \in Build /\ Over(step).step = step
  BY <1>2 DEF Over, Build
<1> QED
  BY <1>2, <1>3 DEF Fits, Begins, Simulates, HasInputs

LEMMA ContractInitInv == ContractInit => ContractInv
<1> SUFFICES ASSUME ContractInit PROVE ContractInv
  OBVIOUS
<1>1. builds \in [Builds -> Build] /\ \A b \in Builds : builds[b] = Unused
  BY CallShapes DEF ContractInit
<1>2. PICK owner \in [1..Funds -> Accounts] :
        cells = [o \in {0} \X (1..Funds) |->
                   [type |-> Chain!NoType, lock |-> owner[o[2]], data |-> "data"]]
  BY DEF ContractInit
<1>3. DOMAIN cells = {0} \X (1..Funds)
  BY <1>2
<1>4. DOMAIN cells \subseteq (0..0) \X Nat
  BY <1>3, FundsAssumption
<1>5. ASSUME NEW o \in DOMAIN cells PROVE cells[o] \in Chain!Cell
  BY <1>2, <1>3, <1>5 DEF Chain!Cell
<1>6. cells \in [DOMAIN cells -> Chain!Cell]
  BY <1>2, <1>3, <1>5
<1>7. Chain!TypeOK
  BY <1>4, <1>6, FundsAssumption DEF ContractInit, Chain!TypeOK
<1> QED
  BY <1>1, <1>7, CallShapes DEF ContractInit, ContractInv, BuildsInv, PoolInv

\* What a build found out about itself remains true as long as cells stay.
LEMMA FitsKept ==
  ASSUME NEW build, Fits(build), deployed' = deployed,
         \A o \in DOMAIN cells : o \in DOMAIN cells' /\ cells'[o] = cells[o]
  PROVE  Fits(build)'
<1>1. \A o : Plain_(o) => Plain_(o)'
  BY DEF Plain_, Chain!NoType
<1> QED
  BY <1>1 DEF Fits, Begins, Simulates, HasInputs

\* A build that has not been sent goes on: the chain and the pool stand still,
\* and the other builds are not touched.
LEMMA OthersFit ==
  ASSUME BuildsInv, cells' = cells, height' = height, spent' = spent, deployed' = deployed,
         NEW b \in Builds, NEW build \in Build,
         builds' = [builds EXCEPT ![b] = build], Fits(build)
  PROVE  BuildsInv'
<1> USE DEF BuildsInv
<1>1. Chain!TypeOK'
  BY DEF Chain!TypeOK
<1>2. builds' \in [Builds -> Build] /\ builds'[b] = build /\ \A a \in Builds \ {b} : builds'[a] = builds[a]
  OBVIOUS
<1>3. ASSUME NEW a \in Builds PROVE Fits(builds[a])'
  <2>1. PICK call : call = builds'[a]
    OBVIOUS
  <2>2. Fits(call)
    BY <1>2, <2>1
  <2>3. Fits(call)'
    BY <2>2, FitsKept
  <2> QED
    BY <2>1, <2>3 DEF Fits, Plain_, Begins, Simulates, HasInputs
<1> QED
  BY <1>1, <1>2, <1>3

LEMMA OthersFitAtRest ==
  ASSUME ContractInv, UNCHANGED chainVars, NEW b \in Builds, NEW build \in Build,
         builds' = [builds EXCEPT ![b] = build], Fits(build), builds[b].step # "sent"
  PROVE  ContractInv'
<1>1. BuildsInv'
  BY OthersFit DEF ContractInv, chainVars
<1>2. \A a \in pool \cup mined : builds'[a] = builds[a]
  BY DEF ContractInv, PoolInv, BuildsInv
<1>3. PoolInv'
  <2>1. \A a \in mined : OnCell(a)'
    BY <1>2 DEF ContractInv, PoolInv, OnCell, Artifact, chainVars
  <2>2. \A a \in pool : Chain!InputsAreLive(builds[a].ins)'
    BY <1>2 DEF ContractInv, PoolInv, Chain!InputsAreLive, Chain!Live, chainVars
  <2>3. \A a, c \in pool : Meet(a, c)' => a = c
    BY <1>2 DEF ContractInv, PoolInv, Meet
  <2> QED
    BY <1>2, <2>1, <2>2, <2>3 DEF ContractInv, PoolInv, chainVars
<1> QED
  BY <1>1, <1>3 DEF ContractInv

\* What CompleteInputs picks: one or two plain cells of the signer.
LEMMA PickedInputs ==
  ASSUME Chain!TypeOK, NEW a, NEW ins \in Chain!Tuples(Plain(a), 2)
  PROVE  /\ ins \in Seq(OutPoints)
         /\ Len(ins) \in 1..2
         /\ \A i \in 1..Len(ins) : Plain_(ins[i])
         /\ ins[1] \in OutPoints
         /\ a \in Accounts
<1>1. PICK k \in 1..2 : ins \in [1..k -> Plain(a)]
  BY DEF Chain!Tuples
<1>2. \A o \in Plain(a) : Plain_(o) /\ o \in OutPoints /\ cells[o].lock = a
  BY DEF Plain, Plain_, Chain!Live, Chain!TypeOK, OutPoints
<1>3. \A o \in Plain(a) : a \in Accounts
  BY <1>2 DEF Plain_, Chain!TypeOK, Chain!Cell
<1>4. ins \in Seq(OutPoints) /\ Len(ins) = k
  <2>1. k \in Nat /\ ins \in [1..k -> OutPoints]
    BY <1>1, <1>2
  <2> QED
    BY <2>1
<1> QED
  BY <1>1, <1>2, <1>3, <1>4

LEMMA CompleteInputsInv ==
  ASSUME ContractInv, WalletTypeOK, NEW b \in Builds, CompleteInputs(b)
  PROVE  ContractInv'
<1> USE DEF ContractInv, BuildsInv
<1>1. PICK ins \in Chain!Tuples(Plain(SignerOf(b)), 2) :
        builds' = [builds EXCEPT ![b].step = "fee", ![b].signer = SignerOf(b), ![b].ins = ins,
                                 ![b].id = IF builds[b].kind = "badge" THEN TypeIdOf(ins) ELSE NoId]
  BY DEF CompleteInputs
<1> DEFINE build == [builds[b] EXCEPT !.step = "fee", !.signer = SignerOf(b), !.ins = ins,
                                      !.id = IF builds[b].kind = "badge" THEN TypeIdOf(ins) ELSE NoId]
<1>2. builds' = [builds EXCEPT ![b] = build]
  BY <1>1
<1>3. TypeIdOf(ins) = <<ins[1], 1>>
  BY DEF TypeIdOf, Chain!TypeId
<1>4. /\ ins \in Seq(OutPoints) /\ Len(ins) \in 1..2 /\ ins[1] \in OutPoints
      /\ \A i \in 1..Len(ins) : Plain_(ins[i])
      /\ SignerOf(b) \in Accounts
  BY PickedInputs
<1>5. builds[b].step = "build" /\ builds[b] \in Build /\ Fits(builds[b])
  BY DEF CompleteInputs
<1>6. /\ build \in Build
      /\ build.step = "fee" /\ build.signer = SignerOf(b) /\ build.ins = ins
      /\ build.id = IF builds[b].kind = "badge" THEN <<ins[1], 1>> ELSE NoId
      /\ build.kind = builds[b].kind /\ build.scope = builds[b].scope /\ build.who = builds[b].who
  <2>1. (IF builds[b].kind = "badge" THEN TypeIdOf(ins) ELSE NoId) \in (OutPoints \X Nat) \cup {NoId}
    BY <1>3, <1>4
  <2> QED
    BY <1>3, <1>4, <1>5, <2>1 DEF Build
<1>7. build.kind = "badge" => build.signer = build.who
  BY <1>5, <1>6 DEF SignerOf, Fits, Begins
<1>8. Fits(build)
  BY <1>4, <1>5, <1>6, <1>7 DEF Fits, Begins, Simulates, HasInputs
<1> HIDE DEF build
<1> QED
  BY <1>2, <1>6, <1>8, OthersFitAtRest DEF CompleteInputs

LEMMA CompleteFeeInv ==
  ASSUME ContractInv, NEW b \in Builds, CompleteFee(b)
  PROVE  ContractInv'
<1> USE DEF ContractInv, BuildsInv
<1> DEFINE old == builds[b]
<1>1. PICK change \in Changes, more \in {<<>>} \cup {<<o>> : o \in Plain(old.signer)} :
        builds' = [builds EXCEPT ![b].step = "send", ![b].change = change, ![b].ins = @ \o more]
  BY DEF CompleteFee
<1> DEFINE build == [old EXCEPT !.step = "send", !.change = change, !.ins = old.ins \o more]
<1>2. builds' = [builds EXCEPT ![b] = build]
  BY <1>1
<1>3. old.step = "fee" /\ old \in Build /\ Fits(old)
  BY DEF CompleteFee
<1>4. old.ins \in Seq(OutPoints) /\ Len(old.ins) \in 1..2 /\ \A i \in 1..Len(old.ins) : Plain_(old.ins[i])
  BY <1>3 DEF Fits, HasInputs, Build
<1>5. \A o \in Plain(old.signer) : o \in OutPoints /\ Plain_(o)
  BY DEF Plain, Plain_, Chain!Live, Chain!TypeOK, OutPoints
<1>6. more \in Seq(OutPoints) /\ Len(more) \in 0..1 /\ \A i \in 1..Len(more) : Plain_(more[i])
  <2>1. CASE more = <<>>
    BY <2>1
  <2>2. ASSUME NEW o \in Plain(old.signer), more = <<o>>
        PROVE  more \in Seq(OutPoints) /\ Len(more) = 1 /\ \A i \in 1..Len(more) : Plain_(more[i])
    <3>1. Len(more) = 1 /\ more[1] = o /\ more \in Seq(OutPoints)
      BY <1>5, <2>2
    <3> QED
      BY <1>5, <3>1
  <2> QED
    BY <2>1, <2>2
<1>7. /\ old.ins \o more \in Seq(OutPoints)
      /\ Len(old.ins \o more) = Len(old.ins) + Len(more)
      /\ \A i \in 1..(Len(old.ins) + Len(more)) :
           (old.ins \o more)[i] = IF i <= Len(old.ins) THEN old.ins[i] ELSE more[i - Len(old.ins)]
  BY <1>4, <1>6, ConcatProperties
<1>8. Len(old.ins) \in Nat /\ Len(more) \in Nat
  BY <1>4, <1>6, LenProperties
<1>9. /\ Len(old.ins \o more) \in 1..3
      /\ (old.ins \o more)[1] = old.ins[1]
      /\ \A i \in 1..Len(old.ins \o more) : Plain_((old.ins \o more)[i])
  <2>1. Len(old.ins \o more) \in 1..3
    <3>1. \A m \in 1..2, n \in 0..1 : m + n \in 1..3
      OBVIOUS
    <3>2. Len(old.ins) \in 1..2 /\ Len(more) \in 0..1
      BY <1>4, <1>6
    <3>3. Len(old.ins \o more) = Len(old.ins) + Len(more)
      BY <1>7
    <3> HIDE DEF old
    <3> QED
      BY <3>1, <3>2, <3>3
  <2>2. (old.ins \o more)[1] = old.ins[1]
    BY <1>4, <1>6, <1>7, <1>8
  <2>3. ASSUME NEW i \in 1..Len(old.ins \o more)
        PROVE  Plain_((old.ins \o more)[i])
    <3>1. CASE i <= Len(old.ins)
      BY <1>4, <1>7, <1>8, <3>1
    <3>2. CASE ~(i <= Len(old.ins))
      <4>1. i - Len(old.ins) \in 1..Len(more)
        BY <1>7, <1>8, <3>2
      <4> QED
        BY <1>6, <1>7, <3>2, <4>1
    <3> QED
      BY <3>1, <3>2
  <2> QED
    BY <2>1, <2>2, <2>3
<1>10. /\ build \in Build
       /\ build.step = "send" /\ build.ins = old.ins \o more /\ build.signer = old.signer
       /\ build.id = old.id
       /\ build.kind = old.kind /\ build.scope = old.scope /\ build.who = old.who
  BY <1>3, <1>7, FundsAssumption DEF Build
<1>11. Fits(build)
  BY <1>3, <1>9, <1>10 DEF Fits, Begins, Simulates, HasInputs
<1> HIDE DEF build
<1> QED
  BY <1>2, <1>10, <1>11, OthersFitAtRest DEF CompleteFee

LEMMA CallEndsInv ==
  ASSUME ContractInv, NEW b \in Builds, BuildFails(b) \/ SendRejected(b)
  PROVE  ContractInv'
<1>1. PICK step \in {"failed", "escaped"} : builds' = [builds EXCEPT ![b] = Over(step)]
  BY DEF BuildFails, SendRejected
<1> QED
  BY <1>1, CallShapes, OthersFitAtRest DEF BuildFails, SendRejected

\* What a build sends: its artifact, and change or not.
LEMMA OutputFacts ==
  ASSUME NEW b \in Builds
  PROVE  /\ DOMAIN Outputs(b) = {1} \/ DOMAIN Outputs(b) = {1, 2}
         /\ Outputs(b)[1] = [type |-> Artifact(b), lock |-> builds[b].who, data |-> "data"]
         /\ 2 \in DOMAIN Outputs(b) =>
              Outputs(b)[2] = [type |-> Chain!NoType, lock |-> builds[b].signer, data |-> "data"]
<1> DEFINE first == [type |-> Artifact(b), lock |-> builds[b].who, data |-> "data"]
           second == [type |-> Chain!NoType, lock |-> builds[b].signer, data |-> "data"]
<1>1. CASE builds[b].change
  <2>1. Outputs(b) = <<first>> \o <<second>>
    BY <1>1 DEF Outputs
  <2> HIDE DEF first, second
  <2>2. <<first>> \in Seq({first, second}) /\ <<second>> \in Seq({first, second})
    OBVIOUS
  <2>3. Len(<<first>>) = 1 /\ Len(<<second>>) = 1 /\ <<first>>[1] = first /\ <<second>>[1] = second
    OBVIOUS
  <2>4. /\ Outputs(b) \in Seq({first, second}) /\ Len(Outputs(b)) = 2
        /\ Outputs(b)[1] = first /\ Outputs(b)[2] = second
    BY <2>1, <2>2, <2>3, ConcatProperties
  <2>5. DOMAIN Outputs(b) = 1..2
    BY <2>4
  <2> QED
    BY <2>4, <2>5 DEF first, second
<1>2. CASE ~builds[b].change
  <2>1. Outputs(b) = <<first>> \o <<>>
    BY <1>2 DEF Outputs
  <2> HIDE DEF first
  <2>2. Outputs(b) = <<first>>
    BY <2>1
  <2> QED
    BY <1>2, <2>2 DEF first
<1> QED
  BY <1>1, <1>2

LEMMA OutputsAreTuples ==
  ASSUME NEW b \in Builds
  PROVE  Outputs(b) = [j \in DOMAIN Outputs(b) |-> Outputs(b)[j]]
<1> DEFINE first == [type |-> Artifact(b), lock |-> builds[b].who, data |-> "data"]
           second == [type |-> Chain!NoType, lock |-> builds[b].signer, data |-> "data"]
<1>1. Outputs(b) = <<first>> \o (IF builds[b].change THEN <<second>> ELSE <<>>)
  BY DEF Outputs
<1> HIDE DEF first, second
<1>2. Outputs(b) \in Seq({first, second})
  <2>1. <<first>> \in Seq({first, second}) /\ <<second>> \in Seq({first, second})
        /\ <<>> \in Seq({first, second})
    OBVIOUS
  <2> QED
    BY <1>1, <2>1, ConcatProperties
<1> QED
  BY <1>2

LEMMA ArtifactFacts ==
  ASSUME builds \in [Builds -> Build], NEW b \in Builds, Fits(builds[b]), HasInputs(builds[b])
  PROVE  /\ Artifact(b) \in Chain!Badge \cup Chain!Anchor
         /\ Artifact(b) # Chain!NoType
         /\ Artifact(b).code = builds[b].kind
         /\ builds[b].kind = "badge" => Artifact(b).id = <<builds[b].ins[1], 1>>
<1>1. /\ builds[b].scope \in Scopes /\ builds[b].who \in Accounts
      /\ builds[b].kind \in {"badge", "anchor"}
      /\ builds[b].kind = "badge" => builds[b].id = <<builds[b].ins[1], 1>>
      /\ builds[b].ins[1] \in OutPoints
  <2>1. builds[b].ins \in Seq(OutPoints) /\ Len(builds[b].ins) >= 1
    BY DEF Fits, HasInputs, Build
  <2>2. builds[b].ins[1] \in OutPoints
    BY <2>1
  <2> QED
    BY <2>2 DEF Fits, HasInputs, Begins
<1>2. CASE builds[b].kind = "badge"
  <2>1. builds[b].id \in Chain!TypeIds
    BY <1>1, <1>2 DEF Chain!TypeIds, Chain!OutPoints, OutPoints
  <2>2. Artifact(b) = [code |-> "badge", id |-> builds[b].id, scope |-> builds[b].scope,
                       who |-> builds[b].who]
    BY <1>2 DEF Artifact
  <2> QED
    BY <1>1, <1>2, <2>1, <2>2 DEF Chain!Badge, Chain!NoType
<1>3. CASE builds[b].kind = "anchor"
  <2>1. Artifact(b) = [code |-> "anchor", scope |-> builds[b].scope, who |-> builds[b].who]
    BY <1>3 DEF Artifact
  <2> QED
    BY <1>1, <1>3, <2>1 DEF Chain!Anchor, Chain!NoType
<1> QED
  BY <1>1, <1>2, <1>3

LEMMA SimulateInv ==
  ASSUME ContractInv, NEW b \in Builds, Simulate(b)
  PROVE  ContractInv'
<1> USE DEF ContractInv, BuildsInv
<1>1. PICK build : build = [builds[b] EXCEPT !.step = "simulated"]
  OBVIOUS
<1>2. builds' = [builds EXCEPT ![b] = build] /\ builds[b].step = "simulate"
  BY <1>1 DEF Simulate
<1>3. build \in Build /\ build.step = "simulated"
  BY <1>1 DEF Build
<1>4. Fits(build)
  BY <1>2, <1>3 DEF Fits, Begins, Simulates, HasInputs
<1> QED
  BY <1>2, <1>3, <1>4, OthersFitAtRest DEF Simulate

LEMMA SendTransactionInv ==
  ASSUME ContractInv, NEW b \in Builds, SendTransaction(b)
  PROVE  ContractInv'
<1> USE DEF ContractInv
<1>1. PICK build : build = [builds[b] EXCEPT !.step = "sent"]
  OBVIOUS
<1>2. /\ builds[b].step = "send" /\ Fits(builds[b]) /\ builds[b] \in Build
      /\ builds' = [builds EXCEPT ![b] = build]
      /\ Chain!InputsAreLive(builds[b].ins)
      /\ pool' = (pool \ Rivals(b)) \cup {b} /\ mined' = mined
      /\ cells' = cells /\ height' = height /\ spent' = spent /\ deployed' = deployed
  BY <1>1 DEF SendTransaction, BuildsInv, cellVars
<1>3. /\ build \in Build
      /\ build.step = "sent" /\ build.ins = builds[b].ins /\ build.signer = builds[b].signer
      /\ build.id = builds[b].id
      /\ build.kind = builds[b].kind /\ build.scope = builds[b].scope /\ build.who = builds[b].who
  BY <1>1, <1>2 DEF Build
<1>4. Fits(build)
  BY <1>2, <1>3 DEF Fits, HasInputs, Begins, Simulates
<1>5. BuildsInv'
  BY <1>2, <1>3, <1>4, OthersFit
<1>6. b \notin pool \cup mined
  BY <1>2 DEF PoolInv
<1>7. /\ \A a \in Builds \ {b} : builds'[a] = builds[a]
      /\ builds'[b] = build /\ builds'[b].ins = builds[b].ins
  BY <1>2, <1>3 DEF BuildsInv
<1>8. PoolInv'
  <2>1. pool' \subseteq Builds /\ \A a \in pool' \cup mined' : builds'[a].step = "sent"
    BY <1>2, <1>3, <1>6, <1>7 DEF PoolInv
  <2>2. \A a \in pool' : Chain!InputsAreLive(builds[a].ins)'
    BY <1>2, <1>6, <1>7 DEF PoolInv, Chain!InputsAreLive, Chain!Live
  <2>3. \A a, c \in pool' : Meet(a, c)' => a = c
    <3>1. \A a \in pool \ Rivals(b) : ~Meet(a, b) /\ ~Meet(b, a)
      BY DEF Rivals, Meet
    <3>2. \A a, c \in pool' : Meet(a, c)' <=> Meet(a, c)
      BY <1>2, <1>6, <1>7 DEF Meet, PoolInv
    <3> QED
      BY <1>2, <3>1, <3>2 DEF PoolInv
  <2>4. \A a \in mined' : OnCell(a)'
    BY <1>2, <1>6, <1>7 DEF PoolInv, OnCell, Artifact
  <2> QED
    BY <1>2, <2>1, <2>2, <2>3, <2>4 DEF PoolInv
<1> QED
  BY <1>5, <1>8

\* What a block adds to the chain.
LEMMA MineFacts ==
  ASSUME ContractInv, NEW b \in Builds, Mine(b)
  PROVE  /\ Chain!TypeOK'
         /\ \A o \in DOMAIN cells : o \in DOMAIN cells' /\ cells'[o] = cells[o]
         /\ OnCell(b)'
<1> USE DEF ContractInv, BuildsInv
<1> DEFINE ins == builds[b].ins
           outs == Outputs(b)
<1>1. /\ Chain!Submit(ins, outs) /\ builds[b].step = "sent" /\ Fits(builds[b])
      /\ HasInputs(builds[b]) /\ builds' = builds
  BY DEF Mine, PoolInv, HasInputs
<1>4. /\ builds[b].who \in Accounts /\ builds[b].signer \in Accounts
  BY <1>1 DEF Fits, HasInputs, Begins
<1>b. /\ DOMAIN outs = {1} \/ DOMAIN outs = {1, 2}
      /\ outs[1] = [type |-> Artifact(b), lock |-> builds[b].who, data |-> "data"]
      /\ 2 \in DOMAIN outs =>
           outs[2] = [type |-> Chain!NoType, lock |-> builds[b].signer, data |-> "data"]
  BY OutputFacts
<1> HIDE DEF outs
<1>5. DOMAIN outs \subseteq Nat /\ 1 \in DOMAIN outs /\ outs[1].type = Artifact(b)
  BY <1>b
<1>6. \A j \in DOMAIN outs : outs[j] \in Chain!Cell
  <2>1. Artifact(b) \in Chain!Badge \cup Chain!Anchor
    BY <1>1, ArtifactFacts
  <2>2. outs[1] \in Chain!Cell
    BY <1>4, <1>b, <2>1 DEF Chain!Cell
  <2>3. 2 \in DOMAIN outs => outs[2] \in Chain!Cell
    BY <1>4, <1>b DEF Chain!Cell
  <2> QED
    BY <1>b, <2>2, <2>3
<1>7. /\ height \in Nat /\ height < MaxTxs /\ height' = height + 1
      /\ spent' = spent \cup {ins[i] : i \in DOMAIN ins}
      /\ DOMAIN cells' = DOMAIN cells \cup {<<height + 1, j>> : j \in DOMAIN outs}
      /\ cells' = [o \in DOMAIN cells \cup {<<height + 1, j>> : j \in DOMAIN outs} |->
                     IF o \in DOMAIN cells THEN cells[o] ELSE outs[o[2]]]
      /\ \A i \in DOMAIN ins : ins[i] \in DOMAIN cells
  BY <1>1 DEF Chain!Submit, Chain!InputsAreLive, Chain!Live, Chain!TypeOK
<1>8. \A j \in DOMAIN outs : <<height + 1, j>> \notin DOMAIN cells
  BY <1>7 DEF Chain!TypeOK
<1>9. \A o \in DOMAIN cells : o \in DOMAIN cells' /\ cells'[o] = cells[o]
  BY <1>7
<1>10. \A j \in DOMAIN outs : cells'[<<height + 1, j>>] = outs[j]
  BY <1>7, <1>8
<1>11. Chain!TypeOK'
  <2>1. height' \in 0..MaxTxs
    BY <1>7, FundsAssumption
  <2>2. DOMAIN cells' \subseteq (0..height') \X Nat
    BY <1>5, <1>7 DEF Chain!TypeOK
  <2>3. \A o \in DOMAIN cells' : cells'[o] \in Chain!Cell
    BY <1>6, <1>7, <1>9, <1>10 DEF Chain!TypeOK
  <2>4. cells' \in [DOMAIN cells' -> Chain!Cell]
    BY <1>7, <2>3
  <2>5. spent' \subseteq DOMAIN cells'
    BY <1>7, <1>9 DEF Chain!TypeOK
  <2> QED
    BY <2>1, <2>2, <2>4, <2>5 DEF Chain!TypeOK
<1>12. OnCell(b)'
  BY <1>1, <1>5, <1>7, <1>10 DEF OnCell, Artifact
<1> QED
  BY <1>9, <1>11, <1>12

LEMMA MineInv ==
  ASSUME ContractInv, NEW b \in Builds, Mine(b)
  PROVE  ContractInv'
<1> USE DEF ContractInv
<1>1. /\ b \in pool /\ builds' = builds /\ deployed' = deployed
      /\ pool' = pool \ {b} /\ mined' = mined \cup {b}
      /\ spent' = spent \cup {builds[b].ins[i] : i \in DOMAIN builds[b].ins}
  BY DEF Mine, Chain!Submit
<1>2. BuildsInv'
  <2>1. \A a \in Builds : Fits(builds[a])'
    <3>1. ASSUME NEW a \in Builds PROVE Fits(builds[a])'
      <4>1. PICK call : call = builds[a]
        OBVIOUS
      <4>2. Fits(call)'
        BY <1>1, <4>1, FitsKept, MineFacts DEF BuildsInv
      <4> QED
        BY <1>1, <4>1, <4>2
    <3> QED
      BY <3>1
  <2> QED
    BY <1>1, <2>1, MineFacts DEF BuildsInv
<1>3. PoolInv'
  <2>1. ASSUME NEW a \in pool' PROVE Chain!InputsAreLive(builds[a].ins)'
    <3>1. a \in pool /\ a # b /\ Chain!InputsAreLive(builds[a].ins) /\ ~Meet(a, b)
      BY <1>1, <2>1 DEF PoolInv
    <3>2. \A i \in DOMAIN builds[a].ins : builds[a].ins[i] \in DOMAIN cells' /\ builds[a].ins[i] \notin spent'
      BY <1>1, <3>1, MineFacts DEF Chain!InputsAreLive, Chain!Live, Meet
    <3> QED
      BY <1>1, <3>1, <3>2 DEF Chain!InputsAreLive, Chain!Live
  <2>2. ASSUME NEW a \in mined' PROVE OnCell(a)'
    <3>1. CASE a = b
      BY <3>1, MineFacts
    <3>2. CASE a # b
      <4>1. PICK o \in DOMAIN cells : cells[o].type = Artifact(a)
        BY <1>1, <2>2, <3>2 DEF PoolInv, OnCell
      <4>2. o \in DOMAIN cells' /\ cells'[o] = cells[o]
        BY MineFacts
      <4>3. Artifact(a)' = Artifact(a)
        BY <1>1 DEF Artifact
      <4> QED
        BY <4>1, <4>2, <4>3 DEF OnCell
    <3> QED
      BY <3>1, <3>2
  <2>3. \A a, c \in pool' : Meet(a, c)' => a = c
    BY <1>1 DEF PoolInv, Meet
  <2> QED
    BY <1>1, <2>1, <2>2, <2>3 DEF PoolInv
<1> QED
  BY <1>2, <1>3

LEMMA DropInv ==
  ASSUME ContractInv, NEW b \in Builds, Drop(b)
  PROVE  ContractInv'
<1>1. /\ builds' = builds /\ deployed' = deployed /\ mined' = mined /\ pool' = pool \ {b}
      /\ cells' = cells /\ height' = height /\ spent' = spent
  BY DEF Drop, cellVars
<1>2. BuildsInv'
  BY <1>1 DEF ContractInv, BuildsInv, Chain!TypeOK, Fits, Plain_, Begins, Simulates, HasInputs
<1>3. \A a \in mined : OnCell(a)'
  BY <1>1 DEF ContractInv, PoolInv, OnCell, Artifact
<1>4. PoolInv'
  BY <1>1, <1>3 DEF ContractInv, PoolInv, Chain!InputsAreLive, Chain!Live, Meet
<1> QED
  BY <1>2, <1>4 DEF ContractInv

LEMMA ContractStepInv == ContractInv /\ WalletTypeOK /\ ContractNext => ContractInv'
  BY SimulateInv, CompleteInputsInv, CompleteFeeInv, CallEndsInv, SendTransactionInv, MineInv, DropInv
  DEF ContractNext

-----------------------------------------------------------------------------
(***************************************************************************)
(* The screens.                                                            *)
(***************************************************************************)
Runs(build) == build.step = "timer" \/ Simulates(build) \/ Begins(build)
Ended == IF deployed THEN "sent" ELSE "simulated"

\* The panes that follow a confirmation belong to the build that it started,
\* which is for the event of the visit.
VisitFits ==
  /\ visit # Nothing <=> screen \in {"signing", "minting", "success"}
  /\ confirmed \subseteq {visit} \ {Nothing}
  /\ visit # Nothing /\ Runs(builds[visit]) => builds[visit].scope = event
  /\ screen = "success" => builds[visit].step = Ended

\* The backend has the event of a creation once it was posted, the page lists it
\* once the anchor is settled, and the form shows how far its creation is.
CreationFits(c) ==
  LET step == creations[c].step IN
  /\ step \in {"sign", "post"} => creations[c].creator \in Accounts
  /\ c \in created <=> step \in {"post", "anchor", "done", "lost"}
  /\ step = "done" => c \in listed
  /\ current = c =>
       /\ step \in {"sign", "post", "anchor"} => form = "creating"
       /\ step = "done" => form = "success"
       /\ step # "unused"

ScreenTypeOK ==
  /\ screen \in {"away", "confirm", "dialog", "signing", "minting", "success"}
  /\ event \in Scopes
  /\ visit \in Mints \cup {Nothing}
  /\ confirmed \subseteq Mints

CreateTypeOK ==
  /\ form \in {"form", "creating", "success"}
  /\ current \in Creations \cup {Nothing}
  /\ creations \in [Creations -> Creation]
  /\ created \subseteq Creations
  /\ listed \subseteq created

VisitInv == ScreenTypeOK /\ VisitFits
CreateInv == CreateTypeOK /\ \A c \in Creations : CreationFits(c)

\* The build of an event waits until the backend has answered.
AnchorsWait ==
  \A c \in Creations : creations[c].step \in {"unused", "sign", "post"} => builds[c].step = "unused"

IInv == WalletTypeOK /\ ContractInv /\ VisitInv /\ CreateInv /\ AnchorsWait

LEMMA BuildFacts ==
  /\ Mints \subseteq Builds /\ Creations \subseteq Builds
  /\ \A c \in Creations : c \notin Mints /\ c # Nothing
  /\ Nothing \notin Mints
  BY PageAssumption

LEMMA InitInv == Init => IInv
<1> SUFFICES ASSUME Init PROVE IInv
  OBVIOUS
<1>1. WalletTypeOK
  BY DEF Init, WalletInit, WalletTypeOK
<1>2. ContractInv
  BY ContractInitInv DEF Init
<1>3. VisitInv
  BY BuildFacts DEF Init, VisitInv, ScreenTypeOK, VisitFits
<1>4. creations \in [Creations -> Creation]
  BY DEF Init, Creation
<1>5. CreateInv
  BY <1>4, BuildFacts DEF Init, CreateInv, CreateTypeOK, CreationFits
<1>6. AnchorsWait
  BY BuildFacts DEF Init, ContractInit, AnchorsWait, Unused
<1> QED
  BY <1>1, <1>2, <1>3, <1>5, <1>6 DEF IInv

LEMMA WalletStepInv == WalletTypeOK /\ WalletNext => WalletTypeOK'
  BY DEF WalletTypeOK, WalletNext, OpenModal, CloseModal, SelectWallet, ConnectWallet, ConnectFails

\* What stands still keeps its invariant.
LEMMA WalletRest == WalletTypeOK /\ UNCHANGED walletVars => WalletTypeOK'
  BY DEF WalletTypeOK, walletVars

LEMMA ContractRest == ContractInv /\ UNCHANGED contractVars => ContractInv'
<1> SUFFICES ASSUME ContractInv, UNCHANGED contractVars PROVE ContractInv'
  OBVIOUS
<1>1. BuildsInv'
  BY DEF ContractInv, BuildsInv, contractVars, Chain!TypeOK, Fits, Plain_, Begins, Simulates, HasInputs
<1>2. \A a \in mined : OnCell(a)'
  BY DEF ContractInv, PoolInv, OnCell, Artifact, contractVars
<1>3. PoolInv'
  BY <1>2 DEF ContractInv, PoolInv, Chain!InputsAreLive, Chain!Live, Meet, contractVars
<1> QED
  BY <1>1, <1>3 DEF ContractInv

LEMMA CreateRest == CreateInv /\ UNCHANGED createVars => CreateInv'
  BY DEF CreateInv, CreateTypeOK, CreationFits, createVars

\* A visit is not disturbed as long as its build keeps its scope, and its end.
LEMMA VisitRest ==
  ASSUME VisitInv, UNCHANGED screenVars, deployed' = deployed,
         \A b \in Mints : /\ Runs(builds'[b]) => Runs(builds[b]) /\ builds'[b].scope = builds[b].scope
                          /\ builds[b].step = Ended => builds'[b].step = Ended
  PROVE  VisitInv'
<1>1. ScreenTypeOK'
  BY DEF VisitInv, ScreenTypeOK, screenVars
<1>2. visit # Nothing => visit \in Mints
  BY DEF VisitInv, ScreenTypeOK
<1>3. screen = "success" => visit # Nothing
  BY DEF VisitInv, VisitFits
<1>4. visit' # Nothing /\ Runs(builds'[visit']) => builds'[visit'].scope = event'
  BY <1>2 DEF VisitInv, VisitFits, screenVars
<1>5. screen' = "success" => builds'[visit'].step = Ended'
  BY <1>2, <1>3 DEF VisitInv, VisitFits, screenVars, Ended
<1> QED
  BY <1>1, <1>4, <1>5 DEF VisitInv, VisitFits, screenVars, Runs, Begins, Simulates

\* No step of a build changes its scope, and one that is sent or simulated is over.
LEMMA ContractKeeps ==
  ASSUME ContractInv, ContractNext, NEW a \in Builds
  PROVE  /\ Runs(builds'[a]) => Runs(builds[a]) /\ builds'[a].scope = builds[a].scope
         /\ builds[a].step = Ended => builds'[a].step = Ended
         /\ builds[a].step = "unused" => builds'[a].step = "unused"
<1> USE DEF ContractInv, BuildsInv
<1>1. PICK b \in Builds : \/ CompleteInputs(b) \/ CompleteFee(b) \/ BuildFails(b)
                          \/ SendTransaction(b) \/ SendRejected(b) \/ Simulate(b)
                          \/ Mine(b) \/ Drop(b)
  BY DEF ContractNext
<1>2. CASE a # b \/ Mine(b) \/ Drop(b)
  <2>1. builds'[a] = builds[a]
    BY <1>1, <1>2 DEF CompleteInputs, CompleteFee, BuildFails, SendTransaction, SendRejected, Simulate,
                      Mine, Drop
  <2> QED
    BY <2>1
<1>3. CASE a = b /\ (BuildFails(b) \/ SendRejected(b))
  <2>1. builds'[a].step \in {"failed", "escaped"} /\ builds[a].step \in {"build", "fee", "send"}
    BY <1>3, CallShapes DEF BuildFails, SendRejected
  <2> QED
    BY <2>1 DEF Runs, Begins, Simulates, Ended
<1>4. CASE a = b /\ (CompleteInputs(b) \/ CompleteFee(b) \/ SendTransaction(b) \/ Simulate(b))
  <2> DEFINE old == builds[b]
  <2>a. old \in Build /\ builds \in [Builds -> Build] /\ DOMAIN builds = Builds
    OBVIOUS
  <2>b. old.step \in {"build", "fee", "send", "simulate"}
    BY <1>4 DEF CompleteInputs, CompleteFee, SendTransaction, Simulate
  <2>c. builds'[b].scope = old.scope
    <3>1. ASSUME NEW ins, NEW id, NEW who,
                 builds' = [builds EXCEPT ![b].step = "fee", ![b].signer = who, ![b].ins = ins, ![b].id = id]
          PROVE  builds'[b].scope = old.scope
      BY <2>a, <3>1 DEF Build
    <3>2. ASSUME NEW change, NEW more,
                 builds' = [builds EXCEPT ![b].step = "send", ![b].change = change, ![b].ins = @ \o more]
          PROVE  builds'[b].scope = old.scope
      BY <2>a, <3>2 DEF Build
    <3>3. CASE SendTransaction(b) \/ Simulate(b)
      BY <2>a, <3>3 DEF SendTransaction, Simulate, Build
    <3> QED
      BY <1>4, <3>1, <3>2, <3>3 DEF CompleteInputs, CompleteFee
  <2> QED
    BY <1>4, <2>b, <2>c DEF Runs, Begins, Simulates, Ended
<1> QED
  BY <1>1, <1>2, <1>3, <1>4

\* What a build begins with.
LEMMA BegunFits ==
  ASSUME NEW kind \in {"badge", "anchor"}, NEW scope \in Scopes, NEW who,
         signer \in Accounts \cup {NoOne}, deployed \in BOOLEAN,
         kind = "badge" => who = signer, kind = "anchor" => who \in Accounts
  PROVE  /\ Begun(kind, scope, who) \in Build /\ Fits(Begun(kind, scope, who))
         /\ Begun(kind, scope, who).step \in {"simulate", "build", "failed"}
         /\ Begun(kind, scope, who).scope = scope
<1> DEFINE build == Begun(kind, scope, who)
<1>1. Unused \in Build
  BY CallShapes
<1>2. /\ build.kind = kind /\ build.scope = scope /\ build.who = who /\ build.signer = signer
      /\ build.step = IF ~deployed THEN "simulate"
                       ELSE IF IsConnected THEN "build" ELSE "failed"
  BY <1>1 DEF Begun, Build
<1>3. build \in Build
  <2>1. who \in Accounts \cup {NoOne}
    OBVIOUS
  <2> QED
    BY <1>1, <2>1 DEF Begun, Build
<1>4. build.step = "build" => signer \in Accounts /\ deployed
  BY <1>2 DEF IsConnected
<1> HIDE DEF build
<1>5. Fits(build)
  BY <1>2, <1>4 DEF Fits, Begins, Simulates, HasInputs
<1>6. build.step \in {"simulate", "build", "failed"}
  BY <1>2
<1> QED
  BY <1>2, <1>3, <1>5, <1>6 DEF build

-----------------------------------------------------------------------------
(***************************************************************************)
(* The actions of the minting screen.                                      *)
(***************************************************************************)
\* Panes without a mint.
LEMMA PanesInv ==
  ASSUME VisitInv,
         \/ \E e \in Scopes : OpenMinting(e)
         \/ LeaveMinting \/ ShowConfirmDialog \/ HideConfirmDialog
  PROVE  VisitInv'
<1> USE DEF VisitInv
<1>1. /\ screen' \in {"away", "confirm", "dialog"} /\ event' \in Scopes
      /\ visit' = Nothing /\ confirmed' = {}
  BY DEF OpenMinting, LeaveMinting, ShowConfirmDialog, HideConfirmDialog, VisitFits, ScreenTypeOK
<1> QED
  BY <1>1 DEF VisitFits, ScreenTypeOK

LEMMA ConfirmInv ==
  ASSUME ContractInv, VisitInv, NEW b \in Mints, ConfirmAndMint(b)
  PROVE  ContractInv' /\ VisitInv'
<1> USE DEF VisitInv
<1>1. b \in Builds /\ b # Nothing
  BY BuildFacts
<1>2. PICK build : build = [builds[b] EXCEPT !.step = "timer", !.scope = event]
  OBVIOUS
<1>3. builds' = [builds EXCEPT ![b] = build]
  BY <1>2 DEF ConfirmAndMint
<1>4. builds[b] \in Build
  BY <1>1 DEF ContractInv, BuildsInv
<1>5. build \in Build /\ build.step = "timer" /\ build.scope = event /\ event \in Scopes
  BY <1>2, <1>4 DEF Build, ScreenTypeOK
<1>6. Fits(build)
  BY <1>5 DEF Fits, Begins, Simulates, HasInputs
<1>7. ContractInv'
  BY <1>1, <1>3, <1>5, <1>6, OthersFitAtRest DEF ConfirmAndMint
<1>8. confirmed = {} /\ visit' = b /\ confirmed' = confirmed \cup {b} /\ screen' = "signing" /\ event' = event
  BY DEF ConfirmAndMint, VisitFits
<1>9. builds'[b].scope = event
  BY <1>1, <1>3, <1>5 DEF ContractInv, BuildsInv
<1> QED
  BY <1>1, <1>5, <1>7, <1>8, <1>9 DEF VisitFits, ScreenTypeOK

LEMMA MintBadgeInv ==
  ASSUME WalletTypeOK, ContractInv, VisitInv, NEW b \in Mints, MintBadge(b)
  PROVE  ContractInv' /\ VisitInv'
<1> USE DEF VisitInv
<1>1. b \in Builds /\ b # Nothing
  BY BuildFacts
<1>2. PICK build : build = Begun("badge", builds[b].scope, signer)
  OBVIOUS
<1>3. builds' = [builds EXCEPT ![b] = build] /\ builds[b].step = "timer"
  BY <1>2 DEF MintBadge
<1>4. builds[b].scope \in Scopes
  BY <1>1, <1>3 DEF ContractInv, BuildsInv, Fits
<1>5. /\ build \in Build /\ Fits(build) /\ build.step \in {"simulate", "build", "failed"}
      /\ build.scope = builds[b].scope
  BY <1>2, <1>4, BegunFits DEF WalletTypeOK, ContractInv, BuildsInv
<1>6. ContractInv'
  BY <1>1, <1>3, <1>5, OthersFitAtRest DEF MintBadge
<1>7. /\ screen' = IF visit = b THEN "minting" ELSE screen
      /\ UNCHANGED <<event, visit, confirmed>>
  BY DEF MintBadge
<1>8. \A a \in Mints \ {b} : builds'[a] = builds[a]
  BY <1>1, <1>3, BuildFacts DEF ContractInv
<1>9. builds'[b] = build
  BY <1>1, <1>3 DEF ContractInv, BuildsInv
<1>10. visit = b => event = builds[b].scope
  BY <1>1, <1>3 DEF VisitFits, Runs
<1>11. visit \in Mints \cup {Nothing} /\ screen' \in {"away", "confirm", "dialog", "signing", "minting", "success"}
  BY <1>7 DEF ScreenTypeOK
<1>12. visit # Nothing /\ Runs(builds'[visit]) => builds'[visit].scope = event
  <2>1. CASE visit = b
    BY <1>5, <1>9, <1>10, <2>1
  <2>2. CASE visit # b
    BY <1>8, <1>11, <2>2 DEF VisitFits
  <2> QED
    BY <2>1, <2>2
<1>13. screen' = "success" => builds'[visit].step = Ended'
  BY <1>3, <1>7, <1>8, <1>11, BuildFacts DEF VisitFits, Ended, MintBadge, chainVars
<1>14. VisitInv'
  <2>1. visit # Nothing <=> screen' \in {"signing", "minting", "success"}
    BY <1>1, <1>7 DEF VisitFits
  <2> QED
    BY <1>7, <1>11, <1>12, <1>13, <2>1 DEF VisitFits, ScreenTypeOK, Runs, Begins, Simulates
<1> QED
  BY <1>6, <1>14

LEMMA ShowBadgeInv ==
  ASSUME ContractInv, VisitInv, NEW b \in Mints, ShowBadge(b)
  PROVE  VisitInv'
<1>1. builds[b].step = Ended
  BY BuildFacts DEF ContractInv, BuildsInv, Fits, Begins, Simulates, Ended, ShowBadge, Answered
<1>2. /\ visit = b /\ visit' = b /\ screen' = "success" /\ UNCHANGED <<event, confirmed, contractVars>>
  BY DEF ShowBadge, Waiting
<1> QED
  BY <1>1, <1>2, BuildFacts
  DEF VisitInv, VisitFits, ScreenTypeOK, contractVars, Ended, Runs, Begins, Simulates

-----------------------------------------------------------------------------
(***************************************************************************)
(* The actions of the create screen.                                       *)
(***************************************************************************)
LEMMA CreateStepInv ==
  ASSUME WalletTypeOK, CreateInv, NEW c \in Creations, Create(c)
  PROVE  CreateInv'
<1> USE DEF CreateInv
<1>1. signer \in Accounts
  BY DEF Create, FormOpen, IsConnected, WalletTypeOK
<1>2. creations' = [creations EXCEPT ![c] = [step |-> "sign", creator |-> signer]]
  BY DEF Create
<1>3. [step |-> "sign", creator |-> signer] \in Creation
  BY <1>1 DEF Creation
<1>4. CreateTypeOK'
  BY <1>2, <1>3 DEF CreateTypeOK, Create
<1>5. ASSUME NEW d \in Creations PROVE CreationFits(d)'
  <2>1. CASE d = c
    BY <1>1, <1>2, <2>1 DEF CreationFits, CreateTypeOK, Create
  <2>2. CASE d # c
    <3>1. creations'[d] = creations[d]
      BY <1>2, <2>2 DEF CreateTypeOK
    <3> QED
      BY <2>2, <3>1 DEF CreationFits, Create
  <2> QED
    BY <2>1, <2>2
<1> QED
  BY <1>4, <1>5

\* A creation that goes on leaves the others as they are.
LEMMA CreationGoesOn ==
  ASSUME CreateInv, NEW c \in Creations,
         NEW step \in {"post", "anchor", "done", "failed", "lost"}, SetCreation(c, step),
         step = "post" => creations[c].step = "sign",
         step \in {"post", "anchor"} => form' = form,
         step = "done" => Show(c, "success"), step \in {"failed", "lost"} => Show(c, "form"),
         creations[c].step \in {"sign", "post", "anchor"},
         current' = current,
         created' = created \/ created' = created \cup {c}, listed' = listed \/ listed' = listed \cup {c},
         listed' \subseteq created',
         c \in created' <=> step \in {"post", "anchor", "done", "lost"},
         step = "done" => c \in listed'
  PROVE  CreateInv'
<1> USE DEF CreateInv
<1>1. creations[c] \in Creation /\ creations' = [creations EXCEPT ![c] = [creations[c] EXCEPT !.step = step]]
  BY DEF CreateTypeOK, SetCreation
<1>2. [creations[c] EXCEPT !.step = step] \in Creation
  BY <1>1 DEF Creation
<1>3. form' = form \/ (current = c /\ form' \in {"form", "success"})
  BY DEF Show
<1>4. CreateTypeOK'
  BY <1>1, <1>2, <1>3 DEF CreateTypeOK
<1>5. creations'[c].step = step /\ creations'[c].creator = creations[c].creator
  BY <1>1 DEF CreateTypeOK, Creation
<1>6. ASSUME NEW d \in Creations PROVE CreationFits(d)'
  <2>1. CASE d = c
    <3>1. creations'[c].step \in {"sign", "post"} => creations'[c].creator \in Accounts
      BY <1>5 DEF CreationFits
    <3>2. current = c => form = "creating"
      BY DEF CreationFits
    <3>3. current = c => /\ step \in {"sign", "post", "anchor"} => form' = "creating"
                         /\ step = "done" => form' = "success"
      BY <3>2 DEF Show
    <3> QED
      BY <1>5, <2>1, <3>1, <3>3 DEF CreationFits
  <2>2. CASE d # c
    <3>1. creations'[d] = creations[d]
      BY <1>1, <2>2 DEF CreateTypeOK
    <3>2. (d \in created' <=> d \in created) /\ (d \in listed' <=> d \in listed)
      BY <2>2
    <3>3. current = d => form' = form
      BY <1>3, <2>2
    <3> QED
      BY <3>1, <3>2, <3>3 DEF CreationFits
  <2> QED
    BY <2>1, <2>2
<1> QED
  BY <1>4, <1>6

LEMMA CreationStepInv ==
  ASSUME CreateInv, NEW c \in Creations,
         PostCreate(c) \/ CreateFails(c) \/ CreateAnchor(c) \/ AnchorSettles(c)
  PROVE  CreateInv'
<1>1. /\ c \in created <=> creations[c].step \in {"post", "anchor", "done", "lost"}
      /\ listed \subseteq created
  BY DEF CreateInv, CreationFits, CreateTypeOK
<1>2. CASE PostCreate(c)
  BY <1>1, <1>2, CreationGoesOn DEF PostCreate
<1>3. CASE CreateFails(c)
  <2>1. PICK step \in {"failed", "lost"} :
          SetCreation(c, step) /\ step = IF c \in created THEN "lost" ELSE "failed"
    BY <1>3 DEF CreateFails
  <2>2. c \in created <=> step = "lost"
    BY <2>1
  <2> QED
    BY <1>1, <1>3, <2>1, <2>2, CreationGoesOn DEF CreateFails
<1>4. CASE CreateAnchor(c)
  BY <1>1, <1>4, CreationGoesOn DEF CreateAnchor
<1>5. CASE AnchorSettles(c)
  BY <1>1, <1>5, CreationGoesOn DEF AnchorSettles
<1> QED
  BY <1>2, <1>3, <1>4, <1>5

\* The form is left: nothing waits for a creation any more.
LEMMA FormLeftInv ==
  ASSUME CreateInv, form' = "form", current' = Nothing, UNCHANGED <<creations, created, listed>>
  PROVE  CreateInv'
  BY BuildFacts DEF CreateInv, CreateTypeOK, CreationFits

LEMMA CreateAnchorInv ==
  ASSUME WalletTypeOK, ContractInv, VisitInv, CreateInv, AnchorsWait,
         NEW c \in Creations, CreateAnchor(c)
  PROVE  ContractInv' /\ VisitInv' /\ AnchorsWait'
<1>1. c \in Builds
  BY BuildFacts
<1>2. PICK e \in Scopes : builds' = [builds EXCEPT ![c] = Begun("anchor", e, creations[c].creator)]
  BY DEF CreateAnchor
<1>3. PICK build : build = Begun("anchor", e, creations[c].creator)
  OBVIOUS
<1>4. creations[c].creator \in Accounts
  BY DEF CreateInv, CreationFits, CreateAnchor
<1>5. build \in Build /\ Fits(build)
  BY <1>3, <1>4, BegunFits DEF WalletTypeOK, ContractInv, BuildsInv
<1>6. ContractInv'
  <2>1. builds[c].step = "unused"
    BY DEF AnchorsWait, CreateAnchor
  <2> QED
    BY <1>1, <1>2, <1>3, <1>5, <2>1, OthersFitAtRest DEF CreateAnchor
<1>7. \A b \in Builds \ {c} : builds'[b] = builds[b]
  BY <1>2 DEF ContractInv, BuildsInv
<1>8. VisitInv'
  BY <1>7, BuildFacts, VisitRest DEF CreateAnchor, chainVars
<1>9. /\ creations'[c].step = "anchor"
      /\ \A d \in Creations \ {c} : creations'[d] = creations[d]
  BY DEF CreateAnchor, SetCreation, CreateInv, CreateTypeOK, Creation
<1> QED
  BY <1>6, <1>7, <1>8, <1>9, BuildFacts DEF AnchorsWait

\* No step of the page takes an anchor's build from where it waits but CreateAnchor.
LEMMA AnchorsRest ==
  ASSUME AnchorsWait,
         \A c \in Creations : builds[c].step = "unused" => builds'[c].step = "unused",
         \A c \in Creations : creations'[c].step \in {"unused", "sign", "post"}
                              => creations[c].step \in {"unused", "sign", "post"}
  PROVE  AnchorsWait'
  BY DEF AnchorsWait

\* A creation does not go back to its signature or its post.
LEMMA CreationsAdvance ==
  ASSUME CreateTypeOK, NEW c \in Creations,
         Create(c) \/ PostCreate(c) \/ CreateFails(c) \/ AnchorSettles(c)
  PROVE  \A d \in Creations : creations'[d].step \in {"unused", "sign", "post"}
                              => creations[d].step \in {"unused", "sign", "post"}
<1>1. CASE Create(c)
  BY <1>1 DEF Create, CreateTypeOK, Creation
<1>2. CASE PostCreate(c)
  BY <1>2 DEF PostCreate, SetCreation, CreateTypeOK, Creation
<1>3. CASE CreateFails(c) \/ AnchorSettles(c)
  <2>1. PICK step \in {"lost", "failed", "done"} : creations' = [creations EXCEPT ![c].step = step]
    BY <1>3 DEF CreateFails, AnchorSettles, SetCreation
  <2> QED
    BY <2>1 DEF CreateTypeOK, Creation
<1> QED
  BY <1>1, <1>2, <1>3

-----------------------------------------------------------------------------
LEMMA Inductive == IInv /\ [Next]_vars => IInv'
<1> SUFFICES ASSUME IInv, [Next]_vars PROVE IInv'
  OBVIOUS
<1> USE DEF IInv
<1>1. UNCHANGED walletVars => WalletTypeOK'
  BY WalletRest
<1>2. UNCHANGED contractVars => ContractInv'
  BY ContractRest
<1>3. UNCHANGED createVars => CreateInv'
  BY CreateRest
<1>4. UNCHANGED screenVars /\ builds' = builds /\ deployed' = deployed => VisitInv'
  BY VisitRest
<1>a. UNCHANGED <<creations, builds>> => AnchorsWait'
  BY DEF AnchorsWait
<1>5. CASE UNCHANGED vars
  BY <1>1, <1>2, <1>3, <1>4, <1>a, <1>5 DEF vars, walletVars, contractVars, createVars, screenVars
<1>6. CASE WalletNext /\ UNCHANGED <<contractVars, screenVars, createVars>>
  BY <1>2, <1>3, <1>4, <1>a, <1>6, WalletStepInv DEF contractVars, createVars
<1>7. CASE ContractNext /\ UNCHANGED <<walletVars, screenVars, createVars>>
  <2>1. \A b \in Builds : /\ Runs(builds'[b]) => Runs(builds[b]) /\ builds'[b].scope = builds[b].scope
                          /\ builds[b].step = Ended => builds'[b].step = Ended
                          /\ builds[b].step = "unused" => builds'[b].step = "unused"
    BY <1>7, ContractKeeps
  <2>d. deployed' = deployed
    BY <1>7 DEF ContractNext, Simulate, CompleteInputs, CompleteFee, BuildFails, SendTransaction,
                SendRejected, Mine, Drop, chainVars
  <2>2. VisitInv'
    BY <1>7, <2>1, <2>d, BuildFacts, VisitRest
  <2>3. AnchorsWait'
    BY <1>7, <2>1, BuildFacts, AnchorsRest DEF createVars
  <2> QED
    BY <1>1, <1>3, <1>7, <2>2, <2>3, ContractStepInv
<1>8. CASE \E e \in Scopes : OpenMinting(e)
  BY <1>1, <1>2, <1>a, <1>8, PanesInv, FormLeftInv DEF OpenMinting, contractVars
<1>9. CASE LeaveMinting \/ ShowConfirmDialog \/ HideConfirmDialog
  BY <1>1, <1>2, <1>3, <1>a, <1>9, PanesInv
  DEF LeaveMinting, ShowConfirmDialog, HideConfirmDialog, contractVars, createVars
<1>10. CASE \E b \in Mints : ConfirmAndMint(b) \/ MintBadge(b)
  <2>1. PICK b \in Mints : ConfirmAndMint(b) \/ MintBadge(b)
    BY <1>10
  <2>2. \A c \in Creations : builds'[c] = builds[c]
    BY <2>1, BuildFacts DEF ConfirmAndMint, MintBadge, ContractInv, BuildsInv
  <2>3. AnchorsWait'
    BY <2>1, <2>2 DEF ConfirmAndMint, MintBadge, createVars, AnchorsWait
  <2> QED
    BY <1>1, <1>3, <2>1, <2>3, ConfirmInv, MintBadgeInv DEF ConfirmAndMint, MintBadge
<1>11. CASE \E b \in Mints : ShowBadge(b)
  BY <1>1, <1>2, <1>3, <1>a, <1>11, ShowBadgeInv DEF ShowBadge, contractVars, createVars
<1>12. CASE \E c \in Creations : Create(c)
  <2>1. AnchorsWait'
    BY <1>12, CreationsAdvance, AnchorsRest DEF Create, contractVars, CreateInv
  <2> QED
    BY <1>1, <1>2, <1>4, <1>12, <2>1, CreateStepInv DEF Create, contractVars
<1>13. CASE \E c \in Creations : PostCreate(c) \/ CreateFails(c) \/ AnchorSettles(c)
  <2>1. AnchorsWait'
    BY <1>13, CreationsAdvance, AnchorsRest DEF PostCreate, CreateFails, AnchorSettles, contractVars, CreateInv
  <2> QED
    BY <1>1, <1>2, <1>4, <1>13, <2>1, CreationStepInv DEF PostCreate, CreateFails, AnchorSettles, contractVars
<1>14. CASE \E c \in Creations : CreateAnchor(c)
  BY <1>1, <1>14, CreationStepInv, CreateAnchorInv DEF CreateAnchor
<1>15. CASE ResetForm
  BY <1>1, <1>2, <1>4, <1>a, <1>15, FormLeftInv DEF ResetForm, contractVars
<1> QED
  BY <1>5, <1>6, <1>7, <1>8, <1>9, <1>10, <1>11, <1>12, <1>13, <1>14, <1>15 DEF Next

LEMMA Invariance == Spec => []IInv
  BY InitInv, Inductive, PTL DEF Spec

-----------------------------------------------------------------------------
\* Wallet, chain, builds and screens keep their shape.
THEOREM TypeCorrect == Spec => []TypeOK
<1>1. IInv => TypeOK
  <2>1. IInv => ContractTypeOK
    BY DEF IInv, ContractInv, BuildsInv, PoolInv, ContractTypeOK, Build
  <2> QED
    BY <2>1 DEF IInv, VisitInv, CreateInv, ScreenTypeOK, CreateTypeOK, TypeOK
<1> QED
  BY <1>1, Invariance, PTL

\* The scripts accept what a build is ready to send as long as its inputs are
\* live: type id and single outputs fit the completed transaction.
THEOREM BuildsAreAccepted == Spec => []BuiltIsAccepted
<1>1. IInv => BuiltIsAccepted
  <2> SUFFICES ASSUME IInv, NEW b \in Builds, builds[b].step = "send",
                      Chain!InputsAreLive(builds[b].ins)
               PROVE  Chain!ScriptsAccept(builds[b].ins, Outputs(b))
    BY DEF BuiltIsAccepted
  <2> DEFINE ins == builds[b].ins
             outs == Outputs(b)
             s == Artifact(b)
  <2>1. Fits(builds[b]) /\ HasInputs(builds[b]) /\ builds \in [Builds -> Build]
    BY DEF IInv, ContractInv, BuildsInv, HasInputs
  <2>2. ins \in Seq(OutPoints) /\ Len(ins) >= 1 /\ \A i \in DOMAIN ins : Plain_(ins[i])
    <3>1. ins \in Seq(OutPoints)
      BY <2>1 DEF Build
    <3>2. DOMAIN ins = 1..Len(ins)
      BY <3>1
    <3>3. /\ Len(ins) \in 1..(IF builds[b].step = "fee" THEN 2 ELSE 3)
          /\ \A i \in 1..Len(ins) : Plain_(ins[i])
      BY <2>1 DEF Fits
    <3>4. Len(ins) >= 1
      BY <3>3
    <3> QED
      BY <3>1, <3>2, <3>3, <3>4
  <2>3. /\ s # Chain!NoType /\ s.code = builds[b].kind
        /\ builds[b].kind = "badge" => s.id = <<ins[1], 1>>
    BY <2>1, ArtifactFacts
  <2>o. /\ DOMAIN outs = {1} \/ DOMAIN outs = {1, 2}
        /\ outs[1] = [type |-> Artifact(b), lock |-> builds[b].who, data |-> "data"]
        /\ 2 \in DOMAIN outs =>
             outs[2] = [type |-> Chain!NoType, lock |-> builds[b].signer, data |-> "data"]
    BY OutputFacts
  <2> HIDE DEF outs
  <2>4. /\ DOMAIN outs = {1} \/ DOMAIN outs = {1, 2}
        /\ outs[1].type = s
        /\ 2 \in DOMAIN outs => outs[2].type = Chain!NoType
    BY <2>o
  <2> HIDE DEF s
  <2>5. Chain!GroupInput(s, ins) = {}
    BY <2>2, <2>3 DEF Chain!GroupInput, Plain_
  <2>6. Chain!GroupOutput(s, outs) = {1}
    BY <2>3, <2>4 DEF Chain!GroupOutput
  <2>7. Chain!TypeScripts(ins, outs) \subseteq {s, Chain!NoType}
    BY <2>2, <2>4 DEF Chain!TypeScripts, Plain_
  <2>8. s.code = "badge" => Chain!BadgeAccepts(s, ins, outs)
    BY <2>3, <2>5, <2>6 DEF Chain!BadgeAccepts, Chain!AtMostOne, Chain!TypeId
  <2>9. s.code = "anchor" => Chain!AnchorAccepts(s, ins, outs)
    BY <2>4, <2>5, <2>6 DEF Chain!AnchorAccepts
  <2> QED
    BY <2>7, <2>8, <2>9 DEF Chain!ScriptsAccept, Chain!NoType, outs
<1> QED
  BY <1>1, Invariance, PTL

\* A badge is signed by the account that it names, however the wallet changes
\* between the awaits of its build.
THEOREM RecipientsSign == Spec => []RecipientSigns
<1>1. IInv => RecipientSigns
  BY DEF IInv, ContractInv, BuildsInv, Fits, Begins, RecipientSigns
<1> QED
  BY <1>1, Invariance, PTL

\* One visit of the minting screen starts one mint at most.
THEOREM VisitsMintOnce == Spec => []OneMintPerVisit
<1>1. IInv => OneMintPerVisit
  <2> SUFFICES ASSUME IInv PROVE Cardinality(confirmed) <= 1
    BY DEF OneMintPerVisit
  <2>1. confirmed \subseteq {visit}
    BY DEF IInv, VisitInv, VisitFits
  <2>2. Cardinality({visit}) = 1 /\ IsFiniteSet({visit})
    BY FS_Singleton
  <2> QED
    BY <2>1, <2>2, FS_Subset
<1> QED
  BY <1>1, Invariance, PTL

\* An event that the backend has is listed once createEvent returns, and the
\* form comes back for another try only when the answer was lost.
THEOREM CreatedAreListed == Spec => []CreatedIsListed
<1>1. IInv => CreatedIsListed
  BY DEF IInv, CreateInv, CreateTypeOK, CreationFits, CreatedIsListed
<1> QED
  BY <1>1, Invariance, PTL

-----------------------------------------------------------------------------
(***************************************************************************)
(* The page runs the chain.  What CkbCellsProofs says of every transaction *)
(* holds of the ones that a page sends; CP is its proofs read over the     *)
(* chain of this page, and Chain the same definitions without them.        *)
(***************************************************************************)
CP == INSTANCE CkbCellsProofs WITH
  Addresses <- Accounts, Locks <- Accounts, Data <- {"data"},
  MaxInputs <- 3, MaxOutputs <- 2

LEMMA SameCells ==
  /\ CP!Live = Chain!Live /\ CP!BadgeCells = Chain!BadgeCells
  /\ CP!AnchorCells = Chain!AnchorCells
  /\ CP!NoType = Chain!NoType /\ CP!vars = Chain!vars
  /\ \A ids : CP!Outputs(ids) = Chain!Outputs(ids)
  /\ \A ins : CP!CandidateIds(ins) = Chain!CandidateIds(ins)
  /\ \A S, n : CP!Tuples(S, n) = Chain!Tuples(S, n)
<1>1. CP!Live = Chain!Live /\ CP!BadgeCells = Chain!BadgeCells
      /\ CP!AnchorCells = Chain!AnchorCells /\ CP!vars = Chain!vars
  BY DEF CP!Live, Chain!Live, CP!BadgeCells, Chain!BadgeCells, CP!AnchorCells,
         Chain!AnchorCells, CP!vars, Chain!vars
<1>2. CP!NoType = Chain!NoType /\ \A ids : CP!Outputs(ids) = Chain!Outputs(ids)
  BY DEF CP!Outputs, Chain!Outputs, CP!Anchor, Chain!Anchor, CP!NoType, Chain!NoType
<1>3. \A ins : CP!CandidateIds(ins) = Chain!CandidateIds(ins)
  BY DEF CP!CandidateIds, Chain!CandidateIds, CP!BadgeCells, Chain!BadgeCells
<1>4. \A S, n : CP!Tuples(S, n) = Chain!Tuples(S, n)
  BY DEF CP!Tuples, Chain!Tuples
<1> QED
  BY <1>1, <1>2, <1>3, <1>4

LEMMA SameSteps ==
  /\ CP!Init <=> Chain!Init
  /\ CP!Next <=> Chain!Next
<1>1. CP!Init <=> Chain!Init
  BY DEF CP!Init, Chain!Init, CP!NoType, Chain!NoType
<1>2. \A ins, outs : CP!Submit(ins, outs) <=> Chain!Submit(ins, outs)
  BY DEF CP!Submit, Chain!Submit, CP!InputsAreLive, Chain!InputsAreLive, CP!Live, Chain!Live,
         CP!ScriptsAccept, Chain!ScriptsAccept, CP!TypeScripts, Chain!TypeScripts,
         CP!BadgeAccepts, Chain!BadgeAccepts, CP!AnchorAccepts, Chain!AnchorAccepts,
         CP!GroupInput, Chain!GroupInput, CP!GroupOutput, Chain!GroupOutput,
         CP!AtMostOne, Chain!AtMostOne, CP!TypeId, Chain!TypeId
<1>3. CP!Next <=> Chain!Next
  BY <1>2, SameCells DEF CP!Next, Chain!Next
<1> QED
  BY <1>1, <1>3

LEMMA ChainStarts == Init => Chain!Init
<1> SUFFICES ASSUME ContractInit PROVE Chain!Init
  BY DEF Init
<1>1. PICK owner \in [1..Funds -> Accounts] :
        cells = [o \in {0} \X (1..Funds) |->
                   [type |-> Chain!NoType, lock |-> owner[o[2]], data |-> "data"]]
  BY DEF ContractInit
<1>2. PICK content : content = [i \in 1..Funds |-> "data"]
  OBVIOUS
<1>3. content \in [1..Funds -> {"data"}]
  BY <1>2
<1>4. \A o \in {0} \X (1..Funds) : content[o[2]] = "data"
  BY <1>2
<1>5. cells = [o \in {0} \X (1..Funds) |->
                 [type |-> Chain!NoType, lock |-> owner[o[2]], data |-> content[o[2]]]]
  BY <1>1, <1>4
<1> QED
  BY <1>3, <1>5 DEF ContractInit, Chain!Init

\* What a block takes is one of the transactions that CkbCells has the chain take.
LEMMA MineIsChainStep ==
  ASSUME IInv, NEW b \in Builds, Mine(b)
  PROVE  Chain!Next
<1> DEFINE ins == builds[b].ins
           outs == Outputs(b)
<1>1. /\ Chain!Submit(ins, outs) /\ HasInputs(builds[b]) /\ Begins(builds[b])
      /\ Fits(builds[b]) /\ builds \in [Builds -> Build] /\ builds[b].step = "sent"
  BY DEF Mine, IInv, ContractInv, BuildsInv, PoolInv, HasInputs, Begins
<1>2. ins \in Seq(OutPoints) /\ Len(ins) \in 1..3
  BY <1>1 DEF Build, Fits
<1>3. \A i \in 1..Len(ins) : ins[i] \in Chain!Live
  BY <1>1, <1>2 DEF Chain!Submit, Chain!InputsAreLive
<1>4. ins \in Chain!Tuples(Chain!Live, 3)
  <2>1. ins \in [1..Len(ins) -> Chain!Live]
    BY <1>2, <1>3
  <2> QED
    BY <1>2, <2>1 DEF Chain!Tuples
<1>5. /\ builds[b].scope \in Scopes /\ builds[b].who \in Accounts /\ builds[b].signer \in Accounts
      /\ builds[b].kind \in {"badge", "anchor"}
      /\ builds[b].kind = "badge" => builds[b].id = <<ins[1], 1>>
  BY <1>1 DEF Fits
<1> DEFINE outputs == Chain!Outputs(Chain!CandidateIds(ins))
<1>6. [type |-> Artifact(b), lock |-> builds[b].who, data |-> "data"] \in outputs
  <2>1. <<ins[1], 1>> \in Chain!CandidateIds(ins)
    BY DEF Chain!CandidateIds
  <2> HIDE DEF ins
  <2>2. CASE builds[b].kind = "badge"
    <3>1. Artifact(b) = [code |-> "badge", id |-> <<ins[1], 1>>, scope |-> builds[b].scope,
                         who |-> builds[b].who]
      BY <1>5, <2>2 DEF Artifact
    <3> QED
      BY <1>5, <2>1, <3>1 DEF Chain!Outputs
  <2>3. CASE builds[b].kind = "anchor"
    <3>1. Artifact(b) = [code |-> "anchor", scope |-> builds[b].scope, who |-> builds[b].who]
      BY <2>3 DEF Artifact
    <3> QED
      BY <1>5, <3>1 DEF Chain!Outputs, Chain!Anchor
  <2> QED
    BY <1>5, <2>2, <2>3
<1>7. [type |-> Chain!NoType, lock |-> builds[b].signer, data |-> "data"] \in outputs
  BY <1>5 DEF Chain!Outputs
<1> HIDE DEF outputs, outs
<1>8. outs \in Chain!Tuples(outputs, 2)
  <2>1. \E k \in 1..2 : outs \in [1..k -> outputs]
    <3>1. /\ DOMAIN outs = {1} \/ DOMAIN outs = {1, 2}
          /\ \A j \in DOMAIN outs : outs[j] \in outputs
      BY <1>6, <1>7, OutputFacts DEF outs
    <3>2. outs = [j \in DOMAIN outs |-> outs[j]]
      BY OutputsAreTuples DEF outs
    <3>3. 1..1 = {1} /\ 1..2 = {1, 2}
      OBVIOUS
    <3> QED
      BY <3>1, <3>2, <3>3
  <2> QED
    BY <2>1 DEF Chain!Tuples
<1> QED
  BY <1>1, <1>4, <1>8 DEF Chain!Next, outputs, outs

\* Only a block changes the chain, by the build that it takes.  The builds of
\* minting screens make badges.
LEMMA StepKinds ==
  ASSUME IInv, [Next]_vars
  PROVE  /\ \/ \E b \in Builds : Mine(b)
            \/ UNCHANGED cellVars /\ mined' = mined
         /\ \A a \in mined : builds'[a] = builds[a]
         /\ \A a \in Mints : builds'[a].kind = "anchor" => builds[a].kind = "anchor"
<1> USE DEF IInv, ContractInv, BuildsInv
<1>a. builds \in [Builds -> Build] /\ Mints \subseteq Builds /\ Creations \subseteq Builds
  BY BuildFacts
<1>b. mined \subseteq Builds /\ \A a \in mined : builds[a].step = "sent"
  BY DEF PoolInv
<1>1. ASSUME NEW b \in Builds, NEW build, builds[b].step # "sent",
             UNCHANGED <<cellVars, mined>>, builds' = [builds EXCEPT ![b] = build],
             b \in Mints => build.kind \in {"none", "badge", builds[b].kind}
      PROVE  /\ UNCHANGED <<cellVars, mined>>
             /\ \A a \in mined : builds'[a] = builds[a]
             /\ \A a \in Mints : builds'[a].kind = "anchor" => builds[a].kind = "anchor"
  <2>1. builds'[b] = build /\ \A a \in Builds \ {b} : builds'[a] = builds[a]
    BY <1>1, <1>a
  <2> QED
    BY <1>1, <2>1, <1>a, <1>b
<1>2. CASE UNCHANGED <<height, cells, spent, mined, builds>>
  BY <1>2, <1>a DEF cellVars
<1>3. CASE \E b \in Builds : Mine(b)
  <2>1. builds' = builds
    BY <1>3 DEF Mine
  <2> QED
    BY <1>3, <2>1
<1>s. CASE \E b \in Builds : SendTransaction(b) \/ Simulate(b)
  <2>1. PICK b \in Builds : SendTransaction(b) \/ Simulate(b)
    BY <1>s
  <2>2. PICK step \in {"sent", "simulated"} : builds' = [builds EXCEPT ![b].step = step]
    BY <2>1 DEF SendTransaction, Simulate
  <2>3. PICK build : build = [builds[b] EXCEPT !.step = step]
    OBVIOUS
  <2>4. builds' = [builds EXCEPT ![b] = build]
    BY <2>2, <2>3
  <2>5. build.kind = builds[b].kind
    BY <2>3, <1>a DEF Build
  <2>6. builds[b].step # "sent" /\ UNCHANGED <<cellVars, mined>>
    BY <2>1 DEF SendTransaction, Simulate, chainVars, cellVars
  <2> QED
    BY <1>1, <2>4, <2>5, <2>6
<1>4. CASE \E b \in Builds : CompleteInputs(b)
  <2>1. PICK b \in Builds : CompleteInputs(b)
    BY <1>4
  <2>2. PICK ins, id : builds' = [builds EXCEPT ![b].step = "fee", ![b].signer = SignerOf(b),
                                                ![b].ins = ins, ![b].id = id]
    BY <2>1 DEF CompleteInputs
  <2>3. PICK build : build = [builds[b] EXCEPT !.step = "fee", !.signer = SignerOf(b),
                                               !.ins = ins, !.id = id]
    OBVIOUS
  <2>4. builds' = [builds EXCEPT ![b] = build]
    BY <2>2, <2>3
  <2>5. build.kind = builds[b].kind
    BY <2>3, <1>a DEF Build
  <2> QED
    BY <1>1, <2>1, <2>4, <2>5 DEF CompleteInputs, chainVars, cellVars
<1>5. CASE \E b \in Builds : CompleteFee(b)
  <2>1. PICK b \in Builds : CompleteFee(b)
    BY <1>5
  <2>2. PICK change, more : builds' = [builds EXCEPT ![b].step = "send", ![b].change = change,
                                                     ![b].ins = @ \o more]
    BY <2>1 DEF CompleteFee
  <2>3. PICK build : build = [builds[b] EXCEPT !.step = "send", !.change = change,
                                               !.ins = @ \o more]
    OBVIOUS
  <2>4. builds' = [builds EXCEPT ![b] = build]
    BY <2>2, <2>3
  <2>5. build.kind = builds[b].kind
    BY <2>3, <1>a DEF Build
  <2> QED
    BY <1>1, <2>1, <2>4, <2>5 DEF CompleteFee, chainVars, cellVars
<1>6. CASE \E b \in Builds : BuildFails(b) \/ SendRejected(b)
  <2>1. PICK b \in Builds : BuildFails(b) \/ SendRejected(b)
    BY <1>6
  <2>2. PICK step \in {"failed", "escaped"} : builds' = [builds EXCEPT ![b] = Over(step)]
    BY <2>1 DEF BuildFails, SendRejected
  <2>3. Over(step).kind = "none" /\ builds[b].step # "sent"
    BY <2>1 DEF Over, Unused, BuildFails, SendRejected
  <2>4. UNCHANGED <<cellVars, mined>>
    BY <2>1 DEF BuildFails, SendRejected, chainVars, cellVars
  <2> QED
    BY <1>1, <2>2, <2>3, <2>4
<1>7. CASE \E b \in Mints : ConfirmAndMint(b)
  <2>1. PICK b \in Mints : ConfirmAndMint(b)
    BY <1>7
  <2>2. PICK build : build = [builds[b] EXCEPT !.step = "timer", !.scope = event]
    OBVIOUS
  <2>3. builds' = [builds EXCEPT ![b] = build]
    BY <2>1, <2>2 DEF ConfirmAndMint
  <2>4. build.kind = builds[b].kind
    BY <2>2, <1>a, <2>1 DEF Build
  <2> QED
    BY <1>1, <1>a, <2>1, <2>3, <2>4 DEF ConfirmAndMint, chainVars, cellVars
<1>8. CASE \E b \in Mints : MintBadge(b)
  <2>1. PICK b \in Mints : MintBadge(b)
    BY <1>8
  <2>2. PICK build : build = Begun("badge", builds[b].scope, signer)
    OBVIOUS
  <2>3. builds' = [builds EXCEPT ![b] = build]
    BY <2>1, <2>2 DEF MintBadge
  <2>4. build.kind = "badge"
    BY <2>2 DEF Begun, Unused
  <2> QED
    BY <1>1, <1>a, <2>1, <2>3, <2>4 DEF MintBadge, chainVars, cellVars
<1>9. CASE \E c \in Creations : CreateAnchor(c)
  <2>1. PICK c \in Creations : CreateAnchor(c)
    BY <1>9
  <2>2. PICK e \in Scopes : builds' = [builds EXCEPT ![c] = Begun("anchor", e, creations[c].creator)]
    BY <2>1 DEF CreateAnchor
  <2>3. c \notin Mints
    BY BuildFacts
  <2>4. builds[c].step = "unused"
    BY <2>1 DEF AnchorsWait, CreateAnchor
  <2> QED
    BY <1>1, <1>a, <2>1, <2>2, <2>3, <2>4 DEF CreateAnchor, chainVars, cellVars
<1>10. CASE \/ WalletNext /\ UNCHANGED <<contractVars, screenVars, createVars>>
            \/ \E b \in Builds : Drop(b)
            \/ \E e \in Scopes : OpenMinting(e)
            \/ LeaveMinting \/ ShowConfirmDialog \/ HideConfirmDialog
            \/ \E b \in Mints : ShowBadge(b)
            \/ \E c \in Creations : Create(c) \/ PostCreate(c) \/ CreateFails(c) \/ AnchorSettles(c)
            \/ ResetForm \/ UNCHANGED vars
  <2>1. UNCHANGED <<height, cells, spent, mined, builds>>
    BY <1>10 DEF Drop, cellVars, OpenMinting, LeaveMinting, ShowConfirmDialog, HideConfirmDialog,
                 ShowBadge, Create, PostCreate, CreateFails, AnchorSettles, ResetForm, vars, contractVars
  <2> QED
    BY <1>2, <2>1
<1> QED
  BY <1>3, <1>s, <1>4, <1>5, <1>6, <1>7, <1>8, <1>9, <1>10 DEF Next, ContractNext

LEMMA ChainSteps == IInv /\ [Next]_vars => [Chain!Next]_(Chain!vars)
  BY StepKinds, MineIsChainStep DEF cellVars, Chain!vars

\* Whatever the screens do, the mined transactions of a page are a run of the chain
\* that CkbCells allows: its promises about badges and anchors hold for them.
THEOREM PageRunsTheChain == Spec => Chain!Spec
  BY ChainStarts, ChainSteps, Invariance, PTL DEF Spec, Chain!Spec

LEMMA ChainInvariance == Spec => []CP!IInv
<1>1. Init => CP!IInv
  BY ChainStarts, SameSteps, CP!InitInv, FundsAssumption
<1>2. IInv /\ CP!IInv /\ [Next]_vars => CP!IInv'
  <2>1. CP!IInv /\ [CP!Next]_(CP!vars) => CP!IInv'
    BY CP!Inductive, FundsAssumption
  <2> QED
    BY <2>1, ChainSteps, SameSteps DEF CP!vars, Chain!vars
<1> QED
  BY <1>1, <1>2, Invariance, PTL DEF Spec

-----------------------------------------------------------------------------
\* No badge of this page is spent by it, and the first input of what was mined
\* is used up: no other build has been mined with it.
OnChainInv ==
  /\ \A o \in spent : Plain_(o)
  /\ \A b \in mined : builds[b].ins[1] \in spent
  /\ \A a, b \in mined : builds[a].ins[1] = builds[b].ins[1] => a = b
  /\ \A b \in Mints : builds[b].kind # "anchor"

LEMMA OnChainStarts == Init => OnChainInv
  BY CallShapes, BuildFacts DEF Init, ContractInit, OnChainInv, Unused

\* What the pool holds has inputs, the first of them unspent.
LEMMA PoolFacts ==
  ASSUME IInv, NEW b \in pool
  PROVE  /\ b \in Builds /\ builds[b].ins \in Seq(OutPoints) /\ 1 \in DOMAIN builds[b].ins
         /\ \A i \in DOMAIN builds[b].ins :
              Plain_(builds[b].ins[i]) /\ builds[b].ins[i] \notin spent
<1> USE DEF IInv, ContractInv, BuildsInv, PoolInv
<1>1. b \in Builds /\ builds[b].step = "sent" /\ Fits(builds[b]) /\ builds[b] \in Build
  OBVIOUS
<1>2. builds[b].ins \in Seq(OutPoints) /\ Len(builds[b].ins) \in 1..3
  BY <1>1 DEF Build, Fits, HasInputs
<1>3. DOMAIN builds[b].ins = 1..Len(builds[b].ins) /\ 1 \in DOMAIN builds[b].ins
  BY <1>2
<1>4. \A i \in DOMAIN builds[b].ins : Plain_(builds[b].ins[i]) /\ builds[b].ins[i] \notin spent
  BY <1>1, <1>3 DEF Fits, HasInputs, Chain!InputsAreLive, Chain!Live
<1> QED
  BY <1>1, <1>2, <1>3, <1>4

LEMMA MineKeepsOnChain ==
  ASSUME IInv, OnChainInv, NEW b \in Builds, Mine(b)
  PROVE  /\ (\A o \in spent : Plain_(o))'
         /\ (\A a \in mined : builds[a].ins[1] \in spent)'
         /\ (\A a, c \in mined : builds[a].ins[1] = builds[c].ins[1] => a = c)'
<1> DEFINE ins == builds[b].ins
<1>1. /\ Chain!Submit(ins, Outputs(b)) /\ b \in pool
      /\ builds' = builds /\ mined' = mined \cup {b}
  BY DEF Mine
<1>2. 1 \in DOMAIN ins /\ \A i \in DOMAIN ins : Plain_(ins[i]) /\ ins[i] \notin spent
  BY <1>1, PoolFacts
<1>3. /\ spent' = spent \cup {ins[i] : i \in DOMAIN ins}
      /\ \A o \in DOMAIN cells : o \in DOMAIN cells' /\ cells'[o] = cells[o]
  BY <1>1 DEF Chain!Submit
<1>4. \A o : Plain_(o) => Plain_(o)'
  BY <1>3 DEF Plain_, Chain!NoType
<1>5. ins[1] \in spent' /\ ins[1] \notin spent /\ spent \subseteq spent'
  BY <1>2, <1>3
<1>6. \A o \in spent' : Plain_(o)'
  BY <1>2, <1>3, <1>4 DEF OnChainInv
<1> QED
  BY <1>1, <1>5, <1>6 DEF OnChainInv

LEMMA OnChainInductive == IInv /\ OnChainInv /\ [Next]_vars => OnChainInv'
<1> SUFFICES ASSUME IInv, OnChainInv, [Next]_vars PROVE OnChainInv'
  OBVIOUS
<1>1. (\A b \in Mints : builds[b].kind # "anchor")'
  BY StepKinds DEF OnChainInv
<1>2. CASE \E b \in Builds : Mine(b)
  BY <1>1, <1>2, MineKeepsOnChain DEF OnChainInv
<1>3. CASE UNCHANGED cellVars /\ mined' = mined
  <2>1. (\A o \in spent : Plain_(o))'
    BY <1>3 DEF OnChainInv, Plain_, cellVars, Chain!NoType
  <2>2. \A a \in mined : builds'[a] = builds[a]
    BY StepKinds
  <2> QED
    BY <1>1, <1>3, <2>1, <2>2 DEF OnChainInv, cellVars
<1> QED
  BY <1>2, <1>3, StepKinds

LEMMA OnChain == Spec => []OnChainInv
  BY OnChainStarts, OnChainInductive, Invariance, PTL DEF Spec

\* What a badge that was mined left on the chain: one cell that carries it, live.
LEMMA MinedBadge ==
  ASSUME IInv, OnChainInv, CP!IInv, NEW b \in mined, builds[b].kind = "badge"
  PROVE  \E o \in MintedAs(b) \ spent : UnderIdOf(b) = {o}
<1>1. PICK o \in DOMAIN cells : cells[o].type = Artifact(b)
  BY DEF IInv, ContractInv, PoolInv, OnCell
<1>2. Artifact(b).code = "badge" /\ Artifact(b).id = builds[b].id
  BY DEF Artifact
<1>3. \A p \in Chain!BadgeCells : p \notin spent
  BY DEF OnChainInv, Plain_, Chain!BadgeCells, Chain!NoType
<1>4. o \in Chain!BadgeCells
  BY <1>1, <1>2 DEF Chain!BadgeCells
<1>5. \A p \in Chain!BadgeCells : cells[p].type.id = cells[o].type.id => p = o
  BY <1>3, <1>4, SameCells DEF CP!IInv, CP!OneLiveCell
<1>6. UnderIdOf(b) = {o}
  BY <1>1, <1>2, <1>4, <1>5 DEF UnderIdOf
<1> QED
  BY <1>1, <1>3, <1>4, <1>6 DEF MintedAs

\* The id of a badge that is pending is free: its first input is unspent, and
\* every id on the chain was made from an input that was spent.
LEMMA PendingBadge ==
  ASSUME IInv, CP!IInv, NEW b \in pool, builds[b].kind = "badge"
  PROVE  Chain!InputsAreLive(builds[b].ins) /\ UnderIdOf(b) = {}
<1>1. builds[b].ins[1] \notin spent /\ Chain!InputsAreLive(builds[b].ins)
  BY PoolFacts DEF IInv, ContractInv, PoolInv
<1>2. builds[b].id[1] = builds[b].ins[1]
  <2>1. builds[b].id = <<builds[b].ins[1], 1>>
    BY DEF IInv, ContractInv, PoolInv, BuildsInv, Fits, HasInputs
  <2> QED
    BY <2>1
<1>3. \A o \in Chain!BadgeCells : cells[o].type.id[1] \in spent
  BY SameCells DEF CP!IInv, CP!FirstInputsSpent
<1> QED
  BY <1>1, <1>2, <1>3 DEF UnderIdOf

Kept(b) == b \in pool \cup mined /\ builds[b].kind = "badge"

\* Of the badges that a page has sent, those that are pending or mined have
\* different type ids, however builds interleave: each has a first input that no
\* other can use as long as the node keeps it.
THEOREM SentBadgesDiffer ==
  Spec => [](\A a, b \in Builds : Kept(a) /\ Kept(b) /\ builds[a].id = builds[b].id => a = b)
<1>1. IInv /\ OnChainInv =>
        \A a, b \in Builds : Kept(a) /\ Kept(b) /\ builds[a].id = builds[b].id => a = b
  <2> SUFFICES ASSUME IInv, OnChainInv, NEW a \in Builds, NEW b \in Builds, Kept(a), Kept(b),
                      builds[a].id = builds[b].id
               PROVE  a = b
    OBVIOUS
  <2>1. builds[a].ins[1] = builds[b].ins[1]
    <3>1. builds[a].id = <<builds[a].ins[1], 1>> /\ builds[b].id = <<builds[b].ins[1], 1>>
      BY DEF Kept, IInv, ContractInv, PoolInv, BuildsInv, Fits, HasInputs
    <3>2. \A x, y : <<x, 1>> = <<y, 1>> => x = y
      OBVIOUS
    <3> QED
      BY <3>1, <3>2
  <2>2. \A c \in pool : 1 \in DOMAIN builds[c].ins /\ builds[c].ins[1] \notin spent
    BY PoolFacts
  <2>3. \A c \in mined : builds[c].ins[1] \in spent
    BY DEF OnChainInv
  <2>4. CASE a \in pool /\ b \in pool
    BY <2>1, <2>2, <2>4 DEF IInv, ContractInv, PoolInv, Meet
  <2>5. CASE a \in mined /\ b \in mined
    BY <2>1, <2>5 DEF OnChainInv
  <2> QED
    BY <2>1, <2>2, <2>3, <2>4, <2>5 DEF Kept
<1> QED
  BY <1>1, Invariance, OnChain, PTL

\* The promises of the chain hold on the page: a type id names one badge, and
\* anchors stay.
THEOREM ChainKeepsItsPromises == Spec => [](Chain!TypeIdNamesOneBadge /\ Chain!AnchorsStay)
<1>1. CP!IInv => Chain!TypeIdNamesOneBadge /\ Chain!AnchorsStay
  BY SameCells DEF CP!IInv, CP!TypeIdNamesOneBadge, Chain!TypeIdNamesOneBadge,
                   CP!AnchorsStay, Chain!AnchorsStay
<1> QED
  BY <1>1, ChainInvariance, PTL

LEMMA SameTokens ==
  /\ CP!Token!Init <=> Chain!Token!Init
  /\ CP!Token!Change <=> Chain!Token!Change
  /\ CP!BornTokens = Chain!BornTokens /\ CP!HeldTokens = Chain!HeldTokens
  /\ (CP!BornTokens = Chain!BornTokens /\ CP!HeldTokens = Chain!HeldTokens)'
<1>1. CP!BornTokens = Chain!BornTokens /\ CP!HeldTokens = Chain!HeldTokens
  BY DEF CP!BornTokens, Chain!BornTokens, CP!HeldTokens, Chain!HeldTokens, CP!BadgeCells, Chain!BadgeCells
<1>2. (CP!BornTokens = Chain!BornTokens /\ CP!HeldTokens = Chain!HeldTokens)'
  BY DEF CP!BornTokens, Chain!BornTokens, CP!HeldTokens, Chain!HeldTokens, CP!BadgeCells, Chain!BadgeCells
<1>3. CP!Token!Init <=> Chain!Token!Init
  BY <1>1 DEF CP!Token!Init, Chain!Token!Init
<1>4. \A T : CP!Token!Ids(T) = Chain!Token!Ids(T)
  BY DEF CP!Token!Ids, Chain!Token!Ids
<1>5. CP!Token!Change <=> Chain!Token!Change
  BY <1>1, <1>2, <1>4 DEF CP!Token!Change, Chain!Token!Change
<1> QED
  BY <1>1, <1>2, <1>3, <1>5

\* The badges of a page are unique tokens: each id has one live cell, is minted
\* once, and is not minted again.
THEOREM PageMintsUniqueTokens == Spec => Chain!BadgesAreUniqueTokens
<1>1. Chain!Token!Spec <=> Chain!BadgesAreUniqueTokens
  BY DEF Chain!BadgesAreUniqueTokens
<1>2. Init => Chain!Token!Init
  BY ChainStarts, SameSteps, SameTokens, CP!TokensInit, FundsAssumption
<1>3. IInv /\ CP!IInv /\ CP!IInv' /\ [Next]_vars
        => [Chain!Token!Change]_<<Chain!BornTokens, Chain!HeldTokens>>
  <2>1. CP!IInv /\ CP!IInv' /\ [CP!Next]_(CP!vars)
          => [CP!Token!Change]_<<CP!BornTokens, CP!HeldTokens>>
    BY CP!TokensStep, FundsAssumption
  <2>2. IInv /\ [Next]_vars => [CP!Next]_(CP!vars)
    BY ChainSteps, SameSteps DEF CP!vars, Chain!vars
  <2> QED
    BY <2>1, <2>2, SameTokens
<1> QED
  BY <1>1, <1>2, <1>3, Invariance, ChainInvariance, PTL DEF Spec, Chain!Token!Spec

\* A screen that shows success shows the mint of its visit: simulated where there
\* are no contracts, else sent; what the node keeps of it can still be mined, and
\* what a block took is one live badge under its id.
THEOREM SuccessWasSent == Spec => []SuccessIsSent
<1>1. IInv /\ OnChainInv /\ CP!IInv => SuccessIsSent
  <2> SUFFICES ASSUME IInv, OnChainInv, CP!IInv, ShowsBadge
               PROVE  /\ builds[visit].scope = event
                      /\ builds[visit].step = Ended
                      /\ visit \in pool => Chain!InputsAreLive(builds[visit].ins) /\ UnderIdOf(visit) = {}
                      /\ visit \in mined => \E o \in MintedAs(visit) \ spent : UnderIdOf(visit) = {o}
    BY DEF SuccessIsSent, Ended
  <2>1. visit \in Mints /\ visit \in Builds /\ visit # Nothing /\ builds[visit].step = Ended
    BY BuildFacts DEF IInv, VisitInv, VisitFits, ScreenTypeOK, ShowsBadge
  <2>2. builds[visit].scope = event
    BY <2>1 DEF IInv, VisitInv, VisitFits, Runs, Begins, Simulates, Ended
  <2>3. visit \in pool \cup mined => builds[visit].kind = "badge"
    BY <2>1 DEF IInv, ContractInv, BuildsInv, PoolInv, Fits, Begins, OnChainInv
  <2> QED
    BY <2>1, <2>2, <2>3, MinedBadge, PendingBadge
<1> QED
  BY <1>1, Invariance, OnChain, ChainInvariance, PTL
=============================================================================
