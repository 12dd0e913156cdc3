--------------------------- MODULE CkbCellsProofs ---------------------------
(***************************************************************************)
(* Proofs about CkbCells for every set of scopes, addresses, locks and     *)
(* data and for every bound.  The argument: a type id is made from an out  *)
(* point that the minting transaction spends, so no later transaction can  *)
(* mint it again, and a transfer moves the one cell there is.              *)
(***************************************************************************)
EXTENDS CkbCells, TLAPS

\* The first input that a type id was made from is spent.
FirstInputsSpent == \A o \in BadgeCells : cells[o].type.id[1] \in spent

\* A type id has one live cell.
OneLiveCell ==
  \A o, p \in BadgeCells \ spent : cells[o].type.id = cells[p].type.id => o = p

IInv == TypeOK /\ FirstInputsSpent /\ TypeIdNamesOneBadge /\ OneLiveCell /\ AnchorsStay

\* Output j of a transaction is a badge minted by it, or one that an input had.
Minted(ins, outs, j) ==
  /\ outs[j].type.id = <<ins[1], j>>
  /\ \A o \in BadgeCells : cells[o].type.id # outs[j].type.id
Moved(ins, outs, j) ==
  \E i \in DOMAIN ins : /\ ins[i] \in BadgeCells \ spent
                        /\ cells[ins[i]].type = outs[j].type

-----------------------------------------------------------------------------
\* Inputs and outputs are non-empty tuples.
LEMMA TupleFacts ==
  ASSUME NEW S, NEW n \in Nat, NEW t \in Tuples(S, n)
  PROVE  /\ 1 \in DOMAIN t
         /\ DOMAIN t \subseteq Nat
         /\ \A i \in DOMAIN t : t[i] \in S
  BY DEF Tuples

\* The outputs that Next offers are cells.
LEMMA OutputsAreCells ==
  ASSUME TypeOK, NEW ins \in Tuples(Live, MaxInputs)
  PROVE  Outputs(CandidateIds(ins)) \subseteq Cell
<1>1. /\ 1 \in DOMAIN ins
      /\ \A i \in DOMAIN ins : ins[i] \in Live
  BY TupleFacts, SizesAssumption
<1>2. ins[1] \in OutPoints
  BY <1>1 DEF TypeOK, Live, OutPoints
<1>3. \A o \in BadgeCells : cells[o].type \in Badge
  BY DEF TypeOK, BadgeCells, Cell, Anchor, Badge, NoType
<1>4. \A o \in BadgeCells : cells[o].type.id \in TypeIds
  BY <1>3 DEF Badge
<1>5. CandidateIds(ins) \subseteq TypeIds
  BY <1>2, <1>4, SizesAssumption DEF CandidateIds, TypeIds
<1> QED
  BY <1>5 DEF Outputs, Cell, Badge

\* What a transaction leaves of the cells there were, and what it adds.
LEMMA SubmitCells ==
  ASSUME TypeOK, NEW ins, NEW outs, DOMAIN outs \subseteq Nat, Submit(ins, outs)
  PROVE  /\ DOMAIN cells' = DOMAIN cells \cup {<<height + 1, j>> : j \in DOMAIN outs}
         /\ \A o \in DOMAIN cells : cells'[o] = cells[o]
         /\ \A j \in DOMAIN outs : /\ <<height + 1, j>> \notin DOMAIN cells
                                   /\ cells'[<<height + 1, j>>] = outs[j]
<1>1. \A j \in DOMAIN outs : <<height + 1, j>> \notin DOMAIN cells
  BY SizesAssumption DEF TypeOK
<1>2. cells' = [o \in DOMAIN cells \cup {<<height + 1, j>> : j \in DOMAIN outs} |->
                  IF o \in DOMAIN cells THEN cells[o] ELSE outs[o[2]]]
  BY DEF Submit
<1>3. \A j \in DOMAIN outs : <<height + 1, j>>[2] = j
  OBVIOUS
<1> QED
  BY <1>1, <1>2, <1>3

\* The badge cells after a transaction.
LEMMA SubmitBadges ==
  ASSUME TypeOK, NEW ins, NEW outs, DOMAIN outs \subseteq Nat, Submit(ins, outs)
  PROVE  /\ \A o \in BadgeCells : o \in BadgeCells' /\ cells'[o].type = cells[o].type
         /\ \A o \in BadgeCells' :
              \/ o \in BadgeCells
              \/ \E j \in DOMAIN outs : /\ o = <<height + 1, j>>
                                        /\ outs[j].type.code = "badge"
                                        /\ cells'[o] = outs[j]
         /\ \A j \in DOMAIN outs : <<height + 1, j>> \notin spent'
<1>1. ASSUME NEW o \in BadgeCells
      PROVE  o \in BadgeCells' /\ cells'[o].type = cells[o].type
  BY SubmitCells DEF BadgeCells
<1>2. ASSUME NEW o \in BadgeCells', o \notin BadgeCells
      PROVE  \E j \in DOMAIN outs : /\ o = <<height + 1, j>>
                                    /\ outs[j].type.code = "badge"
                                    /\ cells'[o] = outs[j]
  <2>1. o \in DOMAIN cells' /\ cells'[o].type.code = "badge"
    BY DEF BadgeCells
  <2>2. o \notin DOMAIN cells
    BY <2>1, <1>2, SubmitCells DEF BadgeCells
  <2>3. PICK j \in DOMAIN outs : o = <<height + 1, j>>
    BY <2>1, <2>2, SubmitCells
  <2>4. cells'[o] = outs[j]
    BY <2>3, SubmitCells
  <2> QED
    BY <2>1, <2>3, <2>4
<1>3. spent' \subseteq DOMAIN cells
  BY DEF TypeOK, Submit, InputsAreLive, Live
<1> QED
  BY <1>1, <1>2, <1>3, SubmitCells

\* Every badge among the outputs is minted or moved.
LEMMA MintedOrMoved ==
  ASSUME IInv, NEW ins, NEW outs, 1 \in DOMAIN ins, Submit(ins, outs),
         NEW j \in DOMAIN outs, outs[j].type.code = "badge"
  PROVE  Minted(ins, outs, j) \/ Moved(ins, outs, j)
<1> DEFINE s == outs[j].type
<1>1. BadgeAccepts(s, ins, outs)
  BY DEF Submit, ScriptsAccept, TypeScripts
<1>2. j \in GroupOutput(s, outs)
  BY DEF GroupOutput
<1>3. \A i \in DOMAIN ins : ins[i] \in DOMAIN cells \ spent
  BY DEF Submit, InputsAreLive, Live
<1>4. CASE GroupInput(s, ins) = {}
  <2>1. s.id = <<ins[1], j>>
    BY <1>1, <1>2, <1>4 DEF BadgeAccepts, AtMostOne, TypeId
  <2>2. s.id[1] \notin spent
    BY <2>1, <1>3
  <2> QED
    BY <2>1, <2>2 DEF Minted, IInv, FirstInputsSpent
<1>5. CASE GroupInput(s, ins) # {}
  <2>1. PICK i \in DOMAIN ins : cells[ins[i]].type = s
    BY <1>5 DEF GroupInput
  <2> QED
    BY <2>1, <1>3 DEF Moved, BadgeCells
<1> QED
  BY <1>4, <1>5

-----------------------------------------------------------------------------
\* The initial cells are plain.
LEMMA InitInv == Init => IInv
<1> SUFFICES ASSUME Init PROVE IInv
  OBVIOUS
<1>1. PICK owner \in [1..Funds -> Locks], content \in [1..Funds -> Data] :
        cells = [o \in {0} \X (1..Funds) |->
                   [type |-> NoType, lock |-> owner[o[2]], data |-> content[o[2]]]]
  BY DEF Init
<1>2. DOMAIN cells = {0} \X (1..Funds)
  BY <1>1
<1>3. \A o \in DOMAIN cells :
        cells[o] = [type |-> NoType, lock |-> owner[o[2]], data |-> content[o[2]]]
  BY <1>1
<1>4. \A o \in DOMAIN cells : cells[o] \in Cell
  <2>1. \A o \in DOMAIN cells : owner[o[2]] \in Locks /\ content[o[2]] \in Data
    BY <1>2
  <2> QED
    BY <1>3, <2>1 DEF Cell
<1>5. TypeOK
  <2>1. height = 0 /\ spent = {}
    BY DEF Init
  <2>2. DOMAIN cells \subseteq (0..height) \X Nat
    BY <2>1, <1>2, SizesAssumption
  <2>3. cells \in [DOMAIN cells -> Cell]
    BY <1>1, <1>3, <1>4
  <2> QED
    BY <2>1, <2>2, <2>3, SizesAssumption DEF TypeOK
<1>6. BadgeCells = {} /\ AnchorCells = {}
  BY <1>3 DEF BadgeCells, AnchorCells, NoType
<1> QED
  BY <1>5, <1>6 DEF IInv, FirstInputsSpent, TypeIdNamesOneBadge, OneLiveCell, AnchorsStay

\* A transaction keeps the shapes.
LEMMA SubmitType ==
  ASSUME TypeOK, NEW ins \in Tuples(Live, MaxInputs),
         NEW outs \in Tuples(Outputs(CandidateIds(ins)), MaxOutputs), Submit(ins, outs)
  PROVE  TypeOK'
<1>1. DOMAIN outs \subseteq Nat /\ \A j \in DOMAIN outs : outs[j] \in Cell
  BY TupleFacts, OutputsAreCells, SizesAssumption
<1>2. height' \in 0..MaxTxs /\ height' = height + 1
  BY SizesAssumption DEF TypeOK, Submit
<1>0. /\ DOMAIN cells' = DOMAIN cells \cup {<<height + 1, j>> : j \in DOMAIN outs}
      /\ \A o \in DOMAIN cells : cells'[o] = cells[o]
      /\ \A j \in DOMAIN outs : cells'[<<height + 1, j>>] = outs[j]
  BY <1>1, SubmitCells
<1>3. DOMAIN cells' \subseteq (0..height') \X Nat
  <2>1. DOMAIN cells \subseteq (0..height') \X Nat
    BY <1>2, SizesAssumption DEF TypeOK
  <2>2. \A j \in DOMAIN outs : <<height + 1, j>> \in (0..height') \X Nat
    BY <1>1, <1>2, SizesAssumption DEF TypeOK
  <2> QED
    BY <1>0, <2>1, <2>2
<1>4. \A o \in DOMAIN cells' : cells'[o] \in Cell
  <2>1. \A o \in DOMAIN cells : cells[o] \in Cell
    BY DEF TypeOK
  <2> QED
    BY <1>0, <1>1, <2>1
<1>5. cells' = [o \in DOMAIN cells' |-> cells'[o]]
  BY DEF Submit
<1>6. cells' \in [DOMAIN cells' -> Cell]
  BY <1>4, <1>5
<1>7. spent' \subseteq DOMAIN cells'
  BY <1>0 DEF TypeOK, Submit, InputsAreLive, Live
<1> QED
  BY <1>2, <1>3, <1>6, <1>7 DEF TypeOK

\* A transaction keeps what is said about badges.
LEMMA SubmitKeepsBadges ==
  ASSUME IInv, NEW ins, NEW outs, 1 \in DOMAIN ins, DOMAIN outs \subseteq Nat,
         Submit(ins, outs)
  PROVE  FirstInputsSpent' /\ TypeIdNamesOneBadge' /\ OneLiveCell'
<1> USE DEF IInv
<1> DEFINE New(o, j) == /\ j \in DOMAIN outs
                        /\ o = <<height + 1, j>>
                        /\ outs[j].type.code = "badge"
                        /\ cells'[o] = outs[j]
<1>1. \A o \in BadgeCells' : o \in BadgeCells \/ \E j : New(o, j)
  BY SubmitBadges
<1>2. \A o \in BadgeCells : o \in BadgeCells' /\ cells'[o].type = cells[o].type
  BY SubmitBadges
<1>3. \A o, j : New(o, j) => Minted(ins, outs, j) \/ Moved(ins, outs, j)
  BY MintedOrMoved
<1>4. spent' = spent \cup {ins[i] : i \in DOMAIN ins}
  BY DEF Submit
<1> HIDE DEF New
<1>5. \A o, j : New(o, j) => o = <<height + 1, j>> /\ cells'[o].type = outs[j].type
  BY DEF New
<1>6. FirstInputsSpent'
  <2>1. SUFFICES ASSUME NEW o \in BadgeCells' PROVE cells'[o].type.id[1] \in spent'
    BY DEF FirstInputsSpent
  <2>2. CASE o \in BadgeCells
    BY <2>2, <1>2, <1>4 DEF FirstInputsSpent
  <2>3. CASE \E j : New(o, j)
    <3>1. PICK j : New(o, j)
      BY <2>3
    <3>2. CASE Minted(ins, outs, j)
      BY <3>1, <3>2, <1>4, <1>5 DEF Minted
    <3>3. CASE Moved(ins, outs, j)
      BY <3>1, <3>3, <1>4, <1>5 DEF Moved, FirstInputsSpent
    <3> QED
      BY <3>1, <3>2, <3>3, <1>3
  <2> QED
    BY <2>2, <2>3, <1>1
\* A new badge with the id of an old one was moved, from a cell of that script.
<1>7. ASSUME NEW o \in BadgeCells, NEW q, NEW k, New(q, k),
             cells[o].type.id = cells'[q].type.id
      PROVE  /\ cells'[q].type = cells[o].type
             /\ o \notin spent => o \in spent'
  <2>1. Moved(ins, outs, k)
    BY <1>7, <1>3, <1>5 DEF Minted
  <2>2. PICK i \in DOMAIN ins : /\ ins[i] \in BadgeCells \ spent
                                /\ cells[ins[i]].type = outs[k].type
    BY <2>1 DEF Moved
  <2>3. cells[o].type = cells[ins[i]].type
    BY <2>2, <1>7, <1>5 DEF TypeIdNamesOneBadge
  <2>4. o \notin spent => o = ins[i]
    BY <2>2, <2>3 DEF OneLiveCell
  <2> QED
    BY <2>2, <2>3, <2>4, <1>4, <1>5, <1>7
\* Two new badges with one id are the same output.
<1>8. ASSUME NEW o, NEW j, New(o, j), NEW p, NEW k, New(p, k),
             cells'[o].type.id = cells'[p].type.id
      PROVE  o = p
  <2>1. cells'[o].type = outs[j].type /\ cells'[p].type = outs[k].type
    BY <1>5, <1>8
  <2>2. CASE Minted(ins, outs, j) /\ Minted(ins, outs, k)
    <3>1. <<ins[1], j>> = <<ins[1], k>>
      BY <2>1, <2>2, <1>8 DEF Minted
    <3> QED
      BY <3>1, <1>5, <1>8
  <2>3. CASE Moved(ins, outs, j) /\ Moved(ins, outs, k)
    <3>1. outs[j].type = outs[k].type
      BY <2>1, <2>3, <1>8 DEF Moved, TypeIdNamesOneBadge
    <3>2. BadgeAccepts(outs[j].type, ins, outs)
      BY <1>8 DEF Submit, ScriptsAccept, TypeScripts, New
    <3>3. j \in DOMAIN outs /\ k \in DOMAIN outs
      BY <1>8 DEF New
    <3>4. j = k
      BY <3>1, <3>2, <3>3 DEF BadgeAccepts, AtMostOne, GroupOutput
    <3> QED
      BY <3>4, <1>5, <1>8
  <2>4. CASE Minted(ins, outs, j) /\ Moved(ins, outs, k)
    BY <2>1, <2>4, <1>8 DEF Minted, Moved
  <2>5. CASE Moved(ins, outs, j) /\ Minted(ins, outs, k)
    BY <2>1, <2>5, <1>8 DEF Minted, Moved
  <2> QED
    BY <1>3, <1>8, <2>2, <2>3, <2>4, <2>5
<1>9. TypeIdNamesOneBadge'
  <2>1. SUFFICES ASSUME NEW o \in BadgeCells', NEW p \in BadgeCells',
                        cells'[o].type.id = cells'[p].type.id
                 PROVE  cells'[o].type = cells'[p].type
    BY DEF TypeIdNamesOneBadge
  <2>2. CASE o \in BadgeCells /\ p \in BadgeCells
    BY <2>1, <2>2, <1>2 DEF TypeIdNamesOneBadge
  <2>3. CASE o \in BadgeCells /\ \E k : New(p, k)
    BY <2>1, <2>3, <1>2, <1>7
  <2>4. CASE p \in BadgeCells /\ \E j : New(o, j)
    BY <2>1, <2>4, <1>2, <1>7
  <2>5. CASE (\E j : New(o, j)) /\ (\E k : New(p, k))
    BY <2>1, <2>5, <1>8
  <2> QED
    BY <1>1, <2>2, <2>3, <2>4, <2>5
<1>10. OneLiveCell'
  <2>1. SUFFICES ASSUME NEW o \in BadgeCells' \ spent', NEW p \in BadgeCells' \ spent',
                        cells'[o].type.id = cells'[p].type.id
                 PROVE  o = p
    BY DEF OneLiveCell
  <2>2. o \notin spent /\ p \notin spent
    BY <1>4
  <2>3. CASE o \in BadgeCells /\ p \in BadgeCells
    BY <2>1, <2>2, <2>3, <1>2 DEF OneLiveCell
  <2>4. CASE o \in BadgeCells /\ \E k : New(p, k)
    BY <2>1, <2>2, <2>4, <1>2, <1>7
  <2>5. CASE p \in BadgeCells /\ \E j : New(o, j)
    BY <2>1, <2>2, <2>5, <1>2, <1>7
  <2>6. CASE (\E j : New(o, j)) /\ (\E k : New(p, k))
    BY <2>1, <2>6, <1>8
  <2> QED
    BY <1>1, <2>3, <2>4, <2>5, <2>6
<1> QED
  BY <1>6, <1>9, <1>10

\* A transaction spends no anchor.
LEMMA SubmitKeepsAnchors ==
  ASSUME IInv, NEW ins, NEW outs, DOMAIN outs \subseteq Nat, Submit(ins, outs)
  PROVE  AnchorsStay'
<1> SUFFICES ASSUME NEW o \in AnchorCells', o \in spent' PROVE FALSE
  BY DEF AnchorsStay
<1>1. spent' = spent \cup {ins[i] : i \in DOMAIN ins}
  BY DEF Submit
<1>2. \A i \in DOMAIN ins : ins[i] \in DOMAIN cells
  BY DEF Submit, InputsAreLive, Live
<1>3. o \in DOMAIN cells
  BY <1>1, <1>2 DEF IInv, TypeOK
<1>4. o \in AnchorCells
  BY <1>3, SubmitCells DEF AnchorCells, IInv
<1>5. PICK i \in DOMAIN ins : ins[i] = o
  BY <1>1, <1>4 DEF IInv, AnchorsStay
<1>6. AnchorAccepts(cells[o].type, ins, outs)
  BY <1>4, <1>5 DEF Submit, ScriptsAccept, TypeScripts, AnchorCells
<1>7. i \in GroupInput(cells[o].type, ins)
  BY <1>5 DEF GroupInput
<1> QED
  BY <1>6, <1>7 DEF AnchorAccepts

\* The invariant is inductive.
LEMMA Inductive == IInv /\ [Next]_vars => IInv'
<1> SUFFICES ASSUME IInv, [Next]_vars PROVE IInv'
  OBVIOUS
<1>1. CASE UNCHANGED vars
  BY <1>1 DEF vars, IInv, TypeOK, FirstInputsSpent, TypeIdNamesOneBadge, OneLiveCell,
              AnchorsStay, BadgeCells, AnchorCells
<1>2. CASE Next
  <2>0. PICK ins \in Tuples(Live, MaxInputs) :
          \E outs \in Tuples(Outputs(CandidateIds(ins)), MaxOutputs) : Submit(ins, outs)
    BY <1>2 DEF Next
  <2>1. PICK outs \in Tuples(Outputs(CandidateIds(ins)), MaxOutputs) : Submit(ins, outs)
    BY <2>0
  <2>2. 1 \in DOMAIN ins /\ DOMAIN outs \subseteq Nat
    BY TupleFacts, SizesAssumption
  <2>3. TypeOK'
    BY <2>1, SubmitType DEF IInv
  <2> QED
    BY <2>1, <2>2, <2>3, SubmitKeepsBadges, SubmitKeepsAnchors DEF IInv
<1> QED
  BY <1>1, <1>2

LEMMA Invariance == Spec => []IInv
  BY InitInv, Inductive, PTL DEF Spec

-----------------------------------------------------------------------------
\* Out points, scripts and cells keep their shape.
THEOREM TypeCorrect == Spec => []TypeOK
  BY Invariance, PTL DEF IInv

\* No transaction the badge script accepts gives a type id to a second badge.
THEOREM TypeIdsNameOneBadge == Spec => []TypeIdNamesOneBadge
  BY Invariance, PTL DEF IInv

\* No transaction the anchor script accepts removes an anchor.
THEOREM AnchorsAreForEver == Spec => []AnchorsStay
  BY Invariance, PTL DEF IInv

\* T pairs the members of S with the ids that f gives them.
Pairs(T, S, f) == \A h : h \in T <=> \E o \in S : h = <<f[o].type.id, o>>
IdsAre(T, S, f) == \A x : x \in Token!Ids(T) <=> \E o \in S : x = f[o].type.id

\* The ids of tokens given as pairs.
LEMMA IdsOfPairs ==
  ASSUME NEW S, NEW f, NEW T, Pairs(T, S, f)
  PROVE  IdsAre(T, S, f)
<1>1. ASSUME NEW o \in S PROVE f[o].type.id \in Token!Ids(T)
  <2>1. <<f[o].type.id, o>> \in T
    BY DEF Pairs
  <2>2. <<f[o].type.id, o>>[1] = f[o].type.id
    OBVIOUS
  <2> QED
    BY ONLY <2>1, <2>2 DEF Token!Ids
<1>2. ASSUME NEW x \in Token!Ids(T) PROVE \E o \in S : x = f[o].type.id
  BY DEF Token!Ids, Pairs
<1> QED
  BY <1>1, <1>2 DEF IdsAre

\* A transaction is a Change of the tokens.
LEMMA SubmitIsChange ==
  ASSUME IInv, IInv', NEW ins, NEW outs, 1 \in DOMAIN ins, DOMAIN outs \subseteq Nat,
         Submit(ins, outs)
  PROVE  Token!Change
<1>1. \A g, h \in HeldTokens' : g[1] = h[1] => g = h
  BY DEF HeldTokens, IInv, OneLiveCell
<1>2. IdsAre(HeldTokens', BadgeCells' \ spent', cells')
  <2>1. Pairs(HeldTokens', BadgeCells' \ spent', cells')
    BY DEF HeldTokens, Pairs
  <2> QED
    BY <2>1, IdsOfPairs
<1>3. IdsAre(HeldTokens, BadgeCells \ spent, cells)
  <2>1. Pairs(HeldTokens, BadgeCells \ spent, cells)
    BY DEF HeldTokens, Pairs
  <2> QED
    BY <2>1, IdsOfPairs
<1>4. spent \subseteq spent'
  BY DEF Submit
<1>5. Token!Ids(HeldTokens') \cap BornTokens \subseteq Token!Ids(HeldTokens)
  <2>1. SUFFICES ASSUME NEW o \in BadgeCells' \ spent', cells'[o].type.id \in BornTokens
                 PROVE  \E p \in BadgeCells \ spent : cells[p].type.id = cells'[o].type.id
    BY <1>2, <1>3 DEF IdsAre
  <2>2. CASE o \in BadgeCells
    BY <2>2, <1>4, SubmitBadges DEF IInv
  <2>3. CASE o \notin BadgeCells
    <3>1. PICK j \in DOMAIN outs : outs[j].type.code = "badge" /\ cells'[o] = outs[j]
      BY <2>3, SubmitBadges DEF IInv
    <3>2. ~Minted(ins, outs, j)
      BY <2>1, <3>1 DEF BornTokens, Minted
    <3>3. Moved(ins, outs, j)
      BY <3>1, <3>2, MintedOrMoved
    <3> QED
      BY <3>1, <3>3 DEF Moved
  <2> QED
    BY <2>2, <2>3
<1>6. BornTokens' = BornTokens \cup Token!Ids(HeldTokens')
  <2>1. ASSUME NEW o \in BadgeCells' PROVE o \in BadgeCells \/ o \notin spent'
    BY SubmitBadges DEF IInv
  <2>2. \A o \in BadgeCells : o \in BadgeCells' /\ cells'[o].type = cells[o].type
    BY SubmitBadges DEF IInv
  <2> QED
    BY <1>2, <2>1, <2>2 DEF BornTokens, IdsAre
<1> QED
  BY <1>1, <1>5, <1>6 DEF Token!Change

\* The chain starts without badges, so without tokens.
LEMMA TokensInit == Init => Token!Init
<1> SUFFICES ASSUME Init PROVE Token!Init
  OBVIOUS
<1>1. BadgeCells = {}
  BY DEF Init, BadgeCells, NoType
<1> QED
  BY <1>1 DEF Token!Init, BornTokens, HeldTokens

\* Every step changes the tokens as UniqueTokens allows, or not at all.
LEMMA TokensStep ==
  ASSUME IInv, IInv', [Next]_vars
  PROVE  [Token!Change]_<<BornTokens, HeldTokens>>
<1>1. CASE UNCHANGED vars
  BY <1>1 DEF vars, BornTokens, HeldTokens, BadgeCells
<1>2. CASE Next
  <2>0. PICK ins \in Tuples(Live, MaxInputs) :
          \E outs \in Tuples(Outputs(CandidateIds(ins)), MaxOutputs) : Submit(ins, outs)
    BY <1>2 DEF Next
  <2>1. PICK outs \in Tuples(Outputs(CandidateIds(ins)), MaxOutputs) : Submit(ins, outs)
    BY <2>0
  <2>2. 1 \in DOMAIN ins /\ DOMAIN outs \subseteq Nat
    BY TupleFacts, SizesAssumption
  <2> QED
    BY <2>1, <2>2, SubmitIsChange
<1> QED
  BY <1>1, <1>2

\* The badge script implements unique tokens: one live cell for a type id, and
\* none ever again after a burn.
THEOREM ImplementsUniqueTokens == Spec => BadgesAreUniqueTokens
<1>1. Token!Spec <=> BadgesAreUniqueTokens
  BY DEF BadgesAreUniqueTokens
<1>2. Init => Token!Init
  BY TokensInit
<1>3. IInv /\ IInv' /\ [Next]_vars => [Token!Change]_<<BornTokens, HeldTokens>>
  BY TokensStep
<1> QED
  BY <1>1, <1>2, <1>3, Invariance, PTL DEF Spec, Token!Spec
=============================================================================
