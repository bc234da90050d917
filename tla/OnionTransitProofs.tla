------------------------- MODULE OnionTransitProofs -------------------------
(***************************************************************************)
(* Proofs about OnionTransit for every L1, L2 and D that the code accepts: *)
(* the inductive invariant, the safety properties that follow from it, and *)
(* the refinement of BruiseCounter.                                        *)
(***************************************************************************)
EXTENDS OnionTransit, SequenceTheorems, TLAPS

-----------------------------------------------------------------------------
(* Lemmas about the operators of Sepal and Onion                           *)

\* The roles FormHeaders gives out, as intervals of layers.
LEMMA RoleOfLayer ==
  ASSUME NEW i \in Layers
  PROVE  /\ Role(i) \in Roles
         /\ Role(i) = RECIPIENT <=> i = l
         /\ Role(i) = LAST_GATEKEEPER <=> i = l - 1
         /\ Role(i) = MIXER <=> i <= Mixers
<1>1. /\ L1 \in Nat /\ L1 >= 1 /\ L2 \in Nat /\ l = L1 + L2 + 1
      /\ i \in Nat /\ 1 <= i /\ i <= l
  BY ParamAssumption DEF l, Layers
<1> USE <1>1 DEF Role, Roles, RECIPIENT, LAST_GATEKEEPER, GATEKEEPER, MIXER, Mixers
<1>2. CASE i = l
  BY <1>2
<1>3. CASE i = l - 1
  BY <1>3
<1>4. CASE i > L1 /\ i < l - 1
  BY <1>4
<1>5. CASE i <= L1 /\ i < l - 1
  BY <1>5
<1>6. QED
  BY <1>2, <1>3, <1>4, <1>5

\* Peeling the block of layer i with k_i gives the block of layer i + 1.
LEMMA PeelOneBlock ==
  ASSUME NEW i \in 1 .. l - 1, NEW c \in 1 .. L1 + 1
  PROVE  /\ BlockAt(i, c) \in Block
         /\ CanPeel(BlockAt(i, c), i)
         /\ PeelBlock(BlockAt(i, c), i) = BlockAt(i + 1, c)
<1>1. /\ L1 \in Nat /\ L1 >= 1 /\ L2 \in Nat /\ l = L1 + L2 + 1 /\ D \in Nat
      /\ i \in Nat /\ 1 <= i /\ i <= l - 1
  BY ParamAssumption DEF l
<1> USE <1>1 DEF BlockAt, formKeyBlock, Block, Values, CanPeel, PeelBlock, IsPlain
<1>2. CASE c <= D
  BY <1>2
<1>3. CASE ~(c <= D) /\ i <= L1 + 1
  BY <1>3
<1>4. CASE ~(c <= D) /\ ~(i <= L1 + 1)
  BY <1>4
<1>5. QED
  BY <1>2, <1>3, <1>4

\* Peeled by the last gatekeeper, the block of column c holds K iff c <= D.
LEMMA BlockAtGate ==
  ASSUME NEW c \in 1 .. L1 + 1
  PROVE  (BlockAt(l, c).val = "masterKey" /\ IsPlain(BlockAt(l, c))) <=> c <= D
BY ParamAssumption DEF BlockAt, formKeyBlock, IsPlain, l

\* Peeling a sepal keeps its length and peels each of its blocks.
LEMMA PeelWholeSepal ==
  ASSUME NEW i \in 1 .. l - 1, NEW b \in Nat, NEW s \in Seq(Block),
         b + Len(s) <= L1 + 1,
         \A j \in 1 .. Len(s) : s[j] = BlockAt(i, b + j)
  PROVE  /\ SepalPeels(s, i)
         /\ PeelSepal(s, i) \in Seq(Block)
         /\ Len(PeelSepal(s, i)) = Len(s)
         /\ \A j \in 1 .. Len(s) : PeelSepal(s, i)[j] = BlockAt(i + 1, b + j)
<1>1. L1 \in Nat /\ Len(s) \in Nat /\ DOMAIN s = 1 .. Len(s)
  BY ParamAssumption
<1>2. ASSUME NEW j \in 1 .. Len(s)
      PROVE  /\ s[j] \in Block
             /\ CanPeel(s[j], i)
             /\ PeelBlock(s[j], i) = BlockAt(i + 1, b + j)
  <2>1. b + j \in 1 .. L1 + 1 /\ s[j] = BlockAt(i, b + j)
    BY <1>1
  <2>2. QED
    BY <2>1, PeelOneBlock
<1>3. SepalPeels(s, i)
  BY <1>1, <1>2 DEF SepalPeels
<1>4. PeelSepal(s, i) = [j \in 1 .. Len(s) |-> PeelBlock(s[j], i)]
  BY <1>1 DEF PeelSepal
<1>5. \A j \in 1 .. Len(s) : PeelBlock(s[j], i) \in Block
  <2> SUFFICES ASSUME NEW j \in 1 .. Len(s)
               PROVE  PeelBlock(s[j], i) \in Block
    OBVIOUS
  <2>1. s[j] \in Block
    BY <1>2
  <2>2. i + 1 \in Nat \ {0}
    BY ParamAssumption DEF l
  <2>3. QED
    BY <2>1, <2>2 DEF PeelBlock, Block
<1>6. PeelSepal(s, i) \in Seq(Block) /\ Len(PeelSepal(s, i)) = Len(s)
  BY <1>1, <1>4, <1>5
<1>7. QED
  BY <1>2, <1>3, <1>4, <1>6

\* A drop takes one block off an end of a sepal of two blocks or more.
LEMMA DropOneBlock ==
  ASSUME NEW s \in Seq(Block), Len(s) >= 2
  PROVE  /\ AddBruise(s) \in Seq(Block) /\ Len(AddBruise(s)) = Len(s) - 1
         /\ \A j \in 1 .. Len(s) - 1 : AddBruise(s)[j] = s[j + 1]
         /\ RemoveBlock(s) \in Seq(Block) /\ Len(RemoveBlock(s)) = Len(s) - 1
         /\ \A j \in 1 .. Len(s) - 1 : RemoveBlock(s)[j] = s[j]
<1>1. AddBruise(s) = Tail(s) /\ RemoveBlock(s) = SubSeq(s, 1, Len(s) - 1)
  BY DEF AddBruise, RemoveBlock
<1>2. QED
  BY <1>1

-----------------------------------------------------------------------------
(* What the invariant says of one hop                                      *)

\* Numbers in an invariant state, as the steps below use them.
LEMMA HopFacts ==
  ASSUME IInv
  PROVE  /\ L1 \in Nat /\ L1 >= 1 /\ L2 \in Nat /\ D \in Nat /\ D <= L1 + 1
         /\ l = L1 + L2 + 1 /\ Mixers \in Nat /\ Mixers <= L1 /\ Mixers <= l - 2
         /\ onion.layer \in 1 .. l /\ onion.content = onion.layer
         /\ Mixed \in Nat /\ Mixed <= Mixers /\ Mixed <= onion.layer - 1
         /\ bruises \in Nat /\ bruises <= Mixed
BY ParamAssumption
   DEF IInv, TypeOK, ProgressInv, Onion, Layers, Mixers, Mixed, l

\* The onion in an invariant state.
LEMMA OnionFacts ==
  ASSUME IInv
  PROVE  /\ onion.sepal \in Seq(Block)
         /\ onion = [layer |-> onion.layer, content |-> onion.content,
                     sepal |-> onion.sepal]
BY DEF IInv, TypeOK, Onion

\* Before the recipient, a sepal peels, and at least one block is there.
LEMMA SepalAtRelay ==
  ASSUME IInv, onion.layer < l
  PROVE  LET peeled == PeelSepal(onion.sepal, onion.layer) IN
         /\ SepalPeels(onion.sepal, onion.layer)
         /\ peeled \in Seq(Block)
         /\ Len(peeled) = L1 + 1 - Mixed
         /\ Len(peeled) >= 1
         /\ onion.sepal # <<>>
         /\ \A j \in 1 .. Len(peeled) :
              peeled[j] = BlockAt(onion.layer + 1, bruises + j)
<1>1. /\ Len(onion.sepal) = L1 + 1 - Mixed
      /\ \A j \in 1 .. Len(onion.sepal) :
           onion.sepal[j] = BlockAt(onion.layer, bruises + j)
  BY DEF IInv, SepalInv
<1>2. /\ onion.layer \in 1 .. l - 1 /\ bruises \in Nat /\ onion.sepal \in Seq(Block)
      /\ bruises + Len(onion.sepal) <= L1 + 1
  BY <1>1, HopFacts, OnionFacts
<1>3. Len(onion.sepal) >= 1 /\ onion.sepal # <<>>
  BY <1>1, HopFacts
<1>4. QED
  BY <1>1, <1>2, <1>3, PeelWholeSepal

\* What the last gatekeeper finds in front when it has peeled the sepal.
LEMMA FirstBlockAtGate ==
  ASSUME IInv, onion.layer = l - 1
  PROVE  /\ SepalPeels(onion.sepal, onion.layer)
         /\ onion.sepal # <<>>
         /\ PeelSepal(onion.sepal, onion.layer)[1] = BlockAt(l, bruises + 1)
<1> DEFINE peeled == PeelSepal(onion.sepal, onion.layer)
<1>1. l \in Nat /\ onion.layer < l /\ onion.layer + 1 = l
  BY HopFacts
<1>2. /\ SepalPeels(onion.sepal, onion.layer) /\ onion.sepal # <<>>
      /\ peeled \in Seq(Block) /\ Len(peeled) >= 1
      /\ \A j \in 1 .. Len(peeled) : peeled[j] = BlockAt(onion.layer + 1, bruises + j)
  BY <1>1, SepalAtRelay
<1>3. 1 \in 1 .. Len(peeled)
  BY <1>2
<1>4. peeled[1] = BlockAt(onion.layer + 1, bruises + 1)
  BY <1>2, <1>3
<1>5. QED
  BY <1>1, <1>2, <1>4

\* PeelOnion fails exactly at the last gatekeeper with D bruises or more.
LEMMA PeelOutcome ==
  ASSUME IInv
  PROVE  PeelSucceeds(onion) <=> (onion.layer = l - 1 => bruises < D)
<1> USE HopFacts
<1>1. /\ onion.layer \in Layers /\ onion.content \in Layers
      /\ MasterKey = 0 /\ NoKey = -1
  BY DEF Layers, MasterKey, NoKey
<1>2. CASE onion.layer = l
  <2>1. Role(onion.layer) = RECIPIENT /\ Role(onion.layer) # LAST_GATEKEEPER
    BY <1>1, <1>2, RoleOfLayer
  <2>2. OpeningKey(onion) = onion.layer
    BY <2>1 DEF OpeningKey
  <2>3. QED
    BY <1>1, <1>2, <2>1, <2>2 DEF PeelSucceeds, ContentOpens, ContentKey
<1>3. CASE onion.layer < l - 1
  <2>1. Role(onion.layer) # LAST_GATEKEEPER
    BY <1>1, <1>3, RoleOfLayer
  <2>2. OpeningKey(onion) = onion.layer
    BY <2>1 DEF OpeningKey
  <2>3. SepalPeels(onion.sepal, onion.layer)
    BY <1>3, SepalAtRelay
  <2>4. QED
    BY <1>1, <1>3, <2>1, <2>2, <2>3 DEF PeelSucceeds, ContentOpens, ContentKey
<1>4. CASE onion.layer = l - 1
  <2> DEFINE first == PeelSepal(onion.sepal, onion.layer)[1]
  <2>1. Role(onion.layer) = LAST_GATEKEEPER
    BY <1>1, <1>4, RoleOfLayer
  <2>2. /\ SepalPeels(onion.sepal, onion.layer) /\ onion.sepal # <<>>
        /\ first = BlockAt(l, bruises + 1)
    BY <1>4, FirstBlockAtGate
  <2>3. (first.val = "masterKey" /\ IsPlain(first)) <=> bruises < D
    <3>1. bruises + 1 \in 1 .. L1 + 1
      BY HopFacts
    <3>2. (first.val = "masterKey" /\ IsPlain(first)) <=> bruises + 1 <= D
      BY <2>2, <3>1, BlockAtGate
    <3>3. QED
      BY HopFacts, <3>2
  <2>4. OpeningKey(onion) = IF bruises < D THEN MasterKey ELSE NoKey
    BY <2>1, <2>3 DEF OpeningKey
  <2>5. ContentKey(onion.content) = MasterKey
    BY <1>1, <1>4 DEF ContentKey
  <2>6. ContentOpens(onion.content, OpeningKey(onion)) <=> bruises < D
    BY <1>1, <2>4, <2>5 DEF ContentOpens
  <2>7. Role(onion.layer) # RECIPIENT
    BY <1>1, <1>4, RoleOfLayer
  <2>8. QED
    BY <1>4, <2>1, <2>2, <2>6, <2>7 DEF PeelSucceeds
<1>5. onion.layer = l \/ onion.layer = l - 1 \/ onion.layer < l - 1
  BY HopFacts
<1>6. QED
  BY ONLY <1>2, <1>3, <1>4, <1>5

-----------------------------------------------------------------------------
(* The inductive invariant                                                 *)

\* The onion FORMONION makes satisfies the invariant.
LEMMA InitInv == Init => IInv
<1> SUFFICES ASSUME Init PROVE IInv
  OBVIOUS
<1>1. /\ L1 \in Nat /\ L1 >= 1 /\ L2 \in Nat /\ D \in Nat /\ D <= L1 + 1
      /\ l = L1 + L2 + 1
  BY ParamAssumption DEF l
<1>2. /\ onion.layer = 1 /\ onion.content = 1 /\ onion.sepal = T(1)
      /\ onion = [layer |-> 1, content |-> 1, sepal |-> T(1)]
      /\ place = "held" /\ checkpoint \in BOOLEAN /\ bruises = 0
  BY DEF Init, FORMONION, FirstSepal
<1>3. T(1) = [c \in 1 .. L1 + 1 |-> BlockAt(1, c)]
  BY <1>1 DEF T, BlockAt
<1>4. \A c \in 1 .. L1 + 1 : BlockAt(1, c) \in Block
  BY <1>1, PeelOneBlock
<1>5. /\ T(1) \in Seq(Block) /\ Len(T(1)) = L1 + 1
      /\ \A j \in 1 .. L1 + 1 : T(1)[j] = BlockAt(1, 0 + j)
  BY <1>1, <1>3, <1>4
<1>6. Mixed = 0
  BY <1>1, <1>2 DEF Mixed, Mixers
<1>7. TypeOK
  BY <1>1, <1>2, <1>5 DEF TypeOK, Onion, Layers, Places
<1>8. SepalInv
  BY <1>1, <1>2, <1>5, <1>6 DEF SepalInv
<1>9. ProgressInv
  BY <1>1, <1>2, <1>6 DEF ProgressInv
<1>10. QED
  BY <1>7, <1>8, <1>9 DEF IInv

\* A relay's handler peels, perhaps drops a block, and keeps the invariant.
LEMMA RelayReceiveInv ==
  ASSUME IInv, NEW verified \in BOOLEAN, RelayReceive(verified)
  PROVE  IInv'
<1> DEFINE role == Role(onion.layer)
           peeled == PeelSepal(onion.sepal, onion.layer)
           sent == MixedSepal(role, peeled, verified)
<1>1. /\ L1 \in Nat /\ L1 >= 1 /\ L2 \in Nat /\ D \in Nat /\ D <= L1 + 1
      /\ l = L1 + L2 + 1 /\ Mixers \in Nat /\ Mixers <= L1 /\ Mixers <= l - 2
      /\ onion.layer \in 1 .. l /\ onion.content = onion.layer
      /\ Mixed \in Nat /\ Mixed <= Mixers /\ Mixed <= onion.layer - 1
      /\ bruises \in Nat /\ bruises <= Mixed
  BY HopFacts
<1>2. /\ place = "wire" /\ role # RECIPIENT
      /\ PeelSucceeds(onion)
      /\ onion' = [layer |-> onion.layer + 1, content |-> onion.content + 1,
                   sepal |-> sent]
      /\ bruises' = IF Bruises(role, verified) THEN bruises + 1 ELSE bruises
      /\ place' = "held" /\ checkpoint' = checkpoint
  BY DEF RelayReceive, PeelOnion
<1>3. /\ role = MIXER <=> onion.layer <= Mixers
      /\ onion.layer < l
  BY <1>1, <1>2, RoleOfLayer DEF Layers
<1>4. /\ peeled \in Seq(Block)
      /\ Len(peeled) = L1 + 1 - Mixed
      /\ \A j \in 1 .. Len(peeled) : peeled[j] = BlockAt(onion.layer + 1, bruises + j)
  BY <1>3, SepalAtRelay
<1>5. /\ onion'.layer = onion.layer + 1 /\ onion'.content = onion.content + 1
      /\ onion'.sepal = sent
      /\ Mixers' = Mixers /\ L1' = L1 /\ L2' = L2 /\ D' = D /\ l' = l
  BY <1>2 DEF Mixers, l
<1>6. Mixed' = IF role = MIXER THEN Mixed + 1 ELSE Mixed
  BY <1>1, <1>3, <1>5 DEF Mixed
<1>7. Mixed = onion.layer - 1 \/ role # MIXER
  BY <1>1, <1>3 DEF Mixed
<1>8. /\ sent \in Seq(Block) /\ Len(sent) = L1 + 1 - Mixed'
      /\ \A j \in 1 .. Len(sent) : sent[j] = BlockAt(onion.layer + 1, bruises' + j)
      /\ bruises' \in Nat /\ bruises' <= Mixed'
  <2>1. CASE role # MIXER
    <3>1. sent = peeled /\ bruises' = bruises
      BY <1>2, <2>1 DEF MixedSepal, Bruises
    <3>2. QED
      BY <1>1, <1>4, <1>6, <2>1, <3>1
  <2>2. CASE role = MIXER
    <3>1. Len(peeled) >= 2 /\ Len(peeled) \in Nat
      BY <1>1, <1>3, <1>4, <1>7, <2>2
    <3>2. CASE Bruises(role, verified)
      <4>1. sent = AddBruise(peeled) /\ bruises' = bruises + 1
        BY <1>2, <3>2 DEF MixedSepal
      <4>2. /\ sent \in Seq(Block) /\ Len(sent) = Len(peeled) - 1
            /\ \A j \in 1 .. Len(peeled) - 1 : sent[j] = peeled[j + 1]
        BY <1>4, <3>1, <4>1, DropOneBlock
      <4>3. ASSUME NEW j \in 1 .. Len(peeled) - 1
            PROVE  sent[j] = BlockAt(onion.layer + 1, bruises' + j)
        <5>1. j + 1 \in 1 .. Len(peeled) /\ bruises + (j + 1) = bruises' + j
          BY <1>1, <3>1, <4>1
        <5>2. QED
          BY <1>4, <4>2, <5>1
      <4>4. Mixed' = Mixed + 1 /\ Len(sent) = L1 + 1 - Mixed'
        <5>1. Len(peeled) = L1 + 1 - Mixed /\ Len(sent) = Len(peeled) - 1
          BY <1>4, <4>2
        <5>2. Mixed' = Mixed + 1
          BY <1>6, <2>2
        <5> HIDE DEF sent, peeled
        <5>3. QED
          BY <1>1, <5>1, <5>2
      <4>5. bruises' \in Nat /\ bruises' <= Mixed'
        BY <1>1, <4>1, <4>4
      <4>6. QED
        BY ONLY <4>2, <4>3, <4>4, <4>5
    <3>3. CASE ~Bruises(role, verified)
      <4>1. sent = RemoveBlock(peeled) /\ bruises' = bruises
        BY <1>2, <2>2, <3>3 DEF MixedSepal
      <4>2. /\ sent \in Seq(Block) /\ Len(sent) = Len(peeled) - 1
            /\ \A j \in 1 .. Len(peeled) - 1 : sent[j] = peeled[j]
        BY <1>4, <3>1, <4>1, DropOneBlock
      <4>3. ASSUME NEW j \in 1 .. Len(peeled) - 1
            PROVE  sent[j] = BlockAt(onion.layer + 1, bruises' + j)
        <5>1. j \in 1 .. Len(peeled)
          BY <3>1
        <5>2. QED
          BY <1>4, <4>1, <4>2, <5>1
      <4>4. Mixed' = Mixed + 1 /\ Len(sent) = L1 + 1 - Mixed'
        <5>1. Len(peeled) = L1 + 1 - Mixed /\ Len(sent) = Len(peeled) - 1
          BY <1>4, <4>2
        <5>2. Mixed' = Mixed + 1
          BY <1>6, <2>2
        <5> HIDE DEF sent, peeled
        <5>3. QED
          BY <1>1, <5>1, <5>2
      <4>5. bruises' \in Nat /\ bruises' <= Mixed'
        BY <1>1, <4>1, <4>4
      <4>6. QED
        BY ONLY <4>2, <4>3, <4>4, <4>5
    <3>4. QED
      BY <3>2, <3>3
  <2>3. QED
    BY <2>1, <2>2
<1>9. TypeOK'
  <2>1. checkpoint' \in BOOLEAN /\ place' \in Places
    BY <1>2 DEF IInv, TypeOK, Places
  <2>2. Mixed' \in Nat /\ Mixed' <= L1
    BY <1>1, <1>3, <1>6
  <2>3. bruises' \in 0 .. L1
    BY <1>1, <1>8, <2>2
  <2>4. onion' \in Onion
    BY <1>1, <1>2, <1>3, <1>8 DEF Onion, Layers
  <2>5. QED
    BY <2>1, <2>3, <2>4 DEF TypeOK, Onion, Layers, l
<1>10. SepalInv'
  BY <1>1, <1>5, <1>8 DEF SepalInv, BlockAt, formKeyBlock
<1>11. ProgressInv'
  <2>1. onion.layer + 1 = l => bruises < D /\ bruises' = bruises
    <3>1. ASSUME onion.layer + 1 = l PROVE role # MIXER
      BY <1>1, <1>3, <3>1
    <3>2. QED
      BY <1>1, <1>2, <3>1, PeelOutcome DEF Bruises
  <2>2. ~checkpoint' => bruises' = 0
    BY <1>2 DEF Bruises, IInv, ProgressInv
  <2>3. QED
    BY <1>1, <1>2, <1>5, <1>8, <2>1, <2>2 DEF ProgressInv
<1>12. QED
  BY <1>9, <1>10, <1>11 DEF IInv

\* Every step of the system keeps the invariant.
LEMMA NextInv == IInv /\ [Next]_vars => IInv'
<1> SUFFICES ASSUME IInv, [Next]_vars PROVE IInv'
  OBVIOUS
<1> USE DEF IInv, TypeOK, SepalInv, ProgressInv, Mixed, Places
<1>1. CASE SendOnion
  BY <1>1 DEF SendOnion
<1>2. CASE SendFails
  BY <1>2 DEF SendFails
<1>3. ASSUME NEW verified \in BOOLEAN, RelayReceive(verified)
      PROVE  IInv'
  BY <1>3, RelayReceiveInv
<1>4. CASE RelayDiscard
  <2>1. onion.layer = l - 1 /\ bruises >= D
    BY <1>4, PeelOutcome, HopFacts DEF RelayDiscard
  <2>2. QED
    BY <1>4, <2>1 DEF RelayDiscard
<1>5. CASE ClientReceive
  <2>1. onion.layer = l
    BY <1>5, HopFacts, RoleOfLayer DEF ClientReceive, Layers
  <2>2. QED
    BY <1>5, <2>1, HopFacts DEF ClientReceive
<1>6. CASE UNCHANGED vars
  BY <1>6 DEF vars
<1>7. QED
  BY <1>1, <1>2, <1>3, <1>4, <1>5, <1>6 DEF Next, Process

-----------------------------------------------------------------------------
(* Theorems                                                                *)

\* For every L1, L2 and D: types, the shape of the sepal on the wire, and the
\* progress of header, content and bruises.
THEOREM Invariance == Spec => []IInv
<1>1. QED
  BY InitInv, NextInv, PTL DEF Spec

\* The threshold decides: a received onion has fewer than D bruises, an onion
\* a relay gives up has D or more.
THEOREM ThresholdHolds == Spec => []ThresholdDecides
<1>1. IInv => ThresholdDecides
  BY HopFacts DEF IInv, ProgressInv, ThresholdDecides
<1>2. QED
  BY <1>1, Invariance, PTL

\* PeelOnion fails at the last gatekeeper or nowhere, and Blocks[0] exists.
THEOREM PeelingNeverFailsEarly == Spec => []OnlyLastGatekeeperFails
<1>1. IInv => OnlyLastGatekeeperFails
  <2> SUFFICES ASSUME IInv PROVE OnlyLastGatekeeperFails
    OBVIOUS
  <2>1. /\ onion.layer \in Layers /\ l \in Nat
        /\ Role(onion.layer) = LAST_GATEKEEPER <=> onion.layer = l - 1
    BY HopFacts, RoleOfLayer DEF Layers
  <2>2. PeelSucceeds(onion) \/ onion.layer = l - 1
    BY PeelOutcome
  <2>3. onion.layer = l - 1 =>
          onion.sepal # <<>> /\ SepalPeels(onion.sepal, onion.layer)
    BY <2>1, SepalAtRelay
  <2>4. QED
    BY <2>1, <2>2, <2>3 DEF OnlyLastGatekeeperFails
<1>2. QED
  BY <1>1, Invariance, PTL

\* Every sepal on the wire, while the onion is not doomed, is one that
\* FORMONION prepared for that layer.
THEOREM WireSepalsForeseen == Spec => []SepalForeseen
<1>1. IInv => SepalForeseen
  <2> SUFFICES ASSUME IInv, onion.layer < l, onion.layer <= L1 \/ bruises < D
               PROVE  onion.sepal \in AllPossibleSepals(onion.layer)
    BY DEF SepalForeseen
  <2> DEFINE i == onion.layer
             s == onion.sepal
  <2>1. /\ L1 \in Nat /\ L1 >= 1 /\ L2 \in Nat /\ D \in Nat /\ D <= L1 + 1
        /\ l = L1 + L2 + 1 /\ i \in 1 .. l - 1 /\ s \in Seq(Block)
        /\ Mixed \in Nat /\ Mixed <= i - 1 /\ bruises \in Nat /\ bruises <= Mixed
    BY HopFacts, OnionFacts
  <2>2. /\ Len(s) = L1 + 1 - Mixed
        /\ \A j \in 1 .. Len(s) : s[j] = BlockAt(i, bruises + j)
    BY DEF IInv, SepalInv
  <2>3. CASE i <= L1
    <3>1. Mixed = i - 1
      BY <2>1, <2>3 DEF Mixed, Mixers
    <3>2. T(i) = [c \in 1 .. L1 + 1 |-> BlockAt(i, c)]
      BY <2>1, <2>3 DEF T, BlockAt
    <3>3. \A c \in 1 .. L1 + 1 : BlockAt(i, c) \in Block
      BY <2>1, PeelOneBlock
    <3>4. T(i) \in Seq(Block) /\ Len(T(i)) = L1 + 1
      BY <2>1, <3>2, <3>3
    <3> DEFINE kept == SubSeq(T(i), bruises + 1, L1 + 1 - (i - 1 - bruises))
    <3>5. /\ kept \in Seq(Block) /\ Len(kept) = Len(s)
          /\ \A j \in 1 .. Len(s) : kept[j] = T(i)[bruises + j]
      <4> DEFINE m == bruises + 1
                 n == L1 + 1 - (i - 1 - bruises)
      <4>1. m \in Int /\ n \in Int /\ m .. n \subseteq 1 .. L1 + 1
            /\ m <= n /\ n - m + 1 = Len(s)
        <5>1. /\ L1 \in Nat /\ i \in Nat /\ bruises \in Nat
              /\ 1 <= i /\ i <= L1 /\ bruises <= i - 1 /\ Len(s) = L1 + 1 - (i - 1)
          BY <2>1, <2>2, <2>3, <3>1
        <5>2. m \in Int /\ n \in Int /\ 1 <= m /\ n <= L1 + 1 /\ m <= n
              /\ n - m + 1 = Len(s)
          BY <5>1
        <5>3. QED
          BY <5>1, <5>2
      <4>2. \A c \in m .. n : T(i)[c] \in Block
        BY <3>2, <3>3, <4>1
      <4>3. /\ kept \in Seq(Block) /\ Len(kept) = n - m + 1
            /\ \A j \in 1 .. n - m + 1 : kept[j] = T(i)[m + j - 1]
        <5> HIDE DEF m, n
        <5>1. QED
          BY <4>1, <4>2, SubSeqProperties DEF m, n
      <4>4. \A j \in 1 .. Len(s) : m + j - 1 = bruises + j
        BY <2>1, <2>2
      <4>5. QED
        BY <4>1, <4>3, <4>4
    <3>6. \A j \in 1 .. Len(s) : kept[j] = s[j]
      <4> SUFFICES ASSUME NEW j \in 1 .. Len(s) PROVE kept[j] = s[j]
        OBVIOUS
      <4>1. bruises + j \in 1 .. L1 + 1
        BY <2>1, <2>2
      <4>2. QED
        BY <2>2, <3>2, <3>5, <4>1
    <3>7. s = kept
      <4> HIDE DEF kept
      <4>1. QED
        BY <2>1, <3>5, <3>6, SeqEqual
    <3>8. bruises \in 0 .. i - 1
      BY <2>1
    <3>9. QED
      BY <2>3, <3>7, <3>8 DEF AllPossibleSepals
  <2>4. CASE i > L1
    <3>1. bruises < D /\ Mixed = L1
      BY <2>1, <2>4 DEF Mixed, Mixers
    <3>2. Len(s) = 1 /\ s[1] = BlockAt(i, bruises + 1)
      BY <2>1, <2>2, <3>1
    <3>3. T(i)[bruises + 1] = BlockAt(i, bruises + 1)
      BY <2>1, <3>1 DEF T, BlockAt
    <3>4. s = <<T(i)[bruises + 1]>>
      <4> DEFINE b == BlockAt(i, bruises + 1)
      <4>1. 1 \in 1 .. Len(s) /\ b \in Block
        BY <2>1, <3>2, ElementOfSeq
      <4>2. <<b>> \in Seq(Block) /\ Len(<<b>>) = 1 /\ <<b>>[1] = b
        BY <4>1
      <4>3. \A j \in 1 .. Len(s) : s[j] = <<b>>[j]
        <5> HIDE DEF b
        <5>1. QED
          BY <3>2, <4>2 DEF b
      <4>4. s = <<b>>
        <5> HIDE DEF b
        <5>1. QED
          BY <2>1, <3>2, <4>2, <4>3, SeqEqual
      <4>5. QED
        BY <3>3, <4>4
    <3>5. bruises \in {x \in 0 .. L1 : x < D}
      BY <2>1, <3>1
    <3>6. ~(i <= L1)
      BY <2>1, <2>4
    <3>7. QED
      BY <3>4, <3>5, <3>6 DEF AllPossibleSepals
  <2>5. QED
    BY <2>1, <2>3, <2>4
<1>2. QED
  BY <1>1, Invariance, PTL

\* The sepal machinery implements the bruise counter: the initial onion is an
\* initial counter, and every step is a step of the counter or a stutter.
THEOREM Refinement == Spec => ImplementsCounter
<1>1. Init => Counter!Init
  BY DEF Init, Counter!Init, FORMONION, Fate
<1>2. IInv /\ [Next]_vars => [Counter!Next]_Counter!vars
  <2> SUFFICES ASSUME IInv, [Next]_vars
               PROVE  [Counter!Next]_Counter!vars
    OBVIOUS
  <2> USE DEF Fate
  <2>1. /\ onion.layer \in 1 .. l /\ l \in Nat /\ Mixers \in Nat /\ Mixers <= l - 2
        /\ bruises \in Nat /\ D \in Nat
        /\ onion.layer \in Layers
    BY HopFacts DEF Layers
  <2>2. CASE SendOnion
    BY <2>2 DEF SendOnion, Counter!vars
  <2>3. CASE SendFails
    BY <2>3 DEF SendFails, Counter!Next, Counter!Lose
  <2>4. ASSUME NEW verified \in BOOLEAN, RelayReceive(verified)
        PROVE  Counter!Next
    <3>1. /\ onion'.layer = onion.layer + 1 /\ onion.layer < l
          /\ Fate = "travelling" /\ Fate' = Fate
          /\ onion.layer = l - 1 => bruises < D
      BY <2>1, <2>4, PeelOutcome, RoleOfLayer DEF RelayReceive, PeelOnion
    <3>2. CASE onion.layer <= Mixers
      <4>1. bruises' \in {bruises, bruises + 1}
        BY <2>4 DEF RelayReceive
      <4>2. QED
        BY <3>1, <3>2, <4>1 DEF Counter!Next, Counter!Mix
    <3>3. CASE Mixers < onion.layer
      <4>1. bruises' = bruises
        BY <2>1, <2>4, <3>3, RoleOfLayer DEF RelayReceive, Bruises
      <4>2. CASE onion.layer = l - 1
        BY <3>1, <4>1, <4>2 DEF Counter!Next, Counter!Open
      <4>3. CASE onion.layer < l - 1
        BY <3>1, <3>3, <4>1, <4>3 DEF Counter!Next, Counter!Forward
      <4>4. QED
        BY <2>1, <3>1, <4>2, <4>3
    <3>4. QED
      BY <2>1, <3>2, <3>3
  <2>5. CASE RelayDiscard
    <3>1. onion.layer = l - 1 /\ bruises >= D
      BY <2>1, <2>5, PeelOutcome DEF RelayDiscard
    <3>2. QED
      BY <2>5, <3>1 DEF RelayDiscard, Counter!Next, Counter!Discard
  <2>6. CASE ClientReceive
    <3>1. onion.layer = (l - 1) + 1
      BY <2>1, <2>6, RoleOfLayer DEF ClientReceive
    <3>2. QED
      BY <2>6, <3>1 DEF ClientReceive, Counter!Next, Counter!Deliver
  <2>7. CASE UNCHANGED vars
    BY <2>7 DEF vars, Counter!vars
  <2>8. QED
    BY <2>2, <2>3, <2>4, <2>5, <2>6, <2>7 DEF Next, Process
<1>3. QED
  BY <1>1, <1>2, Invariance, PTL DEF Spec, ImplementsCounter, Counter!Spec
=============================================================================
