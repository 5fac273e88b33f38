--------------------------- MODULE DagStoreProofs ---------------------------
(***************************************************************************)
(* What holds of a DagStore for every DAG, every sender and every backing  *)
(* store, whichever calls fail and wherever the process stops.             *)
(***************************************************************************)
EXTENDS StoreIndex, LeafSequenceProofs

LEMMA Subsets ==
    ASSUME NEW S, IsFiniteSet(S), NEW T \in SUBSET S
    PROVE  /\ IsFiniteSet(T) /\ Cardinality(T) \in Nat /\ Cardinality(S) \in Nat
           /\ IF T = S THEN Cardinality(T) = Cardinality(S) ELSE Cardinality(T) < Cardinality(S)
<1>1. IsFiniteSet(T) /\ Cardinality(T) <= Cardinality(S) /\ (Cardinality(S) = Cardinality(T) => S = T)
  BY FS_Subset
<1>2. Cardinality(T) \in Nat /\ Cardinality(S) \in Nat
  BY <1>1, FS_CardinalityType
<1> QED
  BY <1>1, <1>2

(* A state of the stores in which each leaf but those in H has its content.  *)
Full(st, H) ==
    \A l \in DOMAIN st.leafs \ H : HasContent(l) => l \in st.inlined \cup st.contents

LEMMA WithLeavesFull ==
    ASSUME NEW st, NEW H, NEW copies, Full(st, H)
    PROVE  Full(WithLeaves(st, copies), H \ DOMAIN copies)
<1> DEFINE after == WithLeaves(st, copies)
<1>1. /\ DOMAIN after.leafs = DOMAIN copies \cup DOMAIN st.leafs
      /\ after.inlined = (st.inlined \ DOMAIN copies) \cup
                         {l \in DOMAIN copies : HasContent(l) /\ ~separateContent}
      /\ after.contents = st.contents \cup Aside(DOMAIN copies)
  BY DEF WithLeaves, Merge
<1> HIDE DEF after
<1> SUFFICES ASSUME NEW l \in DOMAIN after.leafs \ (H \ DOMAIN copies), HasContent(l)
             PROVE  l \in after.inlined \cup after.contents
  BY DEF Full, after
<1>2. CASE l \in DOMAIN copies
  BY <1>1, <1>2 DEF Aside
<1>3. CASE l \notin DOMAIN copies
  BY <1>1, <1>3 DEF Full
<1> QED
  BY <1>2, <1>3

LEMMA FailedLeafFull ==
    ASSUME NEW st, NEW H, NEW l, NEW copy, Full(st, H), NEW s \in FailedLeaf(st, l, copy)
    PROVE  Full(s, H)
<1>1. CASE s = st
  BY <1>1
<1>2. CASE s = StoreContent(st, l)
  BY <1>2 DEF StoreContent, Contents, Full
<1>3. CASE s = WithLeaves(st, Only(l, copy))
  BY <1>3, WithLeavesFull DEF Full
<1> QED
  BY <1>1, <1>2, <1>3 DEF FailedLeaf

(* Storing one leaf, whatever comes of it.                                   *)
LEMMA StoreLeafFull ==
    ASSUME NEW st, NEW H, NEW l, NEW copy, Full(st, H), NEW o \in StoreLeaf(st, l, copy)
    PROVE  Full(o.st, IF o.ok THEN H \ {l} ELSE H)
<1>1. CASE o = Outcome(WithLeaves(st, Only(l, copy)), TRUE)
  <2>1. o.st = WithLeaves(st, Only(l, copy)) /\ o.ok
    BY <1>1 DEF Outcome
  <2>2. DOMAIN Only(l, copy) = {l}
    BY DEF Only
  <2>3. Full(WithLeaves(st, Only(l, copy)), H \ DOMAIN Only(l, copy))
    BY WithLeavesFull
  <2> QED
    BY <2>1, <2>2, <2>3
<1>2. CASE \E s \in FailedLeaf(st, l, copy) : o = Outcome(s, FALSE)
  <2>1. PICK s \in FailedLeaf(st, l, copy) : o = Outcome(s, FALSE)
    BY <1>2
  <2>2. o.st = s /\ ~o.ok
    BY <2>1 DEF Outcome
  <2>3. Full(s, H)
    BY FailedLeafFull
  <2> QED
    BY <2>2, <2>3
<1> QED
  BY <1>1, <1>2 DEF StoreLeaf

(* The leaves of a batch: those before the one that failed were stored.      *)
LEMMA StoreBatchFull ==
    ASSUME NEW st, NEW H, NEW copies, Full(st, H), NEW o \in StoreBatch(st, copies)
    PROVE  Full(o.st, IF o.ok THEN H \ DOMAIN copies ELSE H)
<1>1. CASE o = Outcome(StoreLeaves(st, copies), TRUE)
  <2>1. o.st = StoreLeaves(st, copies) /\ o.ok
    BY <1>1 DEF Outcome
  <2>2. /\ DOMAIN StoreLeaves(st, copies).leafs = DOMAIN copies \cup DOMAIN st.leafs
        /\ StoreLeaves(st, copies).inlined = st.inlined \cup {l \in DOMAIN copies : HasContent(l)}
        /\ StoreLeaves(st, copies).contents = st.contents
    BY DEF StoreLeaves, Merge
  <2> QED
    BY <2>1, <2>2 DEF Full
<1>2. CASE o = Outcome(WithLeaves(st, copies), TRUE)
  <2>1. o.st = WithLeaves(st, copies) /\ o.ok
    BY <1>2 DEF Outcome
  <2> QED
    BY <2>1, WithLeavesFull
<1>3. ASSUME NEW l, NEW some, NEW s \in FailedLeaf(WithLeaves(st, some), l, copies[l]),
             o = Outcome(s, FALSE)
      PROVE  Full(o.st, IF o.ok THEN H \ DOMAIN copies ELSE H)
  <2>1. o.st = s /\ ~o.ok
    BY <1>3 DEF Outcome
  <2>2. Full(WithLeaves(st, some), H)
    BY WithLeavesFull DEF Full
  <2>3. Full(s, H)
    BY <2>2, FailedLeafFull
  <2> QED
    BY <2>1, <2>3
<1> QED
  BY <1>1, <1>2, <1>3 DEF StoreBatch

-----------------------------------------------------------------------------

LEMMA ContentInit == Init => ContentAvailable
  BY DEF Init, ContentAvailable

LEMMA StateFull == ContentAvailable <=> Full(State, halved)
  BY DEF ContentAvailable, Full, State

(* The state a method leaves behind is the next one.                         *)
LEMMA LeaveFull ==
    ASSUME NEW st, Leave(st), Full(st, halved')
    PROVE  ContentAvailable'
<1>1. leafs' = st.leafs /\ inlined' = st.inlined /\ contents' = st.contents /\ g' = g
  BY DEF Leave, fixed, sent
<1> QED
  BY <1>1 DEF ContentAvailable, Full, HasContent

LEMMA ContentStep == ContentAvailable /\ [Next]_vars => ContentAvailable'
<1> SUFFICES ASSUME ContentAvailable, [Next]_vars
             PROVE  ContentAvailable'
  OBVIOUS
<1> USE StateFull
<1>1. CASE Prepare
  <2>1. g' = g /\ UNCHANGED stored /\ UNCHANGED halved
    BY <1>1 DEF Prepare, Batches!ExtendBatches, Batches!AppendToBatch,
                Batches!NextParentInBatch, Batches!AppendChild, Batches!NextParent
  <2> QED
    BY <2>1 DEF stored, ContentAvailable, HasContent
<1>2. CASE DeliverPacket
  <2>1. PICK packet : AddTransmissionPacket(packet)
    BY <1>2 DEF DeliverPacket
  <2>2. PICK o \in StoreLeaf(State, packet.leaf, packet.copy) :
               /\ Leave(o.st)
               /\ halved' = IF o.ok THEN halved \ {packet.leaf} ELSE halved
    BY <2>1 DEF AddTransmissionPacket
  <2>3. Full(o.st, halved')
    BY <2>2, StoreLeafFull
  <2> QED
    BY <2>2, <2>3, LeaveFull
<1>3. CASE DeliverBatch
  <2>1. PICK packet : AddBatchedTransmissionPacket(packet)
    BY <1>3 DEF DeliverBatch
  <2>2. PICK o \in IF VerifyBatch(packet) THEN StoreBatch(State, packet.leaves)
                   ELSE {Outcome(State, FALSE)} :
               /\ Leave(o.st)
               /\ halved' = IF o.ok THEN halved \ DOMAIN packet.leaves ELSE halved
    BY <2>1 DEF AddBatchedTransmissionPacket
  <2>3. CASE o \in StoreBatch(State, packet.leaves)
    <3>1. Full(o.st, halved')
      BY <2>2, <2>3, StoreBatchFull
    <3> QED
      BY <2>2, <3>1, LeaveFull
  <2>4. CASE o = Outcome(State, FALSE)
    <3>1. o.st = State /\ ~o.ok
      BY <2>4 DEF Outcome
    <3> QED
      BY <2>2, <3>1, LeaveFull
  <2> QED
    BY <2>2, <2>3, <2>4
<1>4. CASE \E l \in Leaf : DeleteLeaf(l)
  <2>1. PICK l \in Leaf : DeleteLeaf(l)
    BY <1>4
  <2> DEFINE second == Contents(State, contents \ {l})
             third  == [leafs    |-> [k \in DOMAIN leafs \ {l} |-> leafs[k]],
                        inlined  |-> inlined \ {l},
                        contents |-> contents \ {l}]
  <2>2. PICK st \in {third, State, second} :
               /\ Leave(st)
               /\ halved' = IF st = second /\ st # State THEN halved \cup {l} ELSE halved
    BY <2>1 DEF DeleteLeaf
  <2>3. CASE st = State
    BY <2>2, <2>3, LeaveFull
  <2>4. CASE st = second /\ st # State
    <3>1. st.leafs = leafs /\ st.inlined = inlined /\ st.contents = contents \ {l}
      BY <2>4 DEF Contents, State
    <3> QED
      BY <2>2, <2>4, <3>1, LeaveFull DEF Full, ContentAvailable
  <2>5. CASE st = third
    <3>1. /\ DOMAIN st.leafs = DOMAIN leafs \ {l}
          /\ st.inlined = inlined \ {l} /\ st.contents = contents \ {l}
      BY <2>5
    <3>2. halved \subseteq halved'
      BY <2>2
    <3>3. Full(st, halved')
      BY <3>1, <3>2 DEF Full, ContentAvailable
    <3> QED
      BY <2>2, <3>3, LeaveFull
  <2> QED
    BY <2>2, <2>3, <2>4, <2>5
<1>5. CASE Restart
  <2>1. /\ g' = g /\ halved' = halved
        /\ \/ leafs' = [l \in {} |-> Genuine(g, l)]
           \/ leafs' = leafs /\ inlined' = inlined /\ contents' = contents
    BY <1>5 DEF Restart, fixed, sent
  <2> QED
    BY <2>1 DEF ContentAvailable, HasContent
<1>6. CASE UNCHANGED vars
  BY <1>6 DEF vars, fixed, sent, stored, ContentAvailable, HasContent
<1> QED
  BY <1>1, <1>2, <1>3, <1>4, <1>5, <1>6 DEF Next

(* A stored leaf has its content: StoreLeaf stores the content first and     *)
(* DeleteLeaf deletes it first, so that a failure or the end of the process  *)
(* between the two calls leaves content without a leaf, or the deletion to   *)
(* be done again.  For every DAG and every number of leaves.                 *)
THEOREM ContentIsAvailable == Spec => []ContentAvailable
  BY ContentInit, ContentStep, PTL DEF Spec

-----------------------------------------------------------------------------
(* What is stored comes from the sender *)

(* A copy of l as it is sent: with the links the sender's has and, if pruned,  *)
(* some proof.                                                               *)
CopyOf(l, copy) ==
    /\ l \in DOMAIN source
    /\ copy.links = source[l].links
    /\ (copy.links # {} /\ copy.links # g[l]) => DOMAIN copy.proofs # {}

Copies(d) == \A l \in DOMAIN d : CopyOf(l, d[l])

Sound(st) ==
    /\ Copies(st.leafs)
    /\ st.inlined \subseteq DOMAIN st.leafs
    /\ \A l \in st.inlined \cup st.contents : HasContent(l)
    /\ ~separateContent => st.contents = {}

(* A sender's copy that lost a link is one of a pruned partial, which keeps   *)
(* the links to leaves it has, and has their proofs.                         *)
PrunedSource ==
    \A l \in DOMAIN source : source[l].links \in {g[l], g[l] \cap DOMAIN source}

(* The inductive invariant.                                                  *)
IInv == /\ SenderInv /\ PrunedSource
        /\ memory \in Memory /\ separateContent \in Separate
        /\ Sound(State)
        /\ root \in {NoParent, Root}

LEMMA SourceCopies == SenderInv /\ PrunedSource => Copies(source)
<1> SUFFICES ASSUME SenderInv, PrunedSource, NEW l \in DOMAIN source,
                    source[l].links # {}, source[l].links # g[l]
             PROVE  DOMAIN source[l].proofs # {}
  BY DEF Copies, CopyOf
<1>1. g \in Shapes /\ l \in Leaf /\ DOMAIN source \subseteq Leaf /\ SenderCopy(l, source[l])
  BY DEF SenderInv
<1>2. source[l].links = g[l] \cap DOMAIN source
  BY DEF PrunedSource
<1>3. g[l] \subseteq Leaf /\ IsFiniteSet(g[l])
  BY <1>1, LinksOfShape
<1>4. Cardinality(g[l]) > 1
  <2>1. PICK a \in g[l], b \in g[l] : a # b
    BY <1>2
  <2>2. Cardinality({a}) = 1 /\ {a} # g[l]
    BY <2>1, FS_Singleton
  <2> QED
    BY <1>3, <2>2, Subsets
<1>5. IsPartial(source)
  <2>1. DOMAIN source # Leaf
    BY <1>2, <1>3
  <2>2. Cardinality(DOMAIN source) < Cardinality(Leaf)
    BY <1>1, <2>1, LeafAssumption, Subsets
  <2> QED
    BY <2>2 DEF IsPartial
<1> QED
  BY <1>1, <1>2, <1>4, <1>5 DEF SenderCopy

LEMMA PrunedInit == SenderInit => PrunedSource
<1> SUFFICES ASSUME SenderInit PROVE PrunedSource
  OBVIOUS
<1>1. PICK k \in Senders : source \in Kinds(g)[k]
  BY DEF SenderInit
<1>2. CASE k = "full"
  BY <1>1, <1>2 DEF Kinds, FullDag, Genuine, PrunedSource
<1>3. ASSUME NEW r, NEW prune \in BOOLEAN, source = GetPartial(g, r, prune)
      PROVE  PrunedSource
  <2>1. DOMAIN source = Members(g, r)
    BY <1>3 DEF GetPartial
  <2> QED
    BY <1>3, <2>1 DEF GetPartial, PrunedSource
<1>4. CASE k = "partial"
  <2>1. PICK r : source = GetPartial(g, r, FALSE)
    BY <1>1, <1>4 DEF Kinds
  <2> QED
    BY <2>1, <1>3
<1>5. CASE k = "pruned"
  <2>1. PICK r : source = GetPartial(g, r, TRUE)
    BY <1>1, <1>5 DEF Kinds
  <2> QED
    BY <2>1, <1>3
<1> QED
  BY <1>1, <1>2, <1>4, <1>5, SendersAssumption

-----------------------------------------------------------------------------
(* Storing keeps that *)

LEMMA WithLeavesSound ==
    ASSUME NEW st, NEW copies, Sound(st), Copies(copies)
    PROVE  Sound(WithLeaves(st, copies))
<1> DEFINE after == WithLeaves(st, copies)
<1>1. /\ after.leafs = Merge(copies, st.leafs)
      /\ after.inlined = (st.inlined \ DOMAIN copies) \cup
                         {l \in DOMAIN copies : HasContent(l) /\ ~separateContent}
      /\ after.contents = st.contents \cup Aside(DOMAIN copies)
  BY DEF WithLeaves
<1> HIDE DEF after
<1>2. DOMAIN after.leafs = DOMAIN copies \cup DOMAIN st.leafs /\ Copies(after.leafs)
  BY <1>1 DEF Merge, Copies, Sound
<1>3. after.inlined \subseteq DOMAIN after.leafs
  BY <1>1, <1>2 DEF Sound
<1>4. \A l \in after.inlined \cup after.contents : HasContent(l)
  BY <1>1 DEF Sound, Aside
<1>5. ~separateContent => after.contents = {}
  BY <1>1 DEF Sound, Aside
<1> QED
  BY <1>2, <1>3, <1>4, <1>5 DEF Sound, after

LEMMA FailedLeafSound ==
    ASSUME NEW st, NEW l, NEW copy, Sound(st), CopyOf(l, copy), NEW s \in FailedLeaf(st, l, copy)
    PROVE  Sound(s)
<1>1. CASE s = st
  BY <1>1
<1>2. CASE s = StoreContent(st, l)
  <2>1. /\ s.leafs = st.leafs /\ s.inlined = st.inlined
        /\ s.contents = st.contents \cup Aside({l})
    BY <1>2 DEF StoreContent, Contents
  <2> QED
    BY <2>1 DEF Sound, Aside
<1>3. CASE s = WithLeaves(st, Only(l, copy))
  <2>1. Copies(Only(l, copy))
    BY DEF Copies, Only
  <2> QED
    BY <1>3, <2>1, WithLeavesSound
<1> QED
  BY <1>1, <1>2, <1>3 DEF FailedLeaf

LEMMA StoreLeafSound ==
    ASSUME NEW st, NEW l, NEW copy, Sound(st), CopyOf(l, copy), NEW o \in StoreLeaf(st, l, copy)
    PROVE  Sound(o.st)
<1>1. Copies(Only(l, copy))
  BY DEF Copies, Only
<1>2. CASE o = Outcome(WithLeaves(st, Only(l, copy)), TRUE)
  BY <1>1, <1>2, WithLeavesSound DEF Outcome
<1>3. CASE \E s \in FailedLeaf(st, l, copy) : o = Outcome(s, FALSE)
  BY <1>3, FailedLeafSound DEF Outcome
<1> QED
  BY <1>2, <1>3 DEF StoreLeaf

LEMMA StoreBatchSound ==
    ASSUME NEW st, NEW copies, Sound(st), Copies(copies), NEW o \in StoreBatch(st, copies)
    PROVE  Sound(o.st)
<1>1. CASE o = Outcome(StoreLeaves(st, copies), TRUE)
  <2>1. /\ o.st.leafs = Merge(copies, st.leafs)
        /\ o.st.inlined = st.inlined \cup {l \in DOMAIN copies : HasContent(l)}
        /\ o.st.contents = st.contents
    BY <1>1 DEF Outcome, StoreLeaves
  <2>2. DOMAIN o.st.leafs = DOMAIN copies \cup DOMAIN st.leafs /\ Copies(o.st.leafs)
    BY <2>1 DEF Merge, Copies, Sound
  <2> QED
    BY <2>1, <2>2 DEF Sound
<1>2. CASE o = Outcome(WithLeaves(st, copies), TRUE)
  BY <1>2, WithLeavesSound DEF Outcome
<1>3. ASSUME NEW l \in DOMAIN copies,
             NEW s \in FailedLeaf(WithLeaves(st, Before(copies, l)), l, copies[l]),
             o = Outcome(s, FALSE)
      PROVE  Sound(o.st)
  <2>1. Copies(Before(copies, l))
    BY DEF Copies, Before
  <2>2. Sound(WithLeaves(st, Before(copies, l)))
    BY <2>1, WithLeavesSound
  <2>3. CopyOf(l, copies[l])
    BY DEF Copies
  <2> QED
    BY <1>3, <2>2, <2>3, FailedLeafSound DEF Outcome
<1> QED
  BY <1>1, <1>2, <1>3 DEF StoreBatch

-----------------------------------------------------------------------------
(* What arrives comes from the sender *)

LEMMA PacketCopy ==
    ASSUME SenderInv, PrunedSource, NEW i \in DOMAIN sequence,
           NEW packet \in Packets!OnTheWire(Packets!Packet(sequence[i]), Damage)
    PROVE  CopyOf(packet.leaf, packet.copy)
<1> DEFINE l == sequence[i].leaf
           sound == Packets!Packet(sequence[i])
<1>1. l \in DOMAIN source /\ CopyOf(l, source[l]) /\ IsCopy(l, source[l])
  <2>1. l \in DOMAIN source
    BY EntryFacts
  <2> QED
    BY <2>1, SourceCopies DEF Copies, SenderInv, SenderCopy
<1>2. sound.leaf = l /\ sound.copy = source[l]
  BY DEF Packets!Packet
<1>3. CASE packet = sound
  BY <1>1, <1>2, <1>3
<1>4. CASE packet \in Packets!LeafDamaged(sound)
  <2>1. /\ packet.leaf = l /\ packet.copy.links = source[l].links
        /\ packet.copy.proofs = source[l].proofs
    BY <1>1, <1>4 DEF Packets!LeafDamaged, Packets!Garbled, Packets!Packet, IsCopy
  <2> QED
    BY <1>1, <2>1 DEF CopyOf
<1>5. CASE packet \in Packets!ProofDamaged(sound)
  <2>1. packet.leaf = l /\ packet.copy = source[l]
    BY <1>5 DEF Packets!ProofDamaged, Packets!Packet
  <2> QED
    BY <1>1, <2>1
<1> QED
  BY <1>3, <1>4, <1>5, DamageAssumption DEF Packets!OnTheWire

(* The instance brings its own copy of FiniteSets.                            *)
LEMMA SameCardinality == ASSUME NEW S PROVE Batches!Cardinality(S) = Cardinality(S)
  BY DEF Cardinality, Batches!Cardinality

(* A parent that is sent without proofs has all its links.                   *)
LEMMA FinalCopies ==
    ASSUME SenderInv, PrunedSource, NEW i, NEW l \in DOMAIN source
    PROVE  CopyOf(l, Batches!FinalCopy(Batches!Entries(i), l))
<1> DEFINE batch == Batches!Entries(i)
           copy == Batches!FinalCopy(batch, l)
<1>1. /\ copy.links = source[l].links
      /\ copy.proofs = IF batching THEN Batches!FinalProofs(batch, l) ELSE source[l].proofs
  BY DEF Batches!FinalCopy
<1>2. CopyOf(l, source[l])
  BY SourceCopies DEF Copies
<1>3. /\ l \in Leaf /\ l # NoParent
      /\ source[l].links \subseteq g[l] /\ IsFiniteSet(g[l])
  <2>1. l \in Leaf /\ g \in Shapes /\ source[l].links \subseteq g[l]
    BY DEF SenderInv, SenderCopy, IsCopy
  <2> QED
    BY <2>1, LinksOfShape, LeafAssumption DEF NoParent
<1>4. Batches!ChildrenIn(batch, l) \subseteq source[l].links
  <2>1. ASSUME NEW e \in batch, e.parent = l
        PROVE  e.leaf \in source[l].links
    <3>1. PICK k \in DOMAIN sequence : e = sequence[k]
      BY DEF Batches!Entries
    <3> QED
      BY <1>3, <2>1, <3>1, EntryFacts
  <2> HIDE DEF batch
  <2> QED
    BY <2>1 DEF Batches!ChildrenIn
<1> SUFFICES ASSUME source[l].links # {}, source[l].links # g[l]
             PROVE  DOMAIN copy.proofs # {}
  BY <1>1 DEF CopyOf
<1>5. Cardinality(Batches!ChildrenIn(batch, l)) # Cardinality(g[l])
  <2>1. Batches!ChildrenIn(batch, l) \subseteq g[l] /\ Batches!ChildrenIn(batch, l) # g[l]
    BY <1>3, <1>4
  <2> HIDE DEF batch
  <2> QED
    BY <1>3, <2>1, Subsets
<1>6. DOMAIN source[l].proofs # {}
  BY <1>2 DEF CopyOf
<1> HIDE DEF batch, copy
<1>7. /\ Batches!FinalProofs(batch, l) = source[l].proofs
         \/ Batches!FinalProofs(batch, l) = Batches!Merge(Batches!ProofsFor(g, l, source[l].links),
                                                         source[l].proofs)
  BY <1>5, SameCardinality DEF Batches!FinalProofs, Batches!CurrentLinkCount
<1> QED
  BY <1>1, <1>6, <1>7 DEF Batches!Merge

LEMMA BatchCopies ==
    ASSUME SenderInv, PrunedSource, NEW i, NEW packet \in Batches!OnTheWire(Batches!Packet(i), Damage)
    PROVE  Copies(packet.leaves)
<1> DEFINE batch == Batches!Entries(i)
           leaves == {e.leaf : e \in batch}
           sound == Batches!Packet(i)
<1>1. sound = [leaves |-> [l \in leaves |-> Batches!FinalCopy(batch, l)],
               parent |-> [l \in leaves |-> (CHOOSE e \in batch : e.leaf = l).parent]]
  BY DEF Batches!Packet, Batches!Packed
<1>2. leaves \subseteq DOMAIN source
  <2>1. ASSUME NEW e \in batch PROVE e.leaf \in DOMAIN source
    <3>1. PICK k \in DOMAIN sequence : e = sequence[k]
      BY DEF Batches!Entries
    <3> QED
      BY <3>1, EntryFacts
  <2> HIDE DEF batch
  <2> QED
    BY <2>1
<1>3. \A l \in leaves : CopyOf(l, Batches!FinalCopy(batch, l))
  BY <1>2, FinalCopies
<1>4. \A l : DOMAIN Batches!FinalCopy(batch, l) = {"links", "proofs", "intact"}
  BY DEF Batches!FinalCopy
<1> HIDE DEF batch, leaves
<1>5. CASE packet = sound
  BY <1>1, <1>3, <1>5 DEF Copies
<1>6. CASE packet \in Batches!LeafDamaged(sound)
  <2>0. PICK k \in leaves :
           packet = [sound EXCEPT !.leaves[k] = Batches!Garbled(@)]
    BY <1>1, <1>6 DEF Batches!LeafDamaged
  <2>1. /\ DOMAIN packet.leaves = leaves
        /\ \A l \in leaves :
              /\ packet.leaves[l].links = Batches!FinalCopy(batch, l).links
              /\ packet.leaves[l].proofs = Batches!FinalCopy(batch, l).proofs
    BY <1>1, <1>4, <2>0 DEF Batches!Garbled
  <2> QED
    BY <1>3, <2>1 DEF Copies, CopyOf
<1>7. CASE packet \in Batches!ProofDamaged(sound)
  <2>1. DOMAIN sound.leaves = leaves
    BY <1>1
  <2>2. PICK k \in leaves :
           packet \in {[sound EXCEPT !.leaves[k].proofs = Batches!Broken(@, {c})] :
                          c \in DOMAIN sound.leaves[k].proofs}
    <3> HIDE DEF sound
    <3> QED
      BY <1>7, <2>1 DEF Batches!ProofDamaged
  <2>3. PICK c : packet = [sound EXCEPT !.leaves[k].proofs = Batches!Broken(@, {c})]
    BY <2>2
  <2>4. \A proofs : DOMAIN Batches!Broken(proofs, {c}) = DOMAIN proofs
    BY DEF Batches!Broken
  <2>5. /\ DOMAIN packet.leaves = leaves
        /\ \A l \in leaves :
              /\ packet.leaves[l].links = Batches!FinalCopy(batch, l).links
              /\ DOMAIN packet.leaves[l].proofs = DOMAIN Batches!FinalCopy(batch, l).proofs
    <3> DEFINE final(l) == Batches!FinalCopy(batch, l)
               damaged == [final(k) EXCEPT !.proofs = Batches!Broken(@, {c})]
    <3>1. sound.leaves = [l \in leaves |-> final(l)]
      BY <1>1
    <3>2. packet.leaves = [[l \in leaves |-> final(l)] EXCEPT ![k] = damaged]
      <4>1. DOMAIN sound = {"leaves", "parent"}
        BY <1>1
      <4>2. packet.leaves = [sound.leaves EXCEPT ![k].proofs = Batches!Broken(@, {c})]
        <5> HIDE DEF sound
        <5> QED
          BY <2>3, <4>1
      <4> HIDE DEF sound, final
      <4> QED
        BY <3>1, <4>2
    <3>3. /\ damaged.links = final(k).links
          /\ DOMAIN damaged.proofs = DOMAIN final(k).proofs
      <4>1. DOMAIN final(k) = {"links", "proofs", "intact"}
        BY <1>4
      <4> HIDE DEF final
      <4> QED
        BY <2>4, <4>1
    <3>4. packet.leaves = [l \in leaves |-> IF l = k THEN damaged ELSE final(l)]
      <4> HIDE DEF damaged, final
      <4> QED
        BY <3>2
    <3> HIDE DEF damaged
    <3> QED
      BY <3>3, <3>4
  <2> QED
    BY <1>3, <2>5 DEF Copies, CopyOf
<1> QED
  BY <1>5, <1>6, <1>7, DamageAssumption DEF Batches!OnTheWire

-----------------------------------------------------------------------------
(* The invariant is inductive *)

(* The senders of the instance are those of this module.                     *)
LEMMA SameSender == Batches!SenderInit => SenderInit
<1>1. \A h : Batches!Kinds(h) = Kinds(h)
  BY DEF Batches!Kinds, Batches!FullDag, Batches!Genuine, Batches!GetPartial,
     Batches!Members, Batches!VerificationPath, Batches!IsIndexedParent, Batches!IsLowest,
     Batches!PathProofs, Batches!CompleteParentProofs, Batches!ProofsFor,
     Batches!CurrentLinkCount, Batches!Branch, Batches!NoProofs, Batches!Merge,
     Batches!Cardinality,
     Kinds, FullDag, Genuine, GetPartial, Members, VerificationPath, IsIndexedParent, IsLowest,
     PathProofs, CompleteParentProofs, ProofsFor, CurrentLinkCount, Branch, NoProofs, Merge,
     Cardinality
<1> QED
  BY <1>1 DEF Batches!SenderInit, Batches!NoParent, SenderInit, NoParent

LEMMA StoreInit == Init => IInv
<1> SUFFICES ASSUME Init PROVE IInv
  OBVIOUS
<1>1. SenderInv /\ PrunedSource
  BY SameSender, SenderInitInv, PrunedInit DEF Init, Batches!BatchInit
<1>2. Sound(State)
  BY DEF Init, Sound, State, Copies
<1> QED
  BY <1>1, <1>2 DEF Init, IInv

(* A method that leaves a sound state behind, whatever it does to halved.     *)
LEMMA LeaveSound ==
    ASSUME IInv, NEW st, Leave(st), Sound(st), root' \in {NoParent, Root}
    PROVE  IInv'
<1>1. /\ UNCHANGED sent /\ memory' = memory /\ separateContent' = separateContent
      /\ leafs' = st.leafs /\ inlined' = st.inlined /\ contents' = st.contents
  BY DEF Leave, fixed
<1>2. SenderInv'
  BY <1>1, SenderStep DEF IInv
<1>3. PrunedSource' /\ Sound(State)'
  BY <1>1 DEF IInv, sent, PrunedSource, Sound, State, Copies, CopyOf, HasContent
<1> QED
  BY <1>1, <1>2, <1>3 DEF IInv

LEMMA StoreStep == IInv /\ [Next]_vars => IInv'
<1> SUFFICES ASSUME IInv, [Next]_vars PROVE IInv'
  OBVIOUS
<1>0. SenderInv /\ PrunedSource /\ Sound(State) /\ root \in {NoParent, Root}
  BY DEF IInv
<1>1. CASE Prepare \/ UNCHANGED vars
  <2>1. /\ [ExtendSequence]_sent /\ g' = g /\ source' = source
        /\ UNCHANGED <<memory, separateContent, stored, root>>
    BY <1>1 DEF Prepare, Batches!ExtendBatches, Batches!AppendToBatch, Batches!NextParentInBatch,
                Batches!AppendChild, Batches!NextParent, Batches!Unvisited, Batches!Sequenced,
                Batches!IsLowest, ExtendSequence, AppendChild, NextParent, Unvisited, Sequenced,
                IsLowest, vars, fixed, sent, stored
  <2>2. SenderInv'
    BY <1>0, <2>1, SenderStep
  <2>3. PrunedSource' /\ Sound(State)'
    BY <1>0, <2>1 DEF PrunedSource, stored, Sound, State, Copies, CopyOf, HasContent
  <2> QED
    BY <2>1, <2>2, <2>3 DEF IInv
<1>2. CASE DeliverPacket
  <2>0. PICK i \in DOMAIN sequence :
           \E packet \in Packets!OnTheWire(Packets!Packet(sequence[i]), Damage) :
              AddTransmissionPacket(packet)
    BY <1>2 DEF DeliverPacket
  <2>1. PICK packet \in Packets!OnTheWire(Packets!Packet(sequence[i]), Damage) :
           AddTransmissionPacket(packet)
    BY <2>0
  <2>2. PICK o \in StoreLeaf(State, packet.leaf, packet.copy) :
               /\ Leave(o.st)
               /\ root' = IF o.ok /\ packet.parent = NoParent THEN Root ELSE root
    BY <2>1 DEF AddTransmissionPacket
  <2>3. CopyOf(packet.leaf, packet.copy)
    BY <1>0, PacketCopy
  <2>4. Sound(o.st)
    BY <1>0, <2>3, StoreLeafSound
  <2> QED
    BY <1>0, <2>2, <2>4, LeaveSound
<1>3. CASE DeliverBatch
  <2>0. PICK i \in starts : \E packet \in Batches!OnTheWire(Batches!Packet(i), Damage) :
                                AddBatchedTransmissionPacket(packet)
    BY <1>3 DEF DeliverBatch
  <2>1. PICK packet \in Batches!OnTheWire(Batches!Packet(i), Damage) : AddBatchedTransmissionPacket(packet)
    BY <2>0
  <2>2. PICK o \in IF VerifyBatch(packet) THEN StoreBatch(State, packet.leaves)
                   ELSE {Outcome(State, FALSE)} : Leave(o.st)
    BY <2>1 DEF AddBatchedTransmissionPacket
  <2>3. root' \in {NoParent, Root}
    BY <1>0, <2>1 DEF AddBatchedTransmissionPacket
  <2>4. CASE o \in StoreBatch(State, packet.leaves)
    <3>1. Copies(packet.leaves)
      BY <1>0, BatchCopies
    <3>2. Sound(o.st)
      BY <1>0, <2>4, <3>1, StoreBatchSound
    <3> QED
      BY <2>2, <2>3, <3>2, LeaveSound
  <2>5. CASE o = Outcome(State, FALSE)
    <3>1. o.st = State
      BY <2>5 DEF Outcome
    <3> QED
      BY <1>0, <2>2, <2>3, <3>1, LeaveSound
  <2> QED
    BY <2>2, <2>4, <2>5
<1>4. CASE \E l \in Leaf : DeleteLeaf(l)
  <2>1. PICK l \in Leaf : DeleteLeaf(l)
    BY <1>4
  <2> DEFINE second == Contents(State, contents \ {l})
             third  == [leafs    |-> [k \in DOMAIN leafs \ {l} |-> leafs[k]],
                        inlined  |-> inlined \ {l},
                        contents |-> contents \ {l}]
  <2>2. PICK st \in {third, State, second} : Leave(st)
    BY <2>1 DEF DeleteLeaf
  <2>3. root' = root
    BY <2>1 DEF DeleteLeaf
  <2>4. Sound(second)
    BY <1>0 DEF Sound, Contents, State
  <2>5. Sound(third)
    BY <1>0 DEF Sound, State, Copies
  <2> HIDE DEF second, third
  <2> QED
    BY <1>0, <2>2, <2>3, <2>4, <2>5, LeaveSound
<1>5. CASE Restart
  <2>1. /\ UNCHANGED sent /\ memory' = memory /\ separateContent' = separateContent
        /\ root' \in {NoParent, Root}
        /\ \/ leafs' = [l \in {} |-> Genuine(g, l)] /\ inlined' = {} /\ contents' = {}
           \/ leafs' = leafs /\ inlined' = inlined /\ contents' = contents
    BY <1>5 DEF Restart, fixed
  <2>2. SenderInv'
    BY <1>0, <2>1, SenderStep
  <2>3. PrunedSource' /\ Sound(State)'
    BY <1>0, <2>1 DEF sent, PrunedSource, Sound, State, Copies, CopyOf, HasContent
  <2> QED
    BY <2>1, <2>2, <2>3 DEF IInv
<1> QED
  BY <1>1, <1>2, <1>3, <1>4, <1>5 DEF Next

LEMMA StoreInv == Spec => []IInv
  BY StoreInit, StoreStep, PTL DEF Spec

(* The store holds leaves of the sender's, with the links they were sent      *)
(* with, and content of leaves that have some.                               *)
THEOREM StoreTypeCorrect == Spec => []TypeOK
<1>1. IInv => TypeOK
  BY DEF IInv, Sound, State, Copies, CopyOf, TypeOK
<1> QED
  BY <1>1, StoreInv, PTL

-----------------------------------------------------------------------------
(* Streaming verification *)

Links(d) == [k \in Leaf |-> IF k \in DOMAIN d THEN d[k].links ELSE {}]

(* What the store lists is closed under the links that lead somewhere, so     *)
(* that verifying leaf by leaf sees the same leaves as verifying ToDag.      *)
LEMMA ListedFacts ==
    ASSUME IInv, root = Root
    PROVE  /\ Listed \subseteq DOMAIN leafs /\ DOMAIN leafs \subseteq Leaf
           /\ Root \in DOMAIN leafs => Root \in Listed
           /\ \A p \in Listed : leafs[p].links \subseteq g[p]
           /\ \A p \in Listed : leafs[p].links \cap DOMAIN leafs \subseteq Listed
<1>1. DOMAIN leafs \subseteq Leaf /\ \A p \in DOMAIN leafs : leafs[p].links \subseteq g[p]
  BY DEF IInv, Sound, State, Copies, CopyOf, SenderInv, SenderCopy, IsCopy
<1>2. CASE memory
  BY <1>1, <1>2 DEF Listed
<1>3. CASE ~memory
  <2> DEFINE reach == Reach(Links(leafs), {Root})
  <2>1. Listed = {l \in DOMAIN leafs : l \in reach}
    BY <1>3, LeafAssumption DEF Listed, NoParent, Links
  <2>2. Root \in reach
    BY LeafAssumption DEF Reach
  <2>3. ASSUME NEW p \in Listed, NEW c \in leafs[p].links \cap DOMAIN leafs
        PROVE  c \in Listed
    <3>1. p \in reach /\ p \in Leaf /\ c \in Leaf /\ Links(leafs)[p] = leafs[p].links
      BY <1>1, <2>1, <2>3 DEF Links
    <3>2. c \in reach
      BY <3>1, <2>3 DEF Reach
    <3> QED
      BY <2>1, <2>3, <3>2
  <2> HIDE DEF reach
  <2> QED
    BY <1>1, <2>1, <2>2, <2>3
<1> QED
  BY <1>2, <1>3

(* Counting the root's children that are there and looking for one that is    *)
(* not come to the same.                                                     *)
LEMMA RootAgrees ==
    ASSUME IInv, root = Root, Root \in DOMAIN leafs, leafs[Root].links # {}
    PROVE  VerifyLeaf(leafs[Root]) /\ VerifyRootStreaming <=> VerifyPartialRoot(g, ToDag)
<1> DEFINE links == leafs[Root].links
           there == links \cap DOMAIN leafs
           n == Cardinality(g[Root])
<1>1. /\ links \subseteq g[Root] /\ Root \in Listed /\ ToDag[Root] = leafs[Root]
      /\ DOMAIN ToDag = Listed /\ links \cap Listed = there
      /\ links # g[Root] => DOMAIN leafs[Root].proofs # {}
  BY ListedFacts DEF ToDag, IInv, Sound, State, Copies, CopyOf
<1>2. IsFiniteSet(g[Root])
  BY LinksOfShape, LeafAssumption DEF IInv, SenderInv
<1>3. /\ n \in Nat /\ Cardinality(links) \in Nat /\ Cardinality(there) \in Nat
      /\ Cardinality(links) = n <=> links = g[Root]
      /\ Cardinality(there) = n <=> there = g[Root]
  BY <1>1, <1>2, Subsets
<1>4. n > 0
  <2>1. Cardinality({}) = 0 /\ {} \subseteq g[Root] /\ {} # g[Root]
    BY <1>1, FS_EmptySet
  <2> QED
    BY <1>2, <1>3, <2>1, Subsets
<1>5. HasAllLinks(g, leafs, Root) <=> links = g[Root]
  BY <1>3, <1>4 DEF HasAllLinks, CurrentLinkCount
<1>6. HasAllLinks(g, ToDag, Root) <=> links = g[Root]
  BY <1>1, <1>5 DEF HasAllLinks
<1>7. links \subseteq Listed <=> there = links
  BY <1>1
<1>8. VerifyRootStreaming <=>
         IF links = g[Root] /\ there = g[Root] THEN TRUE
         ELSE n <= 1 \/ there = g[Root] \/ DOMAIN leafs[Root].proofs # {}
  BY <1>3, <1>5 DEF VerifyRootStreaming, VerifyChildren, CurrentLinkCount
<1>9. VerifyPartialRoot(g, ToDag) <=>
         /\ VerifyLeaf(leafs[Root])
         /\ links = g[Root] => there = links \/ n = 1 \/ DOMAIN leafs[Root].proofs # {}
  BY <1>1, <1>6, <1>7 DEF VerifyPartialRoot, VerifyChildren, CurrentLinkCount
<1> HIDE DEF links, there, n
<1> QED
  BY <1>1, <1>3, <1>4, <1>8, <1>9 DEF links

LEMMA StepsAgree ==
    ASSUME IInv, root = Root, Root \in DOMAIN leafs
    PROVE  \A p \in Listed : \A c : VerifyStep(g, leafs, p, c) <=> VerifyStep(g, ToDag, p, c)
<1> SUFFICES ASSUME NEW p \in Listed, NEW c
             PROVE  VerifyStep(g, leafs, p, c) <=> VerifyStep(g, ToDag, p, c)
  OBVIOUS
<1>1. ToDag[p] = leafs[p] /\ DOMAIN ToDag = Listed
  BY DEF ToDag
<1>2. leafs[p].links \subseteq DOMAIN leafs <=> leafs[p].links \subseteq Listed
  BY ListedFacts
<1> QED
  BY <1>1, <1>2 DEF VerifyStep, HasAllLinks, HasValidProof

(* Whatever was stored, failed or deleted, in any order: verifying the store  *)
(* leaf by leaf accepts it exactly if verifying the DAG it holds does.  For   *)
(* every DAG, sender and kind of store.                                      *)
THEOREM StreamingIsExact == Spec => []StreamingAgrees
<1>1. ASSUME IInv PROVE StreamingAgrees
  <2> SUFFICES ASSUME Root \in DOMAIN leafs, leafs[Root].links # {}
               PROVE  VerifyStreaming <=> (root # NoParent /\ Verify(g, ToDag))
    BY DEF StreamingAgrees
  <2>1. CASE root = NoParent
    BY <2>1 DEF VerifyStreaming
  <2>2. CASE root = Root
    <3>0. root # NoParent
      BY <2>2, LeafAssumption DEF NoParent
    <3>1. /\ Listed \subseteq DOMAIN leafs /\ DOMAIN leafs \subseteq Leaf /\ Root \in Listed
          /\ DOMAIN ToDag = Listed /\ \A p \in Listed : ToDag[p] = leafs[p]
      BY <1>1, <2>2, ListedFacts DEF ToDag
    <3>2. IsPartial(ToDag) <=> Cardinality(Listed) < Cardinality(Leaf)
      BY <3>1 DEF IsPartial
    <3>3. CASE Cardinality(Listed) < Cardinality(Leaf)
      <4>1. \A c : Parents(ToDag, c) \subseteq Listed
        BY <3>1 DEF Parents
      <4>2. VerifyPartialStreaming <=> VerifyWithProofs(g, ToDag)
        <5>1. VerifyLeaf(leafs[Root]) /\ VerifyRootStreaming <=> VerifyPartialRoot(g, ToDag)
          BY <1>1, <2>2, RootAgrees
        <5>2. \A c \in Listed : VerifyLeaf(leafs[c]) <=> VerifyLeaf(ToDag[c])
          BY <3>1
        <5>3. \A c, p : p \in Parents(ToDag, c) =>
                 (VerifyStep(g, leafs, p, c) <=> VerifyStep(g, ToDag, p, c))
          BY <1>1, <2>2, <4>1, StepsAgree
        <5> QED
          BY <3>1, <5>1, <5>2, <5>3 DEF VerifyPartialStreaming, VerifyWithProofs
      <4> QED
        BY <3>0, <3>1, <3>2, <3>3, <4>2 DEF VerifyStreaming, Verify
    <3>4. CASE ~(Cardinality(Listed) < Cardinality(Leaf))
      <4>1. Listed = Leaf
        BY <3>1, <3>4, LeafAssumption, Subsets
      <4>2. /\ DOMAIN leafs = Leaf /\ DOMAIN ToDag = Leaf
            /\ \A l \in Leaf : ToDag[l] = leafs[l] /\ leafs[l].links \subseteq Leaf
        <5>1. \A l \in Leaf : leafs[l].links \subseteq g[l] /\ g[l] \subseteq Leaf
          BY <1>1, <2>2, <4>1, ListedFacts, LinksOfShape DEF IInv, SenderInv
        <5> QED
          BY <3>1, <4>1, <5>1
      <4> DEFINE links == [k \in Leaf |-> IF k \in DOMAIN leafs THEN leafs[k].links ELSE {}]
      <4>3. Reach(links, {Root}) \subseteq Leaf
        BY DEF Reach
      <4>4. \A l \in Leaf : HasAllLinks(g, leafs, l) <=> HasAllLinks(g, ToDag, l)
        BY <4>2 DEF HasAllLinks
      <4>5. VerifyFullStreaming <=>
              \A l \in Reach(links, {Root}) :
                 VerifyLeaf(leafs[l]) /\ (HasAllLinks(g, leafs, l) => VerifyChildren(g, l, leafs[l]))
        BY <4>2, <4>3 DEF VerifyFullStreaming
      <4>6. VerifyFullDag(g, ToDag) <=>
              \A l \in Reach(links, {Root}) :
                 VerifyLeaf(leafs[l]) /\ (HasAllLinks(g, leafs, l) => VerifyChildren(g, l, leafs[l]))
        <5> DEFINE reached == Reach(links, {Root})
                   Fits(l) == /\ VerifyLeaf(leafs[l])
                              /\ HasAllLinks(g, leafs, l) => VerifyChildren(g, l, leafs[l])
        <5>1. \A l \in Leaf : links[l] = ToDag[l].links /\ links[l] \subseteq Leaf
          BY <4>2
        <5>2. \A l \in Leaf :
                 Fits(l) <=> /\ VerifyLeaf(ToDag[l])
                             /\ HasAllLinks(g, ToDag, l) => VerifyChildren(g, l, ToDag[l])
          BY <4>2, <4>4
        <5> HIDE DEF links, Fits
        <5>3. /\ Root \in reached /\ reached \subseteq Leaf
              /\ \A l \in reached : links[l] \subseteq reached
          BY <5>1, LeafAssumption DEF Reach
        <5>4. ASSUME VerifyFullDag(g, ToDag) PROVE \A l \in reached : Fits(l)
          <6>1. PICK visited \in SUBSET Leaf :
                   /\ Root \in visited
                   /\ \A l \in visited :
                         /\ VerifyLeaf(ToDag[l])
                         /\ ToDag[l].links \subseteq visited
                         /\ HasAllLinks(g, ToDag, l) => VerifyChildren(g, l, ToDag[l])
            BY <4>2, <5>4 DEF VerifyFullDag
          <6>2. \A l \in visited : links[l] \subseteq visited
            BY <5>1, <6>1
          <6>3. reached \subseteq visited
            BY <6>1, <6>2 DEF Reach
          <6> QED
            BY <5>2, <6>1, <6>3
        <5>5. ASSUME \A l \in reached : Fits(l) PROVE VerifyFullDag(g, ToDag)
          <6>1. \A l \in reached :
                   /\ VerifyLeaf(ToDag[l])
                   /\ ToDag[l].links \subseteq reached
                   /\ HasAllLinks(g, ToDag, l) => VerifyChildren(g, l, ToDag[l])
            BY <5>1, <5>2, <5>3, <5>5
          <6> HIDE DEF reached
          <6> QED
            BY <4>2, <5>3, <6>1 DEF VerifyFullDag
        <5> QED
          BY <5>4, <5>5 DEF Fits
      <4> QED
        BY <3>0, <3>1, <3>2, <3>4, <4>5, <4>6 DEF VerifyStreaming, Verify
    <3> QED
      BY <3>3, <3>4
  <2> QED
    BY <1>1, <2>1, <2>2 DEF IInv
<1> QED
  BY <1>1, StoreInv, PTL

-----------------------------------------------------------------------------
(* Walks.  A walk goes from state to state; what it does of a state is less  *)
(* than before by one of two measures, the first of which counts more.       *)

Less(a, b, y, x) == a[y] < a[x] \/ (a[y] = a[x] /\ b[y] < b[x])

\* What holds of a state when it holds of all lesser ones holds of every state.
LEMMA AllStates ==
    ASSUME NEW X, NEW a \in [X -> Nat], NEW b \in [X -> Nat], NEW G \in SUBSET X,
           \A x \in X : (\A y \in X : Less(a, b, y, x) => y \in G) => x \in G
    PROVE  G = X
<1> SUFFICES ASSUME X \ G # {} PROVE FALSE
  OBVIOUS
<1> DEFINE A == {a[x] : x \in X \ G}
<1>1. PICK m \in A : \A k \in A : m <= k
  <2>1. A \subseteq Nat /\ A # {}
    OBVIOUS
  <2> HIDE DEF A
  <2> QED
    BY <2>1, Least
<1> DEFINE B == {b[x] : x \in {z \in X \ G : a[z] = m}}
<1>2. PICK n \in B : \A k \in B : n <= k
  <2>1. B \subseteq Nat /\ B # {}
    OBVIOUS
  <2> HIDE DEF B
  <2> QED
    BY <2>1, Least
<1>3. PICK x \in X \ G : a[x] = m /\ b[x] = n
  OBVIOUS
<1>4. ASSUME NEW y \in X, Less(a, b, y, x) PROVE y \in G
  <2> SUFFICES ASSUME y \notin G PROVE FALSE
    OBVIOUS
  <2>1. a[y] \in A /\ a[y] \in Nat /\ a[x] \in Nat /\ b[y] \in Nat /\ b[x] \in Nat
    OBVIOUS
  <2>2. m <= a[y]
    BY <1>1, <2>1
  <2>3. a[y] = m /\ b[y] < n
    BY <1>3, <1>4, <2>1, <2>2 DEF Less
  <2>4. b[y] \in B
    BY <2>3
  <2>5. n <= b[y] /\ n \in Nat
    BY <1>2, <1>3, <2>1, <2>4
  <2> HIDE DEF B
  <2> QED
    BY <2>1, <2>3, <2>5
<1> QED
  BY <1>3, <1>4

\* A function that ends at the states in Stop and goes on to next elsewhere.
IsWalk(f, S, Stop, out, next) == f = [x \in S |-> IF x \in Stop THEN out[x] ELSE f[next[x]]]

Follows(S, Stop, next) == \A x \in S \ Stop : next[x] \in S

LEMMA WalksAgree ==
    ASSUME NEW X, NEW a \in [X -> Nat], NEW b \in [X -> Nat], NEW Stop, NEW out, NEW next,
           \A x \in X \ Stop : next[x] \in X /\ Less(a, b, next[x], x),
           NEW S \in SUBSET X, NEW R \in SUBSET X, NEW f, NEW h,
           Follows(S, Stop, next), IsWalk(f, S, Stop, out, next),
           Follows(R, Stop, next), IsWalk(h, R, Stop, out, next)
    PROVE  \A x \in S \cap R : f[x] = h[x]
<1> DEFINE G == {x \in X : x \in S \cap R => f[x] = h[x]}
<1>1. ASSUME NEW x \in X, \A y \in X : Less(a, b, y, x) => y \in G
      PROVE  x \in G
  <2> SUFFICES ASSUME x \in S \cap R PROVE f[x] = h[x]
    OBVIOUS
  <2>1. f[x] = (IF x \in Stop THEN out[x] ELSE f[next[x]]) /\ h[x] = (IF x \in Stop THEN out[x] ELSE h[next[x]])
    BY DEF IsWalk
  <2>2. x \notin Stop => next[x] \in S \cap R /\ f[next[x]] = h[next[x]]
    BY <1>1 DEF Follows
  <2> QED
    BY <2>1, <2>2
<1>2. G \in SUBSET X
  OBVIOUS
<1>3. G = X
  <2> HIDE DEF G
  <2> QED
    BY <1>1, <1>2, AllStates
<1> QED
  BY <1>3

LEMMA WalkExists ==
    ASSUME NEW X, NEW a \in [X -> Nat], NEW b \in [X -> Nat], NEW Stop, NEW out, NEW next,
           \A x \in X \ Stop : next[x] \in X /\ Less(a, b, next[x], x)
    PROVE  \E f : IsWalk(f, X, Stop, out, next)
<1> DEFINE Part(S, f) == S \in SUBSET X /\ Follows(S, Stop, next) /\ IsWalk(f, S, Stop, out, next)
           G == {x \in X : \E S, f : Part(S, f) /\ x \in S}
<1>1. ASSUME NEW x \in X, \A y \in X : Less(a, b, y, x) => y \in G
      PROVE  x \in G
  <2>1. CASE x \in Stop
    <3> DEFINE f == [z \in {x} |-> out[z]]
    <3>1. Part({x}, f)
      BY <2>1 DEF Follows, IsWalk
    <3> QED
      BY <3>1
  <2>2. CASE x \notin Stop
    <3>1. PICK S, f : Part(S, f) /\ next[x] \in S
      BY <1>1, <2>2
    <3>2. CASE x \in S
      BY <3>1, <3>2
    <3>3. CASE x \notin S
      <4> DEFINE h == [z \in S \cup {x} |-> IF z = x THEN f[next[x]] ELSE f[z]]
      <4>1. Follows(S \cup {x}, Stop, next) /\ S \cup {x} \in SUBSET X
        BY <3>1 DEF Follows
      <4>2. ASSUME NEW z \in S \cup {x}
            PROVE  h[z] = IF z \in Stop THEN out[z] ELSE h[next[z]]
        <5>1. CASE z = x
          BY <2>2, <3>1, <3>3, <5>1
        <5>2. CASE z # x
          <6>1. h[z] = f[z] /\ f[z] = IF z \in Stop THEN out[z] ELSE f[next[z]]
            BY <3>1, <5>2 DEF IsWalk
          <6>2. z \notin Stop => next[z] \in S /\ next[z] # x
            BY <3>1, <3>3, <5>2 DEF Follows
          <6> QED
            BY <6>1, <6>2
        <5> QED
          BY <5>1, <5>2
      <4>3. h = [z \in S \cup {x} |-> h[z]]
        OBVIOUS
      <4>4. IsWalk(h, S \cup {x}, Stop, out, next)
        <5> HIDE DEF h
        <5> QED
          BY <4>2, <4>3 DEF IsWalk
      <4> HIDE DEF h
      <4> QED
        BY <4>1, <4>4
    <3> QED
      BY <3>2, <3>3
  <2> QED
    BY <2>1, <2>2
<1>2. G = X
  <2>1. G \in SUBSET X
    OBVIOUS
  <2> HIDE DEF G
  <2> QED
    BY <1>1, <2>1, AllStates
<1> DEFINE Value(x, v) == \E S, f : Part(S, f) /\ x \in S /\ v = f[x]
           walk == [x \in X |-> CHOOSE v : Value(x, v)]
<1>3. ASSUME NEW S, NEW f, Part(S, f), NEW x \in S
      PROVE  walk[x] = f[x]
  <2>1. Value(x, f[x]) /\ x \in X
    BY <1>3
  <2>2. ASSUME NEW v, Value(x, v) PROVE v = f[x]
    <3>1. PICK R, h : Part(R, h) /\ x \in R /\ v = h[x]
      BY <2>2
    <3> QED
      BY <1>3, <3>1, WalksAgree
  <2> HIDE DEF Value
  <2>3. \A v : Value(x, v) => v = f[x]
    BY <2>2
  <2>4. (CHOOSE v : Value(x, v)) = f[x]
    BY <2>1, <2>3
  <2> QED
    BY <2>1, <2>4
<1>4. ASSUME NEW x \in X
      PROVE  walk[x] = IF x \in Stop THEN out[x] ELSE walk[next[x]]
  <2>1. PICK S, f : Part(S, f) /\ x \in S
    BY <1>2
  <2> HIDE DEF walk
  <2>2. f[x] = IF x \in Stop THEN out[x] ELSE f[next[x]]
    BY <2>1 DEF IsWalk
  <2>3. x \notin Stop => next[x] \in S
    BY <2>1 DEF Follows
  <2>4. walk[x] = f[x] /\ (x \notin Stop => walk[next[x]] = f[next[x]])
    BY <1>3, <2>1, <2>3
  <2> QED
    BY <2>2, <2>4
<1>5. walk = [x \in X |-> walk[x]]
  OBVIOUS
<1>6. IsWalk(walk, X, Stop, out, next)
  <2> HIDE DEF walk
  <2> QED
    BY <1>4, <1>5 DEF IsWalk
<1> QED
  BY <1>6

-----------------------------------------------------------------------------
(* Leaves in order *)

Ranks(S, rank) == /\ \A l \in S : rank[l] \in Nat
                  /\ \A k, l \in S : rank[k] = rank[l] => k = l
Rising(s, n, rank) == \A i, j \in 1..n : i < j => rank[s[i]] < rank[s[j]]

LEMMA OrderExists ==
    ASSUME NEW S, IsFiniteSet(S), NEW rank, Ranks(S, rank)
    PROVE  \E s \in [1..Cardinality(S) -> S] : Rising(s, Cardinality(S), rank)
<1> DEFINE Has(T) == \E s \in [1..Cardinality(T) -> T] : Rising(s, Cardinality(T), rank)
           bad == {Cardinality(T) : T \in {U \in SUBSET S : ~Has(U)}}
<1> SUFFICES ASSUME ~Has(S) PROVE FALSE
  OBVIOUS
<1>1. bad \subseteq Nat /\ bad # {}
  <2>1. \A T \in SUBSET S : Cardinality(T) \in Nat
    BY Subsets
  <2> HIDE DEF Has
  <2> QED
    BY <2>1
<1>2. PICK n \in bad : \A k \in bad : n <= k
  <2> HIDE DEF bad
  <2> QED
    BY <1>1, Least
<1>3. PICK T \in SUBSET S : ~Has(T) /\ n = Cardinality(T)
  OBVIOUS
<1>4. IsFiniteSet(T) /\ n \in Nat
  BY <1>3, Subsets
<1>5. CASE T = {}
  <2>1. Cardinality(T) = 0
    BY <1>5, FS_EmptySet
  <2>2. <<>> \in [1..0 -> T] /\ Rising(<<>>, 0, rank)
    BY <1>5 DEF Rising
  <2> QED
    BY <1>3, <2>1, <2>2
<1>6. CASE T # {}
  <2>1. PICK x \in T : \A l \in T : rank[x] <= rank[l]
    <3> DEFINE R == {rank[l] : l \in T}
    <3>1. R \subseteq Nat /\ R # {}
      BY <1>6 DEF Ranks
    <3> HIDE DEF R
    <3>2. PICK r \in R : \A k \in R : r <= k
      BY <3>1, Least
    <3> QED
      BY <3>2 DEF R
  <2> DEFINE rest == T \ {x}
  <2>2. Cardinality(rest) = n - 1 /\ n >= 1 /\ n - 1 \in Nat /\ rest \in SUBSET S
    <3>1. Cardinality(rest) = Cardinality(T) - 1
      BY <1>4, FS_RemoveElement
    <3>2. Cardinality(rest) \in Nat /\ rest \in SUBSET S
      BY Subsets
    <3> QED
      BY <1>3, <1>4, <3>1, <3>2
  <2>3. Has(rest)
    <3> HIDE DEF Has
    <3> SUFFICES ASSUME ~Has(rest) PROVE FALSE
      OBVIOUS
    <3>1. Cardinality(rest) \in bad
      BY <2>2
    <3>2. n <= n - 1
      BY <1>2, <2>2, <3>1
    <3> QED
      BY <1>4, <3>2
  <2>4. PICK s \in [1..n - 1 -> rest] : Rising(s, n - 1, rank)
    BY <2>2, <2>3
  <2> DEFINE more == [i \in 1..n |-> IF i = 1 THEN x ELSE s[i - 1]]
  <2>5. ASSUME NEW i \in 1..n
        PROVE  /\ more[i] \in T
               /\ i # 1 => i - 1 \in 1..n - 1 /\ more[i] = s[i - 1] /\ more[i] \in rest
               /\ i = 1 => more[i] = x
    <3>1. i # 1 => i - 1 \in 1..n - 1
      BY <1>4
    <3>2. i # 1 => s[i - 1] \in rest
      BY <2>4, <3>1
    <3> QED
      BY <3>1, <3>2
  <2>6. ASSUME NEW i \in 1..n, NEW j \in 1..n, i < j
        PROVE  rank[more[i]] < rank[more[j]]
    <3>1. j # 1
      BY <1>4, <2>6
    <3>2. CASE i = 1
      <4>1. more[i] = x /\ more[j] \in T /\ more[j] # x
        BY <2>5, <3>1, <3>2
      <4>2. rank[x] <= rank[more[j]] /\ rank[x] # rank[more[j]] /\ rank[x] \in Nat /\ rank[more[j]] \in Nat
        BY <2>1, <4>1 DEF Ranks
      <4> HIDE DEF more
      <4> QED
        BY <4>1, <4>2
    <3>3. CASE i # 1
      <4>1. i - 1 \in 1..n - 1 /\ j - 1 \in 1..n - 1 /\ i - 1 < j - 1
        BY <1>4, <2>5, <2>6, <3>1, <3>3
      <4>2. rank[s[i - 1]] < rank[s[j - 1]]
        BY <2>4, <4>1 DEF Rising
      <4> QED
        BY <2>5, <3>1, <3>3, <4>2
    <3> QED
      BY <3>2, <3>3
  <2>7. more \in [1..n -> T] /\ Rising(more, n, rank)
    <3>1. more = [i \in 1..n |-> more[i]]
      OBVIOUS
    <3> HIDE DEF more
    <3> QED
      BY <2>5, <2>6, <3>1 DEF Rising
  <2> HIDE DEF more
  <2> QED
    BY <1>3, <2>7
<1> QED
  BY <1>5, <1>6

LEMMA InOrderIs ==
    ASSUME NEW S, IsFiniteSet(S), NEW rank, Ranks(S, rank)
    PROVE  InOrder(S, rank) \in Seq(S) /\ ToSet(InOrder(S, rank)) = S
<1> DEFINE n == Cardinality(S)
           Fits(s) == s \in [1..n -> S] /\ \A i, j \in DOMAIN s : i < j => rank[s[i]] < rank[s[j]]
<1>1. n \in Nat
  BY FS_CardinalityType
<1>2. \E s : Fits(s)
  <2>1. PICK s \in [1..n -> S] : Rising(s, n, rank)
    BY OrderExists
  <2>2. DOMAIN s = 1..n
    OBVIOUS
  <2> QED
    BY <2>1, <2>2 DEF Rising
<1>3. InOrder(S, rank) = CHOOSE s : Fits(s)
  BY DEF InOrder
<1>4. PICK s : s = InOrder(S, rank)
  OBVIOUS
<1>5. Fits(s)
  <2> HIDE DEF Fits
  <2> QED
    BY <1>2, <1>3, <1>4
<1>6. s \in Seq(S) /\ DOMAIN s = 1..n
  BY <1>1, <1>5
<1>7. \A i, j \in 1..n : s[i] = s[j] => i = j
  <2> SUFFICES ASSUME NEW i \in 1..n, NEW j \in 1..n, s[i] = s[j], i # j PROVE FALSE
    OBVIOUS
  <2>1. i < j \/ j < i
    BY <1>1
  <2>2. rank[s[i]] < rank[s[j]] \/ rank[s[j]] < rank[s[i]]
    BY <1>5, <1>6, <2>1
  <2>3. rank[s[i]] \in Nat
    BY <1>5 DEF Ranks
  <2> QED
    BY <2>2, <2>3
<1>8. s \in Injection(1..n, S)
  BY <1>5, <1>6, <1>7 DEF Injection, IsInjective
<1>9. s \in Surjection(1..n, S)
  <2>1. Cardinality(1..n) = n
    BY <1>1, FS_Interval
  <2> QED
    BY <1>8, <2>1, FS_Injection
<1>10. ToSet(s) = S
  BY <1>6, <1>9 DEF Surjection, ToSet
<1> QED
  BY <1>4, <1>6, <1>10

-----------------------------------------------------------------------------
(* Walks over leaves: each step lists a leaf that was not, or takes one off   *)
(* what is pending.                                                          *)

Unlisted == [w \in Walked |-> Cardinality(Leaf \ ToSet(w.visited))]
Queued == [w \in Walked |-> Len(w.pending)]
Listing == [w \in Walked |-> w.visited]
Start == [visited |-> <<>>, pending |-> <<Root>>]

LEMMA AppendSet ==
    ASSUME NEW S, NEW s \in Seq(S), NEW x
    PROVE  ToSet(Append(s, x)) = ToSet(s) \cup {x}
<1>1. PICK n \in Nat : n = Len(s) /\ DOMAIN s = 1..n
  OBVIOUS
<1>2. PICK t : t = Append(s, x)
  OBVIOUS
<1>3. DOMAIN t = 1..n + 1 /\ t[n + 1] = x /\ \A i \in 1..n : t[i] = s[i]
  BY <1>1, <1>2
<1>4. 1..n + 1 = (1..n) \cup {n + 1}
  BY <1>1
<1>5. ToSet(t) = ToSet(s) \cup {x}
  BY <1>1, <1>3, <1>4 DEF ToSet
<1> QED
  BY <1>2, <1>5

LEMMA ConcatSet ==
    ASSUME NEW S, NEW s \in Seq(S), NEW t \in Seq(S)
    PROVE  ToSet(s \o t) = ToSet(s) \cup ToSet(t)
<1>1. PICK n \in Nat, k \in Nat : n = Len(s) /\ DOMAIN s = 1..n /\ k = Len(t) /\ DOMAIN t = 1..k
  OBVIOUS
<1>2. PICK u : u = s \o t
  OBVIOUS
<1>3. /\ DOMAIN u = 1..n + k /\ \A i \in 1..n : u[i] = s[i]
      /\ \A i \in n + 1..n + k : u[i] = t[i - n]
  BY <1>1, <1>2
<1>4. /\ 1..n + k = (1..n) \cup (n + 1..n + k)
      /\ \A i \in n + 1..n + k : i - n \in 1..k
      /\ \A i \in 1..k : i + n \in n + 1..n + k /\ (i + n) - n = i
  BY <1>1
<1>5. \A i \in 1..k : u[i + n] = t[i]
  BY <1>3, <1>4
<1>6. ToSet(u) \subseteq ToSet(s) \cup ToSet(t)
  <2> SUFFICES ASSUME NEW i \in 1..n + k PROVE u[i] \in ToSet(s) \cup ToSet(t)
    BY <1>3 DEF ToSet
  <2>1. CASE i \in 1..n
    BY <1>1, <1>3, <2>1 DEF ToSet
  <2>2. CASE i \in n + 1..n + k
    <3>1. u[i] = t[i - n] /\ i - n \in DOMAIN t
      BY <1>1, <1>3, <1>4, <2>2
    <3> QED
      BY <3>1 DEF ToSet
  <2> QED
    BY <1>4, <2>1, <2>2
<1>7. ToSet(s) \subseteq ToSet(u)
  BY <1>1, <1>3, <1>4 DEF ToSet
<1>8. ToSet(t) \subseteq ToSet(u)
  <2> SUFFICES ASSUME NEW i \in 1..k PROVE t[i] \in ToSet(u)
    BY <1>1 DEF ToSet
  <2>1. i + n \in DOMAIN u /\ u[i + n] = t[i]
    BY <1>3, <1>4, <1>5
  <2> QED
    BY <2>1 DEF ToSet
<1> QED
  BY <1>2, <1>6, <1>7, <1>8

LEMMA Measures == /\ Unlisted \in [Walked -> Nat] /\ Queued \in [Walked -> Nat]
                  /\ Start \in Walked
<1>1. \A w \in Walked : Cardinality(Leaf \ ToSet(w.visited)) \in Nat /\ Len(w.pending) \in Nat
  BY LeafAssumption, Subsets DEF Walked
<1>2. Start \in Walked
  BY LeafAssumption DEF Start, Walked
<1> QED
  BY <1>1, <1>2 DEF Unlisted, Queued

LEMMA FirstPending ==
    ASSUME NEW w \in Walked, w.pending # <<>>
    PROVE  /\ Head(w.pending) \in Leaf /\ Tail(w.pending) \in Seq(Leaf)
           /\ Len(Tail(w.pending)) = Len(w.pending) - 1 /\ Len(w.pending) \in Nat \ {0}
           /\ ToSet(w.pending) = {Head(w.pending)} \cup ToSet(Tail(w.pending))
           /\ w.visited \in Seq(Leaf)
<1>1. PICK s \in Seq(Leaf) : s = w.pending
  BY DEF Walked
<1>2. /\ Head(s) \in Leaf /\ Tail(s) \in Seq(Leaf) /\ Len(Tail(s)) = Len(s) - 1
      /\ Len(s) \in Nat \ {0} /\ Head(s) = s[1]
      /\ \A i \in 1..Len(s) - 1 : Tail(s)[i] = s[i + 1]
  BY <1>1
<1>3. ToSet(s) = {Head(s)} \cup ToSet(Tail(s))
  <2>1. DOMAIN s = 1..Len(s) /\ DOMAIN Tail(s) = 1..Len(s) - 1
    BY <1>2
  <2>2. ASSUME NEW i \in 1..Len(s) PROVE s[i] \in {Head(s)} \cup ToSet(Tail(s))
    <3>1. CASE i = 1
      BY <1>2, <3>1
    <3>2. CASE i # 1
      <4>1. i - 1 \in 1..Len(s) - 1 /\ (i - 1) + 1 = i
        BY <1>2, <3>2
      <4>2. Tail(s)[i - 1] = s[i]
        BY <1>2, <4>1
      <4> QED
        BY <2>1, <4>1, <4>2 DEF ToSet
    <3> QED
      BY <3>1, <3>2
  <2>3. ASSUME NEW i \in 1..Len(s) - 1 PROVE Tail(s)[i] \in ToSet(s)
    <3>1. i + 1 \in 1..Len(s)
      BY <1>2
    <3> QED
      BY <1>2, <2>1, <3>1 DEF ToSet
  <2>4. Head(s) \in ToSet(s)
    BY <1>2, <2>1 DEF ToSet
  <2> QED
    BY <2>1, <2>2, <2>3, <2>4 DEF ToSet
<1> QED
  BY <1>1, <1>2, <1>3 DEF Walked

\* What a step does: it drops the leaf in turn, or lists it.
Drops(w, v) == v = [visited |-> w.visited, pending |-> Tail(w.pending)]
Lists(w, v, more) == /\ Head(w.pending) \notin ToSet(w.visited)
                     /\ v = [visited |-> Append(w.visited, Head(w.pending)), pending |-> more]
                     /\ more \in Seq(Leaf)

LEMMA StepIsLess ==
    ASSUME NEW w \in Walked, w.pending # <<>>, NEW v,
           Drops(w, v) \/ \E more : Lists(w, v, more)
    PROVE  v \in Walked /\ Less(Unlisted, Queued, v, w)
<1>1. /\ Head(w.pending) \in Leaf /\ Tail(w.pending) \in Seq(Leaf) /\ w.visited \in Seq(Leaf)
      /\ Len(Tail(w.pending)) < Len(w.pending)
  BY FirstPending
<1>2. CASE Drops(w, v)
  <2>1. v \in Walked /\ v.visited = w.visited /\ v.pending = Tail(w.pending)
    BY <1>1, <1>2 DEF Drops, Walked
  <2> QED
    BY <1>1, <2>1 DEF Less, Unlisted, Queued
<1>3. ASSUME NEW more, Lists(w, v, more) PROVE v \in Walked /\ Less(Unlisted, Queued, v, w)
  <2>1. PICK l \in Leaf : l = Head(w.pending)
    BY <1>1
  <2>2. v \in Walked /\ v.visited = Append(w.visited, l) /\ l \notin ToSet(w.visited)
    BY <1>1, <1>3, <2>1 DEF Lists, Walked
  <2>3. ToSet(Append(w.visited, l)) = ToSet(w.visited) \cup {l}
    BY <1>1, AppendSet
  <2>4. Leaf \ ToSet(v.visited) = (Leaf \ ToSet(w.visited)) \ {l} /\ l \in Leaf \ ToSet(w.visited)
    BY <2>2, <2>3
  <2>5. Cardinality((Leaf \ ToSet(w.visited)) \ {l}) < Cardinality(Leaf \ ToSet(w.visited))
    <3> DEFINE others == Leaf \ ToSet(w.visited)
    <3>1. IsFiniteSet(others) /\ Cardinality(others) \in Nat /\ l \in others
      BY <2>4, LeafAssumption, Subsets
    <3> HIDE DEF others
    <3>2. Cardinality(others \ {l}) = Cardinality(others) - 1
      BY <3>1, FS_RemoveElement
    <3> QED
      BY <3>1, <3>2 DEF others
  <2> QED
    BY <2>2, <2>4, <2>5 DEF Less, Unlisted
<1> QED
  BY <1>2, <1>3

-----------------------------------------------------------------------------
(* Labels *)

Ends(d) == {w \in Walked : w.pending = <<>> \/ Head(w.pending) \notin DOMAIN d}
Onward(d) == [w \in Walked |-> WalkOn(d, w)]
OfLeaves(d) == DOMAIN d \subseteq Leaf /\ \A l \in DOMAIN d : d[l].links \subseteq Leaf
IsWalkOf(f, d) == IsWalk(f, Walked, Ends(d), Listing, Onward(d))

\* InOrder of links, by whichever ranks.
LEMMA LinksInOrder ==
    ASSUME NEW S \in SUBSET Leaf, NEW rank, Ranks(Leaf, rank)
    PROVE  InOrder(S, rank) \in Seq(Leaf) /\ ToSet(InOrder(S, rank)) = S
<1>1. IsFiniteSet(S)
  BY LeafAssumption, Subsets
<1>2. Ranks(S, rank)
  BY DEF Ranks
<1>3. InOrder(S, rank) \in Seq(S) /\ ToSet(InOrder(S, rank)) = S
  BY <1>1, <1>2, InOrderIs
<1>4. Seq(S) \subseteq Seq(Leaf)
  OBVIOUS
<1> QED
  BY <1>3, <1>4

LEMMA OnwardStep ==
    ASSUME NEW d, OfLeaves(d)
    PROVE  \A w \in Walked \ Ends(d) : /\ Onward(d)[w] = WalkOn(d, w)
                                       /\ Onward(d)[w] \in Walked
                                       /\ Less(Unlisted, Queued, Onward(d)[w], w)
<1> SUFFICES ASSUME NEW w \in Walked \ Ends(d)
             PROVE  WalkOn(d, w) \in Walked /\ Less(Unlisted, Queued, WalkOn(d, w), w)
  BY DEF Onward
<1>1. w.pending # <<>> /\ Head(w.pending) \in DOMAIN d /\ w \in Walked
  BY DEF Ends
<1>2. PICK l \in Leaf : l = Head(w.pending) /\ d[l].links \in SUBSET Leaf
  BY <1>1 DEF OfLeaves
<1>3. Tail(w.pending) \in Seq(Leaf)
  BY <1>1, FirstPending
<1>4. CASE l \in ToSet(w.visited)
  <2>1. Drops(w, WalkOn(d, w))
    BY <1>1, <1>2, <1>4 DEF WalkOn, Drops, Walked
  <2> QED
    BY <1>1, <2>1, StepIsLess
<1>5. CASE l \notin ToSet(w.visited)
  <2>1. Ranks(Leaf, ByHash)
    BY LeafAssumption DEF Ranks, ByHash
  <2>2. PICK more : more = InOrder(d[l].links, ByHash) /\ more \in Seq(Leaf)
    BY <1>2, <2>1, LinksInOrder
  <2>3. Lists(w, WalkOn(d, w), more \o Tail(w.pending))
    BY <1>2, <1>3, <1>5, <2>2 DEF WalkOn, Lists
  <2> QED
    BY <1>1, <2>3, StepIsLess
<1> QED
  BY <1>4, <1>5

LEMMA WalkIs ==
    ASSUME NEW d, OfLeaves(d)
    PROVE  \E f : IsWalkOf(f, d) /\ Walk(d) = f[Start]
<1> DEFINE Is(f) == f = [w \in Walked |-> IF w.pending = <<>> \/ Head(w.pending) \notin DOMAIN d
                                          THEN w.visited ELSE f[WalkOn(d, w)]]
<1>1. ASSUME NEW f PROVE Is(f) <=> IsWalkOf(f, d)
  <2>1. ASSUME NEW w \in Walked
        PROVE  (IF w \in Ends(d) THEN Listing[w] ELSE f[Onward(d)[w]]) =
               (IF w.pending = <<>> \/ Head(w.pending) \notin DOMAIN d THEN w.visited ELSE f[WalkOn(d, w)])
    BY DEF Ends, Listing, Onward
  <2> QED
    BY <2>1 DEF IsWalkOf, IsWalk
<1>2. \E f : Is(f)
  <2>1. \A w \in Walked \ Ends(d) : Onward(d)[w] \in Walked /\ Less(Unlisted, Queued, Onward(d)[w], w)
    BY OnwardStep
  <2>2. \E f : IsWalkOf(f, d)
    BY <2>1, Measures, WalkExists DEF IsWalkOf
  <2> HIDE DEF Is
  <2> QED
    BY <1>1, <2>2
<1>3. PICK f : f = CHOOSE h : Is(h)
  OBVIOUS
<1>4. Is(f)
  <2> HIDE DEF Is
  <2> QED
    BY <1>2, <1>3
<1>5. Walk(d) = f[Start]
  BY <1>3 DEF Walk, Start
<1> HIDE DEF Is
<1> QED
  BY <1>1, <1>4, <1>5

\* t begins with s.
Begins(s, t) == /\ s \in Seq(Leaf) /\ t \in Seq(Leaf) /\ Len(s) <= Len(t)
                /\ \A i \in 1..Len(s) : s[i] = t[i]

LEMMA BeginsAppend ==
    ASSUME NEW s \in Seq(Leaf), NEW x \in Leaf, NEW t, Begins(Append(s, x), t)
    PROVE  Begins(s, t)
<1>1. PICK n \in Nat : n = Len(s)
  OBVIOUS
<1>2. PICK u : u = Append(s, x)
  OBVIOUS
<1>3. Len(u) = n + 1 /\ \A i \in 1..n : u[i] = s[i]
  BY <1>1, <1>2
<1>4. /\ t \in Seq(Leaf) /\ n + 1 <= Len(t) /\ Len(t) \in Nat
      /\ \A i \in 1..n + 1 : u[i] = t[i]
  BY <1>2, <1>3 DEF Begins
<1>5. n <= Len(t) /\ \A i \in 1..n : i \in 1..n + 1
  BY <1>1, <1>4
<1> QED
  BY <1>1, <1>3, <1>4, <1>5 DEF Begins

\* A walk keeps what was listed.
LEMMA WalkBegins ==
    ASSUME NEW d, OfLeaves(d), NEW f, IsWalkOf(f, d)
    PROVE  \A w \in Walked : Begins(w.visited, f[w])
<1> DEFINE G == {w \in Walked : Begins(w.visited, f[w])}
<1>1. ASSUME NEW w \in Walked, \A v \in Walked : Less(Unlisted, Queued, v, w) => v \in G
      PROVE  w \in G
  <2>1. w.visited \in Seq(Leaf)
    BY DEF Walked
  <2>2. CASE w \in Ends(d)
    <3>1. f[w] = w.visited
      BY <2>2 DEF IsWalkOf, IsWalk, Listing
    <3>2. Begins(w.visited, w.visited)
      BY <2>1 DEF Begins
    <3> QED
      BY <3>1, <3>2
  <2>3. CASE w \notin Ends(d)
    <3>1. PICK v \in Walked : v = WalkOn(d, w) /\ v = Onward(d)[w] /\ Less(Unlisted, Queued, v, w)
      BY <2>3, OnwardStep
    <3>2. f[w] = f[v] /\ Begins(v.visited, f[v])
      BY <1>1, <2>3, <3>1 DEF IsWalkOf, IsWalk
    <3>3. w.pending # <<>> /\ Head(w.pending) \in Leaf
      BY <2>3, FirstPending DEF Ends
    <3>4. v.visited = w.visited \/ v.visited = Append(w.visited, Head(w.pending))
      BY <3>1 DEF WalkOn, Walked
    <3>5. Begins(w.visited, f[v])
      BY <2>1, <3>2, <3>3, <3>4, BeginsAppend
    <3> QED
      BY <3>2, <3>5
  <2> QED
    BY <2>2, <2>3
<1>2. G \in SUBSET Walked
  OBVIOUS
<1>3. G = Walked
  <2> HIDE DEF G
  <2> QED
    BY <1>1, <1>2, Measures, AllStates
<1> QED
  BY <1>3

\* A walk that misses leaves lists the first of those that a walk lists that
\* does not.
LEMMA WalkOfLess ==
    ASSUME NEW d, OfLeaves(d), NEW f, IsWalkOf(f, d),
           NEW e, OfLeaves(e), NEW h, IsWalkOf(h, e),
           DOMAIN d \subseteq DOMAIN e, \A l \in DOMAIN d : d[l].links = e[l].links
    PROVE  \A w \in Walked : Begins(f[w], h[w])
<1> DEFINE G == {w \in Walked : Begins(f[w], h[w])}
<1>1. ASSUME NEW w \in Walked, \A v \in Walked : Less(Unlisted, Queued, v, w) => v \in G
      PROVE  w \in G
  <2>1. CASE w \in Ends(d)
    <3>1. f[w] = w.visited
      BY <2>1 DEF IsWalkOf, IsWalk, Listing
    <3> QED
      BY <3>1, WalkBegins
  <2>2. CASE w \notin Ends(d)
    <3>1. w.pending # <<>> /\ Head(w.pending) \in DOMAIN d /\ w \notin Ends(e)
      BY <2>2 DEF Ends
    <3>2. WalkOn(d, w) = WalkOn(e, w)
      BY <3>1 DEF WalkOn
    <3>3. PICK v \in Walked : v = WalkOn(d, w) /\ v = Onward(d)[w] /\ Less(Unlisted, Queued, v, w)
      BY <2>2, OnwardStep
    <3>4. v = Onward(e)[w]
      BY <3>2, <3>3 DEF Onward
    <3>5. f[w] = f[v] /\ h[w] = h[v]
      BY <2>2, <3>1, <3>3, <3>4 DEF IsWalkOf, IsWalk
    <3> QED
      BY <1>1, <3>3, <3>5
  <2> QED
    BY <2>1, <2>2
<1>2. G \in SUBSET Walked
  OBVIOUS
<1>3. G = Walked
  <2> HIDE DEF G
  <2> QED
    BY <1>1, <1>2, Measures, AllStates
<1> QED
  BY <1>3

LEMMA PrefixWithoutFirst ==
    ASSUME NEW s, NEW t, Begins(s, t), Len(t) >= 1
    PROVE  IsPrefix(SubSeq(s, 2, Len(s)), Tail(t))
<1>1. s \in Seq(Leaf) /\ t \in Seq(Leaf) /\ Len(s) <= Len(t) /\ \A i \in 1..Len(s) : s[i] = t[i]
  BY DEF Begins
<1>2. PICK n \in Nat, m \in Nat : n = Len(s) /\ m = Len(t) /\ n <= m /\ m >= 1
  BY <1>1
<1>3. PICK k \in Nat : k = IF n = 0 THEN 0 ELSE n - 1
  BY <1>2
<1>4. PICK u, v : u = SubSeq(s, 2, Len(s)) /\ v = Tail(t)
  OBVIOUS
<1>5. u \in Seq(Leaf) /\ Len(u) = k /\ \A i \in 1..k : u[i] = s[i + 1]
  BY <1>1, <1>2, <1>3, <1>4
<1>6. v \in Seq(Leaf) /\ Len(v) = m - 1 /\ \A i \in 1..m - 1 : v[i] = t[i + 1]
  BY <1>1, <1>2, <1>4
<1>7. k <= m - 1 /\ \A i \in 1..k : i + 1 \in 1..n /\ i \in 1..m - 1
  BY <1>2, <1>3
<1>8. \A i \in 1..k : u[i] = v[i]
  BY <1>1, <1>2, <1>5, <1>6, <1>7
<1>9. SubSeq(u, 1, k) = [i \in 1..k |-> u[i]] /\ SubSeq(v, 1, k) = [i \in 1..k |-> v[i]]
  BY <1>5, <1>6, <1>7
<1> QED
  BY <1>4, <1>5, <1>6, <1>7, <1>8, <1>9 DEF IsPrefix

LEMMA FullWalk ==
    ASSUME NEW d, OfLeaves(d), Root \in DOMAIN d, NEW f, IsWalkOf(f, d)
    PROVE  f[Start] \in Seq(Leaf) /\ Len(f[Start]) >= 1
<1>1. Start \in Walked /\ Start.visited = <<>> /\ Start.pending = <<Root>>
  BY Measures DEF Start
<1>2. Head(<<Root>>) = Root /\ Append(<<>>, Root) = <<Root>> /\ ToSet(<<>>) = {}
  BY DEF ToSet
<1>3. Start \notin Ends(d)
  BY <1>1, <1>2 DEF Ends
<1>4. PICK v \in Walked : v = WalkOn(d, Start) /\ v = Onward(d)[Start]
  BY <1>1, <1>3, OnwardStep
<1>5. v.visited = <<Root>>
  BY <1>1, <1>2, <1>4 DEF WalkOn
<1>6. f[Start] = f[v]
  BY <1>1, <1>3, <1>4 DEF IsWalkOf, IsWalk
<1>7. Begins(<<Root>>, f[v])
  BY <1>5, WalkBegins
<1>8. f[v] \in Seq(Leaf) /\ Len(<<Root>>) <= Len(f[v]) /\ Len(<<Root>>) = 1
  BY <1>7 DEF Begins
<1> QED
  BY <1>6, <1>8

LEMMA StoredLeaves ==
    ASSUME IInv
    PROVE  /\ OfLeaves(leafs) /\ OfLeaves(FullDag(g)) /\ g \in [Leaf -> SUBSET Leaf]
           /\ \A l \in DOMAIN leafs : l \in DOMAIN source /\ leafs[l].links = source[l].links
<1>1. /\ DOMAIN source \subseteq Leaf /\ g \in Shapes
      /\ \A l \in DOMAIN leafs : l \in DOMAIN source /\ leafs[l].links = source[l].links
      /\ \A l \in DOMAIN source : source[l].links \subseteq g[l]
  BY DEF IInv, Sound, State, Copies, CopyOf, SenderInv, SenderCopy, IsCopy
<1>2. g \in [Leaf -> SUBSET Leaf]
  BY <1>1, ShapesAssumption
<1> QED
  BY <1>1, <1>2 DEF OfLeaves, FullDag, Genuine

(* A label that CalculateLabels gives names the leaf that it names in the     *)
(* complete DAG, for every DAG and every sender of whole leaves, and whatever *)
(* is missing from the store.                                                *)
THEOREM LabelsAreSound == Spec => []LabelsSound
<1>1. IInv => LabelsSound
  <2> SUFFICES ASSUME IInv, \A l \in DOMAIN source : source[l].links = g[l]
               PROVE  IsPrefix(CalculateLabels, Tail(Walk(FullDag(g))))
    BY DEF LabelsSound
  <2>1. /\ OfLeaves(leafs) /\ OfLeaves(FullDag(g))
        /\ \A l \in DOMAIN leafs : l \in DOMAIN source /\ leafs[l].links = source[l].links
    BY StoredLeaves
  <2>2. DOMAIN FullDag(g) = Leaf /\ \A l \in Leaf : FullDag(g)[l].links = g[l]
    BY DEF FullDag, Genuine
  <2>3. DOMAIN leafs \subseteq DOMAIN FullDag(g) /\ \A l \in DOMAIN leafs : leafs[l].links = FullDag(g)[l].links
    BY <2>1, <2>2 DEF OfLeaves
  <2>4. PICK f : IsWalkOf(f, leafs) /\ Walk(leafs) = f[Start]
    BY <2>1, WalkIs
  <2>5. PICK h : IsWalkOf(h, FullDag(g)) /\ Walk(FullDag(g)) = h[Start]
    BY <2>1, WalkIs
  <2>6. h[Start] \in Seq(Leaf) /\ Len(h[Start]) >= 1
    BY <2>1, <2>2, <2>5, FullWalk, LeafAssumption
  <2>7. Begins(f[Start], h[Start])
    BY <2>1, <2>3, <2>4, <2>5, WalkOfLess, Measures
  <2>8. Begins(<<>>, h[Start])
    BY <2>6 DEF Begins
  <2>9. PICK order : /\ order = IF root = NoParent THEN <<>> ELSE Walk(leafs)
                     /\ CalculateLabels = SubSeq(order, 2, Len(order))
    BY DEF CalculateLabels
  <2>10. Begins(order, h[Start])
    BY <2>4, <2>7, <2>8, <2>9
  <2> QED
    BY <2>5, <2>6, <2>9, <2>10, PrefixWithoutFirst
<1> QED
  BY <1>1, StoreInv, PTL

-----------------------------------------------------------------------------
(* The index *)

Exhausted == {w \in Walked : w.pending = <<>>}
Search(rank) == [w \in Walked |-> SearchOn(rank, w)]
IsSearch(f, rank) == IsWalk(f, Walked, Exhausted, Listing, Search(rank))

LEMMA OrdersRank == ASSUME NEW rank \in Orders PROVE Ranks(Leaf, rank)
<1>1. \A l \in Leaf : rank[l] \in 1..Cardinality(Leaf)
  BY DEF Orders
<1>2. \A l \in Leaf : rank[l] \in Nat
  BY <1>1, LeafAssumption, FS_CardinalityType
<1> QED
  BY <1>2 DEF Ranks, Orders

\* One step of the search.
Skips(w) == Head(w.pending) \in ToSet(w.visited) \/ Head(w.pending) \notin DOMAIN leafs
Found(w, v) ==
    \E links \in Seq(Leaf) :
        /\ Head(w.pending) \in DOMAIN leafs
        /\ ToSet(links) = leafs[Head(w.pending)].links
        /\ Lists(w, v, Tail(w.pending) \o links)

LEMMA SearchStep ==
    ASSUME OfLeaves(leafs), NEW rank \in Orders, NEW w \in Walked \ Exhausted
    PROVE  /\ Search(rank)[w] \in Walked /\ Less(Unlisted, Queued, Search(rank)[w], w)
           /\ IF Skips(w) THEN Drops(w, Search(rank)[w]) ELSE Found(w, Search(rank)[w])
<1>1. w.pending # <<>> /\ w \in Walked /\ Search(rank)[w] = SearchOn(rank, w)
  BY DEF Exhausted, Search
<1>2. Head(w.pending) \in Leaf /\ Tail(w.pending) \in Seq(Leaf)
  BY <1>1, FirstPending
<1>3. CASE Skips(w)
  <2>1. Drops(w, SearchOn(rank, w))
    BY <1>1, <1>3 DEF SearchOn, Drops, Skips, Walked
  <2> QED
    BY <1>1, <1>3, <2>1, StepIsLess
<1>4. CASE ~Skips(w)
  <2>1. PICK l \in Leaf : l = Head(w.pending) /\ l \in DOMAIN leafs /\ leafs[l].links \in SUBSET Leaf
    BY <1>2, <1>4 DEF Skips, OfLeaves
  <2>2. PICK links : links = InOrder(leafs[l].links, rank) /\ links \in Seq(Leaf) /\ ToSet(links) = leafs[l].links
    BY <2>1, OrdersRank, LinksInOrder
  <2>3. Lists(w, SearchOn(rank, w), Tail(w.pending) \o links)
    BY <1>2, <1>4, <2>1, <2>2 DEF SearchOn, Lists, Skips
  <2>4. Found(w, SearchOn(rank, w))
    BY <2>1, <2>2, <2>3 DEF Found
  <2> QED
    BY <1>1, <1>4, <2>3, <2>4, StepIsLess
<1> QED
  BY <1>3, <1>4

LEMMA SearchIs ==
    ASSUME OfLeaves(leafs), NEW rank \in Orders
    PROVE  \E f : IsSearch(f, rank) /\ Traversal(rank) = f[Start]
<1> DEFINE Is(f) == f = [w \in Walked |-> IF w.pending = <<>> THEN w.visited ELSE f[SearchOn(rank, w)]]
<1>1. ASSUME NEW f PROVE Is(f) <=> IsSearch(f, rank)
  <2>1. ASSUME NEW w \in Walked
        PROVE  (IF w \in Exhausted THEN Listing[w] ELSE f[Search(rank)[w]]) =
               (IF w.pending = <<>> THEN w.visited ELSE f[SearchOn(rank, w)])
    BY DEF Exhausted, Listing, Search
  <2> QED
    BY <2>1 DEF IsSearch, IsWalk
<1>2. \E f : Is(f)
  <2>1. \A w \in Walked \ Exhausted : Search(rank)[w] \in Walked /\ Less(Unlisted, Queued, Search(rank)[w], w)
    BY SearchStep
  <2>2. \E f : IsSearch(f, rank)
    BY <2>1, Measures, WalkExists DEF IsSearch
  <2> HIDE DEF Is
  <2> QED
    BY <1>1, <2>2
<1>3. PICK f : f = CHOOSE h : Is(h)
  OBVIOUS
<1>4. Is(f)
  <2> HIDE DEF Is
  <2> QED
    BY <1>2, <1>3
<1>5. Traversal(rank) = f[Start]
  BY <1>3 DEF Traversal, Start
<1> HIDE DEF Is
<1> QED
  BY <1>1, <1>4, <1>5

(* What is listed and what is pending: no leaf is listed twice or before all  *)
(* its parents, all of it hangs from the root, and no link that leads         *)
(* somewhere is forgotten.                                                   *)
EachOnce(s) == \A i, j \in DOMAIN s : s[i] = s[j] => i = j
AfterParents(s) ==
    \A j \in DOMAIN s : s[j] # Root => \E i \in 1..j - 1 : s[j] \in leafs[s[i]].links
Linked(w) == \A q \in ToSet(w.pending) : q = Root \/ \E p \in ToSet(w.visited) : q \in leafs[p].links
Within(w) == ToSet(w.visited) \subseteq Listed /\ ToSet(w.pending) \cap DOMAIN leafs \subseteq Listed
Closed(w) ==
    \A p \in ToSet(w.visited) : leafs[p].links \cap DOMAIN leafs \subseteq ToSet(w.visited) \cup ToSet(w.pending)
SearchInv(w) ==
    /\ EachOnce(w.visited) /\ AfterParents(w.visited)
    /\ Linked(w) /\ Within(w) /\ Closed(w)
    /\ Root \in DOMAIN leafs => Root \in ToSet(w.visited) \cup ToSet(w.pending)

LEMMA SearchBegins == ASSUME IInv, root = Root PROVE SearchInv(Start)
<1>1. Start.visited = <<>> /\ ToSet(<<>>) = {} /\ DOMAIN <<>> = {}
  BY DEF Start, ToSet
<1>2. Start.pending = <<Root>> /\ ToSet(<<Root>>) = {Root}
  BY DEF Start, ToSet
<1>3. Within(Start)
  BY <1>1, <1>2, ListedFacts DEF Within
<1> QED
  BY <1>1, <1>2, <1>3 DEF SearchInv, EachOnce, AfterParents, Linked, Closed

LEMMA SkipKeeps ==
    ASSUME NEW w \in Walked, w.pending # <<>>, SearchInv(w), Skips(w), NEW v, Drops(w, v)
    PROVE  SearchInv(v)
<1>1. v.visited = w.visited /\ v.pending = Tail(w.pending)
  BY DEF Drops
<1>2. ToSet(w.pending) = {Head(w.pending)} \cup ToSet(Tail(w.pending))
  BY FirstPending
<1>3. EachOnce(v.visited) /\ AfterParents(v.visited)
  BY <1>1 DEF SearchInv
<1>4. Linked(v) /\ Within(v)
  BY <1>1, <1>2 DEF SearchInv, Linked, Within
<1>5. Closed(v)
  BY <1>1, <1>2 DEF SearchInv, Closed, Skips
<1>6. Root \in DOMAIN leafs => Root \in ToSet(v.visited) \cup ToSet(v.pending)
  BY <1>1, <1>2 DEF SearchInv, Skips
<1> QED
  BY <1>3, <1>4, <1>5, <1>6 DEF SearchInv

LEMMA FoundKeeps ==
    ASSUME IInv, root = Root, NEW w \in Walked, w.pending # <<>>, SearchInv(w), NEW v, Found(w, v)
    PROVE  SearchInv(v)
<1>1. PICK l, rest, s : l = Head(w.pending) /\ rest = Tail(w.pending) /\ s = w.visited
  OBVIOUS
<1>2. /\ l \in Leaf /\ rest \in Seq(Leaf) /\ s \in Seq(Leaf)
      /\ ToSet(w.pending) = {l} \cup ToSet(rest)
  BY <1>1, FirstPending
<1>3. PICK links \in Seq(Leaf) :
         /\ l \in DOMAIN leafs /\ ToSet(links) = leafs[l].links
         /\ l \notin ToSet(s) /\ v = [visited |-> Append(s, l), pending |-> rest \o links]
  BY <1>1 DEF Found, Lists
<1>4. PICK t : t = v.visited /\ t = Append(s, l)
  BY <1>3
<1>5. ToSet(t) = ToSet(s) \cup {l} /\ ToSet(v.pending) = ToSet(rest) \cup leafs[l].links
  BY <1>2, <1>3, <1>4, AppendSet, ConcatSet
<1>6. PICK n \in Nat : n = Len(s) /\ DOMAIN s = 1..n
  BY <1>2
<1>7. DOMAIN t = 1..n + 1 /\ t[n + 1] = l /\ \A i \in 1..n : t[i] = s[i] /\ t[i] \in ToSet(s)
  <2>1. DOMAIN t = 1..n + 1 /\ t[n + 1] = l /\ \A i \in 1..n : t[i] = s[i]
    BY <1>2, <1>4, <1>6
  <2> QED
    BY <1>6, <2>1 DEF ToSet
<1>8. 1..n + 1 = (1..n) \cup {n + 1} /\ (n + 1) - 1 = n
  BY <1>6
<1>9. EachOnce(t)
  <2>1. \A i, j \in 1..n : t[i] = t[j] => i = j
    <3>1. EachOnce(s)
      BY <1>1 DEF SearchInv
    <3> QED
      BY <1>6, <1>7, <3>1 DEF EachOnce
  <2>2. \A i \in 1..n : t[i] # l
    BY <1>3, <1>7
  <2> QED
    BY <1>7, <1>8, <2>1, <2>2 DEF EachOnce
<1>10. AfterParents(t)
  <2> SUFFICES ASSUME NEW j \in 1..n + 1, t[j] # Root
               PROVE  \E i \in 1..j - 1 : t[j] \in leafs[t[i]].links
    BY <1>7 DEF AfterParents
  <2>1. CASE j \in 1..n
    <3>1. PICK i \in 1..j - 1 : s[j] \in leafs[s[i]].links
      BY <1>1, <1>6, <1>7, <2>1 DEF SearchInv, AfterParents
    <3>2. i \in 1..n
      BY <2>1, <1>6
    <3> QED
      BY <1>7, <2>1, <3>1, <3>2
  <2>2. CASE j = n + 1
    <3>1. PICK p \in ToSet(s) : l \in leafs[p].links
      BY <1>1, <1>2, <1>7, <2>2 DEF SearchInv, Linked
    <3>2. PICK i \in 1..n : s[i] = p
      BY <1>6, <3>1 DEF ToSet
    <3> QED
      BY <1>7, <1>8, <2>2, <3>1, <3>2
  <2> QED
    BY <1>8, <2>1, <2>2
<1>11. Linked(v)
  <2>1. \A q \in ToSet(rest) : q = Root \/ \E p \in ToSet(s) : q \in leafs[p].links
    BY <1>1, <1>2 DEF SearchInv, Linked
  <2> QED
    BY <1>4, <1>5, <2>1 DEF Linked
<1>12. Within(v)
  <2>1. l \in Listed /\ ToSet(s) \subseteq Listed /\ ToSet(rest) \cap DOMAIN leafs \subseteq Listed
    BY <1>1, <1>2, <1>3 DEF SearchInv, Within
  <2>2. leafs[l].links \cap DOMAIN leafs \subseteq Listed
    BY <2>1, ListedFacts
  <2> QED
    BY <1>4, <1>5, <2>1, <2>2 DEF Within
<1>13. Closed(v)
  <2>1. \A p \in ToSet(s) : leafs[p].links \cap DOMAIN leafs \subseteq ToSet(s) \cup ({l} \cup ToSet(rest))
    BY <1>1, <1>2 DEF SearchInv, Closed
  <2> QED
    BY <1>4, <1>5, <2>1 DEF Closed
<1>14. Root \in DOMAIN leafs => Root \in ToSet(v.visited) \cup ToSet(v.pending)
  BY <1>1, <1>2, <1>4, <1>5 DEF SearchInv
<1> QED
  BY <1>4, <1>9, <1>10, <1>11, <1>12, <1>13, <1>14 DEF SearchInv

LEMMA SearchEnds ==
    ASSUME IInv, root = Root, NEW rank \in Orders
    PROVE  \E w \in Walked : w.pending = <<>> /\ SearchInv(w) /\ Traversal(rank) = w.visited
<1>1. OfLeaves(leafs)
  BY StoredLeaves
<1>2. PICK f : IsSearch(f, rank) /\ Traversal(rank) = f[Start]
  BY <1>1, SearchIs
<1> DEFINE Comes(w) == \E v \in Walked : v.pending = <<>> /\ SearchInv(v) /\ f[w] = v.visited
           G == {w \in Walked : SearchInv(w) => Comes(w)}
<1>3. ASSUME NEW w \in Walked, \A v \in Walked : Less(Unlisted, Queued, v, w) => v \in G
      PROVE  w \in G
  <2> SUFFICES ASSUME SearchInv(w) PROVE Comes(w)
    OBVIOUS
  <2>1. CASE w \in Exhausted
    <3>1. f[w] = w.visited /\ w.pending = <<>>
      BY <1>2, <2>1 DEF IsSearch, IsWalk, Listing, Exhausted
    <3> QED
      BY <3>1
  <2>2. CASE w \notin Exhausted
    <3>1. PICK v \in Walked : /\ v = Search(rank)[w] /\ Less(Unlisted, Queued, v, w)
                              /\ IF Skips(w) THEN Drops(w, v) ELSE Found(w, v)
      BY <1>1, <2>2, SearchStep
    <3>2. w.pending # <<>>
      BY <2>2 DEF Exhausted
    <3>3. SearchInv(v)
      BY <3>1, <3>2, SkipKeeps, FoundKeeps
    <3>4. f[w] = f[v]
      BY <1>2, <2>2, <3>1 DEF IsSearch, IsWalk
    <3>5. Comes(v)
      BY <1>3, <3>1, <3>3
    <3> QED
      BY <3>4, <3>5
  <2> QED
    BY <2>1, <2>2
<1>4. G \in SUBSET Walked
  OBVIOUS
<1>5. G = Walked
  <2> HIDE DEF G
  <2> QED
    BY <1>3, <1>4, Measures, AllStates
<1>6. Comes(Start)
  BY <1>5, Measures, SearchBegins
<1> QED
  BY <1>2, <1>6

\* A search that has run out has listed what there is to list.
LEMMA NothingMissed ==
    ASSUME IInv, root = Root, ~memory, NEW w \in Walked, w.pending = <<>>, SearchInv(w)
    PROVE  ToSet(w.visited) = Listed
<1> DEFINE seen == ToSet(w.visited)
           T == seen \cup (Leaf \ DOMAIN leafs)
           reach == Reach(Links(leafs), {Root})
<1>1. DOMAIN leafs \subseteq Leaf /\ \A l \in DOMAIN leafs : leafs[l].links \subseteq Leaf
  BY StoredLeaves DEF OfLeaves
<1>2. Listed = {l \in DOMAIN leafs : l \in reach}
  BY LeafAssumption DEF Listed, NoParent, Links
<1>3. ToSet(w.pending) = {}
  BY DEF ToSet
<1>4. seen \subseteq Listed /\ \A p \in seen : leafs[p].links \cap DOMAIN leafs \subseteq seen
  BY <1>3 DEF SearchInv, Within, Closed
<1>5. Root \in T
  BY <1>3, LeafAssumption DEF SearchInv
<1>6. \A k \in T : Links(leafs)[k] \subseteq T
  <2> HIDE DEF seen, reach
  <2> SUFFICES ASSUME NEW k \in T PROVE Links(leafs)[k] \subseteq T
    OBVIOUS
  <2>1. CASE k \in seen
    <3>1. k \in DOMAIN leafs
      BY <1>2, <1>4, <2>1
    <3>2. Links(leafs)[k] = leafs[k].links /\ leafs[k].links \subseteq Leaf
      BY <1>1, <3>1 DEF Links
    <3> QED
      BY <1>4, <2>1, <3>2
  <2>2. CASE k \in Leaf \ DOMAIN leafs
    BY <2>2 DEF Links
  <2> QED
    BY <2>1, <2>2
<1>7. T \in SUBSET Leaf
  BY <1>1, <1>2, <1>4
<1>8. reach \subseteq T
  <2> HIDE DEF T
  <2> QED
    BY <1>5, <1>6, <1>7 DEF Reach
<1> QED
  BY <1>2, <1>4, <1>8

\* The index names the lowest parent of each leaf it lists.
LEMMA IndexedParents ==
    ASSUME root # NoParent, Listed \subseteq Leaf, NEW rank, ToSet(Traversal(rank)) = Listed,
           NEW c \in Listed \ {Root}, \E p \in Listed : c \in leafs[p].links
    PROVE  IsLowest(BuildIndex(rank).parents[c], Parents(ToDag, c))
<1> DEFINE children == [l \in Listed |-> leafs[l].links]
           S == {q \in Listed : c \in children[q]}
<1>1. Parents(ToDag, c) = S
  BY DEF Parents, ToDag
<1>2. c \in UNION {children[p] : p \in DOMAIN children}
  OBVIOUS
<1>3. PICK parents : parents = MinimumParentIndex(children)
  OBVIOUS
<1>4. c \in DOMAIN parents /\ parents[c] = CHOOSE p \in Listed : IsLowest(p, S)
  BY <1>2, <1>3 DEF MinimumParentIndex
<1>5. \E p \in Listed : IsLowest(p, S)
  <2>1. S \subseteq Nat /\ S # {}
    BY LeafAssumption
  <2> HIDE DEF S
  <2>2. PICK p \in S : \A q \in S : p <= q
    BY <2>1, Least
  <2> QED
    BY <2>2 DEF IsLowest, S
<1>6. IsLowest(parents[c], S)
  <2> HIDE DEF S
  <2> QED
    BY <1>4, <1>5
<1>7. BuildIndex(rank).parents = Put(parents, Root, NoParent)
  BY <1>3 DEF BuildIndex
<1>8. BuildIndex(rank).parents[c] = parents[c]
  <2> HIDE DEF children
  <2> QED
    BY <1>4, <1>7 DEF Put
<1> QED
  BY <1>1, <1>6, <1>8

(* An index that is built lists what the streaming verification searches,     *)
(* each leaf once and after some parent, and names the lowest parents, for    *)
(* every DAG, in whatever order links lie and whatever is stored.            *)
THEOREM IndexIsRight == Spec => []IndexAgrees
<1>1. IInv => IndexAgrees
  <2> SUFFICES ASSUME IInv, root # NoParent, NEW rank \in Orders,
                      NEW order, order = Traversal(rank)
               PROVE  /\ Cardinality(ToSet(order)) = Len(order)
                      /\ ToSet(order) \subseteq Listed
                      /\ ~memory => ToSet(order) = Listed
                      /\ \A j \in DOMAIN order :
                            order[j] # Root => \E i \in 1..j - 1 : order[j] \in leafs[order[i]].links
                      /\ ToSet(order) = Listed =>
                            \A c \in Listed \ {Root} :
                               IsLowest(BuildIndex(rank).parents[c], Parents(ToDag, c))
    BY DEF IndexAgrees, BuildIndex
  <2>1. root = Root
    BY DEF IInv
  <2>2. PICK w \in Walked : w.pending = <<>> /\ SearchInv(w) /\ order = w.visited
    BY <2>1, SearchEnds
  <2>3. EachOnce(order) /\ AfterParents(order) /\ ToSet(order) \subseteq Listed /\ order \in Seq(Leaf)
    BY <2>2 DEF SearchInv, Within, Walked
  <2>4. Cardinality(ToSet(order)) = Len(order)
    <3>1. PICK n \in Nat : n = Len(order) /\ DOMAIN order = 1..n
      BY <2>3
    <3>2. order \in Bijection(1..n, ToSet(order))
      BY <2>3, <3>1 DEF EachOnce, ToSet, Bijection, Injection, Surjection, IsInjective
    <3>3. ASSUME NEW k \in Nat PROVE IsFiniteSet(1..k) /\ Cardinality(1..k) = k
      BY FS_Interval
    <3> QED
      BY <3>1, <3>2, <3>3, FS_Bijection DEF ExistsBijection
  <2>5. ~memory => ToSet(order) = Listed
    BY <2>1, <2>2, NothingMissed
  <2>6. ASSUME ToSet(order) = Listed, NEW c \in Listed \ {Root}
        PROVE  IsLowest(BuildIndex(rank).parents[c], Parents(ToDag, c))
    <3>1. PICK j \in DOMAIN order : order[j] = c
      BY <2>6 DEF ToSet
    <3>2. PICK i \in 1..j - 1 : c \in leafs[order[i]].links
      BY <2>3, <2>6, <3>1 DEF AfterParents
    <3>3. i \in DOMAIN order
      <4>1. PICK n \in Nat : n = Len(order) /\ DOMAIN order = 1..n
        BY <2>3
      <4> QED
        BY <3>1, <3>2, <4>1
    <3>4. order[i] \in Listed
      BY <2>6, <3>3 DEF ToSet
    <3>5. Listed \subseteq Leaf
      BY <2>1, ListedFacts
    <3> QED
      BY <2>6, <3>2, <3>4, <3>5, IndexedParents
  <2> QED
    BY <2>3, <2>4, <2>5, <2>6 DEF AfterParents
<1> QED
  BY <1>1, StoreInv, PTL

-----------------------------------------------------------------------------
(* The store implements a map                                                *)

(* The leaves that are retrieved whole from a state of the stores.           *)
Whole(st) == {l \in DOMAIN st.leafs : HasContent(l) => l \in st.inlined \cup st.contents}

(* Storing leaves makes these whole, and leaves every other as it was.       *)
LEMMA WithLeavesWhole ==
    ASSUME NEW st, NEW copies
    PROVE  Whole(WithLeaves(st, copies)) = Whole(st) \cup DOMAIN copies
<1> DEFINE after == WithLeaves(st, copies)
<1>1. /\ DOMAIN after.leafs = DOMAIN copies \cup DOMAIN st.leafs
      /\ after.inlined = (st.inlined \ DOMAIN copies) \cup
                         {l \in DOMAIN copies : HasContent(l) /\ ~separateContent}
      /\ after.contents = st.contents \cup Aside(DOMAIN copies)
  BY DEF WithLeaves, Merge
<1> HIDE DEF after
<1>2. ASSUME NEW l \in DOMAIN copies PROVE l \in Whole(after)
  BY <1>1 DEF Whole, Aside
<1>3. ASSUME NEW l, l \notin DOMAIN copies PROVE l \in Whole(after) <=> l \in Whole(st)
  BY <1>1, <1>3 DEF Whole, Aside
<1>4. Whole(after) = Whole(st) \cup DOMAIN copies
  BY <1>2, <1>3
<1> QED
  BY <1>4 DEF after

LEMMA StoreLeavesWhole ==
    ASSUME NEW st, NEW copies
    PROVE  Whole(StoreLeaves(st, copies)) = Whole(st) \cup DOMAIN copies
<1> DEFINE after == StoreLeaves(st, copies)
<1>1. /\ DOMAIN after.leafs = DOMAIN copies \cup DOMAIN st.leafs
      /\ after.inlined = st.inlined \cup {l \in DOMAIN copies : HasContent(l)}
      /\ after.contents = st.contents
  BY DEF StoreLeaves, Merge
<1> HIDE DEF after
<1>2. Whole(after) = Whole(st) \cup DOMAIN copies
  BY <1>1 DEF Whole
<1> QED
  BY <1>2 DEF after

(* A leaf whose storing fails may be whole or not, also one whose deletion    *)
(* was cut short: its content is back before it is stored itself.            *)
LEMMA FailedLeafWhole ==
    ASSUME NEW st, NEW l, NEW copy, NEW s \in FailedLeaf(st, l, copy)
    PROVE  ~memory /\ (Whole(s) = Whole(st) \/ Whole(s) = Whole(st) \cup {l})
<1>1. ~memory /\ s \in {st, StoreContent(st, l), WithLeaves(st, Only(l, copy))}
  BY DEF FailedLeaf
<1>2. CASE s = StoreContent(st, l)
  <2>1. /\ s.leafs = st.leafs /\ s.inlined = st.inlined
        /\ s.contents = st.contents \cup Aside({l}) /\ Aside({l}) \subseteq {l}
    BY <1>2 DEF StoreContent, Contents, Aside
  <2>2. Whole(s) \subseteq Whole(st) \cup {l} /\ Whole(st) \subseteq Whole(s)
    BY <2>1 DEF Whole
  <2> QED
    BY <1>1, <2>2
<1>3. CASE s = WithLeaves(st, Only(l, copy))
  <2>1. DOMAIN Only(l, copy) = {l}
    BY DEF Only
  <2> QED
    BY <1>1, <1>3, <2>1, WithLeavesWhole
<1> QED
  BY <1>1, <1>2, <1>3

(* The first leaves of a call, of which a memory store takes all.            *)
Part(call) == IF memory THEN {DOMAIN call} ELSE Map!Beginnings(call)

LEMMA AllIsPart == ASSUME NEW call PROVE DOMAIN call \in Part(call)
BY DEF Part, Map!Beginnings

LEMMA StoreLeafWhole ==
    ASSUME NEW st, NEW l, NEW copy, NEW o \in StoreLeaf(st, l, copy),
           NEW call, DOMAIN call = {l}
    PROVE  \E s \in Part(call) : Whole(o.st) = Whole(st) \cup s
<1>1. CASE o = Outcome(WithLeaves(st, Only(l, copy)), TRUE)
  <2>1. DOMAIN Only(l, copy) = {l} /\ o.st = WithLeaves(st, Only(l, copy))
    BY <1>1 DEF Only, Outcome
  <2>2. Whole(o.st) = Whole(st) \cup {l}
    BY <2>1, WithLeavesWhole
  <2>3. {l} \in Part(call)
    BY AllIsPart
  <2> QED
    BY <2>2, <2>3
<1>2. CASE \E s \in FailedLeaf(st, l, copy) : o = Outcome(s, FALSE)
  <2>1. PICK s \in FailedLeaf(st, l, copy) : o = Outcome(s, FALSE)
    BY <1>2
  <2>2. o.st = s
    BY <2>1 DEF Outcome
  <2>3. ~memory /\ (Whole(s) = Whole(st) \/ Whole(s) = Whole(st) \cup {l})
    BY FailedLeafWhole
  <2>4. {} \in Part(call) /\ {l} \in Part(call)
    BY <2>3 DEF Part, Map!Beginnings
  <2>5. Whole(st) = Whole(st) \cup {}
    OBVIOUS
  <2> QED
    BY <2>2, <2>3, <2>4, <2>5
<1> QED
  BY <1>1, <1>2 DEF StoreLeaf

(* Each leaf of the sequence has a place of its own.                         *)
LEMMA PositionIs ==
    ASSUME SenderInv, NEW l \in Sequenced
    PROVE  Position(l) \in Nat /\ sequence[Position(l)].leaf = l
<1>1. \E i \in DOMAIN sequence : sequence[i].leaf = l
  BY DEF Sequenced
<1>2. Position(l) \in DOMAIN sequence /\ sequence[Position(l)].leaf = l
  BY <1>1 DEF Position
<1>3. DOMAIN sequence \subseteq Nat
  BY DEF SenderInv
<1> QED
  BY <1>2, <1>3

LEMMA BeforeIsPart ==
    ASSUME SenderInv, ~memory, NEW copies, DOMAIN copies \subseteq Sequenced,
           NEW l \in DOMAIN copies
    PROVE  LET call == [k \in DOMAIN copies |-> Position(k)]
               earlier == DOMAIN Before(copies, l)
           IN  earlier \in Part(call) /\ earlier \cup {l} \in Part(call)
<1> DEFINE call == [k \in DOMAIN copies |-> Position(k)]
           earlier == DOMAIN Before(copies, l)
<1>1. earlier = {k \in DOMAIN copies : Position(k) < Position(l)}
  BY DEF Before
<1>2. \A k \in DOMAIN copies : Position(k) \in Nat
  BY PositionIs
<1>3. \A j, k \in DOMAIN copies : Position(j) = Position(k) => j = k
  BY PositionIs
<1> HIDE DEF earlier
<1>4. ASSUME NEW i \in DOMAIN copies, NEW j \in DOMAIN copies, Position(j) <= Position(i)
      PROVE  /\ i \in earlier => j \in earlier
             /\ i = l => j \in earlier \cup {l}
  <2>1. Position(i) \in Nat /\ Position(j) \in Nat /\ Position(l) \in Nat
    BY <1>2
  <2>2. Position(i) < Position(l) => Position(j) < Position(l)
    BY <1>4, <2>1
  <2>3. i = l => (Position(j) < Position(l) \/ Position(j) = Position(l))
    BY <1>4, <2>1
  <2> QED
    BY <1>1, <1>3, <2>2, <2>3
<1>5. /\ DOMAIN call = DOMAIN copies /\ \A k \in DOMAIN copies : call[k] = Position(k)
      /\ earlier \in SUBSET DOMAIN copies /\ earlier \cup {l} \in SUBSET DOMAIN copies
  BY <1>1
<1> HIDE DEF call
<1>6. earlier \in Map!Beginnings(call)
  BY <1>4, <1>5 DEF Map!Beginnings
<1>7. earlier \cup {l} \in Map!Beginnings(call)
  BY <1>4, <1>5 DEF Map!Beginnings
<1> QED
  BY <1>6, <1>7 DEF Part, call, earlier

LEMMA StoreBatchWhole ==
    ASSUME SenderInv, memory \in BOOLEAN, NEW st, NEW copies, DOMAIN copies \subseteq Sequenced,
           NEW o \in StoreBatch(st, copies)
    PROVE  \E s \in Part([k \in DOMAIN copies |-> Position(k)]) :
              Whole(o.st) = Whole(st) \cup s
<1> DEFINE call == [k \in DOMAIN copies |-> Position(k)]
<1>1. CASE \/ o = Outcome(StoreLeaves(st, copies), TRUE)
           \/ o = Outcome(WithLeaves(st, copies), TRUE)
  <2>1. Whole(o.st) = Whole(st) \cup DOMAIN copies
    BY <1>1, WithLeavesWhole, StoreLeavesWhole DEF Outcome
  <2>2. DOMAIN copies \in Part(call)
    BY AllIsPart
  <2> QED
    BY <2>1, <2>2
<1>2. ASSUME NEW l \in DOMAIN copies,
             NEW s \in FailedLeaf(WithLeaves(st, Before(copies, l)), l, copies[l]),
             o = Outcome(s, FALSE)
      PROVE  \E part \in Part(call) : Whole(o.st) = Whole(st) \cup part
  <2> DEFINE earlier == DOMAIN Before(copies, l)
  <2>1. o.st = s
    BY <1>2 DEF Outcome
  <2>2. Whole(WithLeaves(st, Before(copies, l))) = Whole(st) \cup earlier
    BY WithLeavesWhole
  <2>3. ~memory
    BY FailedLeafWhole
  <2>4. \/ Whole(s) = Whole(st) \cup earlier
        \/ Whole(s) = Whole(st) \cup (earlier \cup {l})
    BY <2>2, FailedLeafWhole
  <2>5. earlier \in Part(call) /\ earlier \cup {l} \in Part(call)
    BY <2>3, BeforeIsPart
  <2> HIDE DEF earlier, call
  <2> QED
    BY <2>1, <2>4, <2>5
<1> HIDE DEF call
<1>3. \/ o = Outcome(StoreLeaves(st, copies), TRUE)
      \/ o = Outcome(WithLeaves(st, copies), TRUE)
      \/ \E l \in DOMAIN copies :
            \E s \in FailedLeaf(WithLeaves(st, Before(copies, l)), l, copies[l]) :
               o = Outcome(s, FALSE)
  BY DEF StoreBatch
<1> QED
  BY <1>1, <1>2, <1>3 DEF call

(* The leaf of a packet, damaged or not, is that of its place.               *)
LEMMA PacketLeaf ==
    ASSUME NEW i \in DOMAIN sequence,
           NEW packet \in Packets!OnTheWire(Packets!Packet(sequence[i]), Damage)
    PROVE  packet.leaf = sequence[i].leaf
<1> DEFINE sound == Packets!Packet(sequence[i])
<1>1. sound.leaf = sequence[i].leaf
  BY DEF Packets!Packet
<1>2. CASE packet = sound
  BY <1>1, <1>2
<1>3. CASE packet \in Packets!LeafDamaged(sound)
  BY <1>3 DEF Packets!LeafDamaged, Packets!Packet
<1>4. CASE packet \in Packets!ProofDamaged(sound)
  BY <1>4 DEF Packets!ProofDamaged, Packets!Packet
<1> QED
  BY <1>2, <1>3, <1>4, DamageAssumption DEF Packets!OnTheWire

(* So are those of a batch.                                                  *)
LEMMA BatchLeaves ==
    ASSUME NEW i, NEW packet \in Batches!OnTheWire(Batches!Packet(i), Damage)
    PROVE  DOMAIN packet.leaves = {e.leaf : e \in Batches!Entries(i)}
<1> DEFINE batch == Batches!Entries(i)
           leaves == {e.leaf : e \in batch}
           sound == Batches!Packet(i)
<1>1. sound = [leaves |-> [l \in leaves |-> Batches!FinalCopy(batch, l)],
               parent |-> [l \in leaves |-> (CHOOSE e \in batch : e.leaf = l).parent]]
  BY DEF Batches!Packet, Batches!Packed
<1> HIDE DEF batch, leaves
<1>2. ASSUME packet = sound PROVE DOMAIN packet.leaves = leaves
  BY <1>1, <1>2
<1>3. ASSUME packet \in Batches!LeafDamaged(sound) PROVE DOMAIN packet.leaves = leaves
  BY <1>1, <1>3 DEF Batches!LeafDamaged
<1>4. ASSUME packet \in Batches!ProofDamaged(sound) PROVE DOMAIN packet.leaves = leaves
  <2>1. DOMAIN sound.leaves = leaves
    BY <1>1
  <2> HIDE DEF sound
  <2>2. PICK k \in leaves :
           packet \in {[sound EXCEPT !.leaves[k].proofs = Batches!Broken(@, {c})] :
                          c \in DOMAIN sound.leaves[k].proofs}
    BY <1>4, <2>1 DEF Batches!ProofDamaged
  <2>3. PICK c : packet = [sound EXCEPT !.leaves[k].proofs = Batches!Broken(@, {c})]
    BY <2>2
  <2> QED
    BY <2>1, <2>3
<1>5. DOMAIN packet.leaves = leaves
  BY <1>2, <1>3, <1>4, DamageAssumption DEF Batches!OnTheWire
<1> QED
  BY <1>5 DEF leaves, batch

LEMMA EntriesSequenced == ASSUME NEW i PROVE {e.leaf : e \in Batches!Entries(i)} \subseteq Sequenced
  BY DEF Batches!Entries, Sequenced

LEMMA RetrievableIs == Retrievable = Whole(State)
<1>1. State.leafs = leafs /\ State.inlined = inlined /\ State.contents = contents
  BY DEF State
<1> QED
  BY <1>1 DEF Whole, Retrievable

(* A method that leaves st behind, in terms of the map.                      *)
LEMMA LeaveWhole ==
    ASSUME NEW st, Leave(st)
    PROVE  Retrievable' = Whole(st) /\ UNCHANGED <<memory, Calls>>
<1>1. /\ g' = g /\ sequence' = sequence /\ starts' = starts /\ memory' = memory
      /\ leafs' = st.leafs /\ inlined' = st.inlined /\ contents' = st.contents
  BY DEF Leave, fixed, sent
<1>2. Retrievable' = Whole(st)
  BY <1>1 DEF Retrievable, Whole, HasContent
<1>3. \A i : Batches!Entries(i)' = Batches!Entries(i)
  BY <1>1 DEF Batches!Entries
<1>4. \A l : Position(l)' = Position(l)
  BY <1>1 DEF Position
<1>5. {[l \in {sequence[i].leaf} |-> i] : i \in DOMAIN sequence}'
         = {[l \in {sequence[i].leaf} |-> i] : i \in DOMAIN sequence}
  BY <1>1
<1> DEFINE Batched(i) == [l \in {e.leaf : e \in Batches!Entries(i)} |-> Position(l)]
<1>6. \A i : Batched(i)' = Batched(i)
  BY <1>3, <1>4
<1> HIDE DEF Batched
<1>7. {Batched(i) : i \in starts}' = {Batched(i) : i \in starts}
  BY <1>1, <1>6
<1>8. Calls' = Calls
  BY <1>5, <1>7 DEF Calls, Batched
<1> QED
  BY <1>1, <1>2, <1>8

(* A method that leaves the beginning of a call behind stores it in the map. *)
LEMMA StoreOfMap ==
    ASSUME NEW st, Leave(st), NEW call \in Calls, NEW s \in Part(call),
           Whole(st) = Whole(State) \cup s
    PROVE  Map!Store
<1>1. Retrievable' = Retrievable \cup s /\ UNCHANGED <<memory, Calls>>
  BY LeaveWhole, RetrievableIs
<1> QED
  BY <1>1 DEF Map!Store, Part

LEMMA PrepareOfMap == Prepare \/ UNCHANGED vars => Map!Prepare
<1> SUFFICES ASSUME Prepare \/ UNCHANGED vars PROVE Map!Prepare
  OBVIOUS
<1>1. /\ memory' = memory /\ g' = g
      /\ leafs' = leafs /\ inlined' = inlined /\ contents' = contents
  BY DEF Prepare, Batches!ExtendBatches, Batches!AppendToBatch, Batches!NextParentInBatch,
         Batches!AppendChild, Batches!NextParent, vars, fixed, sent, stored
<1>2. Retrievable' = Retrievable
  BY <1>1 DEF Retrievable, HasContent
<1> QED
  BY <1>1, <1>2 DEF Map!Prepare

LEMMA PacketOfMap == ASSUME IInv, DeliverPacket PROVE Map!Store
<1>1. PICK i \in DOMAIN sequence :
         \E packet \in Packets!OnTheWire(Packets!Packet(sequence[i]), Damage) :
            AddTransmissionPacket(packet)
  BY DEF DeliverPacket
<1>2. PICK packet \in Packets!OnTheWire(Packets!Packet(sequence[i]), Damage) :
         AddTransmissionPacket(packet)
  BY <1>1
<1>3. PICK o \in StoreLeaf(State, packet.leaf, packet.copy) : Leave(o.st)
  BY <1>2 DEF AddTransmissionPacket
<1> DEFINE call == [l \in {sequence[i].leaf} |-> i]
<1>4. call \in Calls
  BY DEF Calls
<1>5. packet.leaf = sequence[i].leaf
  BY PacketLeaf
<1>6. DOMAIN call = {packet.leaf}
  BY <1>5
<1> HIDE DEF call
<1>7. ASSUME NEW l, l = packet.leaf, NEW copy, copy = packet.copy
      PROVE  \E s \in Part(call) : Whole(o.st) = Whole(State) \cup s
  <2>1. o \in StoreLeaf(State, l, copy) /\ DOMAIN call = {l}
    BY <1>6, <1>7
  <2> QED
    BY <2>1, StoreLeafWhole
<1> QED
  BY <1>3, <1>4, <1>7, StoreOfMap

LEMMA BatchOfMap == ASSUME IInv, DeliverBatch PROVE Map!Store \/ Map!Prepare
<1>1. PICK i \in starts : \E packet \in Batches!OnTheWire(Batches!Packet(i), Damage) :
                              AddBatchedTransmissionPacket(packet)
  BY DEF DeliverBatch
<1>2. PICK packet \in Batches!OnTheWire(Batches!Packet(i), Damage) : AddBatchedTransmissionPacket(packet)
  BY <1>1
<1>3. PICK o \in IF VerifyBatch(packet) THEN StoreBatch(State, packet.leaves)
                 ELSE {Outcome(State, FALSE)} : Leave(o.st)
  BY <1>2 DEF AddBatchedTransmissionPacket
<1>4. CASE o \in StoreBatch(State, packet.leaves)
  <2> DEFINE leaves == {e.leaf : e \in Batches!Entries(i)}
             call == [l \in leaves |-> Position(l)]
  <2>1. DOMAIN packet.leaves = leaves
    BY BatchLeaves
  <2>2. call \in Calls
    BY DEF Calls
  <2>3. leaves \subseteq Sequenced
    BY EntriesSequenced
  <2> HIDE DEF leaves
  <2>4. SenderInv /\ memory \in BOOLEAN
    BY StoreAssumption DEF IInv
  <2>5. \E s \in Part([l \in DOMAIN packet.leaves |-> Position(l)]) :
           Whole(o.st) = Whole(State) \cup s
    BY <1>4, <2>1, <2>3, <2>4, StoreBatchWhole
  <2>6. \E s \in Part(call) : Whole(o.st) = Whole(State) \cup s
    BY <2>1, <2>5
  <2> HIDE DEF call
  <2> QED
    BY <1>3, <2>2, <2>6, StoreOfMap
<1>5. CASE o = Outcome(State, FALSE)
  <2>1. o.st = State
    BY <1>5 DEF Outcome
  <2>2. Leave(State)
    BY <1>3, <2>1
  <2> QED
    BY <2>2, LeaveWhole, RetrievableIs DEF Map!Prepare
<1> QED
  BY <1>3, <1>4, <1>5

(* A leaf that is half deleted is kept no more, or had no content to lose.   *)
LEMMA DeleteOfMap == ASSUME NEW l \in Leaf, DeleteLeaf(l) PROVE Map!Delete \/ Map!Prepare
<1> DEFINE second == Contents(State, contents \ {l})
           third  == [leafs    |-> [k \in DOMAIN leafs \ {l} |-> leafs[k]],
                      inlined  |-> inlined \ {l},
                      contents |-> contents \ {l}]
<1>1. PICK st \in {third, State, second} : Leave(st)
  BY DEF DeleteLeaf
<1>2. Retrievable' = Whole(st) /\ UNCHANGED <<memory, Calls>>
  BY <1>1, LeaveWhole
<1>3. State.leafs = leafs /\ State.inlined = inlined /\ State.contents = contents
  BY DEF State
<1>4. Whole(second) = Retrievable \/ Whole(second) = Retrievable \ {l}
  <2>1. /\ second.leafs = leafs /\ second.inlined = inlined
        /\ second.contents = contents \ {l}
    BY <1>3 DEF Contents
  <2> HIDE DEF second
  <2>2. Whole(second) \subseteq Retrievable /\ Retrievable \ {l} \subseteq Whole(second)
    BY <2>1 DEF Whole, Retrievable
  <2> QED
    BY <2>2
<1>5. Whole(third) = Retrievable \ {l}
  <2>1. /\ DOMAIN third.leafs = DOMAIN leafs \ {l} /\ third.inlined = inlined \ {l}
        /\ third.contents = contents \ {l}
    OBVIOUS
  <2> HIDE DEF third
  <2> QED
    BY <2>1 DEF Whole, Retrievable
<1> HIDE DEF second, third
<1>6. Retrievable' = Retrievable \/ Retrievable' = Retrievable \ {l}
  BY <1>1, <1>2, <1>4, <1>5, RetrievableIs
<1> QED
  BY <1>2, <1>6 DEF Map!Delete, Map!Prepare

LEMMA RestartOfMap == ASSUME IInv, Restart PROVE Map!End \/ Map!Prepare
<1>1. /\ g' = g /\ sequence' = sequence /\ starts' = starts /\ memory' = memory
      /\ leafs' = IF memory THEN [l \in {} |-> Genuine(g, l)] ELSE leafs
      /\ inlined' = (IF memory THEN {} ELSE inlined)
      /\ contents' = (IF memory THEN {} ELSE contents)
      /\ UNCHANGED <<fixed, batching, starts>>
  BY DEF Restart, fixed, sent
<1>2. Leave([leafs |-> leafs', inlined |-> inlined', contents |-> contents'])
  BY <1>1 DEF Leave
<1>3. UNCHANGED <<memory, Calls>>
  BY <1>2, LeaveWhole
<1>4. CASE memory
  <2>1. DOMAIN leafs' = {}
    BY <1>1, <1>4
  <2>2. Retrievable' = {}
    BY <2>1 DEF Retrievable
  <2> QED
    BY <1>3, <1>4, <2>2 DEF Map!End
<1>5. CASE ~memory
  <2>1. Retrievable' = Retrievable
    BY <1>1, <1>5 DEF Retrievable, HasContent
  <2> QED
    BY <1>3, <2>1 DEF Map!Prepare
<1> QED
  BY <1>4, <1>5

(* Two stores under one DagStore, written one after the other by calls that  *)
(* may fail or be the last, implement a map from leaves to leaves with their *)
(* content, of store.go's StoreLeaf, AddBatchedTransmissionPacket, DeleteLeaf *)
(* and RetrieveLeaf: a leaf is kept whole or is not kept, storing takes none *)
(* away, and a batch that fails has kept a beginning of what it stores.      *)
THEOREM StoreImplementsMap == Spec => KeepsLeaves
<1>1. Init => Map!Init
  BY StoreAssumption DEF Init, Map!Init, Retrievable
<1>2. IInv /\ [Next]_vars => [Map!Next]_(Map!vars)
  <2> SUFFICES ASSUME IInv, [Next]_vars PROVE Map!Next
    OBVIOUS
  <2> QED
    BY PrepareOfMap, PacketOfMap, BatchOfMap, DeleteOfMap, RestartOfMap DEF Next, Map!Next
<1> QED
  BY <1>1, <1>2, StoreInv, PTL DEF Spec, KeepsLeaves, Map!Spec
=============================================================================
