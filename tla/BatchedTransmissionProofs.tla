--------------------- MODULE BatchedTransmissionProofs ---------------------
(***************************************************************************)
(* What holds of BatchedTransmission for every DAG, every way to cut its   *)
(* sequence into batches and every wire.                                   *)
(***************************************************************************)
EXTENDS BatchedTransmission, LeafSequenceProofs

LinksOf(l, links) == /\ links \subseteq g[l] \cup {Unknown}
                     /\ Covered => links \subseteq g[l]

(* What the receiver holds of a leaf: a sound copy with links of its own, or *)
(* damaged ones if such damage is done.                                      *)
ReceiverInv ==
    /\ DOMAIN received \subseteq Leaf
    /\ \A l \in DOMAIN received : LinksOf(l, received[l].links) /\ VerifyLeaf(received[l])
    /\ \A i \in accepted : DOMAIN Packet(i).leaves \subseteq DOMAIN received
    /\ Holdings = {"nothing"} =>
          /\ DOMAIN received \subseteq DOMAIN source
          /\ DOMAIN received = {} \/ Sync!Anchored(DOMAIN received)

BatchInv ==
    /\ starts \subseteq DOMAIN sequence /\ 1 \in starts
    /\ accepted \subseteq starts
    /\ accepted # {} => Done
    /\ batching \in BatchModes
    /\ damage \in Damages

(* The inductive invariant.                                                  *)
Inv == SenderInv /\ OrderInv /\ WalkInv /\ BatchInv /\ ReceiverInv

-----------------------------------------------------------------------------
(* Batches *)

(* What a batch brings, whatever the wire did to it.                         *)
LEMMA PacketFacts ==
    ASSUME SenderInv, OrderInv, NEW i \in Nat, NEW packet \in OnTheWire(Packet(i), damage)
    PROVE  /\ DOMAIN packet.leaves = DOMAIN Packet(i).leaves
           /\ DOMAIN packet.parent = DOMAIN packet.leaves
           /\ \A c \in DOMAIN packet.leaves :
                 /\ packet.leaves[c].links \subseteq source[c].links \cup {Unknown}
                 /\ Covered => packet.leaves[c].links = source[c].links
                 /\ \E k \in DOMAIN sequence :
                       /\ i <= k
                       /\ sequence[k].leaf = c
                       /\ sequence[k].parent = packet.parent[c]
<1> DEFINE batch == Entries(i)
           leaves == {e.leaf : e \in batch}
           sound == Packet(i)
<1>1. /\ sound = [leaves |-> [l \in leaves |-> FinalCopy(batch, l)],
                  parent |-> [l \in leaves |-> (CHOOSE e \in batch : e.leaf = l).parent]]
  BY DEF Packet, Packed
<1>2. ASSUME NEW c \in leaves
      PROVE  \E k \in DOMAIN sequence :
                /\ i <= k
                /\ sequence[k].leaf = c
                /\ sequence[k].parent = (CHOOSE e \in batch : e.leaf = c).parent
  <2> DEFINE e == CHOOSE f \in batch : f.leaf = c
  <2>1. e \in batch /\ e.leaf = c
    BY <1>2
  <2> HIDE DEF e
  <2> QED
    <3>1. PICK k \in DOMAIN sequence : i <= k /\ e = sequence[k]
      BY <2>1 DEF Entries
    <3> QED
      BY <2>1, <3>1 DEF e
<1> DEFINE Same == /\ DOMAIN packet.leaves = leaves
                   /\ packet.parent = sound.parent
                   /\ \A c \in leaves :
                         /\ packet.leaves[c].links \subseteq source[c].links \cup {Unknown}
                         /\ Covered => packet.leaves[c].links = source[c].links
           final(l) == FinalCopy(batch, l)
<1>3. Same
  <2> HIDE DEF batch, leaves
  <2>1. \A c : final(c).links = source[c].links /\ DOMAIN final(c) = {"links", "proofs", "intact"}
    BY DEF FinalCopy
  <2>2. /\ sound.leaves = [l \in leaves |-> final(l)]
        /\ DOMAIN sound = {"leaves", "parent"}
    BY <1>1
  <2>3. CASE packet = sound
    BY <2>1, <2>2, <2>3
  <2>8. \/ packet \in {sound} \cup LeafDamaged(sound) \cup ProofDamaged(sound)
        \/ "unhashed" \in damage /\ packet \in UnhashedDamaged(sound)
    BY DEF OnTheWire
  <2> HIDE DEF sound, final
  <2>4. ASSUME NEW k \in leaves, NEW copy, packet = [sound EXCEPT !.leaves[k] = copy],
               copy.links \subseteq source[k].links \cup {Unknown},
               Covered => copy.links = source[k].links
        PROVE  Same
    <3>1. /\ packet.leaves = [sound.leaves EXCEPT ![k] = copy]
          /\ packet.parent = sound.parent
      BY <2>2, <2>4
    <3>2. packet.leaves = [l \in leaves |-> IF l = k THEN copy ELSE final(l)]
      BY <2>2, <3>1
    <3> QED
      BY <2>1, <2>4, <3>1, <3>2
  <2>5. CASE packet \in LeafDamaged(sound)
    <3>1. PICK k \in leaves : packet = [sound EXCEPT !.leaves[k] = Garbled(final(k))]
      BY <2>2, <2>5 DEF LeafDamaged
    <3>2. Garbled(final(k)).links = source[k].links
      BY <2>1 DEF Garbled
    <3> QED
      BY <2>4, <3>1, <3>2
  <2>6. CASE packet \in ProofDamaged(sound)
    <3>1. PICK k \in leaves :
             packet \in {[sound EXCEPT !.leaves[k].proofs = Broken(@, {c})] :
                            c \in DOMAIN sound.leaves[k].proofs}
      BY <2>2, <2>6 DEF ProofDamaged
    <3>2. PICK c : packet = [sound EXCEPT !.leaves[k].proofs = Broken(@, {c})]
      BY <3>1
    <3> DEFINE copy == [final(k) EXCEPT !.proofs = Broken(@, {c})]
    <3>3. packet = [sound EXCEPT !.leaves[k] = copy]
      BY <2>2, <3>2
    <3>4. copy.links = source[k].links
      BY <2>1
    <3> HIDE DEF copy
    <3> QED
      BY <2>4, <3>3, <3>4
  <2>7. CASE "unhashed" \in damage /\ packet \in UnhashedDamaged(sound)
    <3>1. PICK k \in leaves :
             packet \in {[sound EXCEPT !.leaves[k] = copy] : copy \in Relinked(sound.leaves[k])}
      BY <2>2, <2>7 DEF UnhashedDamaged
    <3>2. PICK copy \in Relinked(final(k)) : packet = [sound EXCEPT !.leaves[k] = copy]
      BY <2>2, <3>1
    <3>3. copy.links \subseteq source[k].links \cup {Unknown}
      BY <2>1, <3>2 DEF Relinked
    <3>4. ~Covered
      BY <2>7 DEF Covered
    <3> QED
      BY <2>4, <3>2, <3>3, <3>4
  <2> QED
    BY <2>3, <2>5, <2>6, <2>7, <2>8
<1>4. /\ DOMAIN sound.leaves = leaves /\ DOMAIN sound.parent = leaves
      /\ \A c \in leaves : sound.parent[c] = (CHOOSE e \in batch : e.leaf = c).parent
  BY <1>1
<1> HIDE DEF batch, leaves
<1> QED
  BY <1>2, <1>3, <1>4

(* The parent a leaf is declared under links it.                             *)
LEMMA DeclaredParent ==
    ASSUME Inv, NEW i \in Nat, NEW packet \in OnTheWire(Packet(i), damage),
           NEW c \in DOMAIN packet.leaves
    PROVE  /\ c \in DOMAIN source
           /\ IF packet.parent[c] = NoParent THEN c = Root
              ELSE /\ packet.parent[c] \in DOMAIN source
                   /\ c \in source[packet.parent[c]].links
                   /\ c \in g[packet.parent[c]]
<1>1. PICK k \in DOMAIN sequence : sequence[k].leaf = c /\ sequence[k].parent = packet.parent[c]
  BY PacketFacts DEF Inv
<1>2. CASE packet.parent[c] = NoParent
  BY <1>1, <1>2, EntryFacts DEF Inv, OrderInv
<1>3. CASE packet.parent[c] # NoParent
  <2>1. /\ c \in DOMAIN source /\ packet.parent[c] \in DOMAIN source
        /\ c \in source[packet.parent[c]].links
    BY <1>1, <1>3, EntryFacts DEF Inv
  <2> QED
    BY <1>3, <2>1 DEF Inv, SenderInv, SenderCopy, IsCopy
<1> QED
  BY <1>2, <1>3

(* The first leaf of a batch is the root or hangs from an earlier one, which *)
(* is not in the batch.                                                      *)
LEMMA FirstOfBatch ==
    ASSUME Inv, NEW i \in starts, NEW packet \in OnTheWire(Packet(i), damage)
    PROVE  LET c == sequence[i].leaf
           IN  /\ c \in DOMAIN packet.leaves
               /\ packet.parent[c] = NoParent \/ packet.parent[c] \notin DOMAIN packet.leaves
<1> DEFINE c == sequence[i].leaf
<1>1. i \in DOMAIN sequence /\ i \in Nat
  BY DEF Inv, BatchInv, SenderInv
<1>2. sequence[i] \in Entries(i)
  <2>1. starts \cap (i + 1)..i = {}
    BY <1>1
  <2> QED
    BY <1>1, <2>1 DEF Entries
<1>3. c \in DOMAIN packet.leaves
  <2>1. c \in DOMAIN Packet(i).leaves
    BY <1>2 DEF Packet, Packed
  <2> QED
    BY <1>1, <2>1, PacketFacts DEF Inv
<1>4. packet.parent[c] = sequence[i].parent
  BY <1>1, <1>3, PacketFacts DEF Inv, OrderInv
<1>5. ASSUME packet.parent[c] # NoParent, packet.parent[c] \in DOMAIN packet.leaves
      PROVE  FALSE
  <2>1. PICK j \in DOMAIN sequence : j < i /\ sequence[j].leaf = packet.parent[c]
    BY <1>1, <1>4, <1>5 DEF Inv, OrderInv
  <2>2. PICK k \in DOMAIN sequence : i <= k /\ sequence[k].leaf = packet.parent[c]
    BY <1>1, <1>5, PacketFacts DEF Inv
  <2>3. j = k /\ j \in Nat /\ k \in Nat
    BY <2>1, <2>2 DEF Inv, OrderInv, SenderInv
  <2> QED
    BY <1>1, <2>1, <2>2, <2>3
<1> QED
  BY <1>3, <1>5

-----------------------------------------------------------------------------
(* The receiver *)

(* What an accepted batch makes of the receiver's Dag.                       *)
LEMMA Accepted ==
    ASSUME Inv, NEW i \in starts, NEW packet \in OnTheWire(Packet(i), damage), Receive(i, packet)
    PROVE  /\ DOMAIN received' = DOMAIN received \cup DOMAIN packet.leaves
           /\ \A l \in DOMAIN received' :
                 LinksOf(l, received'[l].links) /\ VerifyLeaf(received'[l])
           /\ \A l \in DOMAIN received :
                 /\ received[l].links \subseteq received'[l].links
                 /\ DOMAIN received[l].proofs \subseteq DOMAIN received'[l].proofs
<1>1. /\ VerifyBatchedTransmissionPacket(packet)
      /\ received' = ApplyBatchedTransmissionPacket(packet)
      /\ i \in Nat
  BY DEF Receive, Inv, BatchInv, SenderInv
<1>2. DOMAIN received' = DOMAIN received \cup DOMAIN packet.leaves
  BY <1>1 DEF ApplyBatchedTransmissionPacket
<1>3. ASSUME NEW l \in DOMAIN received'
      PROVE  /\ received'[l].links = Adopt(packet, l).links
                                       \cup {c \in DOMAIN packet.parent : packet.parent[c] = l}
             /\ received'[l].proofs = Adopt(packet, l).proofs
             /\ received'[l].intact = Adopt(packet, l).intact
  BY <1>1, <1>2 DEF ApplyBatchedTransmissionPacket
<1>4. ASSUME NEW l \in DOMAIN received'
      PROVE  LinksOf(l, Adopt(packet, l).links) /\ VerifyLeaf(Adopt(packet, l))
  <2>1. l \in DOMAIN packet.leaves =>
           LinksOf(l, packet.leaves[l].links) /\ VerifyLeaf(packet.leaves[l])
    <3>1. l \in DOMAIN packet.leaves =>
             /\ packet.leaves[l].links \subseteq source[l].links \cup {Unknown}
             /\ Covered => packet.leaves[l].links = source[l].links
             /\ l \in DOMAIN source
      BY <1>1, PacketFacts, DeclaredParent DEF Inv
    <3>2. l \in DOMAIN packet.leaves => VerifyLeaf(packet.leaves[l])
      BY <1>1 DEF VerifyBatchedTransmissionPacket
    <3> QED
      BY <3>1, <3>2 DEF Inv, SenderInv, SenderCopy, IsCopy, LinksOf
  <2>2. l \in DOMAIN received => LinksOf(l, received[l].links) /\ VerifyLeaf(received[l])
    BY DEF Inv, ReceiverInv
  <2> QED
    BY <1>2, <2>1, <2>2 DEF Adopt, MergeCopy, VerifyLeaf, LinksOf
<1>5. ASSUME NEW l \in DOMAIN received', NEW c \in DOMAIN packet.parent, packet.parent[c] = l
      PROVE  c \in g[l]
  <2>1. c \in DOMAIN packet.leaves
    BY <1>1, <1>5, PacketFacts DEF Inv
  <2>2. l # NoParent
    <3>1. l \in Leaf
      BY <1>1, <1>2, PacketFacts, DeclaredParent DEF Inv, ReceiverInv, SenderInv
    <3> QED
      BY <3>1, LeafAssumption DEF NoParent
  <2> QED
    BY <1>1, <1>5, <2>1, <2>2, DeclaredParent
<1>6. ASSUME NEW l \in DOMAIN received
      PROVE  /\ received[l].links \subseteq Adopt(packet, l).links
             /\ DOMAIN received[l].proofs \subseteq DOMAIN Adopt(packet, l).proofs
  BY DEF Adopt, MergeCopy, Merge
<1>7. \A l \in DOMAIN received' : LinksOf(l, received'[l].links) /\ VerifyLeaf(received'[l])
  BY <1>3, <1>4, <1>5 DEF VerifyLeaf, LinksOf
<1>8. \A l \in DOMAIN received :
         /\ received[l].links \subseteq received'[l].links
         /\ DOMAIN received[l].proofs \subseteq DOMAIN received'[l].proofs
  BY <1>2, <1>3, <1>6
<1> QED
  BY <1>2, <1>7, <1>8

-----------------------------------------------------------------------------
(* What a sender holds hangs from the root *)

LEMMA SourceAnchored == SenderInit => Sync!Anchored(DOMAIN source)
<1> SUFFICES ASSUME SenderInit PROVE Sync!Anchored(DOMAIN source)
  OBVIOUS
<1>1. g \in Shapes /\ g \in [Leaf -> SUBSET Leaf]
  BY ShapesAssumption DEF SenderInit
<1>2. ASSUME NEW l \in Leaf \ {Root} PROVE \E p \in Leaf : l \in g[p] /\ IsIndexedParent(g, p, l)
  BY <1>1, HasIndexedParent DEF IsIndexedParent, IsLowest
<1>3. CASE source = FullDag(g)
  BY <1>2, <1>3, LeafAssumption DEF FullDag, Sync!Anchored
<1>4. ASSUME NEW r, DOMAIN source = Members(g, r)
      PROVE  Sync!Anchored(DOMAIN source)
  <2>1. ASSUME NEW l \in Members(g, r) \ {Root}
        PROVE  \E p \in Members(g, r) : l \in g[p]
    <3>1. PICK c \in r : l \in VerificationPath(g, c)
      BY <2>1 DEF Members
    <3>2. l \in Leaf
      BY <3>1 DEF VerificationPath
    <3>3. PICK p \in Leaf : l \in g[p] /\ IsIndexedParent(g, p, l)
      BY <1>2, <2>1, <3>2
    <3>4. p \in VerificationPath(g, c)
      BY <3>1, <3>3 DEF VerificationPath
    <3> QED
      BY <3>3, <3>4 DEF Members
  <2>2. Root \in Members(g, r)
    BY DEF Members
  <2> QED
    BY <1>4, <2>1, <2>2 DEF Sync!Anchored
<1>5. PICK k \in Senders : source \in Kinds(g)[k]
  BY DEF SenderInit
<1>6. CASE k = "full"
  BY <1>3, <1>5, <1>6 DEF Kinds
<1>7. CASE k = "partial"
  <2>1. PICK r : source = GetPartial(g, r, FALSE)
    BY <1>5, <1>7 DEF Kinds
  <2> QED
    BY <2>1, <1>4 DEF GetPartial
<1>8. CASE k = "pruned"
  <2>1. PICK r : source = GetPartial(g, r, TRUE)
    BY <1>5, <1>8 DEF Kinds
  <2> QED
    BY <2>1, <1>4 DEF GetPartial
<1> QED
  BY <1>5, <1>6, <1>7, <1>8, SendersAssumption

-----------------------------------------------------------------------------
(* The invariant *)

LEMMA HeldCopies ==
    ASSUME g \in Shapes, NEW k \in Holdings, received \in Held(g)[k]
    PROVE  /\ DOMAIN received \subseteq Leaf
           /\ \A l \in DOMAIN received : received[l].links \subseteq g[l] /\ VerifyLeaf(received[l])
           /\ k = "nothing" => DOMAIN received = {}
<1>1. CASE k = "nothing"
  BY <1>1 DEF Held
<1>2. ASSUME NEW r, NEW prune \in BOOLEAN, received = GetPartial(g, r, prune), k # "nothing"
      PROVE  /\ DOMAIN received \subseteq Leaf
             /\ \A l \in DOMAIN received :
                   received[l].links \subseteq g[l] /\ VerifyLeaf(received[l])
             /\ k = "nothing" => DOMAIN received = {}
  <2>1. DOMAIN received = Members(g, r) /\ Members(g, r) \subseteq Leaf
    BY <1>2, LeafAssumption DEF GetPartial, Members, VerificationPath
  <2>2. ASSUME NEW l \in DOMAIN received
        PROVE  received[l].links \subseteq g[l] /\ VerifyLeaf(received[l])
    BY <1>2, <2>1 DEF GetPartial, VerifyLeaf
  <2> QED
    BY <1>2, <2>1, <2>2
<1>3. CASE k = "partial"
  <2>1. PICK r : received = GetPartial(g, r, FALSE)
    BY <1>3 DEF Held, Kinds
  <2> QED
    BY <1>2, <1>3, <2>1
<1>4. CASE k = "pruned"
  <2>1. PICK r : received = GetPartial(g, r, TRUE)
    BY <1>4 DEF Held, Kinds
  <2> QED
    BY <1>2, <1>4, <2>1
<1> QED
  BY <1>1, <1>3, <1>4, HoldingsAssumption

LEMMA InitInv == Init => Inv
<1> SUFFICES ASSUME Init PROVE Inv
  OBVIOUS
<1>1. SenderInv /\ OrderInv /\ WalkInv
  BY SenderInitInv, OrderInit, WalkInit DEF Init, BatchInit
<1>2. BatchInv
  BY DEF Init, BatchInit, SenderInit, BatchInv
<1>3. PICK k \in Holdings : received \in Held(g)[k]
  BY DEF Init, BatchInit
<1>4. ReceiverInv
  BY <1>1, <1>3, HeldCopies DEF Init, BatchInit, ReceiverInv, SenderInv, LinksOf
<1> QED
  BY <1>1, <1>2, <1>4 DEF Inv

(* Cutting the sequence: nothing has been accepted yet.                      *)
LEMMA PrepareStep == Inv /\ Prepare => Inv'
<1> SUFFICES ASSUME Inv, Prepare PROVE Inv'
  OBVIOUS
<1>1. /\ ExtendSequence /\ expanded < Len(sequence)
      /\ UNCHANGED <<damage, accepted, received, g, source>>
  BY DEF Prepare, ExtendBatches, AppendToBatch, NextParentInBatch, AppendChild, NextParent,
     ExtendSequence
<1>2. accepted = {}
  <2>1. expanded \in Nat /\ Len(sequence) \in Nat
    BY DEF Inv, SenderInv
  <2> QED
    BY <1>1, <2>1 DEF Done, Inv, BatchInv
<1>3. SenderInv' /\ OrderInv' /\ WalkInv'
  BY <1>1, SenderStep, OrderStep, WalkStep DEF Inv
<1>4. starts' \subseteq DOMAIN sequence' /\ 1 \in starts'
  <2>1. CASE AppendToBatch
    <3>1. PICK e \in Entry : sequence' = Append(sequence, e)
      <4>1. PICK c, p : sequence' = Append(sequence, [leaf |-> c, parent |-> p])
        BY <2>1 DEF AppendToBatch, AppendChild
      <4>2. sequence' \in Seq(Entry)
        BY <1>1, <1>3 DEF SenderInv, Entry
      <4>3. sequence'[Len(sequence) + 1] = [leaf |-> c, parent |-> p]
        BY <4>1 DEF Inv, SenderInv
      <4>4. Len(sequence) + 1 \in DOMAIN sequence'
        BY <4>1 DEF Inv, SenderInv
      <4> QED
        BY <4>1, <4>2, <4>3, <4>4
    <3>2. DOMAIN sequence' = DOMAIN sequence \cup {Len(sequence')} /\ Len(sequence') \in Nat
      BY <3>1 DEF Inv, SenderInv
    <3> QED
      BY <2>1, <3>2 DEF AppendToBatch, Inv, BatchInv
  <2>2. CASE NextParentInBatch
    BY <2>2 DEF NextParentInBatch, NextParent, batches, Inv, BatchInv
  <2> QED
    BY <2>1, <2>2 DEF Prepare, ExtendBatches
<1>5. BatchInv'
  <2>1. batching' = batching
    BY DEF Prepare, ExtendBatches, AppendToBatch, NextParentInBatch, batches
  <2> QED
    BY <1>1, <1>2, <1>4, <2>1 DEF Inv, BatchInv
<1>6. ReceiverInv'
  BY <1>1, <1>2 DEF Inv, ReceiverInv, Sync!Anchored, VerifyLeaf, LinksOf, Covered
<1> QED
  BY <1>3, <1>5, <1>6 DEF Inv

(* Accepting a batch: each of its leaves hangs from one that is there.       *)
LEMMA ReceiveStep ==
    ASSUME Inv, NEW i \in starts, NEW packet \in OnTheWire(Packet(i), damage), Receive(i, packet)
    PROVE  Inv'
<1>1. /\ UNCHANGED <<g, source, sequence, expanded, starts, batching, damage>>
      /\ accepted' = accepted \cup {i} /\ Done
  BY DEF Receive, sent, batches
<1>2. SenderInv' /\ OrderInv' /\ WalkInv'
  BY <1>1, SenderStep, OrderStep, WalkStep DEF Inv, sent
<1>3. BatchInv'
  BY <1>1 DEF Inv, BatchInv, Done
<1>4. /\ DOMAIN received' = DOMAIN received \cup DOMAIN packet.leaves
      /\ \A l \in DOMAIN received' : LinksOf(l, received'[l].links) /\ VerifyLeaf(received'[l])
  BY Accepted
<1>5. DOMAIN packet.leaves = DOMAIN Packet(i).leaves /\ DOMAIN packet.parent = DOMAIN packet.leaves
  BY PacketFacts DEF Inv, BatchInv, SenderInv
<1>6. DOMAIN packet.leaves \subseteq DOMAIN source
  BY DeclaredParent DEF Inv, BatchInv, SenderInv
<1>7. DOMAIN received' \subseteq Leaf
  BY <1>4, <1>6 DEF Inv, SenderInv, ReceiverInv
<1>8. \A j \in accepted' : (DOMAIN Packet(j).leaves)' \subseteq DOMAIN received'
  <2>1. ASSUME NEW j PROVE (DOMAIN Packet(j).leaves)' = DOMAIN Packet(j).leaves
    <3>1. DOMAIN Packet(j).leaves = {e.leaf : e \in Entries(j)}
      BY DEF Packet, Packed
    <3>2. (DOMAIN Packet(j).leaves)' = {e.leaf : e \in Entries(j)'}
      BY DEF Packet, Packed
    <3>3. Entries(j)' = Entries(j)
      BY <1>1 DEF Entries
    <3> QED
      BY <3>1, <3>2, <3>3
  <2> QED
    BY <1>1, <1>4, <1>5, <2>1 DEF Inv, ReceiverInv
<1>9. ASSUME Holdings = {"nothing"}
      PROVE  DOMAIN received' \subseteq DOMAIN source /\ Sync!Anchored(DOMAIN received)'
  <2> DEFINE c == sequence[i].leaf
  <2>1. VerifyBatchedTransmissionPacket(packet)
    BY DEF Receive
  <2>2. Root \in DOMAIN received'
    <3>1. CASE DOMAIN received = {}
      <4>1. c \in DOMAIN packet.leaves
            /\ (packet.parent[c] = NoParent \/ packet.parent[c] \notin DOMAIN packet.leaves)
        BY FirstOfBatch
      <4>2. packet.parent[c] = NoParent
        BY <2>1, <3>1, <4>1 DEF VerifyBatchedTransmissionPacket, ParentKnown
      <4>3. c = Root
        BY <4>1, <4>2, DeclaredParent DEF Inv, BatchInv, SenderInv
      <4> QED
        BY <1>4, <4>1, <4>3
    <3>2. CASE DOMAIN received # {}
      BY <1>4, <1>9, <3>2 DEF Inv, ReceiverInv, Sync!Anchored
    <3> QED
      BY <3>1, <3>2
  <2>3. ASSUME NEW l \in DOMAIN received' \ {Root}
        PROVE  \E p \in DOMAIN received' : l \in g[p]
    <3>1. CASE l \in DOMAIN packet.leaves
      <4>1. packet.parent[l] # NoParent /\ l \in g[packet.parent[l]]
        BY <2>3, <3>1, DeclaredParent DEF Inv, BatchInv, SenderInv
      <4>2. packet.parent[l] \in DOMAIN received'
        BY <1>4, <2>1, <3>1, <4>1 DEF VerifyBatchedTransmissionPacket, ParentKnown
      <4> QED
        BY <4>1, <4>2
    <3>2. CASE l \in DOMAIN received
      BY <1>4, <1>9, <2>3, <3>2 DEF Inv, ReceiverInv, Sync!Anchored
    <3> QED
      BY <1>4, <2>3, <3>1, <3>2
  <2> QED
    BY <1>1, <1>4, <1>6, <1>9, <2>2, <2>3 DEF Inv, ReceiverInv, Sync!Anchored
<1>10. ReceiverInv'
  BY <1>1, <1>4, <1>7, <1>8, <1>9 DEF ReceiverInv, VerifyLeaf, LinksOf, Covered
<1> QED
  BY <1>2, <1>3, <1>10 DEF Inv

LEMMA NextInv == Inv /\ [Next]_vars => Inv'
<1> SUFFICES ASSUME Inv, [Next]_vars PROVE Inv'
  OBVIOUS
<1>1. CASE Prepare
  BY <1>1, PrepareStep
<1>2. CASE Deliver
  BY <1>2, ReceiveStep DEF Deliver
<1>3. CASE UNCHANGED vars
  <2>1. SenderInv' /\ OrderInv' /\ WalkInv'
    BY <1>3, SenderStep, OrderStep, WalkStep DEF Inv, vars
  <2>2. BatchInv' /\ ReceiverInv'
    BY <1>3 DEF vars, sent, batches, Inv, BatchInv, ReceiverInv, Done, Packet, Packed, Entries,
       FinalCopy, FinalProofs, VerifyLeaf, LinksOf, Covered, Sync!Anchored
  <2> QED
    BY <2>1, <2>2 DEF Inv
<1> QED
  BY <1>1, <1>2, <1>3 DEF Next

LEMMA SpecInv == Spec => []Inv
  BY InitInv, NextInv, PTL DEF Spec

-----------------------------------------------------------------------------
(* Undamaged batches                                                         *)

(* Every leaf of the sequence goes with a batch,                             *)
LEMMA BatchOf ==
    ASSUME Inv, NEW k \in DOMAIN sequence
    PROVE  \E i \in starts : sequence[k] \in Entries(i)
<1> DEFINE before == {s \in starts : s <= k}
           ways == {k - s : s \in before}
<1>1. starts \subseteq Nat \ {0} /\ k \in Nat \ {0} /\ 1 \in before
  BY DEF Inv, BatchInv, SenderInv
<1>2. PICK m \in ways : \A n \in ways : m <= n
  <2>1. ways \subseteq Nat /\ ways # {}
    BY <1>1
  <2> HIDE DEF ways
  <2> QED
    BY <2>1, Least
<1>3. PICK i \in before : \A s \in before : k - i <= k - s
  BY <1>2
<1>4. starts \cap (i + 1)..k = {}
  <2> SUFFICES ASSUME NEW s \in starts, s \in (i + 1)..k PROVE FALSE
    OBVIOUS
  <2>1. s \in before /\ i \in Nat /\ s \in Nat /\ i < s
    BY <1>1, <1>3
  <2> QED
    BY <1>1, <1>3, <2>1
<1> QED
  BY <1>3, <1>4 DEF Entries

(* and with one only.                                                        *)
LEMMA OneBatch ==
    ASSUME Inv, NEW i \in starts, NEW j \in starts, NEW e \in Entries(i), NEW f \in Entries(j),
           e.leaf = f.leaf
    PROVE  e = f /\ i = j
<1>1. PICK k \in DOMAIN sequence : e = sequence[k] /\ i <= k /\ starts \cap (i + 1)..k = {}
  BY DEF Entries
<1>2. PICK n \in DOMAIN sequence : f = sequence[n] /\ j <= n /\ starts \cap (j + 1)..n = {}
  BY DEF Entries
<1>3. k = n
  BY <1>1, <1>2 DEF Inv, OrderInv
<1>4. i \in Nat /\ j \in Nat /\ k \in Nat
  BY DEF Inv, BatchInv, SenderInv
<1>5. ~(i < j) /\ ~(j < i)
  BY <1>1, <1>2, <1>3, <1>4
<1> QED
  BY <1>1, <1>2, <1>3, <1>4, <1>5

LEMMA PacketOf ==
    ASSUME Inv, NEW i \in starts
    PROVE  /\ DOMAIN Packet(i).leaves = {e.leaf : e \in Entries(i)}
           /\ \A p \in DOMAIN Packet(i).leaves : Packet(i).leaves[p] = FinalCopy(Entries(i), p)
           /\ \A c \in DOMAIN Packet(i).leaves :
                 \E e \in Entries(i) : e.leaf = c /\ e.parent = Packet(i).parent[c]
<1> DEFINE leaves == {e.leaf : e \in Entries(i)}
           parent(l) == (CHOOSE e \in Entries(i) : e.leaf = l).parent
<1>1. Packet(i) = [leaves |-> [l \in leaves |-> FinalCopy(Entries(i), l)],
                   parent |-> [l \in leaves |-> parent(l)]]
  BY DEF Packet, Packed
<1>2. \A c \in leaves : \E e \in Entries(i) : e.leaf = c /\ e.parent = parent(c)
  OBVIOUS
<1> HIDE DEF leaves, parent
<1>3. /\ DOMAIN Packet(i).leaves = leaves
      /\ \A c \in leaves : Packet(i).leaves[c] = FinalCopy(Entries(i), c)
      /\ \A c \in leaves : Packet(i).parent[c] = parent(c)
  BY <1>1
<1> QED
  BY <1>2, <1>3 DEF leaves

(* The copy a batch brings of a leaf p that has several children, and one of *)
(* them, c, that the sender holds: all children come with p, or the proof of *)
(* c does, or a full DAG is sent leaf by leaf.                               *)
Together(i, p) == /\ batching
                  /\ DOMAIN Packet(i).leaves[p].proofs = {} /\ Packet(i).leaves[p].links = g[p]
                  /\ \A c \in g[p] : \E e \in Entries(i) : e.leaf = c

LEMMA FinalCopySound ==
    ASSUME Inv, NEW i \in starts, NEW p \in DOMAIN Packet(i).leaves
    PROVE  LET copy == Packet(i).leaves[p]
           IN  /\ p \in DOMAIN source
               /\ copy.links = source[p].links /\ VerifyLeaf(copy)
               /\ \A c \in DOMAIN copy.proofs : c \in g[p] /\ copy.proofs[c] = Branch(g, p, c)
               /\ Cardinality(g[p]) > 1 =>
                     \/ Together(i, p)
                     \/ /\ DOMAIN source[p].proofs \subseteq DOMAIN copy.proofs
                        /\ batching \/ IsPartial(source) => g[p] \cap DOMAIN source \subseteq DOMAIN copy.proofs
                        /\ DOMAIN copy.proofs = {} \/ g[p] \cap DOMAIN source \subseteq DOMAIN copy.proofs
<1> DEFINE copy == Packet(i).leaves[p]
           batch == Entries(i)
           children == ChildrenIn(batch, p)
           held == g[p] \cap DOMAIN source
           Branches == \A c \in DOMAIN copy.proofs : c \in g[p] /\ copy.proofs[c] = Branch(g, p, c)
           Covers == \/ Together(i, p)
                     \/ /\ DOMAIN source[p].proofs \subseteq DOMAIN copy.proofs
                        /\ batching \/ IsPartial(source) => held \subseteq DOMAIN copy.proofs
                        /\ DOMAIN copy.proofs = {} \/ held \subseteq DOMAIN copy.proofs
<1>1. /\ copy = FinalCopy(batch, p)
      /\ \E e \in batch : e.leaf = p
  BY PacketOf
<1>2. p \in DOMAIN source /\ p \in Leaf /\ GoodCopy(source, p)
  <2>1. PICK k \in DOMAIN sequence : sequence[k].leaf = p
    BY <1>1 DEF Entries
  <2> QED
    BY <2>1, EntryFacts DEF Inv, WalkInv, GoodDag
<1>3. /\ copy.links = source[p].links /\ VerifyLeaf(copy)
      /\ copy.proofs = IF batching THEN FinalProofs(batch, p) ELSE source[p].proofs
      /\ source[p].links \subseteq g[p]
  BY <1>1, <1>2 DEF FinalCopy, GoodCopy, IsCopy, VerifyLeaf
<1>4. \A c \in DOMAIN source[p].proofs : c \in g[p] /\ source[p].proofs[c] = Branch(g, p, c)
  BY <1>2 DEF GoodCopy, GenuineProofs
<1>5. /\ Cardinality(g[p]) > 1 /\ IsPartial(source) => held \subseteq DOMAIN source[p].proofs
      /\ DOMAIN source[p].proofs = {} \/ held \subseteq DOMAIN source[p].proofs
      /\ held \subseteq source[p].links
  BY <1>2 DEF GoodCopy
<1>6. IsFiniteSet(g[p]) /\ Cardinality(g[p]) \in Nat
  BY <1>2, LinksOfShape, FS_CardinalityType DEF Inv, SenderInv
<1>7. /\ children \subseteq source[p].links
      /\ \A c \in children : \E e \in batch : e.leaf = c
  <2>1. ASSUME NEW e \in batch, e.parent = p PROVE e.leaf \in source[p].links
    <3>1. PICK k \in DOMAIN sequence : sequence[k] = e
      BY DEF Entries
    <3>2. p # NoParent
      BY <1>2, LeafAssumption DEF NoParent
    <3> QED
      BY <2>1, <3>1, <3>2, EntryFacts DEF Inv
  <2> QED
    BY <2>1 DEF ChildrenIn
<1> HIDE DEF copy, batch, children
<1>8. CASE ~batching \/ ~(CurrentLinkCount(g, p) > 1)
  <2>1. copy.proofs = source[p].proofs
    BY <1>3, <1>6, <1>8 DEF FinalProofs, CurrentLinkCount
  <2> QED
    BY <1>2, <1>3, <1>4, <1>5, <1>8, <2>1 DEF CurrentLinkCount, copy
<1>9. CASE batching /\ CurrentLinkCount(g, p) > 1 /\ Cardinality(children) = CurrentLinkCount(g, p)
  <2>1. copy.proofs = NoProofs
    BY <1>3, <1>6, <1>9 DEF FinalProofs, CurrentLinkCount, children
  <2>2. DOMAIN copy.proofs = {}
    BY <2>1 DEF NoProofs
  <2>3. children = g[p]
    BY <1>3, <1>6, <1>7, <1>9, FS_Subset DEF CurrentLinkCount
  <2>4. Together(i, p)
    BY <1>3, <1>7, <1>9, <2>2, <2>3 DEF Together, copy, batch
  <2> QED
    BY <1>2, <1>3, <2>2, <2>4 DEF copy
<1>10. CASE /\ batching /\ CurrentLinkCount(g, p) > 1
            /\ Cardinality(children) # CurrentLinkCount(g, p)
            /\ IsPartial(source)
  <2>1. copy.proofs = source[p].proofs
    BY <1>3, <1>6, <1>10 DEF FinalProofs, CurrentLinkCount, children
  <2> QED
    BY <1>2, <1>3, <1>4, <1>5, <1>10, <2>1 DEF CurrentLinkCount, copy
<1>11. CASE /\ batching /\ CurrentLinkCount(g, p) > 1
            /\ Cardinality(children) # CurrentLinkCount(g, p)
            /\ ~IsPartial(source)
  <2> DEFINE fresh == ProofsFor(g, p, source[p].links)
  <2>1. copy.proofs = Merge(fresh, source[p].proofs)
    BY <1>3, <1>6, <1>11 DEF FinalProofs, CurrentLinkCount, children
  <2>2. /\ fresh = [c \in DOMAIN fresh |-> Branch(g, p, c)]
        /\ DOMAIN fresh = source[p].links
    BY <1>11, ProofsForGenuine DEF CurrentLinkCount
  <2> HIDE DEF fresh
  <2>3. \A c \in DOMAIN fresh : fresh[c] = Branch(g, p, c)
    BY <2>2
  <2>4. /\ DOMAIN copy.proofs = DOMAIN fresh \cup DOMAIN source[p].proofs
        /\ \A c \in DOMAIN copy.proofs :
              copy.proofs[c] = IF c \in DOMAIN fresh THEN fresh[c] ELSE source[p].proofs[c]
    BY <2>1 DEF Merge
  <2>5. Branches
    BY <1>3, <1>4, <2>2, <2>3, <2>4
  <2> QED
    BY <1>2, <1>3, <1>5, <2>2, <2>4, <2>5 DEF copy
<1> QED
  BY <1>8, <1>9, <1>10, <1>11

-----------------------------------------------------------------------------
(* What the receiver's DAG is made of                                        *)

(* Its copies have what h, the DAG it held before, and the accepted batches  *)
(* brought, the links that batches declare, and nothing else.                *)
MadeOf(h) ==
    /\ DOMAIN h = {} \/ (GoodDag(h) /\ Verify(g, h))
    /\ Holdings = {"nothing"} => DOMAIN h = {}
    /\ DOMAIN received = DOMAIN h \cup Arrived
    /\ DOMAIN received = {} \/ Root \in DOMAIN received
    /\ \A p \in DOMAIN h :
          /\ h[p].links \subseteq received[p].links
          /\ DOMAIN h[p].proofs \subseteq DOMAIN received[p].proofs
    /\ \A i \in accepted : \A p \in DOMAIN Packet(i).leaves :
          /\ source[p].links \subseteq received[p].links
          /\ DOMAIN Packet(i).leaves[p].proofs \subseteq DOMAIN received[p].proofs
    /\ \A p \in DOMAIN received : \A l \in received[p].links :
          \/ l \in DOMAIN received
          \/ p \in DOMAIN h /\ l \in h[p].links
          \/ p \in Arrived /\ l \in source[p].links
    /\ \A p \in DOMAIN received : \A c \in DOMAIN received[p].proofs :
          /\ c \in g[p] /\ received[p].proofs[c] = Branch(g, p, c)
          /\ \/ p \in DOMAIN h
             \/ \E i \in accepted : p \in DOMAIN Packet(i).leaves
                                     /\ c \in DOMAIN Packet(i).leaves[p].proofs
    /\ \A c \in Arrived \ {Root} : \E p \in DOMAIN received : c \in received[p].links

MergeInv == \E h : MadeOf(h)

(* What an accepted batch makes of each copy.                                *)
LEMMA AcceptedCopies ==
    ASSUME Inv, Covered, NEW i \in starts, NEW packet \in OnTheWire(Packet(i), damage), Receive(i, packet),
           NEW p \in DOMAIN received'
    PROVE  /\ \A l \in received'[p].links :
                 \/ p \in DOMAIN received /\ l \in received[p].links
                 \/ p \in DOMAIN packet.leaves /\ l \in source[p].links
                 \/ l \in DOMAIN packet.leaves
           /\ p \in DOMAIN packet.leaves =>
                 /\ source[p].links \subseteq received'[p].links
                 /\ DOMAIN packet.leaves[p].proofs \subseteq DOMAIN received'[p].proofs
           /\ \A c \in DOMAIN packet.leaves : packet.parent[c] = p => c \in received'[p].links
           /\ \A c \in DOMAIN received'[p].proofs :
                 \/ /\ p \in DOMAIN received /\ c \in DOMAIN received[p].proofs
                    /\ received'[p].proofs[c] = received[p].proofs[c]
                 \/ /\ p \in DOMAIN packet.leaves /\ c \in DOMAIN packet.leaves[p].proofs
                    /\ received'[p].proofs[c] = packet.leaves[p].proofs[c]
<1>1. /\ received' = ApplyBatchedTransmissionPacket(packet)
      /\ i \in Nat
  BY DEF Receive, Inv, BatchInv, SenderInv
<1>2. DOMAIN received' = DOMAIN received \cup DOMAIN packet.leaves
  BY <1>1 DEF ApplyBatchedTransmissionPacket
<1>3. /\ received'[p].links = Adopt(packet, p).links
                                 \cup {c \in DOMAIN packet.parent : packet.parent[c] = p}
      /\ received'[p].proofs = Adopt(packet, p).proofs
  BY <1>1, <1>2 DEF ApplyBatchedTransmissionPacket
<1>4. /\ DOMAIN packet.parent = DOMAIN packet.leaves
      /\ p \in DOMAIN packet.leaves => packet.leaves[p].links = source[p].links
  BY <1>1, PacketFacts DEF Inv
<1>5. CASE p \notin DOMAIN packet.leaves
  <2>1. Adopt(packet, p) = received[p]
    BY <1>5 DEF Adopt
  <2> QED
    BY <1>2, <1>3, <1>4, <1>5, <2>1
<1>6. CASE p \in DOMAIN packet.leaves /\ p \notin DOMAIN received
  <2>1. Adopt(packet, p) = packet.leaves[p]
    BY <1>6 DEF Adopt
  <2> QED
    BY <1>3, <1>4, <1>6, <2>1
<1>7. CASE p \in DOMAIN packet.leaves /\ p \in DOMAIN received
  <2>1. /\ Adopt(packet, p).links = received[p].links \cup packet.leaves[p].links
        /\ Adopt(packet, p).proofs = Merge(packet.leaves[p].proofs, received[p].proofs)
    BY <1>7 DEF Adopt, MergeCopy
  <2>2. /\ DOMAIN received'[p].proofs = DOMAIN packet.leaves[p].proofs \cup DOMAIN received[p].proofs
        /\ \A c \in DOMAIN received'[p].proofs :
              received'[p].proofs[c] = IF c \in DOMAIN packet.leaves[p].proofs
                                       THEN packet.leaves[p].proofs[c] ELSE received[p].proofs[c]
    BY <1>3, <2>1 DEF Merge
  <2> QED
    BY <1>3, <1>4, <1>7, <2>1, <2>2
<1> QED
  BY <1>5, <1>6, <1>7

LEMMA MergeInit == Init => MergeInv
<1> SUFFICES ASSUME Init PROVE MadeOf(received)
  BY DEF MergeInv
<1>1. g \in Shapes /\ accepted = {} /\ Arrived = {}
  BY DEF Init, BatchInit, SenderInit, Arrived
<1>2. PICK k \in Holdings : received \in Held(g)[k]
  BY DEF Init
<1>3. CASE k = "nothing"
  <2>1. DOMAIN received = {}
    BY <1>1, <1>2, <1>3, HeldCopies
  <2> QED
    BY <1>1, <2>1 DEF MadeOf
<1>4. CASE k \in {"partial", "pruned"}
  <2>1. received \in Kinds(g)[k] /\ Verify(g, received)
    BY <1>2, <1>4 DEF Held
  <2>2. GoodDag(received)
    BY <1>1, <1>4, <2>1, KindsGood
  <2>3. \A p \in DOMAIN received : \A c \in DOMAIN received[p].proofs :
           c \in g[p] /\ received[p].proofs[c] = Branch(g, p, c)
    BY <2>2 DEF GoodDag, GoodCopy, GenuineProofs
  <2>4. Holdings # {"nothing"}
    BY <1>4
  <2> QED
    BY <1>1, <2>1, <2>2, <2>3, <2>4 DEF MadeOf, GoodDag
<1> QED
  BY <1>3, <1>4, HoldingsAssumption

LEMMA PacketsKept ==
    ASSUME UNCHANGED <<g, source, sequence, starts, batching>>, NEW j
    PROVE  Packet(j)' = Packet(j)
<1>1. Entries(j)' = Entries(j)
  BY DEF Entries
<1>2. \A l : FinalCopy(Entries(j), l)' = FinalCopy(Entries(j), l)
  BY <1>1 DEF FinalCopy, FinalProofs
<1> QED
  BY <1>1, <1>2 DEF Packet, Packed

(* A batch as it was sent is taken in.                                       *)
LEMMA MergeReceive ==
    ASSUME Inv, Covered, NEW h, MadeOf(h), NEW i \in starts, Receive(i, Packet(i))
    PROVE  MadeOf(h)'
<1> DEFINE packet == Packet(i)
           leaves == DOMAIN packet.leaves
<1>1. /\ UNCHANGED <<g, source, sequence, starts, batching>>
      /\ accepted' = accepted \cup {i}
      /\ VerifyBatchedTransmissionPacket(packet)
      /\ packet \in OnTheWire(packet, damage)
      /\ i \in Nat
  BY DEF Receive, sent, batches, OnTheWire, Inv, BatchInv, SenderInv
<1>2. \A j : Packet(j)' = Packet(j)
  BY <1>1, PacketsKept
<1>3. DOMAIN received' = DOMAIN received \cup leaves
  BY <1>1, Accepted
<1>4. Arrived' = Arrived \cup leaves
  <2>1. Arrived' = UNION {DOMAIN Packet(j).leaves : j \in accepted'}
    BY <1>2 DEF Arrived
  <2> QED
    BY <1>1, <2>1 DEF Arrived
<1>5. \A p \in DOMAIN received :
         /\ received[p].links \subseteq received'[p].links
         /\ DOMAIN received[p].proofs \subseteq DOMAIN received'[p].proofs
  BY <1>1, Accepted
<1>6. DOMAIN received' = DOMAIN h \cup Arrived'
  BY <1>3, <1>4 DEF MadeOf
<1>7. Root \in DOMAIN received'
  <2>1. CASE DOMAIN received = {}
    <3> DEFINE c == sequence[i].leaf
    <3>1. c \in leaves /\ (packet.parent[c] = NoParent \/ packet.parent[c] \notin leaves)
      BY <1>1, FirstOfBatch
    <3>2. packet.parent[c] = NoParent
      BY <1>1, <2>1, <3>1 DEF VerifyBatchedTransmissionPacket, ParentKnown
    <3>3. c = Root
      BY <1>1, <3>1, <3>2, DeclaredParent
    <3> QED
      BY <1>3, <3>1, <3>3
  <2> QED
    BY <1>3, <2>1 DEF MadeOf
<1>8. \A p \in DOMAIN h : /\ h[p].links \subseteq received'[p].links
                          /\ DOMAIN h[p].proofs \subseteq DOMAIN received'[p].proofs
  BY <1>5 DEF MadeOf
<1>9. ASSUME NEW j \in accepted', NEW p \in DOMAIN Packet(j).leaves
      PROVE  /\ source[p].links \subseteq received'[p].links
             /\ DOMAIN Packet(j).leaves[p].proofs \subseteq DOMAIN received'[p].proofs
  <2>1. CASE j = i
    BY <1>1, <1>3, <1>9, <2>1, AcceptedCopies
  <2>2. CASE j \in accepted
    <3>1. p \in DOMAIN received
      BY <1>9, <2>2 DEF Inv, ReceiverInv
    <3> QED
      BY <1>5, <1>9, <2>2, <3>1 DEF MadeOf
  <2> QED
    BY <1>1, <2>1, <2>2
<1>10. ASSUME NEW p \in DOMAIN received', NEW l \in received'[p].links
       PROVE  \/ l \in DOMAIN received'
              \/ p \in DOMAIN h /\ l \in h[p].links
              \/ p \in Arrived' /\ l \in source[p].links
  <2>1. \/ p \in DOMAIN received /\ l \in received[p].links
        \/ p \in leaves /\ l \in source[p].links
        \/ l \in leaves
    BY <1>1, AcceptedCopies
  <2> QED
    BY <1>3, <1>4, <2>1 DEF MadeOf
<1>11. ASSUME NEW p \in DOMAIN received', NEW c \in DOMAIN received'[p].proofs
       PROVE  /\ c \in g[p] /\ received'[p].proofs[c] = Branch(g, p, c)
              /\ \/ p \in DOMAIN h
                 \/ \E j \in accepted' : p \in DOMAIN Packet(j).leaves
                                         /\ c \in DOMAIN Packet(j).leaves[p].proofs
  <2>1. CASE /\ p \in DOMAIN received /\ c \in DOMAIN received[p].proofs
             /\ received'[p].proofs[c] = received[p].proofs[c]
    BY <1>1, <2>1 DEF MadeOf
  <2>2. CASE /\ p \in leaves /\ c \in DOMAIN packet.leaves[p].proofs
             /\ received'[p].proofs[c] = packet.leaves[p].proofs[c]
    BY <1>1, <2>2, FinalCopySound
  <2> QED
    BY <1>1, <2>1, <2>2, AcceptedCopies
<1>12. ASSUME NEW c \in Arrived' \ {Root}
       PROVE  \E p \in DOMAIN received' : c \in received'[p].links
  <2>1. CASE c \in leaves
    <3>1. packet.parent[c] # NoParent
      BY <1>1, <1>12, <2>1, DeclaredParent
    <3>2. packet.parent[c] \in DOMAIN received'
      BY <1>1, <1>3, <2>1, <3>1 DEF VerifyBatchedTransmissionPacket, ParentKnown
    <3>3. c \in received'[packet.parent[c]].links
      BY <1>1, <2>1, <3>2, AcceptedCopies
    <3> QED
      BY <3>2, <3>3
  <2>2. CASE c \in Arrived
    BY <1>3, <1>5, <1>12, <2>2 DEF MadeOf
  <2> QED
    BY <1>4, <2>1, <2>2
<1>13. (GoodDag(h) /\ Verify(g, h)) => (GoodDag(h) /\ Verify(g, h))'
  BY <1>1 DEF GoodDag, GoodCopy, IsCopy, GenuineProofs
<1> HIDE DEF packet, leaves
<1> QED
  BY <1>1, <1>2, <1>6, <1>7, <1>8, <1>9, <1>10, <1>11, <1>12, <1>13 DEF MadeOf

LEMMA Unharmed ==
    ASSUME Damages \subseteq {{}}, Inv
    PROVE  damage = {} /\ Covered
BY DEF Inv, BatchInv, Covered

LEMMA MergeStep ==
    ASSUME Damages \subseteq {{}}
    PROVE  Inv /\ MergeInv /\ [Next]_vars => MergeInv'
<1> SUFFICES ASSUME Inv, NEW h, MadeOf(h), [Next]_vars PROVE MadeOf(h)'
  BY DEF MergeInv
<1>0. damage = {} /\ Covered
  BY Unharmed
<1>1. CASE Prepare
  <2>1. UNCHANGED <<g, source, accepted, received>> /\ expanded < Len(sequence)
    BY <1>1 DEF Prepare, ExtendBatches, AppendToBatch, NextParentInBatch, AppendChild, NextParent
  <2>2. accepted = {}
    BY <2>1 DEF Done, Inv, BatchInv, SenderInv
  <2>3. Arrived = {} /\ Arrived' = {}
    BY <2>1, <2>2 DEF Arrived
  <2>4. (GoodDag(h) /\ Verify(g, h)) => (GoodDag(h) /\ Verify(g, h))'
    BY <2>1 DEF GoodDag, GoodCopy, IsCopy, GenuineProofs
  <2> QED
    BY <2>1, <2>2, <2>3, <2>4 DEF MadeOf
<1>2. CASE Deliver
  <2>1. PICK i \in starts : \E packet \in OnTheWire(Packet(i), damage) : Receive(i, packet)
    BY <1>2 DEF Deliver
  <2>2. Receive(i, Packet(i))
    BY <1>0, <2>1 DEF OnTheWire
  <2> QED
    BY <1>0, <2>2, MergeReceive
<1>3. CASE UNCHANGED vars
  <2>1. \A j : Packet(j)' = Packet(j)
    BY <1>3, PacketsKept DEF vars, sent, batches
  <2>2. Arrived' = Arrived
    BY <1>3, <2>1 DEF vars, Arrived
  <2>3. (GoodDag(h) /\ Verify(g, h)) => (GoodDag(h) /\ Verify(g, h))'
    BY <1>3 DEF vars, sent, GoodDag, GoodCopy, IsCopy, GenuineProofs
  <2> QED
    BY <1>3, <2>1, <2>2, <2>3 DEF vars, sent, MadeOf
<1> QED
  BY <1>1, <1>2, <1>3 DEF Next

LEMMA SpecMerge ==
    ASSUME Damages \subseteq {{}}
    PROVE  Spec => [](Inv /\ MergeInv)
<1>1. Init => MergeInv
  BY MergeInit
<1>2. Inv /\ MergeInv /\ [Next]_vars => MergeInv'
  BY MergeStep
<1> QED
  BY <1>1, <1>2, SpecInv, PTL DEF Spec

(* Under the parent p it is declared to have, a leaf is a member of p.       *)
LEMMA Membership ==
    ASSUME Inv, Covered, MergeInv, Holdings = {"nothing"} \/ BatchModes = {TRUE}, NEW i \in starts,
           NEW c \in DOMAIN Packet(i).leaves, NEW p, p = Packet(i).parent[c],
           p # NoParent, p \in DOMAIN Packet(i).leaves \cup Arrived
    PROVE  /\ ParentKnown(Packet(i), p)
           /\ Cardinality(ParentCopy(Packet(i), p).links) > 1 => VerifyMembership(Packet(i), p, c)
<1> DEFINE packet == Packet(i)
           copy == ParentCopy(packet, p)
<1>1. PICK h : MadeOf(h)
  BY DEF MergeInv
<1>2. packet \in OnTheWire(packet, damage) /\ i \in Nat
  BY DEF OnTheWire, Inv, BatchInv, SenderInv
<1>3. /\ c \in DOMAIN source /\ p \in DOMAIN source
      /\ c \in source[p].links /\ c \in g[p]
  BY <1>2, DeclaredParent
<1>4. p \in Leaf /\ GoodCopy(source, p) /\ source[p].links \subseteq g[p]
  BY <1>3 DEF Inv, WalkInv, GoodDag, GoodCopy, IsCopy
<1>5. ~IsPartial(source) => DOMAIN source = Leaf
  BY NotPartial DEF Inv, WalkInv, GoodDag
<1>6. p \in DOMAIN received /\ p \notin DOMAIN packet.leaves
         => received[p].links \subseteq g[p]
  BY DEF Inv, ReceiverInv, LinksOf
<1>7. ASSUME NEW S, S \subseteq g[p], Cardinality(S) > 1 PROVE Cardinality(g[p]) > 1
  <2>1. /\ IsFiniteSet(g[p]) /\ Cardinality(S) <= Cardinality(g[p])
        /\ Cardinality(S) \in Nat /\ Cardinality(g[p]) \in Nat
    BY <1>4, <1>7, LinksOfShape, FS_Subset, FS_CardinalityType DEF Inv, SenderInv
  <2> QED
    BY <1>7, <2>1
<1>8. g[p] \subseteq Leaf
  BY <1>4, LinksOfShape DEF Inv, SenderInv
<1> DEFINE member == IF DOMAIN copy.proofs = {} THEN copy.links = g[p]
                     ELSE IF c \in DOMAIN copy.proofs
                          THEN copy.proofs[c].tree = g[p] /\ copy.proofs[c].leaf \in copy.proofs[c].tree
                          ELSE p \in DOMAIN packet.leaves
<1>9. VerifyMembership(packet, p, c) <=> member
  <2> HIDE DEF packet
  <2> QED
    BY DEF VerifyMembership, VerifyChildren, VerifyBranch
<1>10. ASSUME c \in DOMAIN copy.proofs, copy.proofs[c] = Branch(g, p, c)
       PROVE  copy.proofs[c].tree = g[p] /\ copy.proofs[c].leaf \in copy.proofs[c].tree
  BY <1>3, <1>10 DEF Branch
<1>11. CASE p \in DOMAIN packet.leaves
  <2>1. copy = packet.leaves[p]
    BY <1>11 DEF ParentCopy
  <2>2. /\ copy.links = source[p].links
        /\ \A x \in DOMAIN copy.proofs : x \in g[p] /\ copy.proofs[x] = Branch(g, p, x)
    BY <1>11, <2>1, FinalCopySound
  <2>3. ASSUME Cardinality(copy.links) > 1, DOMAIN copy.proofs = {}
        PROVE  copy.links = g[p]
    <3>1. Cardinality(g[p]) > 1
      BY <1>4, <1>7, <2>2, <2>3
    <3>2. \/ Together(i, p)
          \/ /\ DOMAIN source[p].proofs \subseteq DOMAIN copy.proofs
             /\ batching \/ IsPartial(source) => g[p] \cap DOMAIN source \subseteq DOMAIN copy.proofs
      BY <1>11, <2>1, <3>1, FinalCopySound
    <3>3. CASE Together(i, p)
      BY <2>1, <3>3 DEF Together
    <3>4. CASE ~IsPartial(source)
      BY <1>4, <1>5, <1>8, <2>2, <3>4 DEF GoodCopy
    <3> QED
      BY <1>3, <2>3, <3>2, <3>3, <3>4
  <2>4. ParentKnown(packet, p)
    BY <1>11 DEF ParentKnown
  <2> HIDE DEF copy
  <2>5. Cardinality(copy.links) > 1 => member
    BY <1>11, <1>10, <2>2, <2>3
  <2> QED
    BY <1>9, <2>4, <2>5 DEF copy
<1>12. CASE p \notin DOMAIN packet.leaves
  <2>1. PICK j \in accepted : p \in DOMAIN Packet(j).leaves
    BY <1>12 DEF Arrived
  <2>2. j \in starts /\ p \in DOMAIN received /\ copy = received[p]
    BY <1>12, <2>1 DEF Inv, BatchInv, ReceiverInv, ParentCopy
  <2>3. /\ source[p].links \subseteq copy.links /\ copy.links \subseteq g[p]
        /\ DOMAIN Packet(j).leaves[p].proofs \subseteq DOMAIN copy.proofs
        /\ \A x \in DOMAIN copy.proofs : x \in g[p] /\ copy.proofs[x] = Branch(g, p, x)
    BY <1>1, <1>6, <1>12, <2>1, <2>2 DEF MadeOf
  <2>4. ~Together(j, p)
    <3>1. ASSUME Together(j, p) PROVE FALSE
      <4>1. PICK f \in Entries(j) : f.leaf = c
        BY <1>3, <3>1 DEF Together
      <4>2. PICK e \in Entries(i) : e.leaf = c
        BY PacketOf
      <4>3. i = j
        BY <2>2, <4>1, <4>2, OneBatch
      <4> QED
        BY <1>12, <2>1, <4>3
    <3> QED
      BY <3>1
  <2>5. ASSUME Cardinality(copy.links) > 1, c \notin DOMAIN copy.proofs
        PROVE  DOMAIN copy.proofs = {} /\ copy.links = g[p]
    <3>1. Cardinality(g[p]) > 1
      BY <1>7, <2>3, <2>5
    <3> DEFINE sentProofs == DOMAIN Packet(j).leaves[p].proofs
               known == g[p] \cap DOMAIN source
    <3>2. /\ batching \/ IsPartial(source) => known \subseteq sentProofs
          /\ sentProofs = {} \/ known \subseteq sentProofs
      BY <2>1, <2>2, <2>4, <3>1, FinalCopySound
    <3>3. c \notin sentProofs /\ c \in known
      BY <1>3, <2>3, <2>5
    <3>4. ~batching /\ ~IsPartial(source) /\ sentProofs = {}
      BY <3>2, <3>3
    <3>5. Holdings = {"nothing"}
      <4>1. batching \in BatchModes
        BY DEF Inv, BatchInv
      <4>2. ASSUME BatchModes = {TRUE} PROVE batching
        <5>1. batching = TRUE
          BY <4>1, <4>2
        <5> QED
          BY <5>1, Zenon
      <4> QED
        BY <3>4, <4>2
    <3>6. DOMAIN copy.proofs = {}
      <4> SUFFICES ASSUME NEW x \in DOMAIN copy.proofs PROVE FALSE
        OBVIOUS
      <4>1. p \notin DOMAIN h
        BY <1>1, <3>5 DEF MadeOf
      <4>2. PICK k \in accepted : p \in DOMAIN Packet(k).leaves /\ x \in DOMAIN Packet(k).leaves[p].proofs
        BY <1>1, <2>2, <4>1 DEF MadeOf
      <4>3. k = j
        <5>1. k \in starts
          BY <4>2 DEF Inv, BatchInv
        <5>2. PICK e \in Entries(k) : e.leaf = p
          BY <4>2, <5>1, PacketOf
        <5>3. PICK f \in Entries(j) : f.leaf = p
          BY <2>1, <2>2, PacketOf
        <5> QED
          BY <2>2, <5>1, <5>2, <5>3, OneBatch
      <4> QED
        BY <3>4, <4>2, <4>3
    <3>7. copy.links = g[p]
      BY <1>4, <1>5, <1>8, <2>3, <3>4 DEF GoodCopy
    <3> QED
      BY <3>6, <3>7
  <2>6. ParentKnown(packet, p)
    BY <2>2 DEF ParentKnown
  <2> HIDE DEF copy
  <2>7. Cardinality(copy.links) > 1 => member
    BY <1>10, <2>3, <2>5
  <2> QED
    BY <1>9, <2>6, <2>7 DEF copy
<1> QED
  BY <1>11, <1>12

-----------------------------------------------------------------------------
(* The receiver can verify                                                   *)

(* When every batch was accepted all the sender holds has arrived,           *)
LEMMA CompleteArrived ==
    ASSUME Inv, Done, accepted = starts
    PROVE  Arrived = DOMAIN source
<1>1. Sequenced = DOMAIN source
  BY AllSequenced DEF Inv
<1>2. Arrived \subseteq Sequenced
  <2>1. ASSUME NEW i \in starts PROVE DOMAIN Packet(i).leaves \subseteq Sequenced
    BY PacketOf DEF Entries, Sequenced
  <2> QED
    BY <2>1 DEF Arrived
<1>3. Sequenced \subseteq Arrived
  <2> SUFFICES ASSUME NEW k \in DOMAIN sequence PROVE sequence[k].leaf \in Arrived
    BY DEF Sequenced
  <2>1. PICK i \in starts : sequence[k] \in Entries(i)
    BY BatchOf
  <2>2. sequence[k].leaf \in DOMAIN Packet(i).leaves
    BY <2>1, PacketOf
  <2> QED
    BY <2>2 DEF Arrived
<1> QED
  BY <1>1, <1>2, <1>3

(* and hangs together.                                                       *)
LEMMA CompleteHangs ==
    ASSUME Inv, Covered, NEW h, MadeOf(h), Arrived = DOMAIN source
    PROVE  HangsTogether
<1> SUFFICES ASSUME NEW c \in Arrived \ {Root}, NEW p \in DOMAIN received,
                    IsLowest(p, Parents(received, c))
             PROVE  p \in Arrived
  BY DEF HangsTogether
<1>1. PICK q \in DOMAIN source : IsIndexedParent(g, q, c) /\ c \in source[q].links
  BY IndexedParentThere DEF Inv, SenderInv, WalkInv
<1>2. PICK i \in accepted : q \in DOMAIN Packet(i).leaves
  BY <1>1 DEF Arrived
<1>3. q \in Parents(received, c)
  BY <1>1, <1>2 DEF MadeOf, Inv, ReceiverInv, Parents
<1>4. p = q
  BY <1>1, <1>3, LowestIsIndexed DEF Inv, ReceiverInv, LinksOf
<1> QED
  BY <1>1, <1>4

(* Of a leaf that hangs from what arrived, an accepted batch brought the     *)
(* proof or all its siblings (<1>5); of one that was held before, the DAG    *)
(* held before has them (<1>6), since it hangs from the same parent.         *)
LEMMA ReceivedVerifies ==
    ASSUME Inv, Covered, NEW h, MadeOf(h), accepted # {}, Verify(g, source), HangsTogether,
           batching \/ Arrived = DOMAIN source
    PROVE  Verify(g, received)
<1>1. /\ g \in Shapes /\ DOMAIN received \subseteq Leaf /\ GoodDag(source)
      /\ \A p \in DOMAIN received : received[p].links \subseteq g[p] /\ VerifyLeaf(received[p])
      /\ Arrived \subseteq DOMAIN received
  BY DEF Inv, SenderInv, WalkInv, ReceiverInv, LinksOf, MadeOf
<1>2. \A p \in DOMAIN received : \A c \in DOMAIN received[p].proofs :
         c \in g[p] /\ received[p].proofs[c] = Branch(g, p, c)
  BY DEF MadeOf
<1>3. Root \in DOMAIN received
  <2>1. PICK i \in starts : i \in accepted
    BY DEF Inv, BatchInv
  <2>2. sequence[i].leaf \in DOMAIN Packet(i).leaves
    BY <2>1, FirstOfBatch DEF OnTheWire
  <2>3. sequence[i].leaf \in Arrived
    BY <2>1, <2>2 DEF Arrived
  <2>4. DOMAIN received = {} \/ Root \in DOMAIN received
    BY DEF MadeOf
  <2> QED
    BY <1>1, <2>3, <2>4
<1>4. \A p \in Leaf : g[p] \subseteq Leaf
  BY <1>1, LinksOfShape
<1>5. ASSUME NEW p \in Arrived, NEW c \in g[p] \cap DOMAIN source, Cardinality(g[p]) > 1
      PROVE  \/ received[p].links = g[p] /\ g[p] \subseteq DOMAIN received
             \/ c \in DOMAIN received[p].proofs
  <2>1. PICK i \in accepted : p \in DOMAIN Packet(i).leaves
    BY DEF Arrived
  <2>2. i \in starts /\ p \in DOMAIN source /\ p \in DOMAIN received
    BY <1>1, <2>1, FinalCopySound DEF Inv, BatchInv
  <2>3. /\ source[p].links \subseteq received[p].links /\ received[p].links \subseteq g[p]
        /\ DOMAIN Packet(i).leaves[p].proofs \subseteq DOMAIN received[p].proofs
        /\ Packet(i).leaves[p].links = source[p].links
    BY <1>1, <2>1, <2>2, FinalCopySound DEF MadeOf
  <2>4. CASE Together(i, p)
    <3>1. g[p] \subseteq DOMAIN Packet(i).leaves
      BY <2>2, <2>4, PacketOf DEF Together
    <3>2. g[p] \subseteq DOMAIN received
      BY <1>1, <2>1, <3>1 DEF Arrived
    <3> QED
      BY <2>3, <2>4, <3>2 DEF Together
  <2>5. CASE g[p] \cap DOMAIN source \subseteq DOMAIN Packet(i).leaves[p].proofs
    BY <1>5, <2>3, <2>5
  <2>6. CASE ~batching /\ ~IsPartial(source)
    <3>1. DOMAIN source = Leaf /\ Arrived = DOMAIN source
      BY <1>1, <2>6, NotPartial DEF GoodDag
    <3>2. g[p] \subseteq source[p].links /\ g[p] \subseteq DOMAIN received
      BY <1>1, <1>4, <2>2, <3>1 DEF GoodDag, GoodCopy
    <3> QED
      BY <2>3, <3>2
  <2> QED
    BY <1>5, <2>1, <2>2, <2>4, <2>5, <2>6, FinalCopySound
<1>6. ASSUME NEW p \in DOMAIN h, NEW c \in g[p] \cap DOMAIN h, Cardinality(g[p]) > 1
      PROVE  \/ received[p].links = g[p] /\ g[p] \subseteq DOMAIN received
             \/ c \in DOMAIN received[p].proofs
  <2>1. /\ GoodDag(h) /\ DOMAIN h \subseteq DOMAIN received
        /\ h[p].links \subseteq received[p].links
        /\ DOMAIN h[p].proofs \subseteq DOMAIN received[p].proofs
    BY DEF MadeOf
  <2>2. CASE IsPartial(h)
    BY <1>6, <2>1, <2>2 DEF GoodDag, GoodCopy
  <2>3. CASE ~IsPartial(h)
    <3>1. DOMAIN h = Leaf
      BY <2>1, <2>3, NotPartial DEF GoodDag
    <3>2. g[p] \subseteq h[p].links
      BY <1>4, <2>1, <3>1 DEF GoodDag, GoodCopy
    <3> QED
      BY <1>1, <1>4, <2>1, <3>1, <3>2
  <2> QED
    BY <2>2, <2>3
<1>7. ASSUME NEW c \in DOMAIN h \ {Root}
      PROVE  \E p \in DOMAIN h : /\ IsIndexedParent(g, p, c) /\ c \in g[p] \cap DOMAIN h
                                 /\ p \in Parents(received, c)
  <2>1. GoodDag(h)
    BY DEF MadeOf
  <2>2. PICK p \in DOMAIN h : /\ IsIndexedParent(g, p, c)
                            /\ c \in g[p] \cap DOMAIN h /\ c \in h[p].links
    BY <1>1, <2>1, IndexedParentThere
  <2> QED
    BY <2>2 DEF MadeOf, Parents
<1>8. \A c \in DOMAIN received \ {Root} : Parents(received, c) # {}
  BY <1>7 DEF MadeOf, Parents
<1>9. ASSUME NEW c \in DOMAIN received \ {Root}, NEW p \in DOMAIN received,
             IsLowest(p, Parents(received, c)), Cardinality(g[p]) > 1
      PROVE  \/ received[p].links = g[p] /\ g[p] \subseteq DOMAIN received
             \/ c \in DOMAIN received[p].proofs
  <2>1. c \in g[p]
    BY <1>1, <1>9 DEF IsLowest, Parents
  <2>2. CASE c \in DOMAIN h
    <3>1. PICK q \in DOMAIN h : /\ IsIndexedParent(g, q, c) /\ c \in g[q] \cap DOMAIN h
                               /\ q \in Parents(received, c)
      BY <1>7, <1>9, <2>2
    <3>2. p = q
      BY <1>1, <1>9, <3>1, LowestIsIndexed
    <3> QED
      BY <1>6, <1>9, <3>1, <3>2
  <2>3. CASE c \in Arrived
    <3>1. p \in Arrived
      BY <1>9, <2>3 DEF HangsTogether
    <3>2. c \in DOMAIN source
      BY <2>3, FinalCopySound DEF Arrived, Inv, BatchInv
    <3> QED
      BY <1>5, <1>9, <2>1, <3>1, <3>2
  <2> QED
    BY <1>9, <2>2, <2>3 DEF MadeOf
<1>10. \/ received[Root].links \subseteq DOMAIN received \/ Cardinality(g[Root]) = 1
       \/ DOMAIN received[Root].proofs # {} \/ received[Root].links # g[Root]
  <2> SUFFICES ASSUME NEW l \in received[Root].links, l \notin DOMAIN received,
                      Cardinality(g[Root]) # 1
               PROVE  DOMAIN received[Root].proofs # {}
    OBVIOUS
  <2>1. l \in g[Root] /\ Cardinality(g[Root]) > 1
    <3>1. l \in g[Root] /\ IsFiniteSet(g[Root])
      BY <1>1, <1>3, LinksOfShape
    <3>2. Cardinality(g[Root]) \in Nat /\ Cardinality(g[Root]) # 0
      BY <3>1, FS_CardinalityType, FS_EmptySet
    <3> QED
      BY <3>1, <3>2
  <2>2. CASE Root \in DOMAIN h /\ l \in h[Root].links
    <3>1. /\ GoodDag(h) /\ Verify(g, h) /\ l \notin DOMAIN h
          /\ DOMAIN h[Root].proofs \subseteq DOMAIN received[Root].proofs
      BY <2>2 DEF MadeOf
    <3>2. DOMAIN h[Root].proofs # {}
      BY <1>1, <2>2, <3>1, RootHasProofs
    <3> QED
      BY <3>1, <3>2
  <2>3. CASE Root \in Arrived /\ l \in source[Root].links
    <3>1. CASE l \in DOMAIN source
      BY <1>5, <2>1, <2>3, <3>1
    <3>2. CASE l \notin DOMAIN source
      <4>1. PICK i \in accepted : Root \in DOMAIN Packet(i).leaves
        BY <2>3 DEF Arrived
      <4>2. i \in starts /\ DOMAIN Packet(i).leaves \subseteq DOMAIN source
        BY <4>1, FinalCopySound DEF Inv, BatchInv
      <4>3. ~Together(i, Root)
        BY <2>1, <3>2, <4>2, PacketOf DEF Together
      <4>4. DOMAIN source[Root].proofs \subseteq DOMAIN Packet(i).leaves[Root].proofs
        BY <2>1, <4>1, <4>2, <4>3, FinalCopySound
      <4>5. DOMAIN source[Root].proofs # {}
        BY <1>1, <2>3, <3>2, RootHasProofs
      <4>6. DOMAIN Packet(i).leaves[Root].proofs \subseteq DOMAIN received[Root].proofs
        BY <4>1 DEF MadeOf
      <4> QED
        BY <4>4, <4>5, <4>6
    <3> QED
      BY <3>1, <3>2
  <2> QED
    BY <1>3, <2>2, <2>3 DEF MadeOf
<1> QED
  BY <1>1, <1>2, <1>3, <1>8, <1>9, <1>10, VerifiesIf

-----------------------------------------------------------------------------
(* Theorems *)

(* TypeOK: batches begin inside the sequence, and what the receiver holds    *)
(* are leaves of the DAG, with links of theirs or damaged ones, those it     *)
(* accepted included.                                                        *)
THEOREM BatchTypeCorrect == Spec => []TypeOK
<1>1. Inv => TypeOK
  BY DEF Inv, SenderInv, BatchInv, ReceiverInv, LinksOf, TypeOK
<1> QED
  BY <1>1, SpecInv, PTL

(* NothingLost: a batch takes no link and no proof from a leaf that is held, *)
(* whatever partial the receiver began with and however the batch was        *)
(* damaged, repeated or delayed.                                             *)
THEOREM BatchLosesNothing == Spec => NothingLost
<1> DEFINE Kept == \A p \in DOMAIN received :
                       /\ p \in DOMAIN received'
                       /\ VerifyLeaf(received'[p])
                       /\ received[p].links \subseteq received'[p].links
                       /\ DOMAIN received[p].proofs \subseteq DOMAIN received'[p].proofs
<1>1. ASSUME Inv, Next PROVE Kept
  <2>1. CASE Prepare
    <3>1. received' = received
      BY <2>1 DEF Prepare
    <3> QED
      BY <3>1, <1>1 DEF Inv, ReceiverInv
  <2>2. CASE Deliver
    <3>1. PICK i \in starts : \E packet \in OnTheWire(Packet(i), damage) : Receive(i, packet)
      BY <2>2 DEF Deliver
    <3>2. PICK packet \in OnTheWire(Packet(i), damage) : Receive(i, packet)
      BY <3>1
    <3> QED
      BY <1>1, <3>2, Accepted
  <2> QED
    BY <1>1, <2>1, <2>2 DEF Next
<1>2. Inv /\ [Next]_vars => [Kept]_vars
  BY <1>1
<1> QED
  BY <1>2, SpecInv, PTL DEF Spec, NothingLost

(* Connected: to a receiver that held nothing, batches that come in any      *)
(* order, repeated and damaged, implement LeafSync.  What it holds never     *)
(* shrinks, is what the sender holds, and hangs from the root.               *)
THEOREM BatchesImplementLeafSync ==
    ASSUME Holdings = {"nothing"}
    PROVE  Spec => Connected
<1>1. Init => Sync!Init
  <2> SUFFICES ASSUME Init PROVE Sync!Init
    OBVIOUS
  <2>1. Sync!Anchored(DOMAIN source) /\ Inv
    BY SourceAnchored, InitInv DEF Init, BatchInit
  <2>2. DOMAIN received = {}
    <3>1. PICK k \in Holdings : received \in Held(g)[k]
      BY DEF Init
    <3> QED
      BY <2>1, <3>1, HeldCopies DEF Inv, SenderInv
  <2> QED
    BY <2>1, <2>2 DEF Inv, SenderInv, Sync!Init
<1>2. Inv /\ Inv' /\ [Next]_vars => [Sync!Receive]_(Sync!vars)
  <2> SUFFICES ASSUME Inv, Inv', [Next]_vars PROVE [Sync!Receive]_(Sync!vars)
    OBVIOUS
  <2>1. CASE Prepare \/ UNCHANGED vars
    BY <2>1 DEF Prepare, ExtendBatches, AppendToBatch, NextParentInBatch, AppendChild, NextParent,
       vars, sent, Sync!vars
  <2>2. CASE Deliver
    <3>1. PICK i \in starts : \E packet \in OnTheWire(Packet(i), damage) : Receive(i, packet)
      BY <2>2 DEF Deliver
    <3>2. PICK packet \in OnTheWire(Packet(i), damage) : Receive(i, packet)
      BY <3>1
    <3>3. UNCHANGED <<g, source>>
      BY <3>2 DEF Receive, sent
    <3>4. DOMAIN received' = DOMAIN received \cup DOMAIN packet.leaves
      BY <3>2, Accepted
    <3>5. Sync!Anchored(DOMAIN received)' /\ DOMAIN received' \subseteq DOMAIN source
      <4>1. sequence[i].leaf \in DOMAIN received'
        BY <3>2, <3>4, FirstOfBatch
      <4> QED
        BY <3>3, <4>1 DEF Inv, ReceiverInv
    <3> QED
      BY <3>3, <3>4, <3>5 DEF Sync!Receive, Sync!Anchored
  <2> QED
    BY <2>1, <2>2 DEF Next
<1> QED
  BY <1>1, <1>2, SpecInv, PTL DEF Spec, Connected, Sync!Spec

(* HonestAccepted: an undamaged batch whose leaves' parents have come, or    *)
(* come with it, is accepted, wherever the sequence was cut.  The receiver   *)
(* began with nothing or leaves are put together in batches: a single leaf   *)
(* of a full DAG brings no proof that could be merged into a partial.        *)
THEOREM HonestBatchesAreAccepted ==
    ASSUME Damages \subseteq {{}}, Holdings = {"nothing"} \/ BatchModes = {TRUE}
    PROVE  Spec => []HonestAccepted
<1>1. Inv /\ MergeInv => HonestAccepted
  <2> SUFFICES ASSUME Inv, MergeInv, NEW i \in starts,
                      \A c \in DOMAIN Packet(i).leaves :
                         Packet(i).parent[c] \in DOMAIN Packet(i).leaves \cup Arrived \cup {NoParent}
               PROVE  VerifyBatchedTransmissionPacket(Packet(i))
    BY DEF HonestAccepted
  <2>1. \A c \in DOMAIN Packet(i).leaves : VerifyLeaf(Packet(i).leaves[c])
    BY FinalCopySound
  <2> QED
    BY <2>1, Unharmed, Membership DEF VerifyBatchedTransmissionPacket
<1> QED
  BY <1>1, SpecMerge, PTL

(* VerifiesThroughout: the receiver's DAG verifies after every batch of an   *)
(* undamaged transmission, in whatever order batches come and whatever       *)
(* partial they are merged into, as long as what arrived hangs from what     *)
(* arrived; and single leaves, and all else, do when everything has come.    *)
THEOREM BatchesVerifyThroughout ==
    ASSUME Damages \subseteq {{}}
    PROVE  Spec => []VerifiesThroughout
<1>1. Inv /\ MergeInv => VerifiesThroughout
  <2> SUFFICES ASSUME Inv, NEW h, MadeOf(h), accepted # {}, Verify(g, source),
                      (Done /\ accepted = starts) \/ (batching /\ HangsTogether)
               PROVE  Verify(g, received)
    BY DEF MergeInv, VerifiesThroughout
  <2>1. (Done /\ accepted = starts) => (Arrived = DOMAIN source /\ HangsTogether)
    BY Unharmed, CompleteArrived, CompleteHangs
  <2> QED
    BY <2>1, Unharmed, ReceivedVerifies
<1> QED
  BY <1>1, SpecMerge, PTL

(* CompleteVerifies: once every batch was accepted the receiver's DAG        *)
(* verifies if the sender's did, if batches come as they were sent.  With a  *)
(* full DAG it does so whatever happened to what a hash covers, and to       *)
(* proofs: it is then verified by its links alone, which must not change.    *)
THEOREM CompleteBatchesVerify ==
    ASSUME Damages \subseteq {{}} \/ Senders = {"full"}
    PROVE  Spec => []CompleteVerifies
<1>1. CASE Damages \subseteq {{}}
  <2>1. Inv /\ VerifiesThroughout => CompleteVerifies
    BY DEF Inv, BatchInv, VerifiesThroughout, CompleteVerifies
  <2>2. Spec => []VerifiesThroughout
    BY <1>1, BatchesVerifyThroughout
  <2> QED
    BY <2>1, <2>2, SpecInv, PTL
<1>2. CASE Senders = {"full"}
  <2>1. Inv => CompleteVerifies
    <3> SUFFICES ASSUME Inv, Covered, Done, accepted = starts PROVE Verify(g, received)
      BY DEF CompleteVerifies
    <3>1. DOMAIN source = Leaf /\ Arrived = DOMAIN source
      BY <1>2, CompleteArrived DEF Inv, SenderInv
    <3>2. DOMAIN received = Leaf
      <4>1. /\ DOMAIN received \subseteq Leaf
            /\ \A i \in accepted : DOMAIN Packet(i).leaves \subseteq DOMAIN received
        BY DEF Inv, ReceiverInv
      <4>2. Leaf \subseteq DOMAIN received
        BY <3>1, <4>1 DEF Arrived
      <4> QED
        BY <4>1, <4>2
    <3>3. \A l \in Leaf : /\ received[l].links \subseteq g[l] /\ VerifyLeaf(received[l])
                          /\ g[l] \subseteq Leaf /\ IsFiniteSet(g[l])
      BY <3>2, LinksOfShape DEF Inv, SenderInv, ReceiverInv, LinksOf
    <3>4. \A l \in Leaf : HasAllLinks(g, received, l) => received[l].links = g[l]
      BY <3>3, FS_Subset DEF HasAllLinks, CurrentLinkCount
    <3>5. VerifyFullDag(g, received)
      <4>1. \A l \in Leaf : /\ VerifyLeaf(received[l]) /\ received[l].links \subseteq Leaf
                            /\ HasAllLinks(g, received, l) => VerifyChildren(g, l, received[l])
        BY <3>3, <3>4 DEF VerifyChildren
      <4> QED
        BY <3>2, <4>1, LeafAssumption DEF VerifyFullDag
    <3>6. ~IsPartial(received) /\ Root \in DOMAIN received
      BY <3>2, NotPartial, LeafAssumption
    <3> QED
      BY <3>5, <3>6 DEF Verify
  <2> QED
    BY <2>1, SpecInv, PTL
<1> QED
  BY <1>1, <1>2
=============================================================================
