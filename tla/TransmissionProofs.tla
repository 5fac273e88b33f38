------------------------- MODULE TransmissionProofs -------------------------
(***************************************************************************)
(* Theorems about Transmission, for every set of leaves, every DAG over    *)
(* them and every order, repetition, loss and damage of packets.           *)
(***************************************************************************)
EXTENDS Transmission, LeafSequenceProofs

(* Either the sender pruned nothing, or no proof is damaged.                 *)
Sound == "pruned" \notin Senders \/ "proof" \notin damage

(* Whichever of the Damages is done.                                         *)
SoundWires == "pruned" \notin Senders \/ \A kinds \in Damages : "proof" \notin kinds

(* A copy in the receiver's hands, if no damage is done to what no hash      *)
(* covers.                                                                   *)
ReceiverCopy(p, copy) ==
    /\ IsCopy(p, copy)
    /\ Sound => GenuineProofs(p, copy)
    /\ "pruned" \notin Senders => WholeCopy(p, copy)
    /\ "full" \notin Senders =>
          copy.links = source[p].links /\ DOMAIN copy.proofs = DOMAIN source[p].proofs

(* The part about the receiver.                                              *)
ReceiverInv ==
    /\ damage \in Damages
    /\ DOMAIN received \subseteq DOMAIN source
    /\ DOMAIN received \subseteq Sequenced
    /\ \A p \in DOMAIN received : received[p].links \subseteq g[p] \cup {Unknown}
    /\ Covered => \A p \in DOMAIN received : ReceiverCopy(p, received[p])

Inv == SenderInv /\ OrderInv /\ WalkInv /\ ReceiverInv

-----------------------------------------------------------------------------
(* Packets *)

(* The proofs of an undamaged packet: genuine, of its leaf alone, and there  *)
(* whenever the declared parent has more than one child.                     *)
LEMMA PacketProofsGenuine ==
    ASSUME SenderInv, NEW p \in DOMAIN source, NEW c \in DOMAIN source, c \in source[p].links,
           p # NoParent
    PROVE  /\ PacketProofs(p, c) = [x \in DOMAIN PacketProofs(p, c) |-> Branch(g, p, x)]
           /\ DOMAIN PacketProofs(p, c) \subseteq {c}
           /\ Cardinality(g[p]) > 1 => c \in DOMAIN PacketProofs(p, c)
           /\ "pruned" \notin Senders => Cardinality(g[p]) > 1 \/ DOMAIN PacketProofs(p, c) = {}
           /\ "full" \notin Senders => DOMAIN PacketProofs(p, c) \subseteq DOMAIN source[p].proofs
<1>1. /\ c \in g[p]
      /\ SenderCopy(p, source[p])
      /\ source[p].proofs = [x \in DOMAIN source[p].proofs |-> Branch(g, p, x)]
  BY DEF SenderInv, SenderCopy, IsCopy, GenuineProofs
<1>2. CASE IsPartial(source)
  <2>1. PacketProofs(p, c) =
            [x \in {c} \cap DOMAIN source[p].proofs |-> source[p].proofs[x]]
    BY <1>2 DEF PacketProofs
  <2>2. \A x \in DOMAIN source[p].proofs : source[p].proofs[x] = Branch(g, p, x)
    BY <1>1
  <2>3. Cardinality(g[p]) > 1 => c \in DOMAIN source[p].proofs
    BY <1>1, <1>2 DEF SenderCopy
  <2>4. "pruned" \notin Senders => Cardinality(g[p]) > 1 \/ DOMAIN source[p].proofs = {}
    BY <1>1 DEF SenderCopy, WholeCopy
  <2> QED
    BY <2>1, <2>2, <2>3, <2>4
<1>3. CASE ~IsPartial(source)
  <2>1. PacketProofs(p, c) = ProofsFor(g, p, {c})
    BY <1>3 DEF PacketProofs
  <2>2. "full" \notin Senders /\ Cardinality(g[p]) > 1 => c \in DOMAIN source[p].proofs
    BY <1>1 DEF SenderCopy
  <2> QED
    BY <2>1, <2>2, ProofsForGenuine
<1> QED
  BY <1>2, <1>3

(* A damaged packet speaks of the same leaf.                                 *)
LEMMA PacketOnTheWire ==
    ASSUME Inv, NEW i \in DOMAIN sequence, NEW packet \in OnTheWire(Packet(sequence[i]), damage)
    PROVE  /\ packet.leaf = sequence[i].leaf
           /\ packet.parent \in {sequence[i].parent, Unknown}
           /\ packet.copy.links \subseteq source[packet.leaf].links \cup {Unknown}
<1> DEFINE e == sequence[i]
           honest == Packet(e)
<1>1. honest = [leaf |-> e.leaf, parent |-> e.parent, copy |-> source[e.leaf],
                proofs |-> PacketProofs(e.parent, e.leaf)]
  BY DEF Packet
<1>2. source[e.leaf] = [links |-> source[e.leaf].links, proofs |-> source[e.leaf].proofs,
                        intact |-> TRUE]
  BY EntryFacts DEF Inv, SenderInv, SenderCopy, IsCopy
<1> DEFINE Facts == /\ packet.leaf = e.leaf
                    /\ packet.parent \in {e.parent, Unknown}
                    /\ packet.copy.links \subseteq source[e.leaf].links \cup {Unknown}
<1> SUFFICES Facts
  OBVIOUS
<1> HIDE DEF e
<1>3. CASE packet = honest
  BY <1>1, <1>3
<1>4. CASE packet \in LeafDamaged(honest)
  BY <1>1, <1>2, <1>4 DEF LeafDamaged, Garbled
<1>5. CASE packet \in ProofDamaged(honest)
  BY <1>1, <1>5 DEF ProofDamaged
<1>6. CASE packet \in UnhashedDamaged(honest)
  <2>1. ASSUME NEW copy \in Relinked(honest.copy), packet = [honest EXCEPT !.copy = copy]
        PROVE  Facts
    <3>1. copy.links \subseteq source[e.leaf].links \cup {Unknown}
      BY <1>1, <1>2, <2>1 DEF Relinked
    <3> QED
      BY <1>1, <2>1, <3>1
  <2>2. ASSUME NEW S, packet = [honest EXCEPT !.copy.proofs = Broken(@, S)]
        PROVE  Facts
    <3> DEFINE copy == [source[e.leaf] EXCEPT !.proofs = Broken(@, S)]
    <3>1. packet = [honest EXCEPT !.copy = copy]
      BY <1>1, <2>2
    <3>2. copy.links = source[e.leaf].links
      BY <1>2
    <3> HIDE DEF copy
    <3> QED
      BY <1>1, <3>1, <3>2
  <2>3. ASSUME packet = [honest EXCEPT !.parent = IF @ = NoParent THEN @ ELSE Unknown]
        PROVE  Facts
    BY <1>1, <2>3
  <2> HIDE DEF honest, Facts
  <2> QED
    BY <1>6, <2>1, <2>2, <2>3 DEF UnhashedDamaged
<1>7. packet \in {honest} \cup LeafDamaged(honest) \cup ProofDamaged(honest)
                  \cup UnhashedDamaged(honest)
  BY DEF OnTheWire, e
<1> HIDE DEF honest, Facts
<1> QED
  BY <1>3, <1>4, <1>5, <1>6, <1>7

(* What is known of a packet that was accepted, if all its damage is to what *)
(* a hash covers: its leaf is as the sender sent it, and so is its proof if  *)
(* the receiver looked at it.                                                *)
LEMMA AcceptedPacket ==
    ASSUME Inv, Covered,
           NEW i \in DOMAIN sequence, NEW packet \in OnTheWire(Packet(sequence[i]), damage),
           VerifyTransmissionPacket(packet)
    PROVE  /\ packet.leaf \in DOMAIN source /\ packet.leaf \in Sequenced
           /\ packet.copy = source[packet.leaf]
           /\ packet.parent # NoParent =>
                /\ packet.parent \in DOMAIN source
                /\ packet.leaf \in source[packet.parent].links
                /\ DOMAIN packet.proofs \subseteq {packet.leaf}
                /\ "pruned" \notin Senders =>
                      Cardinality(g[packet.parent]) > 1 \/ DOMAIN packet.proofs = {}
                /\ "full" \notin Senders =>
                      DOMAIN packet.proofs \subseteq DOMAIN source[packet.parent].proofs
                /\ Sound /\ packet.parent \in DOMAIN received =>
                      packet.proofs = [c \in DOMAIN packet.proofs |-> Branch(g, packet.parent, c)]
<1> DEFINE e == sequence[i]
           honest == Packet(e)
<1>1. /\ e.leaf \in DOMAIN source /\ e.leaf \in Sequenced
      /\ e.parent # NoParent => e.parent \in DOMAIN source
                                  /\ e.leaf \in source[e.parent].links
  BY EntryFacts DEF Inv, Sequenced
<1>2. honest = [leaf |-> e.leaf, parent |-> e.parent, copy |-> source[e.leaf],
                proofs |-> PacketProofs(e.parent, e.leaf)]
  BY DEF Packet
<1>3. source[e.leaf] = [links |-> source[e.leaf].links, proofs |-> source[e.leaf].proofs,
                        intact |-> TRUE]
  BY <1>1 DEF Inv, SenderInv, SenderCopy, IsCopy
<1> HIDE DEF e
<1>4. ASSUME e.parent # NoParent
      PROVE  LET h == honest.proofs
             IN  /\ h = [x \in DOMAIN h |-> Branch(g, e.parent, x)]
                 /\ DOMAIN h \subseteq {e.leaf}
                 /\ "pruned" \notin Senders =>
                       Cardinality(g[e.parent]) > 1 \/ DOMAIN h = {}
                 /\ "full" \notin Senders => DOMAIN h \subseteq DOMAIN source[e.parent].proofs
  BY <1>1, <1>2, <1>4, PacketProofsGenuine DEF Inv
<1>5. CASE packet = honest
  <2> HIDE DEF honest
  <2> QED
    BY <1>1, <1>2, <1>4, <1>5
<1>6. CASE packet \in LeafDamaged(honest)
  <2>1. packet.copy.intact = FALSE
    BY <1>2, <1>3, <1>6 DEF LeafDamaged, Garbled
  <2> QED
    BY <2>1 DEF VerifyTransmissionPacket, VerifyLeaf
<1>7. CASE "proof" \in damage /\ packet \in ProofDamaged(honest)
  <2>1. packet = [leaf |-> e.leaf, parent |-> e.parent, copy |-> source[e.leaf],
                  proofs |-> [c \in DOMAIN honest.proofs |-> [leaf |-> c, tree |-> {}]]]
    <3> DEFINE broken == [c \in DOMAIN honest.proofs |-> [leaf |-> c, tree |-> {}]]
    <3>1. packet = [honest EXCEPT !.proofs = broken]
      <4>1. Broken(honest.proofs, DOMAIN honest.proofs) = broken
        BY DEF Broken
      <4> HIDE DEF broken, honest
      <4> QED
        BY <1>7, <4>1 DEF ProofDamaged
    <3>2. packet = [leaf |-> e.leaf, parent |-> e.parent, copy |-> source[e.leaf],
                    proofs |-> broken]
      <4> HIDE DEF broken, honest
      <4> QED
        BY <1>2, <3>1
    <3> QED
      BY <3>2
  <2>2. ASSUME Sound, e.parent # NoParent, e.parent \in DOMAIN received
        PROVE  DOMAIN packet.proofs = {}
    <3>1. "pruned" \notin Senders
      BY <1>7, <2>2 DEF Sound
    <3>2. received[e.parent].links = g[e.parent]
      BY <2>2, <3>1 DEF Inv, ReceiverInv, ReceiverCopy, WholeCopy
    <3>3. CASE Cardinality(g[e.parent]) > 1
      <4>1. /\ packet.leaf \in DOMAIN packet.proofs
            /\ VerifyBranch(g, packet.parent, packet.proofs[packet.leaf])
        BY <2>1, <2>2, <3>2, <3>3 DEF VerifyTransmissionPacket
      <4>2. packet.proofs[packet.leaf].tree = {} /\ packet.proofs[packet.leaf].leaf = packet.leaf
        BY <2>1, <4>1
      <4> QED
        BY <4>1, <4>2 DEF VerifyBranch
    <3>4. CASE ~(Cardinality(g[e.parent]) > 1)
      BY <1>4, <2>1, <2>2, <3>1, <3>4
    <3> QED
      BY <3>3, <3>4
  <2>3. DOMAIN packet.proofs = DOMAIN honest.proofs
    BY <2>1
  <2>4. ASSUME Sound, e.parent # NoParent, e.parent \in DOMAIN received
        PROVE  packet.proofs = [c \in DOMAIN packet.proofs |-> Branch(g, packet.parent, c)]
    BY <2>1, <2>2, <2>4
  <2> HIDE DEF honest
  <2> QED
    BY <1>1, <1>4, <2>1, <2>3, <2>4
<1>8. packet = honest \/ packet \in LeafDamaged(honest)
        \/ ("proof" \in damage /\ packet \in ProofDamaged(honest))
  BY DEF OnTheWire, Covered, e
<1> HIDE DEF honest
<1> QED
  BY <1>5, <1>6, <1>7, <1>8

-----------------------------------------------------------------------------
(* The receiver's part is inductive *)

(* A copy as the sender holds it is one the receiver may hold.               *)
LEMMA SentCopy ==
    ASSUME Inv, NEW p \in DOMAIN source
    PROVE  ReceiverCopy(p, source[p])
BY DEF Inv, SenderInv, SenderCopy, ReceiverCopy

LEMMA ApplyKeepsCopies ==
    ASSUME Inv, Covered,
           NEW i \in DOMAIN sequence, NEW packet \in OnTheWire(Packet(sequence[i]), damage),
           VerifyTransmissionPacket(packet)
    PROVE  LET after == ApplyTransmissionPacket(packet)
           IN  /\ DOMAIN after = DOMAIN received \cup {packet.leaf}
               /\ \A p \in DOMAIN after : ReceiverCopy(p, after[p])
               /\ "full" \notin Senders => \A p \in DOMAIN received :
                     DOMAIN received[p].proofs \subseteq DOMAIN after[p].proofs
<1> DEFINE leafs == Put(received, packet.leaf, packet.copy)
           parent == packet.parent
           child == packet.leaf
<1>1. /\ child \in DOMAIN source
      /\ packet.copy = source[child]
      /\ parent # NoParent =>
           /\ parent \in DOMAIN source
           /\ child \in source[parent].links
           /\ DOMAIN packet.proofs \subseteq {child}
           /\ "pruned" \notin Senders => Cardinality(g[parent]) > 1 \/ DOMAIN packet.proofs = {}
           /\ "full" \notin Senders => DOMAIN packet.proofs \subseteq DOMAIN source[parent].proofs
           /\ Sound /\ parent \in DOMAIN received =>
                 packet.proofs = [c \in DOMAIN packet.proofs |-> Branch(g, parent, c)]
  BY AcceptedPacket
<1>2. /\ DOMAIN leafs = DOMAIN received \cup {child}
      /\ \A p \in DOMAIN leafs : leafs[p] = IF p = child THEN source[p] ELSE received[p]
  BY <1>1 DEF Put
<1>3. /\ \A p \in DOMAIN leafs : ReceiverCopy(p, leafs[p])
      /\ "full" \notin Senders => \A p \in DOMAIN received :
            DOMAIN received[p].proofs \subseteq DOMAIN leafs[p].proofs
  <2>1. \A p \in DOMAIN leafs : ReceiverCopy(p, leafs[p])
    BY <1>1, <1>2, SentCopy DEF Inv, ReceiverInv
  <2>2. ASSUME "full" \notin Senders, NEW p \in DOMAIN received
        PROVE  DOMAIN received[p].proofs \subseteq DOMAIN leafs[p].proofs
    BY <1>2, <2>2 DEF Inv, ReceiverInv, ReceiverCopy
  <2> QED
    BY <2>1, <2>2
<1> HIDE DEF leafs
<1>4. CASE ~(parent # NoParent /\ parent \in DOMAIN leafs)
  BY <1>2, <1>3, <1>4 DEF ApplyTransmissionPacket, leafs
<1>5. CASE parent # NoParent /\ parent \in DOMAIN leafs
  <2> DEFINE old == leafs[parent]
             new == [links |-> old.links \cup {child}, proofs |-> Merge(packet.proofs, old.proofs),
                     intact |-> TRUE]
  <2>1. IsCopy(parent, old)
    BY <1>3, <1>5 DEF ReceiverCopy
  <2>2. Attach(old, packet) = new
    <3>1. PICK ls, ps : old = [links |-> ls, proofs |-> ps, intact |-> TRUE]
      <4> HIDE DEF old
      <4> QED
        BY <2>1 DEF IsCopy
    <3>2. old.intact = TRUE
      BY <3>1
    <3> QED
      BY <3>2 DEF Attach
  <2> HIDE DEF new
  <2>3. ApplyTransmissionPacket(packet) = [leafs EXCEPT ![parent] = new]
    BY <1>5, <2>2 DEF ApplyTransmissionPacket, leafs
  <2> USE DEF new
  <2>4. child \in g[parent]
    BY <1>1, <1>5 DEF Inv, SenderInv, SenderCopy, IsCopy
  <2>5. parent # child /\ parent \in DOMAIN received
    BY <1>1, <1>2, <1>5, <2>4, LinksOfShape DEF Inv, SenderInv
  <2> DEFINE merged == Merge(packet.proofs, old.proofs)
  <2>6. /\ merged = [c \in DOMAIN packet.proofs \cup DOMAIN old.proofs |->
                        IF c \in DOMAIN packet.proofs THEN packet.proofs[c] ELSE old.proofs[c]]
        /\ DOMAIN merged = DOMAIN packet.proofs \cup DOMAIN old.proofs
    BY DEF Merge
  <2>7. ReceiverCopy(parent, old)
    BY <1>3, <1>5
  <2> HIDE DEF merged, old
  <2>8. Sound => merged = [c \in DOMAIN merged |-> Branch(g, parent, c)]
                   /\ DOMAIN merged \subseteq g[parent]
    <3> SUFFICES ASSUME Sound PROVE merged = [c \in DOMAIN merged |-> Branch(g, parent, c)]
                                     /\ DOMAIN merged \subseteq g[parent]
      OBVIOUS
    <3>1. \A c \in DOMAIN packet.proofs : packet.proofs[c] = Branch(g, parent, c)
      <4>1. packet.proofs = [c \in DOMAIN packet.proofs |-> Branch(g, parent, c)]
        BY <1>1, <1>5, <2>5
      <4> QED
        BY <4>1
    <3>2. old.proofs = [c \in DOMAIN old.proofs |-> Branch(g, parent, c)]
            /\ DOMAIN old.proofs \subseteq g[parent]
      BY <2>7 DEF ReceiverCopy, GenuineProofs
    <3>3. \A c \in DOMAIN old.proofs : old.proofs[c] = Branch(g, parent, c)
      BY <3>2
    <3> QED
      BY <1>1, <1>5, <2>4, <2>6, <3>1, <3>2, <3>3
  <2>9. ReceiverCopy(parent, new)
    <3>1. new.links = old.links \cup {child} /\ new.proofs = merged /\ new.intact = TRUE
      BY DEF merged
    <3>2. IsCopy(parent, new)
      BY <2>4, <2>7 DEF ReceiverCopy, IsCopy
    <3>3. "pruned" \notin Senders => WholeCopy(parent, new)
      BY <1>1, <1>5, <2>4, <2>6, <2>7, <3>1 DEF ReceiverCopy, WholeCopy
    <3>4. "full" \notin Senders =>
             new.links = source[parent].links /\ DOMAIN merged = DOMAIN source[parent].proofs
      BY <1>1, <1>5, <2>6, <2>7, <3>1 DEF ReceiverCopy
    <3> HIDE DEF new
    <3> QED
      BY <2>8, <3>1, <3>2, <3>3, <3>4 DEF ReceiverCopy, GenuineProofs
  <2>10. DOMAIN leafs[parent].proofs \subseteq DOMAIN new.proofs
    BY <2>6 DEF merged, old
  <2> HIDE DEF new
  <2> QED
    BY <1>2, <1>3, <1>5, <2>3, <2>9, <2>10
<1> QED
  BY <1>4, <1>5

(* A restart changes no copy: Merkle roots are made anew only when every copy *)
(* has all the links its leaf was built with.                                *)
LEMMA RestartKeepsCopies ==
    ASSUME Inv, Covered
    PROVE  /\ DOMAIN Reloaded(g, received) = DOMAIN received
           /\ \A l \in DOMAIN received : Reloaded(g, received)[l] = received[l]
<1>1. ASSUME NEW l \in DOMAIN received PROVE Reloaded(g, received)[l] = received[l]
  <2>1. PICK ls, ps : received[l] = [links |-> ls, proofs |-> ps, intact |-> TRUE]
    BY DEF Inv, ReceiverInv, ReceiverCopy, IsCopy
  <2>2. received[l].links \subseteq g[l] /\ IsFiniteSet(g[l])
    BY LinksOfShape DEF Inv, ReceiverInv, ReceiverCopy, IsCopy, SenderInv
  <2>3. CASE ~HasPrunedLinks(g, received)
    <3>1. ~(Cardinality(received[l].links) < Cardinality(g[l]))
      BY <2>3 DEF HasPrunedLinks, CurrentLinkCount
    <3>2. received[l].links = g[l]
      BY <2>2, <3>1, FS_Subset, FS_CardinalityType
    <3>3. received[l].links = ls /\ received[l].proofs = ps /\ received[l].intact = TRUE
      BY <2>1
    <3>4. (received[l].intact /\ received[l].links = g[l]) = TRUE
      BY <3>2, <3>3
    <3>5. Rebuild(g, l, received[l]) = [links |-> ls, proofs |-> ps, intact |-> TRUE]
      BY <3>3, <3>4 DEF Rebuild
    <3> QED
      BY <2>1, <3>5 DEF Reloaded
  <2>4. CASE HasPrunedLinks(g, received)
    BY <2>4 DEF Reloaded
  <2> QED
    BY <2>3, <2>4
<1> QED
  BY <1>1 DEF Reloaded

(* Whatever packet is accepted, the receiver holds leaves sent to it, with   *)
(* links of theirs or damaged ones.                                          *)
LEMMA ApplyKeepsLinks ==
    ASSUME Inv, NEW i \in DOMAIN sequence,
           NEW packet \in OnTheWire(Packet(sequence[i]), damage)
    PROVE  LET after == ApplyTransmissionPacket(packet)
           IN  /\ DOMAIN after = DOMAIN received \cup {packet.leaf}
               /\ packet.leaf \in DOMAIN source /\ packet.leaf \in Sequenced
               /\ \A p \in DOMAIN after : after[p].links \subseteq g[p] \cup {Unknown}
<1> DEFINE leafs == Put(received, packet.leaf, packet.copy)
           parent == packet.parent
           child == packet.leaf
<1>1. /\ child \in DOMAIN source /\ child \in Sequenced
      /\ parent \in {sequence[i].parent, Unknown}
      /\ sequence[i].parent # NoParent =>
            sequence[i].parent \in DOMAIN source /\ child \in source[sequence[i].parent].links
      /\ packet.copy.links \subseteq source[child].links \cup {Unknown}
  BY PacketOnTheWire, EntryFacts DEF Inv, Sequenced
<1>2. \A p \in DOMAIN source : p # Unknown /\ source[p].links \subseteq g[p]
  BY LeafAssumption DEF Inv, SenderInv, SenderCopy, IsCopy, Unknown
<1>3. /\ DOMAIN leafs = DOMAIN received \cup {child}
      /\ \A p \in DOMAIN leafs : leafs[p].links \subseteq g[p] \cup {Unknown}
  BY <1>1, <1>2 DEF Put, Inv, ReceiverInv
<1> HIDE DEF leafs
<1>4. CASE ~(parent # NoParent /\ parent \in DOMAIN leafs)
  BY <1>1, <1>3, <1>4 DEF ApplyTransmissionPacket, leafs
<1>5. CASE parent # NoParent /\ parent \in DOMAIN leafs
  <2>1. child \in g[parent]
    BY <1>1, <1>2, <1>3, <1>5 DEF Inv, ReceiverInv
  <2>2. Attach(leafs[parent], packet).links = leafs[parent].links \cup {child}
    BY DEF Attach
  <2>3. ApplyTransmissionPacket(packet) = [leafs EXCEPT ![parent] = Attach(leafs[parent], packet)]
    BY <1>5 DEF ApplyTransmissionPacket, leafs
  <2> QED
    BY <1>1, <1>3, <1>5, <2>1, <2>2, <2>3
<1> QED
  BY <1>4, <1>5

LEMMA RestartKeepsLinks ==
    ASSUME NEW l \in DOMAIN received
    PROVE  Reloaded(g, received)[l].links = received[l].links
BY DEF Reloaded, Rebuild

LEMMA InitInv == Init => Inv
<1> SUFFICES ASSUME Init PROVE Inv
  OBVIOUS
<1>1. DOMAIN received = {}
  BY DEF Init
<1> QED
  BY <1>1, SenderInitInv, OrderInit, WalkInit DEF Init, Inv, ReceiverInv

LEMMA ReceiverStep == Inv /\ [Next]_vars => ReceiverInv'
<1> SUFFICES ASSUME Inv, [Next]_vars PROVE ReceiverInv'
  OBVIOUS
<1>1. ASSUME g' = g, source' = source, damage' = damage,
             Covered => \A p \in DOMAIN received' : ReceiverCopy(p, received'[p])
      PROVE  Covered' => \A p \in DOMAIN received' : ReceiverCopy(p, received[p])'
  BY <1>1 DEF ReceiverCopy, IsCopy, GenuineProofs, WholeCopy, Sound, Covered
<1>2. ASSUME g' = g, source' = source, damage' = damage, received' = received,
             Sequenced \subseteq Sequenced'
      PROVE  ReceiverInv'
  BY <1>1, <1>2 DEF Inv, ReceiverInv
<1>3. CASE Prepare
  <2>1. CASE AppendChild
    <3>1. PICK e : sequence' = Append(sequence, e)
      BY <2>1 DEF AppendChild
    <3>2. Sequenced \subseteq Sequenced'
      BY <3>1 DEF Sequenced, Inv, SenderInv
    <3> QED
      BY <1>2, <1>3, <2>1, <3>2 DEF AppendChild, Prepare
  <2>2. CASE NextParent
    BY <1>2, <1>3, <2>2 DEF NextParent, Prepare, Sequenced
  <2> QED
    BY <1>3, <2>1, <2>2 DEF Prepare, ExtendSequence
<1>4. CASE UNCHANGED vars
  BY <1>2, <1>4 DEF vars, sent, Sequenced
<1>5. CASE Deliver
  <2>1. PICK i \in DOMAIN sequence :
             \E packet \in OnTheWire(Packet(sequence[i]), damage) : Receive(i, packet)
    BY <1>5 DEF Deliver
  <2>2. PICK packet \in OnTheWire(Packet(sequence[i]), damage) : Receive(i, packet)
    BY <2>1
  <2>3. /\ VerifyTransmissionPacket(packet)
        /\ received' = ApplyTransmissionPacket(packet)
        /\ g' = g /\ source' = source /\ sequence' = sequence /\ damage' = damage
    BY <2>2 DEF Receive, sent
  <2>4. /\ DOMAIN received' = DOMAIN received \cup {packet.leaf}
        /\ packet.leaf \in DOMAIN source /\ packet.leaf \in Sequenced
        /\ \A p \in DOMAIN received' : received'[p].links \subseteq g[p] \cup {Unknown}
    BY <2>3, ApplyKeepsLinks
  <2>5. Covered => \A p \in DOMAIN received' : ReceiverCopy(p, received'[p])
    BY <2>3, ApplyKeepsCopies
  <2>6. Covered' => \A p \in DOMAIN received' : ReceiverCopy(p, received[p])'
    BY <1>1, <2>3, <2>5
  <2> QED
    BY <2>3, <2>4, <2>6 DEF Inv, ReceiverInv, Sequenced
<1>6. CASE Restart
  <2>1. g' = g /\ source' = source /\ sequence' = sequence /\ damage' = damage
    BY <1>6 DEF Restart, sent
  <2>2. received' = Reloaded(g, received)
    BY <1>6 DEF Restart
  <2>3. DOMAIN received' = DOMAIN received
    BY <2>2 DEF Reloaded
  <2>4. \A p \in DOMAIN received' : received'[p].links \subseteq g[p] \cup {Unknown}
    BY <2>2, <2>3, RestartKeepsLinks DEF Inv, ReceiverInv
  <2>5. Covered => \A p \in DOMAIN received' : ReceiverCopy(p, received'[p])
    BY <2>2, <2>3, RestartKeepsCopies DEF Inv, ReceiverInv
  <2>6. Covered' => \A p \in DOMAIN received' : ReceiverCopy(p, received[p])'
    BY <1>1, <2>1, <2>5
  <2> QED
    BY <2>1, <2>3, <2>4, <2>6 DEF Inv, ReceiverInv, Sequenced
<1> QED
  BY <1>3, <1>4, <1>5, <1>6 DEF Next

LEMMA SpecInv == Spec => []Inv
<1>1. [Next]_vars => [ExtendSequence]_sent
  BY DEF Next, Prepare, Deliver, Receive, Restart, vars, sent
<1>2. Inv /\ [Next]_vars => Inv'
  BY <1>1, SenderStep, OrderStep, WalkStep, ReceiverStep DEF Inv
<1> QED
  BY <1>2, InitInv, PTL DEF Spec

LEMMA WiresAreSound == ASSUME Inv, SoundWires PROVE Sound
BY DEF SoundWires, Sound, Inv, ReceiverInv

(* A receiver of a partial DAG that has the parents of what it has can       *)
(* verify: its copies bring the proof of every child that the sender holds.  *)
LEMMA PartialVerifies ==
    ASSUME Inv, Covered, Sound, "full" \notin Senders, ParentsFirst,
           DOMAIN source # {Root} \/ Verify(g, source)
    PROVE  Verify(g, received)
<1>1. /\ g \in Shapes /\ DOMAIN received \subseteq DOMAIN source /\ DOMAIN source \subseteq Leaf
      /\ Root \in DOMAIN received
  BY DEF Inv, SenderInv, ReceiverInv, ParentsFirst
<1>2. ASSUME NEW p \in DOMAIN received
      PROVE  /\ received[p].links \subseteq g[p] /\ VerifyLeaf(received[p])
             /\ \A c \in DOMAIN received[p].proofs :
                   c \in g[p] /\ received[p].proofs[c] = Branch(g, p, c)
             /\ received[p].links = source[p].links
             /\ Cardinality(g[p]) > 1 => g[p] \cap DOMAIN source \subseteq DOMAIN received[p].proofs
  <2>1. ReceiverCopy(p, received[p]) /\ SenderCopy(p, source[p])
    BY <1>1 DEF Inv, SenderInv, ReceiverInv
  <2>2. IsCopy(p, received[p]) /\ GenuineProofs(p, received[p])
    BY <2>1 DEF ReceiverCopy
  <2>3. \A c \in DOMAIN received[p].proofs :
           c \in g[p] /\ received[p].proofs[c] = Branch(g, p, c)
    BY <2>2 DEF GenuineProofs
  <2> QED
    BY <2>1, <2>2, <2>3 DEF ReceiverCopy, SenderCopy, IsCopy, VerifyLeaf
<1>3. ASSUME NEW l \in received[Root].links, Cardinality(g[Root]) # 1
      PROVE  DOMAIN received[Root].proofs # {}
  <2>1. l \in g[Root] /\ IsFiniteSet(g[Root])
    BY <1>1, <1>2, LinksOfShape
  <2>2. Cardinality(g[Root]) \in Nat /\ Cardinality(g[Root]) # 0
    BY <2>1, FS_CardinalityType, FS_EmptySet
  <2>3. GoodDag(source)
    BY DEF Inv, WalkInv
  <2>4. CASE DOMAIN source # {Root}
    <3>1. ~(\A p \in {Root} : source[p].links \cap DOMAIN source \subseteq {Root})
      BY <1>1, <2>3, <2>4, ClosedIsAll
    <3>2. PICK c \in source[Root].links : c \in DOMAIN source
      BY <3>1
    <3>3. c \in g[Root] \cap DOMAIN source
      BY <1>1, <1>2, <3>2
    <3> QED
      BY <1>1, <1>2, <1>3, <2>2, <3>3
  <2>5. CASE DOMAIN source = {Root}
    <3>1. l \notin DOMAIN source /\ l \in source[Root].links
      BY <1>1, <1>2, <1>3, <2>1, <2>5, LinksOfShape
    <3>2. DOMAIN source[Root].proofs # {}
      BY <1>1, <1>3, <2>3, <2>5, <3>1, RootHasProofs
    <3>3. DOMAIN received[Root].proofs = DOMAIN source[Root].proofs
      BY <1>1 DEF Inv, ReceiverInv, ReceiverCopy
    <3> QED
      BY <3>2, <3>3
  <2> QED
    BY <2>4, <2>5
<1>4. ASSUME NEW c \in DOMAIN received \ {Root}
      PROVE  Parents(received, c) # {}
  <2>1. PICK i \in DOMAIN sequence : sequence[i].leaf = c
    BY DEF Inv, ReceiverInv, Sequenced
  <2>2. sequence[i].parent # NoParent
    BY <2>1 DEF Inv, OrderInv
  <2>3. sequence[i].parent \in DOMAIN received /\ c \in source[sequence[i].parent].links
    BY <2>1, <2>2, EntryFacts DEF Inv, ParentsFirst
  <2> QED
    BY <1>2, <2>3 DEF Parents
<1>5. ASSUME NEW c \in DOMAIN received \ {Root}, NEW p \in DOMAIN received,
             IsLowest(p, Parents(received, c)), Cardinality(g[p]) > 1
      PROVE  c \in DOMAIN received[p].proofs
  BY <1>1, <1>2, <1>5 DEF IsLowest, Parents
<1>6. DOMAIN received \subseteq Leaf
  BY <1>1
<1>7. \A p \in DOMAIN received :
         /\ received[p].links \subseteq g[p] /\ VerifyLeaf(received[p])
         /\ \A c \in DOMAIN received[p].proofs : c \in g[p] /\ received[p].proofs[c] = Branch(g, p, c)
  BY <1>2
<1>8. \/ received[Root].links \subseteq DOMAIN received \/ Cardinality(g[Root]) = 1
      \/ DOMAIN received[Root].proofs # {} \/ received[Root].links # g[Root]
  BY <1>3
<1>9. \A c \in DOMAIN received \ {Root}, p \in DOMAIN received :
         IsLowest(p, Parents(received, c)) =>
            \/ ~(Cardinality(g[p]) > 1)
            \/ received[p].links = g[p] /\ g[p] \subseteq DOMAIN received
            \/ c \in DOMAIN received[p].proofs
  BY <1>5
<1> QED
  BY <1>1, <1>4, <1>6, <1>7, <1>8, <1>9, VerifiesIf

-----------------------------------------------------------------------------
(* The theorems *)

(* TypeOK: the sender sends leaves it holds under parents that link them,    *)
(* and what the receiver holds are leaves sent to it, with links of theirs   *)
(* or damaged ones.                                                          *)
THEOREM TransmissionTypeCorrect == Spec => []TypeOK
<1>1. Inv => TypeOK
  <2> SUFFICES ASSUME Inv PROVE TypeOK
    OBVIOUS
  <2>1. ASSUME NEW i \in DOMAIN sequence
        PROVE  /\ sequence[i].leaf \in DOMAIN source
               /\ sequence[i].parent = NoParent \/ sequence[i].leaf \in g[sequence[i].parent]
    BY EntryFacts DEF Inv, SenderInv, SenderCopy, IsCopy
  <2> QED
    BY <2>1 DEF TypeOK, Inv, SenderInv, ReceiverInv, ReceiverCopy, IsCopy
<1> QED
  BY <1>1, SpecInv, PTL

(* ProofsGenuine: while damage is only to what a hash covers, a proof that   *)
(* the receiver stored is the one of that child under that very parent,      *)
(* unless a partial DAG was pruned and proofs damaged (the receiver then     *)
(* looks for a proof by the number of links it has).                         *)
THEOREM ProofsAreGenuine ==
    ASSUME SoundWires
    PROVE  Spec => []ProofsGenuine
<1>1. Inv => ProofsGenuine
  <2> SUFFICES ASSUME Inv, Covered,
                      NEW p \in DOMAIN received, NEW c \in DOMAIN received[p].proofs
               PROVE  c \in g[p] /\ received[p].proofs[c] = Branch(g, p, c)
    BY DEF ProofsGenuine
  <2>1. /\ received[p].proofs = [x \in DOMAIN received[p].proofs |-> Branch(g, p, x)]
        /\ DOMAIN received[p].proofs \subseteq g[p]
    BY WiresAreSound DEF Inv, ReceiverInv, ReceiverCopy, GenuineProofs
  <2> QED
    BY <2>1
<1> QED
  BY <1>1, SpecInv, PTL

(* HonestAccepted: whatever arrived before it, in whatever order and however *)
(* damaged as far as hashes go, an undamaged packet of any kind of sender is *)
(* accepted.                                                                 *)
THEOREM HonestIsAccepted == Spec => []HonestAccepted
<1>1. Inv => HonestAccepted
  <2> SUFFICES ASSUME Inv, Covered, NEW i \in DOMAIN sequence
               PROVE  VerifyTransmissionPacket(Packet(sequence[i]))
    BY DEF HonestAccepted
  <2> DEFINE c == sequence[i].leaf
             p == sequence[i].parent
  <2>1. /\ c \in DOMAIN source
        /\ p # NoParent => p \in DOMAIN source /\ c \in source[p].links
    BY EntryFacts DEF Inv
  <2>2. Packet(sequence[i]) = [leaf |-> c, parent |-> p, copy |-> source[c],
                               proofs |-> PacketProofs(p, c)]
    BY DEF Packet
  <2> HIDE DEF c, p
  <2>3. source[c].intact
    <3>1. PICK ls, ps : source[c] = [links |-> ls, proofs |-> ps, intact |-> TRUE]
      BY <2>1 DEF Inv, SenderInv, SenderCopy, IsCopy
    <3> QED
      BY <3>1
  <2>4. ASSUME p # NoParent, p \in DOMAIN received, Cardinality(received[p].links) > 1
        PROVE  /\ c \in DOMAIN PacketProofs(p, c)
               /\ received[p].intact
               /\ VerifyBranch(g, p, PacketProofs(p, c)[c])
    <3>1. received[p].links \subseteq g[p] /\ c \in g[p]
      BY <2>1, <2>4 DEF Inv, ReceiverInv, ReceiverCopy, SenderInv, SenderCopy, IsCopy
    <3>2. IsFiniteSet(g[p])
      BY <2>1, <2>4, LinksOfShape DEF Inv, SenderInv
    <3>3. Cardinality(g[p]) > 1
      BY <2>4, <3>1, <3>2, FS_Subset, FS_CardinalityType
    <3>4. /\ c \in DOMAIN PacketProofs(p, c)
          /\ PacketProofs(p, c) = [x \in DOMAIN PacketProofs(p, c) |-> Branch(g, p, x)]
      BY <2>1, <2>4, <3>3, PacketProofsGenuine DEF Inv
    <3>5. PacketProofs(p, c)[c] = Branch(g, p, c)
      BY <3>4
    <3>6. PICK ls, ps : received[p] = [links |-> ls, proofs |-> ps, intact |-> TRUE]
      BY <2>4 DEF Inv, ReceiverInv, ReceiverCopy, IsCopy
    <3>7. received[p].intact
      BY <3>6
    <3> QED
      BY <3>1, <3>4, <3>5, <3>7 DEF VerifyBranch, Branch
  <2> QED
    BY <2>2, <2>3, <2>4 DEF VerifyTransmissionPacket, VerifyLeaf
<1> QED
  BY <1>1, SpecInv, PTL

(* CompleteVerifies: when all leaves have arrived and no damage was done to  *)
(* what no hash covers, the receiver's Dag passes Verify if the sender's     *)
(* did.  A complete DAG does so whatever happened to proofs; the proofs of a *)
(* partial that was pruned must come undamaged.                              *)
THEOREM CompleteDagVerifies ==
    ASSUME Senders = {"full"} \/ (SoundWires /\ "full" \notin Senders)
    PROVE  Spec => []CompleteVerifies
<1>1. ASSUME Senders = {"full"} PROVE Inv => CompleteVerifies
  <2> SUFFICES ASSUME Inv, Covered, DOMAIN received = DOMAIN source PROVE Verify(g, received)
    BY DEF CompleteVerifies
  <2>1. DOMAIN received = Leaf /\ g \in [Leaf -> SUBSET Leaf]
    BY <1>1, ShapesAssumption DEF Inv, SenderInv
  <2>2. ASSUME NEW l \in Leaf PROVE received[l].intact /\ received[l].links = g[l]
    <3>1. received[l].links = g[l] /\ IsCopy(l, received[l])
      BY <1>1, <2>1, <2>2 DEF Inv, ReceiverInv, ReceiverCopy, WholeCopy
    <3>2. PICK ls, ps : received[l] = [links |-> ls, proofs |-> ps, intact |-> TRUE]
      BY <3>1 DEF IsCopy
    <3> QED
      BY <3>1, <3>2
  <2>3. ~IsPartial(received) /\ Root \in DOMAIN received
    BY <2>1, LeafAssumption, FS_CardinalityType DEF IsPartial
  <2>4. VerifyFullDag(g, received)
    <3>1. \A l \in Leaf : VerifyLeaf(received[l]) /\ received[l].links \subseteq Leaf
                              /\ VerifyChildren(g, l, received[l])
      BY <2>1, <2>2 DEF VerifyLeaf, VerifyChildren
    <3> QED
      BY <2>1, <2>3, <3>1 DEF VerifyFullDag
  <2> QED
    BY <2>3, <2>4 DEF Verify
<1>2. ASSUME SoundWires, "full" \notin Senders PROVE Inv => CompleteVerifies
  <2> SUFFICES ASSUME Inv, Covered, DOMAIN received = DOMAIN source, Verify(g, source)
               PROVE  Verify(g, received)
    BY DEF CompleteVerifies
  <2>1. ParentsFirst
    BY EntryFacts DEF Inv, WalkInv, GoodDag, ParentsFirst
  <2> QED
    BY <1>2, <2>1, WiresAreSound, PartialVerifies
<1>3. Inv => CompleteVerifies
  BY <1>1, <1>2
<1> QED
  BY <1>3, SpecInv, PTL

(* NothingLost, for the senders of partial DAGs: although a packet's copy    *)
(* replaces the receiver's, no proof goes, since every copy brings its own,  *)
(* while damage is only to what a hash covers.                               *)
THEOREM NothingIsLost ==
    ASSUME "full" \notin Senders
    PROVE  Spec => NothingLost
<1> DEFINE Kept == \A p \in DOMAIN received :
                       /\ p \in DOMAIN received'
                       /\ VerifyLeaf(received'[p])
                       /\ DOMAIN received[p].proofs \subseteq DOMAIN received'[p].proofs
<1>1. ASSUME Inv, Next, Covered PROVE Kept
  <2>1. ASSUME NEW p, NEW copy, IsCopy(p, copy) PROVE VerifyLeaf(copy)
    <3>1. PICK ls, ps : copy = [links |-> ls, proofs |-> ps, intact |-> TRUE]
      BY <2>1 DEF IsCopy
    <3> QED
      BY <3>1 DEF VerifyLeaf
  <2>2. CASE Prepare
    <3>1. received' = received
      BY <2>2 DEF Prepare
    <3> QED
      BY <2>1, <3>1, <1>1 DEF Inv, ReceiverInv, ReceiverCopy
  <2>3. CASE Deliver
    <3>1. PICK i \in DOMAIN sequence :
               \E packet \in OnTheWire(Packet(sequence[i]), damage) : Receive(i, packet)
      BY <2>3 DEF Deliver
    <3>2. PICK packet \in OnTheWire(Packet(sequence[i]), damage) : Receive(i, packet)
      BY <3>1
    <3>3. VerifyTransmissionPacket(packet) /\ received' = ApplyTransmissionPacket(packet)
      BY <3>2 DEF Receive
    <3>4. /\ DOMAIN received' = DOMAIN received \cup {packet.leaf}
          /\ \A p \in DOMAIN received' : ReceiverCopy(p, received'[p])
          /\ \A p \in DOMAIN received :
                DOMAIN received[p].proofs \subseteq DOMAIN received'[p].proofs
      BY <1>1, <3>3, ApplyKeepsCopies
    <3>5. \A p \in DOMAIN received' : IsCopy(p, received'[p])
      BY <3>4 DEF ReceiverCopy
    <3>6. \A p \in DOMAIN received' : VerifyLeaf(received'[p])
      BY <3>5, <2>1
    <3> QED
      BY <3>4, <3>6
  <2>4. CASE Restart
    <3>1. received' = Reloaded(g, received)
      BY <2>4 DEF Restart
    <3>2. \A p \in DOMAIN received : p \in DOMAIN received' /\ received'[p] = received[p]
      BY <1>1, <3>1, RestartKeepsCopies
    <3>3. \A p \in DOMAIN received : VerifyLeaf(received[p])
      BY <1>1, <2>1 DEF Inv, ReceiverInv, ReceiverCopy
    <3> QED
      BY <3>2, <3>3
  <2> QED
    BY <1>1, <2>2, <2>3, <2>4 DEF Next
<1> HIDE DEF Kept
<1>2. Inv /\ [Next]_vars => [Covered => Kept]_vars
  BY <1>1
<1>3. Spec => [][Covered => Kept]_vars
  BY <1>2, SpecInv, PTL DEF Spec
<1> QED
  BY <1>3 DEF NothingLost, Kept

(* VerifiesThroughout: the receiver of a partial DAG can verify whenever it  *)
(* has the parents of what it has, whatever came twice, late or damaged as   *)
(* far as hashes go and whenever it was restarted.                           *)
THEOREM PartialsVerifyThroughout ==
    ASSUME SoundWires, "full" \notin Senders
    PROVE  Spec => []VerifiesThroughout
<1>1. Inv => VerifiesThroughout
  BY WiresAreSound, PartialVerifies DEF VerifiesThroughout
<1> QED
  BY <1>1, SpecInv, PTL
=============================================================================
