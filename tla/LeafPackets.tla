----------------------------- MODULE LeafPackets -----------------------------
(***************************************************************************)
(* The packets GetLeafSequence and getPartialLeafSequence of               *)
(* src/dag/transmission.go make of the sequence of leaves, one for each,   *)
(* and what the wire can make of them.                                     *)
(***************************************************************************)
EXTENDS Wire

\* Mutant: the proof of another parent, the one buildParentIndex knows.
PacketProofsOfIndexedParent(p, c) ==
    IF p = NoParent THEN NoProofs
    ELSE ProofsFor(g, CHOOSE q \in Leaf : IsIndexedParent(g, q, c), {c})

\* A full DAG's proofs are built against the parent the packet declares; a
\* partial DAG has them already, in that parent.
PacketProofs(p, c) ==
    IF p = NoParent THEN NoProofs
    ELSE IF IsPartial(source)
         THEN [x \in {c} \cap DOMAIN source[p].proofs |-> source[p].proofs[x]]
         ELSE ProofsFor(g, p, {c})

Packet(e) == [leaf |-> e.leaf, parent |-> e.parent, copy |-> source[e.leaf],
              proofs |-> PacketProofs(e.parent, e.leaf)]

\* What the wire can make of a packet, by the kind of damage.  (Another parent
\* of the root's packet is noticed: VerifyLeaf hashes fewer fields of a root.)
LeafDamaged(packet) == {[packet EXCEPT !.copy = Garbled(@)]}
ProofDamaged(packet) == {[packet EXCEPT !.proofs = Broken(@, DOMAIN @)]}
UnhashedDamaged(packet) ==
    {[packet EXCEPT !.copy = copy] : copy \in Relinked(packet.copy)} \cup
    {[packet EXCEPT !.copy.proofs = Broken(@, S)] : S \in SUBSET DOMAIN packet.copy.proofs} \cup
    {[packet EXCEPT !.parent = IF @ = NoParent THEN @ ELSE Unknown]}

OnTheWire(packet, damage) ==
    {packet} \cup (IF "leaf" \in damage THEN LeafDamaged(packet) ELSE {})
             \cup (IF "proof" \in damage THEN ProofDamaged(packet) ELSE {})
             \cup (IF "unhashed" \in damage THEN UnhashedDamaged(packet) ELSE {})
=============================================================================
