----------------------------- MODULE LeafBatches -----------------------------
(***************************************************************************)
(* The batches GetBatchedLeafSequence and finalizeBatch of                 *)
(* src/dag/transmission.go make of the sequence of leaves, and what the    *)
(* wire can make of them.  Proofs travel inside the parents' copies.       *)
(***************************************************************************)
EXTENDS Wire

CONSTANT BatchModes   \* values of BatchSize > 0

ASSUME BatchAssumption == BatchModes \subseteq BOOLEAN

VARIABLES batching,  \* whether leaves are put together at all
          starts     \* the positions of the sequence where a batch begins

batches == <<batching, starts>>

BatchInit == SenderInit /\ batching \in BatchModes /\ starts = {1}

\* A leaf that would not fit begins a new batch.  Leaves may have any size, so
\* every way to cut the sequence is possible.
AppendToBatch ==
    /\ AppendChild
    /\ starts' \in {starts \cup {Len(sequence')}} \cup (IF batching THEN {starts} ELSE {})
    /\ UNCHANGED batching

NextParentInBatch == NextParent /\ UNCHANGED batches

ExtendBatches == AppendToBatch \/ NextParentInBatch

\* The entries of the batch that begins at i.
Entries(i) == {sequence[j] : j \in {k \in DOMAIN sequence :
                                      i <= k /\ starts \cap (i + 1)..k = {}}}

ChildrenIn(batch, p) == {e.leaf : e \in {f \in batch : f.parent = p}}

\* Mutants: a parent's children are counted by the links it has left; proofs
\* are made only for the children in the batch.
FinalProofsByLinks(batch, p) ==
    LET total == Cardinality(source[p].links)
    IN  IF total <= 1 THEN source[p].proofs
        ELSE IF Cardinality(ChildrenIn(batch, p)) = total THEN NoProofs
        ELSE IF IsPartial(source) THEN source[p].proofs
        ELSE Merge(ProofsFor(g, p, source[p].links), source[p].proofs)
FinalProofsOfBatch(batch, p) ==
    IF CurrentLinkCount(g, p) <= 1 THEN source[p].proofs
    ELSE IF Cardinality(ChildrenIn(batch, p)) = CurrentLinkCount(g, p) THEN NoProofs
    ELSE IF IsPartial(source) THEN source[p].proofs
    ELSE ProofsFor(g, p, ChildrenIn(batch, p))

\* finalizeBatch.  A parent sent with all its children needs no proofs, any
\* other has those of all its children, in this batch or a later one.
FinalProofs(batch, p) ==
    IF CurrentLinkCount(g, p) <= 1 THEN source[p].proofs
    ELSE IF Cardinality(ChildrenIn(batch, p)) = CurrentLinkCount(g, p) THEN NoProofs
    ELSE IF IsPartial(source) THEN source[p].proofs
    ELSE Merge(ProofsFor(g, p, source[p].links), source[p].proofs)

FinalCopy(batch, p) ==
    [links  |-> source[p].links,
     proofs |-> IF batching THEN FinalProofs(batch, p) ELSE source[p].proofs,
     intact |-> source[p].intact]

\* A batch: its Leaves, and the parent each has in its Relationships.
Packed(batch) ==
    LET leaves == {e.leaf : e \in batch}
    IN  [leaves |-> [l \in leaves |-> FinalCopy(batch, l)],
         parent |-> [l \in leaves |-> (CHOOSE e \in batch : e.leaf = l).parent]]

Packet(i) == Packed(Entries(i))

-----------------------------------------------------------------------------
(* The wire *)

\* What the wire can make of a batch, by the kind of damage.  Whatever changes
\* in its Relationships is noticed: a leaf without one, one below a leaf that
\* nobody has, and one below none are rejected, and the batch with them.
LeafDamaged(packet) ==
    {[packet EXCEPT !.leaves[l] = Garbled(@)] : l \in DOMAIN packet.leaves}
ProofDamaged(packet) ==
    UNION {{[packet EXCEPT !.leaves[l].proofs = Broken(@, {c})] : c \in DOMAIN packet.leaves[l].proofs} :
               l \in DOMAIN packet.leaves}
UnhashedDamaged(packet) ==
    UNION {{[packet EXCEPT !.leaves[l] = copy] : copy \in Relinked(packet.leaves[l])} :
               l \in DOMAIN packet.leaves}

OnTheWire(packet, damage) ==
    {packet} \cup (IF "leaf" \in damage THEN LeafDamaged(packet) ELSE {})
             \cup (IF "proof" \in damage THEN ProofDamaged(packet) ELSE {})
             \cup (IF "unhashed" \in damage THEN UnhashedDamaged(packet) ELSE {})
=============================================================================
