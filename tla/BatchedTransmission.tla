------------------------ MODULE BatchedTransmission ------------------------
(***************************************************************************)
(* Sending a DAG in batches of leaves: GetBatchedLeafSequence and          *)
(* finalizeBatch on the sender's side, and on the receiver's               *)
(* ApplyAndVerifyBatchedTransmissionPacket, all of                         *)
(* src/dag/transmission.go.  Proofs travel inside the parents' copies.     *)
(***************************************************************************)
EXTENDS LeafBatches

CONSTANTS Holdings,    \* what the receiver holds before: "nothing", "partial", "pruned"
          Damages,     \* values of damage
          Ordered,     \* batches arrive in sequence order
          Redelivery   \* batches that were accepted may arrive again

ASSUME HoldingsAssumption == Holdings \subseteq {"nothing", "partial", "pruned"}
ASSUME WireAssumption ==
    Damages \subseteq SUBSET DamageKinds /\ {Ordered, Redelivery} \subseteq BOOLEAN

VARIABLES damage,    \* the kinds of damage this wire does
          accepted,  \* the batches, by where they begin, that were accepted
          received   \* the receiver's Dag

vars == <<sent, batches, damage, accepted, received>>

\* The receiver begins with an empty Dag, or with a partial of the same DAG
\* that it has verified.
Held(shape) ==
    LET verified(k) == {d \in Kinds(shape)[k] : Verify(shape, d)}
    IN  [nothing |-> {[l \in {} |-> Genuine(shape, l)]},
         partial |-> verified("partial"), pruned |-> verified("pruned")]

Init == /\ BatchInit
        /\ damage \in Damages
        /\ accepted = {}
        /\ \E k \in Holdings : received \in Held(g)[k]

-----------------------------------------------------------------------------
(* The receiver *)

\* A leaf's parent is looked for in the batch, then among what was received.
ParentCopy(packet, p) ==
    IF p \in DOMAIN packet.leaves THEN packet.leaves[p] ELSE received[p]

ParentKnown(packet, p) == p \in DOMAIN packet.leaves \cup DOMAIN received

\* Membership of c: by the parent's whole set of children if the parent has no
\* proofs, else by its proof.  A parent of this batch may lack the proof.
VerifyMembership(packet, p, c) ==
    LET copy == ParentCopy(packet, p)
    IN  IF DOMAIN copy.proofs = {} THEN VerifyChildren(g, p, copy)
        ELSE IF c \in DOMAIN copy.proofs THEN VerifyBranch(g, p, copy.proofs[c])
        ELSE p \in DOMAIN packet.leaves

\* Mutants: a leaf whose parent is nowhere is let through; leaves are not
\* hashed again; parents are not looked for among what was received.
VerifyWithoutParent(packet) ==
    \A c \in DOMAIN packet.leaves :
        /\ VerifyLeaf(packet.leaves[c])
        /\ ParentKnown(packet, packet.parent[c]) =>
              (Cardinality(ParentCopy(packet, packet.parent[c]).links) > 1 =>
                  VerifyMembership(packet, packet.parent[c], c))
VerifyMembershipAlone(packet) ==
    \A c \in DOMAIN packet.leaves : packet.parent[c] # NoParent =>
        /\ ParentKnown(packet, packet.parent[c])
        /\ Cardinality(ParentCopy(packet, packet.parent[c]).links) > 1 =>
              VerifyMembership(packet, packet.parent[c], c)
VerifyWithinBatch(packet) ==
    \A c \in DOMAIN packet.leaves :
        /\ VerifyLeaf(packet.leaves[c])
        /\ packet.parent[c] # NoParent =>
              /\ packet.parent[c] \in DOMAIN packet.leaves
              /\ Cardinality(ParentCopy(packet, packet.parent[c]).links) > 1 =>
                    VerifyMembership(packet, packet.parent[c], c)

VerifyBatchedTransmissionPacket(packet) ==
    \A c \in DOMAIN packet.leaves :
        /\ VerifyLeaf(packet.leaves[c])
        /\ packet.parent[c] # NoParent =>
              /\ ParentKnown(packet, packet.parent[c])
              /\ Cardinality(ParentCopy(packet, packet.parent[c]).links) > 1 =>
                    VerifyMembership(packet, packet.parent[c], c)

\* Mutant: a copy that is there is replaced.
ReplaceCopy(copy, new) == new

\* A copy that is there stays, with the links and proofs of both.
MergeCopy(copy, new) == [links  |-> copy.links \cup new.links,
                         proofs |-> Merge(new.proofs, copy.proofs),
                         intact |-> copy.intact]

Adopt(packet, l) ==
    IF l \notin DOMAIN packet.leaves THEN received[l]
    ELSE IF l \notin DOMAIN received THEN packet.leaves[l]
    ELSE MergeCopy(received[l], packet.leaves[l])

\* A parent precedes its children in the batch, so it is there to be linked.
ApplyBatchedTransmissionPacket(packet) ==
    [p \in DOMAIN received \cup DOMAIN packet.leaves |->
        LET copy == Adopt(packet, p)
        IN  [links  |-> copy.links \cup {c \in DOMAIN packet.parent : packet.parent[c] = p},
             proofs |-> copy.proofs,
             intact |-> copy.intact]]

\* ApplyAndVerifyBatchedTransmissionPacket, of a batch that it accepts.  One
\* that it rejects changes nothing.
Receive(i, packet) ==
    /\ Done
    /\ Redelivery \/ i \notin accepted
    /\ Ordered => \A j \in starts : j < i => j \in accepted
    /\ VerifyBatchedTransmissionPacket(packet)
    /\ received' = ApplyBatchedTransmissionPacket(packet)
    /\ accepted' = accepted \cup {i}
    /\ UNCHANGED <<sent, batches, damage>>

Deliver == \E i \in starts : \E packet \in OnTheWire(Packet(i), damage) : Receive(i, packet)

Prepare == ExtendBatches /\ UNCHANGED <<damage, accepted, received>>

Next == Prepare \/ Deliver

Spec == Init /\ [][Next]_vars

\* The sender's loop runs to its end, and as long as a batch was not accepted
\* the caller sends them all again.
Redelivered(i) == i \in starts /\ accepted # starts /\ Receive(i, Packet(i))

FairSpec == /\ Spec
            /\ WF_vars(Prepare)
            /\ \A i \in 1..Cardinality(Leaf) : WF_vars(Redelivered(i))

-----------------------------------------------------------------------------
(* Properties *)

\* No damage is done to what no hash covers.
Covered == "unhashed" \notin damage

\* Type invariant.  Batches begin inside the sequence; the receiver holds
\* leaves of the DAG, with links of theirs or ones that were damaged, and at
\* least those it accepted.
TypeOK ==
    /\ g \in Shapes
    /\ expanded \in 0..Len(sequence)
    /\ 1 \in starts /\ starts \subseteq DOMAIN sequence /\ accepted \subseteq starts
    /\ DOMAIN received \subseteq Leaf
    /\ \A i \in accepted : DOMAIN Packet(i).leaves \subseteq DOMAIN received
    /\ \A l \in DOMAIN received : received[l].links \subseteq g[l] \cup {Unknown}

\* The leaves that came in accepted batches.
Arrived == UNION {DOMAIN Packet(i).leaves : i \in accepted}

\* An undamaged batch is accepted, wherever the sequence was cut and whatever
\* the receiver held, once the parents it does not bring have come, in batches
\* before it or after it.
HonestAccepted ==
    Done => \A i \in starts :
        LET packet == Packet(i)
            brought == DOMAIN packet.leaves \cup Arrived
        IN  (\A c \in DOMAIN packet.leaves : packet.parent[c] \in brought \cup {NoParent})
            => VerifyBatchedTransmissionPacket(packet)

\* Verify looks for a leaf's proof in its lowest parent.  What arrived hangs
\* there from what arrived too, not from a copy that was held before.
HangsTogether ==
    \A c \in Arrived \ {Root}, p \in DOMAIN received :
        IsLowest(p, Parents(received, c)) => p \in Arrived

\* The receiver's DAG verifies after every batch, although a batch may bring
\* some of a parent's children, and none of the proofs that came before.  Single
\* leaves without their packet's proof do so when the last has come.  A partial
\* that was held before may link a leaf it has no proof of; if that leaf comes
\* under another parent, the DAG verifies again with the held parent's batch.
VerifiesThroughout ==
    /\ accepted # {} /\ Verify(g, source)
    /\ (Done /\ accepted = starts) \/ (batching /\ HangsTogether)
    => Verify(g, received)

\* Once every batch has been accepted the receiver's DAG verifies, if the
\* sender's did.  (A leaf that arrives with other Links is accepted, and what
\* MergeCopy has taken over of them stays: then Verify fails from now on.)
CompleteVerifies ==
    (Covered /\ Done /\ accepted = starts /\ Verify(g, source)) => Verify(g, received)

\* A batch that brings a leaf the receiver holds takes no link and no proof
\* from it: partials of one DAG can be merged.
NothingLost ==
    [][\A p \in DOMAIN received :
          /\ p \in DOMAIN received'
          /\ VerifyLeaf(received'[p])
          /\ received[p].links \subseteq received'[p].links
          /\ DOMAIN received[p].proofs \subseteq DOMAIN received'[p].proofs]_vars

Sync == INSTANCE LeafSync WITH target <- DOMAIN source, held <- DOMAIN received

\* To a receiver that held nothing, batches that arrive in any order, repeated
\* and damaged, implement LeafSync: what it holds hangs from the root.
Connected == Sync!Spec

SoundDelivery == \E i \in starts : Receive(i, Packet(i))

\* Once batches are damaged no longer the receiver comes to hold every leaf the
\* sender holds, also when a damaged proof, stored unread with its parent, has
\* the batches of the child rejected until the parent's comes again.  (While
\* damage goes on, batches of two parents can block each other's children for
\* ever, however often each is sent; and so can Links that were damaged once,
\* as VerifyChildrenAgainstMerkleRoot then fails for the rest of the parent's
\* children.)
Arrives ==
    (Covered /\ <>[][Prepare \/ SoundDelivery]_vars) => <>[](DOMAIN source \subseteq DOMAIN received)
=============================================================================
