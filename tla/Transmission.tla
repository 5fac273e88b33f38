---------------------------- MODULE Transmission ----------------------------
(***************************************************************************)
(* Sending a DAG leaf by leaf: GetLeafSequence on the sender's side and    *)
(* ApplyAndVerifyTransmissionPacket on the receiver's, both of             *)
(* src/dag/transmission.go.  The wire between them is the caller's: it may *)
(* lose, reorder, repeat or damage packets, as the constants say.  The     *)
(* receiver may be restarted from what it has saved between two packets.   *)
(***************************************************************************)
EXTENDS LeafPackets, Serialization

CONSTANTS Damages,     \* values of damage
          Ordered,     \* packets arrive in sequence order
          Redelivery   \* packets that were accepted may arrive again

ASSUME WireAssumption ==
    Damages \subseteq SUBSET DamageKinds /\ {Ordered, Redelivery} \subseteq BOOLEAN

VARIABLES damage,    \* the kinds of damage this wire does
          received   \* the receiver's Dag

vars == <<sent, damage, received>>

Init == /\ SenderInit
        /\ damage \in Damages
        /\ received = [l \in {} |-> Genuine(g, l)]

-----------------------------------------------------------------------------
(* The receiver *)

\* Mutant: the leaf is not hashed again.
VerifyProofAlone(packet) ==
    (packet.parent # NoParent /\ packet.parent \in DOMAIN received
     /\ Cardinality(received[packet.parent].links) > 1) =>
        /\ packet.leaf \in DOMAIN packet.proofs
        /\ VerifyBranch(g, packet.parent, packet.proofs[packet.leaf])

\* A leaf is verified by itself, and against its parent if that is there.  A
\* parent that is not intact was read with a Merkle root made of other links.
VerifyTransmissionPacket(packet) ==
    /\ VerifyLeaf(packet.copy)
    /\ (/\ packet.parent # NoParent /\ packet.parent \in DOMAIN received
        /\ Cardinality(received[packet.parent].links) > 1) =>
            /\ packet.leaf \in DOMAIN packet.proofs
            /\ received[packet.parent].intact
            /\ VerifyBranch(g, packet.parent, packet.proofs[packet.leaf])

\* The parent's copy with the packet's link and proof.
Attach(copy, packet) == [links  |-> copy.links \cup {packet.leaf},
                         proofs |-> Merge(packet.proofs, copy.proofs),
                         intact |-> copy.intact]

\* Mutants: the proof goes to a parent found by scanning for the link; the link
\* goes to the root; a copy that is there is kept.
ApplyToScannedParent(packet) ==
    LET leafs == Put(received, packet.leaf, packet.copy)
    IN  [p \in DOMAIN leafs |->
            IF packet.parent # NoParent /\ IsLowest(p, Parents(leafs, packet.leaf))
            THEN [leafs[p] EXCEPT !.proofs = Merge(packet.proofs, @)] ELSE leafs[p]]
ApplyLinkToRoot(packet) ==
    LET leafs == Put(received, packet.leaf, packet.copy)
    IN  IF Root \in DOMAIN leafs
        THEN [leafs EXCEPT ![Root].links = @ \cup {packet.leaf}] ELSE leafs
ApplyToKeptCopy(packet) ==
    LET leafs == IF packet.leaf \in DOMAIN received THEN received
                 ELSE Put(received, packet.leaf, packet.copy)
    IN  IF packet.parent # NoParent /\ packet.parent \in DOMAIN leafs
        THEN [leafs EXCEPT ![packet.parent] = Attach(@, packet)]
        ELSE leafs

\* The copy replaces one that is already there; the link and the proof go to
\* the declared parent, if it is there.
ApplyTransmissionPacket(packet) ==
    LET leafs == Put(received, packet.leaf, packet.copy)
    IN  IF packet.parent # NoParent /\ packet.parent \in DOMAIN leafs
        THEN [leafs EXCEPT ![packet.parent] = Attach(@, packet)]
        ELSE leafs

\* ApplyAndVerifyTransmissionPacket, of a packet that it accepts.  One that it
\* rejects changes nothing.
Receive(i, packet) ==
    /\ Done
    /\ Redelivery \/ packet.leaf \notin DOMAIN received
    /\ Ordered => \A j \in 1..(i - 1) : sequence[j].leaf \in DOMAIN received
    /\ VerifyTransmissionPacket(packet)
    /\ received' = ApplyTransmissionPacket(packet)
    /\ UNCHANGED <<sent, damage>>

Deliver == \E i \in DOMAIN sequence :
              \E packet \in OnTheWire(Packet(sequence[i]), damage) : Receive(i, packet)

Prepare == ExtendSequence /\ UNCHANGED <<damage, received>>

\* The receiver is restarted: its Dag is written with ToCBOR and read again.
Restart == received' = Reloaded(g, received) /\ UNCHANGED <<sent, damage>>

Next == Prepare \/ Deliver \/ Restart

Spec == Init /\ [][Next]_vars

\* What the sender holds has come, and verifies if it did there.
Complete == DOMAIN received = DOMAIN source /\ (Verify(g, received) \/ ~Verify(g, source))

\* The sender's loop runs to its end, and the caller sends the leaves again,
\* undamaged, as long as some are missing or what came does not verify.
Redelivered(l) ==
    \E i \in DOMAIN sequence :
        sequence[i].leaf = l /\ Receive(i, Packet(sequence[i])) /\ ~Complete

FairSpec == /\ Spec
            /\ WF_vars(Prepare)
            /\ \A l \in Leaf : WF_vars(Redelivered(l))

-----------------------------------------------------------------------------
(* Properties *)

\* No damage is done to what no hash covers.
Covered == "unhashed" \notin damage

\* Type invariant.  The sender's entries name leaves it holds, below parents
\* that link them; the receiver holds only such leaves, with links of theirs or
\* ones that were damaged.
TypeOK ==
    /\ g \in Shapes
    /\ expanded \in 0..Len(sequence)
    /\ \A i \in DOMAIN sequence :
          /\ sequence[i].leaf \in DOMAIN source
          /\ sequence[i].parent = NoParent \/ sequence[i].leaf \in g[sequence[i].parent]
    /\ DOMAIN received \subseteq Sequenced
    /\ \A l \in DOMAIN received : received[l].links \subseteq g[l] \cup {Unknown}

\* A proof the receiver stores is the proof of that child under that parent,
\* whichever of several parents the child was sent for.
ProofsGenuine ==
    Covered => \A p \in DOMAIN received : \A c \in DOMAIN received[p].proofs :
                   c \in g[p] /\ received[p].proofs[c] = Branch(g, p, c)

\* An undamaged packet is accepted whatever arrived before it, also when its
\* leaf has several parents and the sender's index knows another one.
HonestAccepted ==
    (Covered /\ Done) => \A i \in DOMAIN sequence : VerifyTransmissionPacket(Packet(sequence[i]))

\* Once every leaf has arrived, in whatever order and however often, the
\* receiver's Dag passes Verify if the sender's did.  (A leaf that arrives with
\* other Links is accepted and kept, and Verify of the whole rejects them.)
CompleteVerifies ==
    (Covered /\ Done /\ DOMAIN received = DOMAIN source /\ Verify(g, source)) => Verify(g, received)

\* Every leaf the receiver holds has arrived after the parent it was sent under.
ParentsFirst ==
    Root \in DOMAIN received /\
    \A i \in DOMAIN sequence : sequence[i].leaf \in DOMAIN received =>
        sequence[i].parent \in DOMAIN received \cup {NoParent}

\* The receiver of a partial DAG can verify whenever it has the parents of what
\* it has, as TestPartialDagTransmission does after every packet: also when a
\* parent came after its child, or again, and when it was restarted.  A partial
\* of only an unpruned root is not covered: Verify rejects it at the sender
\* already.
VerifiesThroughout ==
    (Covered /\ DOMAIN source # {Root} /\ ParentsFirst) => Verify(g, received)

\* No packet of a partial DAG takes a leaf or a proof away from the receiver,
\* although ApplyTransmissionPacket replaces the copy it has.
NothingLost ==
    [][Covered => \A p \in DOMAIN received :
          /\ p \in DOMAIN received'
          /\ VerifyLeaf(received'[p])
          /\ DOMAIN received[p].proofs \subseteq DOMAIN received'[p].proofs]_vars

SoundDelivery == \E i \in DOMAIN sequence : Receive(i, Packet(sequence[i]))

\* In the end the receiver holds every leaf the sender holds, and the result
\* stays and verifies: while damage goes on that a hash covers, and of any kind
\* once it has ended.  Damaged Links that were accepted, and Merkle roots made
\* of them at a restart, go when their leaf is sent again.
Arrives ==
    <>[][Covered \/ Prepare \/ Restart \/ SoundDelivery]_vars => <>[]Complete
=============================================================================
