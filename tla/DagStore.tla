------------------------------ MODULE DagStore ------------------------------
(***************************************************************************)
(* A DagStore of src/dag/store.go: leaves in a LeafStore, their content    *)
(* inside them or in a ContentStore.  It is filled from packets or from    *)
(* batches, verified without loading any content, labelled, and opened     *)
(* again.  Its methods are called one at a time; between two calls they    *)
(* make of the backing stores the second may fail, or the process stop.    *)
(***************************************************************************)
EXTENDS LeafSequence, SequencesExt

CONSTANTS Memory,      \* values of memory
          Separate,    \* values of separateContent
          BatchModes,  \* as in LeafBatches
          Damage       \* the kinds of damage, as in Wire: not to what no hash covers

ASSUME StoreAssumption == Memory \subseteq BOOLEAN /\ Separate \subseteq BOOLEAN
ASSUME DamageAssumption == Damage \subseteq {"leaf", "proof"}

VARIABLES memory,   \* both stores are the memory ones, which never fail, and
                    \* also store batches and count and list their leaves
          separateContent,  \* there is a ContentStore
          leafs,    \* the LeafStore: copies of leaves
          inlined,  \* those of them that are stored with their content
          contents, \* the ContentStore: the leaves it has the content of
          root,     \* the Root of the DagStore
          halved,   \* the leaves whose deletion was cut short (not in the code)
          batching, starts   \* the sender's batches

stored == <<leafs, inlined, contents>>
fixed == <<sent, memory, separateContent>>
vars == <<fixed, stored, root, halved, batching, starts>>

Packets == INSTANCE LeafPackets
Batches == INSTANCE LeafBatches

\* Files of one chunk and chunks have content.
HasContent(l) == g[l] = {}

\* NewEmptyDagStore.
Init == /\ Batches!BatchInit
        /\ memory \in Memory /\ separateContent \in Separate
        /\ leafs = [l \in {} |-> Genuine(g, l)]
        /\ inlined = {} /\ contents = {} /\ root = NoParent /\ halved = {}

Prepare == Batches!ExtendBatches /\ UNCHANGED <<memory, separateContent, stored, root, halved>>

-----------------------------------------------------------------------------
(* Storing.  A state st of the two stores is a record; an outcome is the     *)
(* state that is left and whether the method returned without an error.      *)

Contents(st, cs) == [leafs |-> st.leafs, inlined |-> st.inlined, contents |-> cs]
State == [leafs |-> leafs, inlined |-> inlined, contents |-> contents]
Outcome(st, ok) == [st |-> st, ok |-> ok]

\* The content of these leaves goes into the ContentStore.
Aside(leaves) == {l \in leaves : separateContent /\ HasContent(l)}

\* After StoreLeaf of each of these copies.
WithLeaves(st, copies) ==
    [leafs    |-> Merge(copies, st.leafs),
     inlined  |-> (st.inlined \ DOMAIN copies) \cup
                  {l \in DOMAIN copies : HasContent(l) /\ ~separateContent},
     contents |-> st.contents \cup Aside(DOMAIN copies)]

Only(l, copy) == [k \in {l} |-> copy]

\* Mutants: leaves without content have their content stored; the leaf is
\* stored before its content.
StoreContentAlways(st, l) == Contents(st, st.contents \cup {k \in {l} : separateContent})
StoreContentLast(st, l) == [leafs    |-> Put(st.leafs, l, Genuine(g, l)),
                            inlined  |-> st.inlined,
                            contents |-> st.contents]

\* The first of StoreLeaf's two calls.
StoreContent(st, l) == Contents(st, st.contents \cup Aside({l}))

\* StoreLeaf, a call of which reports an error, and may have done its work.
FailedLeaf(st, l, copy) ==
    IF memory THEN {} ELSE {st, StoreContent(st, l), WithLeaves(st, Only(l, copy))}

StoreLeaf(st, l, copy) ==
    {Outcome(WithLeaves(st, Only(l, copy)), TRUE)} \cup
    {Outcome(s, FALSE) : s \in FailedLeaf(st, l, copy)}

\* StoreLeaves of the memory store, which leaves the content where it is.
StoreLeaves(st, copies) ==
    [leafs    |-> Merge(copies, st.leafs),
     inlined  |-> st.inlined \cup {l \in DOMAIN copies : HasContent(l)},
     contents |-> st.contents]

\* The leaves of a batch, all in one call or one after the other, up to one that
\* fails: in the order of the batch, which is that of the sequence.
Position(l) == CHOOSE i \in DOMAIN sequence : sequence[i].leaf = l

\* Mutant: the batch is stored from its end.
After(copies, l) == [k \in {x \in DOMAIN copies : Position(x) > Position(l)} |-> copies[k]]

Before(copies, l) == [k \in {x \in DOMAIN copies : Position(x) < Position(l)} |-> copies[k]]

StoreBatch(st, copies) ==
    IF memory THEN {Outcome(StoreLeaves(st, copies), TRUE)}
    ELSE {Outcome(WithLeaves(st, copies), TRUE)} \cup
         {Outcome(s, FALSE) :
             s \in UNION {FailedLeaf(WithLeaves(st, Before(copies, l)), l, copies[l]) :
                             l \in DOMAIN copies}}

\* The method returns, having left st behind.
Leave(st) == /\ leafs' = st.leafs
             /\ inlined' = st.inlined
             /\ contents' = st.contents
             /\ UNCHANGED <<fixed, batching, starts>>

-----------------------------------------------------------------------------
(* Filling the store *)

\* A leaf is checked against the parent its packet declares, if that is stored.
VerifyPacket(packet) ==
    /\ VerifyLeaf(packet.copy)
    /\ packet.parent \in DOMAIN leafs =>
          /\ packet.leaf \in leafs[packet.parent].links
          /\ CurrentLinkCount(g, packet.parent) > 1 =>
                /\ packet.leaf \in DOMAIN packet.proofs
                /\ VerifyBranch(g, packet.parent, packet.proofs[packet.leaf])

\* Mutant: a root is taken only while there is none.
AddTransmissionPacketOnce(packet) ==
    /\ Done
    /\ VerifyPacket(packet)
    /\ packet.parent = NoParent => root = NoParent
    /\ \E o \in StoreLeaf(State, packet.leaf, packet.copy) :
          /\ Leave(o.st)
          /\ root' = IF o.ok /\ packet.parent = NoParent THEN Root ELSE root
          /\ halved' = IF o.ok THEN halved \ {packet.leaf} ELSE halved

\* Links and proofs of the parent that is stored stay as they are.  A packet
\* that is rejected changes nothing.
AddTransmissionPacket(packet) ==
    /\ Done
    /\ VerifyPacket(packet)
    /\ \E o \in StoreLeaf(State, packet.leaf, packet.copy) :
          /\ Leave(o.st)
          /\ root' = IF o.ok /\ packet.parent = NoParent THEN Root ELSE root
          /\ halved' = IF o.ok THEN halved \ {packet.leaf} ELSE halved

\* Proofs are not looked at, nor parents that come in the same batch.
VerifyBatch(packet) ==
    \A l \in DOMAIN packet.leaves :
        /\ VerifyLeaf(packet.leaves[l])
        /\ packet.parent[l] \in DOMAIN leafs => l \in leafs[packet.parent[l]].links

\* The root's leaf is the first of its batch, and is taken for the root only
\* while there is none; later it fails VerifyLeaf, which hashes fewer fields.
\* The Root is set as soon as this leaf was checked: before the others are, and
\* before any is stored.
AddBatchedTransmissionPacket(packet) ==
    LET first == Root \in DOMAIN packet.leaves
    IN  /\ Done
        /\ first => root = NoParent /\ VerifyLeaf(packet.leaves[Root])
        /\ root' = IF first THEN Root ELSE root
        /\ \E o \in IF VerifyBatch(packet) THEN StoreBatch(State, packet.leaves)
                    ELSE {Outcome(State, FALSE)} :
              /\ Leave(o.st)
              /\ halved' = IF o.ok THEN halved \ DOMAIN packet.leaves ELSE halved

DeliverPacket ==
    \E i \in DOMAIN sequence :
        \E packet \in Packets!OnTheWire(Packets!Packet(sequence[i]), Damage) : AddTransmissionPacket(packet)

DeliverBatch ==
    \E i \in starts :
        \E packet \in Batches!OnTheWire(Batches!Packet(i), Damage) : AddBatchedTransmissionPacket(packet)

-----------------------------------------------------------------------------
(* Other methods *)

\* DeleteLeaf: the content, then the leaf.
DeleteLeaf(l) ==
    LET second == Contents(State, contents \ {l})
        third  == [leafs    |-> [k \in DOMAIN leafs \ {l} |-> leafs[k]],
                   inlined  |-> inlined \ {l},
                   contents |-> contents \ {l}]
    IN  /\ \E st \in {third} \cup (IF memory THEN {} ELSE {State, second}) :
              /\ Leave(st)
              /\ halved' = IF st = second /\ st # State THEN halved \cup {l} ELSE halved
        /\ UNCHANGED root

\* The leaves in S by rank.  (SetToSortSeq, of which the prover knows nothing.)
InOrder(S, rank) ==
    CHOOSE s \in [1..Cardinality(S) -> S] : \A i, j \in DOMAIN s : i < j => rank[s[i]] < rank[s[j]]
ByHash == [l \in Leaf |-> l]

\* The leaves under the root in the order of the labels, the root first, as far
\* as the walk comes: IterateDag stops at a leaf that is missing.
Walked == [visited : Seq(Leaf), pending : Seq(Leaf)]
WalkOn(d, w) ==
    LET l == Head(w.pending)
    IN  IF l \in ToSet(w.visited) THEN [w EXCEPT !.pending = Tail(@)]
        ELSE [visited |-> Append(w.visited, l),
              pending |-> InOrder(d[l].links, ByHash) \o Tail(w.pending)]
Walk(d) ==
    LET visit[w \in Walked] ==
            IF w.pending = <<>> \/ Head(w.pending) \notin DOMAIN d THEN w.visited
            ELSE visit[WalkOn(d, w)]
    IN  visit[[visited |-> <<>>, pending |-> <<Root>>]]

\* Mutant: the walk goes on past a leaf that is missing.
LabelsPastMissing ==
    LET held  == [l \in DOMAIN leafs |-> [leafs[l] EXCEPT !.links = @ \cap DOMAIN leafs]]
        order == IF root = NoParent THEN <<>> ELSE Walk(held)
    IN  SubSeq(order, 2, Len(order))

\* What CalculateLabels makes of Labels: the leaf of label 1, of label 2, ...
\* The store and the Dag share the map, so that a walk that fails leaves the
\* labels it has given so far.
CalculateLabels ==
    LET order == IF root = NoParent THEN <<>> ELSE Walk(leafs)
    IN  SubSeq(order, 2, Len(order))

\* The process ends, and the store is opened again: NewEmptyDagStore with the
\* same backing stores, then SetRoot.
Restart ==
    /\ leafs' = IF memory THEN [l \in {} |-> Genuine(g, l)] ELSE leafs
    /\ inlined' = (IF memory THEN {} ELSE inlined)
    /\ contents' = (IF memory THEN {} ELSE contents)
    /\ root' \in {NoParent, Root}
    /\ UNCHANGED <<fixed, halved, batching, starts>>

-----------------------------------------------------------------------------
(* Verification *)

\* The leaves a memory store lists; other stores are searched from the root,
\* by ToDag and by VerifyStreaming.
Listed ==
    IF memory THEN DOMAIN leafs
    ELSE IF root = NoParent THEN {}
    ELSE {l \in DOMAIN leafs :
             l \in Reach([k \in Leaf |-> IF k \in DOMAIN leafs THEN leafs[k].links ELSE {}], {Root})}

ToDag == [l \in Listed |-> leafs[l]]

\* Mutant: a leaf counts as a child that is there if it is linked.
VerifyRootByLinks ==
    HasAllLinks(g, leafs, Root) => VerifyChildren(g, Root, leafs[Root])

\* The root's part of verifyWithProofsStreaming.
VerifyRootStreaming ==
    LET total   == CurrentLinkCount(g, Root)
        present == Cardinality(leafs[Root].links \cap DOMAIN leafs)
    IN  IF HasAllLinks(g, leafs, Root) /\ present = total
        THEN VerifyChildren(g, Root, leafs[Root])
        ELSE total <= 1 \/ present = total \/ DOMAIN leafs[Root].proofs # {}

VerifyPartialStreaming ==
    /\ VerifyLeaf(leafs[Root])
    /\ VerifyRootStreaming
    /\ \A c \in Listed \ {Root} :
          /\ VerifyLeaf(leafs[c])
          /\ Parents(ToDag, c) # {}
          /\ \A p \in Parents(ToDag, c) :
                IsLowest(p, Parents(ToDag, c)) => VerifyStep(g, leafs, p, c)

\* verifyFullDagStreaming goes down from the root, through leaves it has to find.
VerifyFullStreaming ==
    \A l \in Reach([k \in Leaf |-> IF k \in DOMAIN leafs THEN leafs[k].links ELSE {}], {Root}) :
        /\ l \in DOMAIN leafs
        /\ VerifyLeaf(leafs[l])
        /\ HasAllLinks(g, leafs, l) => VerifyChildren(g, l, leafs[l])

VerifyStreaming ==
    /\ root # NoParent /\ Root \in DOMAIN leafs
    /\ IF Cardinality(Listed) < Cardinality(Leaf) THEN VerifyPartialStreaming
       ELSE VerifyFullStreaming

-----------------------------------------------------------------------------

Next == \/ Prepare
        \/ DeliverPacket \/ DeliverBatch
        \/ \E l \in Leaf : DeleteLeaf(l)
        \/ Restart

Spec == Init /\ [][Next]_vars

\* The caller sends the packet of a leaf that is not stored again, until the
\* store has taken it.
Missing(l) == l \notin DOMAIN leafs \/ (l = Root /\ root = NoParent)
Resent(l) == /\ Missing(l)
             /\ \E i \in DOMAIN sequence :
                    sequence[i].leaf = l /\ AddTransmissionPacket(Packets!Packet(sequence[i]))
             /\ ~Missing(l)'

FairSpec == Spec /\ WF_vars(Prepare) /\ \A l \in Leaf : WF_vars(Resent(l))

-----------------------------------------------------------------------------
(* Properties *)

\* Type invariant.  What is stored are leaves the sender holds, with their
\* links; what is inlined or set aside is content of leaves that have some.
TypeOK ==
    /\ memory \in Memory /\ separateContent \in Separate
    /\ DOMAIN leafs \subseteq DOMAIN source
    /\ \A l \in DOMAIN leafs : leafs[l].links = source[l].links
    /\ inlined \subseteq DOMAIN leafs
    /\ \A l \in inlined \cup contents : HasContent(l)
    /\ ~separateContent => contents = {}
    /\ root \in {NoParent, Root}

\* The streaming verification, which counts and lists leaves in its own ways and
\* never loads the DAG, accepts a store when Verify of its DAG does, whatever
\* was stored, failed or deleted, in any order.  (But it rejects the partial of
\* only a pruned root, which has no proofs: store.go:1331 lacks the condition
\* that the root has all its links, which Verify has.)
StreamingAgrees ==
    (Root \in DOMAIN leafs /\ leafs[Root].links # {}) =>
        (VerifyStreaming <=> (root # NoParent /\ Verify(g, ToDag)))

\* A leaf that is stored, and not half deleted, has its content, whichever of
\* the calls failed or was the last before the process ended.
ContentAvailable ==
    \A l \in DOMAIN leafs \ halved : HasContent(l) => l \in inlined \cup contents

\* Whenever labels are calculated, each names the leaf that it names in the
\* complete DAG, also those that a walk gave before it met a missing leaf: they
\* can be used later.  (The links of a pruned partial number its own leaves.)
LabelsSound ==
    (\A l \in DOMAIN source : source[l].links = g[l]) =>
        IsPrefix(CalculateLabels, Tail(Walk(FullDag(g))))

\* What RetrieveLeaf returns with its content.
Retrievable == {l \in DOMAIN leafs : HasContent(l) => l \in inlined \cup contents}

\* The leaves that come in one call, in the order they are stored.
Calls == {[l \in {sequence[i].leaf} |-> i] : i \in DOMAIN sequence} \cup
         {[l \in {e.leaf : e \in Batches!Entries(i)} |-> Position(l)] : i \in starts}

Map == INSTANCE LeafMap WITH Item <- Leaf, volatile <- memory, calls <- Calls,
                             kept <- Retrievable

\* Two stores under one DagStore and calls that fail between them implement a
\* map: a leaf can be retrieved with its content or was not stored, storing it
\* again or beside others takes nothing away, a batch that fails has stored
\* its leaves up to some leaf, parents first, and opening the store again finds
\* what was there.
KeepsLeaves == Map!Spec

SoundDelivery == \E l \in Leaf : Resent(l)

\* When calls fail no more, packets complete the store, from whatever failed
\* batches, deletions and restarts have left: also from a Root that was set by
\* a batch that was not stored.  If its proofs are sound it then verifies.
Arrives ==
    <>[][Prepare \/ SoundDelivery]_vars =>
        <>[](/\ root = Root /\ DOMAIN leafs = DOMAIN source
             /\ (Verify(g, source) /\ ~IsPartial(source)) => VerifyStreaming)
=============================================================================
