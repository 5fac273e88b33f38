----------------------------- MODULE DagUpdate -----------------------------
(***************************************************************************)
(* Updating a DAG from the leaves of a newer version: DiffFromNewLeaves    *)
(* and ApplyToDAG of src/diff/diff.go, by a receiver that collects leaves  *)
(* as they come, of one update or several, and may be restarted.           *)
(*                                                                         *)
(* Leaf are the leaves of all versions together; a version is named by its *)
(* root, and versions share what is below.                                 *)
(***************************************************************************)
EXTENDS Serialization

CONSTANTS Roots,   \* the root leaf of every version
          Shapes   \* what the leaves may link to

ASSUME UpdateAssumption ==
    /\ Leaf \subseteq Nat \ {0} /\ IsFiniteSet(Leaf) /\ Roots \subseteq Leaf
    /\ \A s \in Shapes : /\ s \in [Leaf -> SUBSET Leaf]
                         /\ \A l \in Leaf : s[l] \cap Roots = {}

VARIABLES g,        \* the links the leaves were built with
          root,     \* Root and
          leafs,    \*   Leafs of the receiver's DAG
          arrived   \* the new leaves it has collected, a function like leafs

vars == <<g, root, leafs, arrived>>

Contents(v) == Reach(g, {v})
LeafCount(l) == IF l \in Roots THEN Cardinality(Contents(l)) ELSE 0

-----------------------------------------------------------------------------
(* The diff of a DAG and new leaves, both functions from leaves to copies *)

\* Added: the leaves that are new.
AddedLeaves(old, new) == [l \in DOMAIN new \ DOMAIN old |-> new[l]]

LinksIn(d) == [l \in Leaf |-> IF l \in DOMAIN d THEN d[l].links ELSE {}]

\* The root with the highest LeafCount, of several the lowest hash.
NewRoots(new) ==
    LET counted == {l \in DOMAIN new : LeafCount(l) > 0}
        largest == {l \in counted : \A k \in counted : LeafCount(k) <= LeafCount(l)}
    IN  {l \in largest : \A k \in largest : l <= k}

\* Mutant: what is reached through leaves that did not change is left out.
RemovedWithoutOld(old, new) == DOMAIN old \ Reach(LinksIn(new), NewRoots(new))

\* Removed: the old leaves that cannot be reached from the new root; without
\* one, all of them.
RemovedLeaves(old, new) == DOMAIN old \ Reach(LinksIn(Merge(new, old)), NewRoots(new))

\* DiffFromNewLeaves.
DiffFromNewLeaves(old, new) ==
    [added |-> AddedLeaves(old, new), removed |-> RemovedLeaves(old, new)]

-----------------------------------------------------------------------------
(* ApplyToDAG *)

Referenced(pool) == UNION {pool[l].links : l \in DOMAIN pool}

\* Mutant: any unreferenced leaf will do.
UnreferencedLeaves(pool, added) == DOMAIN added \ Referenced(pool)

\* An added leaf that no leaf links to and that has a LeafCount: one of them,
\* in the order of a map.
RootCandidates(pool, added) ==
    {l \in DOMAIN added \ Referenced(pool) : LeafCount(l) > 0}

Below(pool, r) == Reach(LinksIn(pool), {r})

\* Mutant: a missing leaf is passed over.
PassOver(pool, r) == TRUE

\* The traversal from the new root ends in an error at a leaf that is missing.
TraverseSucceeds(pool, r) == Below(pool, r) \subseteq DOMAIN pool

\* The DAGs ApplyToDAG may return; none if it returns an error.
ApplyToDAG(diff, oldRoot, old) ==
    LET pool == Merge(diff.added, old)
    IN  IF DOMAIN diff.added = {} THEN {[root |-> oldRoot, leafs |-> old]}
        ELSE {[root |-> r, leafs |-> [l \in DOMAIN pool \cap Below(pool, r) |-> pool[l]]] :
                  r \in {l \in RootCandidates(pool, diff.added) : TraverseSucceeds(pool, l)}}

-----------------------------------------------------------------------------
(* The receiver *)

Init == /\ g \in Shapes
        /\ root \in Roots
        /\ leafs = [l \in Contents(root) |-> Genuine(g, l)]
        /\ arrived = NoProofs

\* A leaf of a partial DAG comes, with whatever proofs it has there.
ReceiveLeaf(l, proofs) ==
    /\ arrived' = Put(arrived, l, [Genuine(g, l) EXCEPT !.proofs = proofs])
    /\ UNCHANGED <<g, root, leafs>>

\* The receiver starts a new collection.
Discard == arrived' = NoProofs /\ UNCHANGED <<g, root, leafs>>

\* DiffFromNewLeaves, and ApplyToDAG of the result.
Update ==
    /\ \E d \in ApplyToDAG(DiffFromNewLeaves(leafs, arrived), root, leafs) :
          root' = d.root /\ leafs' = d.leafs
    /\ UNCHANGED <<g, arrived>>

\* The receiver saves its DAG, ends, and reads it again.
Restart == /\ leafs' = Reloaded(g, leafs)
           /\ arrived' = NoProofs
           /\ UNCHANGED <<g, root>>

Next == \/ \E l \in Leaf, children \in SUBSET Leaf :
              ReceiveLeaf(l, ProofsFor(g, l, g[l] \cap children))
        \/ Discard \/ Update \/ Restart

Spec == Init /\ [][Next]_vars

-----------------------------------------------------------------------------
(* Properties *)

\* Type invariant.  The receiver's leaves are genuine and of this version.
TypeOK == /\ root \in Roots
          /\ DOMAIN leafs \subseteq Leaf /\ DOMAIN arrived \subseteq Leaf
          /\ \A d \in {leafs, arrived} : \A l \in DOMAIN d :
                VerifyLeaf(d[l]) /\ d[l].links = g[l]

Register == INSTANCE VersionRegister
                WITH Item <- Leaf, Version <- Roots,
                     contents <- [v \in Roots |-> Contents(v)], version <- root,
                     held <- DOMAIN leafs, arrived <- DOMAIN arrived

\* An update is all or nothing: the leaves of one update that came only in
\* part, or of several that came together, lead to a complete version or leave
\* the DAG as it was; no leaf of the old version stays behind.
Atomic == Register!Spec
=============================================================================
