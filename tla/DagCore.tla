------------------------------ MODULE DagCore ------------------------------
(***************************************************************************)
(* A DAG and its verification, as src/dag/dag.go defines them.             *)
(***************************************************************************)
EXTENDS Leaves

CONSTANT Root   \* Leaf are the leaves of one DAG, and this is its root

ASSUME LeafAssumption == Leaf \subseteq Nat \ {0} /\ IsFiniteSet(Leaf) /\ Root \in Leaf

NoParent == 0    \* the ParentHash "" of the root

\* The DAGs the builder makes: acyclic, every leaf reachable from the root.
IsDag(g) == /\ Reach(g, {Root}) = Leaf
            /\ \A l \in Leaf : l \notin Reach(g, g[l])

FullDag(g) == [l \in Leaf |-> Genuine(g, l)]

-----------------------------------------------------------------------------
(* Verification of a DAG d, a function from leaves to copies *)

IsPartial(d) == Root \notin DOMAIN d \/ Cardinality(DOMAIN d) < Cardinality(Leaf)

HasAllLinks(g, d, p) == /\ Cardinality(d[p].links) = CurrentLinkCount(g, p)
                        /\ CurrentLinkCount(g, p) > 0

\* verifyFullDag.  IterateDag visits the least set that holds the root and with
\* a leaf its links, and fails on a link to a missing leaf; what is asked of the
\* leaves of some such set is true of the least.  The code checks a parent on its
\* way into a child it is the first to reach; a parent none of whose children it
\* is the first to reach goes unchecked, which makes no difference here: a link
\* that its leaf was built without names no leaf.
VerifyFullDag(g, d) ==
    \E visited \in SUBSET DOMAIN d :
        /\ Root \in visited
        /\ \A l \in visited :
              /\ VerifyLeaf(d[l])
              /\ d[l].links \subseteq visited
              /\ HasAllLinks(g, d, l) => VerifyChildren(g, l, d[l])

\* The root's part of verifyWithProofs.
VerifyPartialRoot(g, d) ==
    /\ VerifyLeaf(d[Root])
    /\ HasAllLinks(g, d, Root) =>
          IF d[Root].links \subseteq DOMAIN d THEN VerifyChildren(g, Root, d[Root])
          ELSE \/ CurrentLinkCount(g, Root) = 1
               \/ DOMAIN d[Root].proofs # {}

HasValidProof(g, d, p, c) ==
    c \in DOMAIN d[p].proofs /\ VerifyBranch(g, p, d[p].proofs[c])

\* One step of verifyWithProofs on the path from c to the root.
VerifyStep(g, d, p, c) ==
    IF HasAllLinks(g, d, p)
    THEN IF d[p].links \subseteq DOMAIN d THEN VerifyChildren(g, p, d[p])
         ELSE HasValidProof(g, d, p, c)
    ELSE CurrentLinkCount(g, p) > 1 => HasValidProof(g, d, p, c)

Parents(d, c) == {p \in DOMAIN d : c \in d[p].links}
IsLowest(p, S) == p \in S /\ \A q \in S : p <= q

\* verifyWithProofs.  The paths of all leaves take every leaf's step to its
\* lowest parent, so it is enough to check each of these steps once.
VerifyWithProofs(g, d) ==
    /\ VerifyPartialRoot(g, d)
    /\ \A c \in DOMAIN d \ {Root} :
          /\ VerifyLeaf(d[c])
          /\ Parents(d, c) # {}
          /\ \A p \in Parents(d, c) : IsLowest(p, Parents(d, c)) => VerifyStep(g, d, p, c)

\* Dag.Verify.  Without its root leaf a DAG cannot be verified at all.
Verify(g, d) ==
    /\ Root \in DOMAIN d
    /\ IF IsPartial(d) THEN VerifyWithProofs(g, d) ELSE VerifyFullDag(g, d)
=============================================================================
