----------------------------- MODULE PartialDag -----------------------------
(***************************************************************************)
(* Dag.GetPartial of src/dag/dag.go, taken from a complete DAG g: the      *)
(* requested leaves, the leaves on their way up to the root, and the       *)
(* Merkle proofs that tie each of them to the parents it hangs from.       *)
(***************************************************************************)
EXTENDS DagCore

\* minimumParentIndex: p is the one parent the index gives to c.
IsIndexedParent(g, p, c) == IsLowest(p, {q \in Leaf : c \in g[q]})

\* buildVerificationBranch: the leaf and its ancestors by that index.
VerificationPath(g, c) ==
    {l \in Leaf : \A T \in SUBSET Leaf :
        (c \in T /\ \A k \in T, p \in Leaf : IsIndexedParent(g, p, k) => p \in T) => l \in T}

Members(g, requested) == {Root} \cup UNION {VerificationPath(g, c) : c \in requested}

\* The proofs the branches bring along: each child's, under its indexed parent.
PathProofs(g, p, members) ==
    ProofsFor(g, p, {c \in g[p] \cap members : IsIndexedParent(g, p, c)})

\* Mutant: without completeParentProofs.
NoFurtherProofs(g, p, members) == NoProofs

\* completeParentProofs: each parent gets one for every child in the partial.
CompleteParentProofs(g, p, members) == ProofsFor(g, p, g[p] \cap members)

\* The links of the copies are all kept, or, with pruneLinks, only those to
\* leaves of the partial (pruneIrrelevantLinks).
GetPartial(g, requested, pruneLinks) ==
    LET members == Members(g, requested)
    IN  [p \in members |->
            [links  |-> IF pruneLinks THEN g[p] \cap members ELSE g[p],
             proofs |-> Merge(PathProofs(g, p, members), CompleteParentProofs(g, p, members)),
             intact |-> TRUE]]
=============================================================================
