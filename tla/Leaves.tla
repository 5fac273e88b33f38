------------------------------- MODULE Leaves -------------------------------
(***************************************************************************)
(* Leaves and what is checked of one, as src/dag/leaves.go defines them.   *)
(*                                                                         *)
(* A leaf is named by the rank of its hash, a natural number, because the  *)
(* code orders leaves by hash.  g[l] is the set of links leaf l was built  *)
(* with: l's hash commits to it through ClassicMerkleRoot and              *)
(* CurrentLinkCount.  What a Dag holds under l is a copy of l, a record:   *)
(*   links   the Links of the copy (not hashed, so they may be pruned)     *)
(*   proofs  its Proofs, a function from children to branches              *)
(*   intact  the copy's hashed fields and content still match l's hash     *)
(* Hashes are ideal: a Merkle root is the set of its blocks, and a branch  *)
(* is the pair of a leaf and the tree it was taken from.                   *)
(***************************************************************************)
EXTENDS Integers, FiniteSets

CONSTANT Leaf  \* the leaves of every DAG in play

\* The leaves that can be reached from those in S: the least set that holds S
\* and with a leaf its links.
Reach(g, S) ==
    {l \in Leaf : \A T \in SUBSET Leaf :
                      (S \subseteq T /\ \A k \in T : g[k] \subseteq T) => l \in T}

CurrentLinkCount(g, l) == Cardinality(g[l])

Branch(g, p, c) == [leaf |-> c, tree |-> g[p]]
NoProofs == [c \in {} |-> {}]
Genuine(g, l) == [links |-> g[l], proofs |-> NoProofs, intact |-> TRUE]

\* f with the entries of h that it does not have, and f with x mapped to v.
\* (The prover does not know @@ and :> of TLC.)
Merge(f, h) == [x \in DOMAIN f \cup DOMAIN h |-> IF x \in DOMAIN f THEN f[x] ELSE h[x]]
Put(f, x, v) == [y \in DOMAIN f \cup {x} |-> IF y = x THEN v ELSE f[y]]

-----------------------------------------------------------------------------
(* Verification of one leaf *)

VerifyLeaf(copy) == copy.intact

\* merkletree.Verify of the branch against p's ClassicMerkleRoot.  That the
\* branch speaks of the child it is stored under is not looked at.
VerifyBranch(g, p, branch) == branch.tree = g[p] /\ branch.leaf \in branch.tree

\* VerifyChildrenAgainstMerkleRoot: the tree rebuilt from the copy's links.
VerifyChildren(g, p, copy) == copy.links = g[p]

\* Mutant: a parent of two links is taken to need no proofs.
ProofsForMore(g, p, children) ==
    IF CurrentLinkCount(g, p) > 2 THEN [c \in children |-> Branch(g, p, c)] ELSE NoProofs

\* proofForChild: a parent of at most one link needs none.
ProofsFor(g, p, children) ==
    IF CurrentLinkCount(g, p) > 1 THEN [c \in children |-> Branch(g, p, c)] ELSE NoProofs
=============================================================================
