----------------------------- MODULE StoreIndex -----------------------------
(***************************************************************************)
(* The index of a DagStore, src/dag/store.go: what BuildIndex makes of the *)
(* leaves that are stored when it is called, which may be any, and what    *)
(* the methods that go by the index tell of them.  (Only an index that is  *)
(* built is modelled.  That the caller builds it again after storing more  *)
(* is up to the caller.)                                                   *)
(***************************************************************************)
EXTENDS DagStore

\* The order links lie in: the order of a leaf's Links is not that of the
\* hashes, it is that of the files and chunks.
Orders == {rank \in [Leaf -> 1..Cardinality(Leaf)] :
              \A k, l \in Leaf : rank[k] = rank[l] => k = l}

\* minimumParentIndex: every child that is linked gets the lowest of the parents.
MinimumParentIndex(children) ==
    [c \in UNION {children[p] : p \in DOMAIN children} |->
        CHOOSE p \in DOMAIN children :
            IsLowest(p, {q \in DOMAIN children : c \in children[q]})]

\* buildIndexByTraversal's search, breadth first: a leaf that is missing is
\* skipped, one that was visited is not listed again.
SearchOn(rank, w) ==
    LET l == Head(w.pending)
    IN  IF l \in ToSet(w.visited) \/ l \notin DOMAIN leafs THEN [w EXCEPT !.pending = Tail(@)]
        ELSE [visited |-> Append(w.visited, l),
              pending |-> Tail(w.pending) \o InOrder(leafs[l].links, rank)]
Traversal(rank) ==
    LET visit[w \in Walked] == IF w.pending = <<>> THEN w.visited ELSE visit[SearchOn(rank, w)]
    IN  visit[[visited |-> <<>>, pending |-> <<Root>>]]

\* Mutant: the parent recorded is the one that was visited first.
BuildIndexFirstSeen(rank) ==
    LET listed == Traversal(rank)
        first(c) == CHOOSE i \in DOMAIN listed :
                       /\ c \in leafs[listed[i]].links
                       /\ \A j \in DOMAIN listed : c \in leafs[listed[j]].links => i <= j
    IN  [leafHashes |-> listed,
         parents    |-> [c \in UNION {leafs[l].links : l \in ToSet(listed)} |-> listed[first(c)]]]

\* BuildIndex: LeafHashes and Parents, for links that lie in this order.
BuildIndex(rank) ==
    LET listed == Traversal(rank)
    IN  [leafHashes |-> listed,
         parents    |-> Put(MinimumParentIndex([l \in ToSet(listed) |-> leafs[l].links]),
                            Root, NoParent)]

-----------------------------------------------------------------------------
(* Properties *)

\* Whatever is stored, an index that is built lists the leaves the streaming
\* verification searches, each once, and every leaf after some parent: a
\* reader that sends leaves in its order sends no orphan.  The parent it names
\* is the lowest of those in the DAG, the one that reading the DAG back from
\* CBOR gives the leaf, although the search may reach the leaf by another.
\* (A memory store lists also what does not hang from the root; there the two
\* agree as long as everything does.  And the parent that is named need not be
\* the one that comes before: a leaf can precede its lowest parent, although
\* the comments at store.go:506 and 617 promise parents before children.)
IndexAgrees ==
    root # NoParent => \A rank \in Orders :
        LET index == BuildIndex(rank)
            order == index.leafHashes
        IN  /\ Cardinality(ToSet(order)) = Len(order)
            /\ ToSet(order) \subseteq Listed
            /\ ~memory => ToSet(order) = Listed
            /\ \A j \in DOMAIN order :
                  order[j] # Root => \E i \in 1..j - 1 : order[j] \in leafs[order[i]].links
            /\ ToSet(order) = Listed =>
                  \A c \in Listed \ {Root} : IsLowest(index.parents[c], Parents(ToDag, c))
=============================================================================
