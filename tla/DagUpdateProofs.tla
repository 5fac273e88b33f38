-------------------------- MODULE DagUpdateProofs --------------------------
(***************************************************************************)
(* Proofs about DagUpdate, for any number of versions of any shape and any *)
(* leaves that arrive: the receiver implements VersionRegister.  And about *)
(* UpdateExchange: its senders send what DagUpdate expects, and a whole    *)
(* parcel of theirs takes the receiver to the version it was made for.     *)
(***************************************************************************)
EXTENDS UpdateExchange, FiniteSetTheorems, TLAPS

-----------------------------------------------------------------------------
(* Leaves that can be reached *)

\* What is reached is reached by a chain of links, so it is closed under them.
LEMMA ReachIsClosed ==
    ASSUME NEW links, NEW S, S \subseteq Leaf,
           \A k \in Leaf : links[k] \subseteq Leaf
    PROVE  /\ S \subseteq Reach(links, S)
           /\ \A k \in Reach(links, S) : links[k] \subseteq Reach(links, S)
BY DEF Reach

\* And it is the least such set.
LEMMA ReachIsLeast ==
    ASSUME NEW links, NEW S, NEW T \in SUBSET Leaf,
           S \subseteq T, \A k \in T : links[k] \subseteq T
    PROVE  Reach(links, S) \subseteq T
BY DEF Reach

LEMMA ReachInLeaf ==
    ASSUME NEW links, NEW S
    PROVE  Reach(links, S) \subseteq Leaf
BY DEF Reach

-----------------------------------------------------------------------------
(* The inductive invariant *)

Genuinely(d) == /\ DOMAIN d \subseteq Leaf
                /\ \A l \in DOMAIN d : d[l].links = g[l] /\ d[l].intact = TRUE

LinksOfLeaves == g \in [Leaf -> SUBSET Leaf]

\* No leaf links to the root of a version.
RootsAreOnTop == \A l \in Leaf : g[l] \cap Roots = {}

\* The receiver's leaves are exactly those of its version.
IInv == /\ LinksOfLeaves /\ RootsAreOnTop
        /\ root \in Roots
        /\ Genuinely(leafs) /\ Genuinely(arrived)
        /\ DOMAIN leafs = Contents(root)

LEMMA InitEstablishes == UpdateAssumption /\ Init => IInv
<1> SUFFICES ASSUME UpdateAssumption, Init PROVE IInv
  OBVIOUS
<1>1. LinksOfLeaves /\ RootsAreOnTop
  BY DEF UpdateAssumption, Init, LinksOfLeaves, RootsAreOnTop
<1>2. DOMAIN leafs = Contents(root) /\ Contents(root) \subseteq Leaf
  BY ReachInLeaf DEF Init, Contents
<1>3. Genuinely(leafs)
  BY <1>2 DEF Init, Genuinely, Genuine
<1>4. Genuinely(arrived)
  BY DEF Init, Genuinely, NoProofs
<1> QED
  BY <1>1, <1>2, <1>3, <1>4 DEF IInv, Init

-----------------------------------------------------------------------------
(* What ApplyToDAG returns *)

\* The leaves a root leads to in a pool that has them all are those of its
\* version: a pool of genuine leaves has no link the version does not have.
LEMMA TraverseIsExact ==
    ASSUME IInv, NEW pool, Genuinely(pool), NEW r \in Leaf, TraverseSucceeds(pool, r)
    PROVE  Below(pool, r) = Contents(r) /\ Below(pool, r) \subseteq DOMAIN pool
<1> DEFINE links == LinksIn(pool)
           reached == Reach(links, {r})
<1>1. Below(pool, r) = reached
  BY DEF Below
<1>2. reached \subseteq DOMAIN pool
  BY <1>1 DEF TraverseSucceeds
<1>3. \A k \in Leaf : /\ links[k] \subseteq g[k] /\ g[k] \subseteq Leaf
                      /\ k \in DOMAIN pool => links[k] = g[k]
  BY DEF IInv, LinksOfLeaves, Genuinely, LinksIn
<1> HIDE DEF links
<1>4. reached \subseteq Leaf /\ Contents(r) \subseteq Leaf
  BY ReachInLeaf DEF Contents
<1>5. {r} \subseteq reached /\ \A k \in reached : links[k] \subseteq reached
  BY <1>3, ReachIsClosed
<1>6. {r} \subseteq Contents(r) /\ \A k \in Contents(r) : g[k] \subseteq Contents(r)
  BY <1>3, ReachIsClosed DEF Contents
<1> HIDE DEF reached
<1>7. Contents(r) \subseteq reached
  <2>1. \A k \in reached : g[k] \subseteq reached
    BY <1>2, <1>3, <1>4, <1>5
  <2> QED
    BY <2>1, <1>4, <1>5, ReachIsLeast DEF Contents
<1>8. reached \subseteq Contents(r)
  <2>1. \A k \in Contents(r) : links[k] \subseteq Contents(r)
    BY <1>3, <1>4, <1>6
  <2> QED
    BY <2>1, <1>4, <1>6, ReachIsLeast DEF reached
<1> QED
  BY <1>1, <1>2, <1>7, <1>8

\* Whatever has arrived, an update leads to a whole version that was at hand.
LEMMA ApplyIsWhole ==
    ASSUME IInv,
           NEW d \in ApplyToDAG(DiffFromNewLeaves(leafs, arrived), root, leafs)
    PROVE  /\ d.root \in Roots
           /\ DOMAIN d.leafs = Contents(d.root)
           /\ Genuinely(d.leafs)
           /\ Contents(d.root) \subseteq DOMAIN leafs \cup DOMAIN arrived
<1> DEFINE added == AddedLeaves(leafs, arrived)
           pool == Merge(added, leafs)
<1>1. DiffFromNewLeaves(leafs, arrived).added = added
  BY DEF DiffFromNewLeaves
<1>2. DOMAIN added \subseteq DOMAIN arrived /\ \A l \in DOMAIN added : added[l] = arrived[l]
  BY DEF AddedLeaves
<1>3. CASE DOMAIN added = {}
  <2>1. d = [root |-> root, leafs |-> leafs]
    BY <1>1, <1>3 DEF ApplyToDAG
  <2> QED
    BY <2>1 DEF IInv
<1>4. CASE DOMAIN added # {}
  <2>1. PICK r \in RootCandidates(pool, added) :
           /\ TraverseSucceeds(pool, r)
           /\ d = [root |-> r, leafs |-> [l \in DOMAIN pool \cap Below(pool, r) |-> pool[l]]]
    BY <1>1, <1>4 DEF ApplyToDAG
  <2>2. DOMAIN pool = DOMAIN added \cup DOMAIN leafs
    BY DEF Merge
  <2>3. Genuinely(pool)
    BY <1>2, <2>2 DEF IInv, Genuinely, Merge
  <2>4. r \in Leaf /\ r \in Roots
    <3>1. r \in DOMAIN added /\ LeafCount(r) > 0
      BY <2>1 DEF RootCandidates
    <3> QED
      BY <3>1, <1>2 DEF IInv, Genuinely, LeafCount
  <2>5. Below(pool, r) = Contents(r) /\ Contents(r) \subseteq DOMAIN pool
    BY <2>1, <2>3, <2>4, TraverseIsExact
  <2>6. /\ DOMAIN d.leafs = Contents(r)
        /\ \A l \in DOMAIN d.leafs : d.leafs[l] = pool[l]
    BY <2>1, <2>5
  <2>7. Genuinely(d.leafs)
    BY <2>3, <2>5, <2>6 DEF Genuinely
  <2> QED
    BY <1>2, <2>1, <2>2, <2>4, <2>5, <2>6, <2>7
<1> QED
  BY <1>3, <1>4

\* Leaves with all of their links come back from storage as they went.
LEMMA ReloadedIsGenuine ==
    ASSUME NEW d, Genuinely(d)
    PROVE  DOMAIN Reloaded(g, d) = DOMAIN d /\ Genuinely(Reloaded(g, d))
<1>1. DOMAIN Reloaded(g, d) = DOMAIN d
  BY DEF Reloaded
<1>2. ASSUME NEW l \in DOMAIN d
      PROVE  Reloaded(g, d)[l].links = g[l] /\ Reloaded(g, d)[l].intact = TRUE
  <2>1. Reloaded(g, d)[l] = d[l] \/ Reloaded(g, d)[l] = Rebuild(g, l, d[l])
    BY <1>2 DEF Reloaded
  <2>2. d[l].links = g[l] /\ d[l].intact = TRUE
    BY <1>2 DEF Genuinely
  <2>3. (d[l].intact /\ d[l].links = g[l]) = TRUE
    BY <2>2
  <2>4. Rebuild(g, l, d[l]).links = g[l] /\ Rebuild(g, l, d[l]).intact = TRUE
    BY <2>2, <2>3 DEF Rebuild
  <2> QED
    BY <2>1, <2>2, <2>4
<1> QED
  BY <1>1, <1>2 DEF Genuinely

-----------------------------------------------------------------------------
(* Every step *)

\* A step of the receiver keeps the invariant and is one of the register's.
LEMMA StepRefines == IInv /\ [Next]_vars => IInv' /\ [Register!Next]_(Register!vars)
<1> SUFFICES ASSUME IInv, [Next]_vars
             PROVE  IInv' /\ [Register!Next]_(Register!vars)
  OBVIOUS
<1> USE DEF Contents, LinksOfLeaves, RootsAreOnTop
<1>1. ASSUME NEW l \in Leaf, NEW children \in SUBSET Leaf,
             ReceiveLeaf(l, ProofsFor(g, l, g[l] \cap children))
      PROVE  IInv' /\ [Register!Next]_(Register!vars)
  <2> DEFINE copy == [Genuine(g, l) EXCEPT !.proofs = ProofsFor(g, l, g[l] \cap children)]
  <2>1. arrived' = Put(arrived, l, copy) /\ UNCHANGED <<g, root, leafs>>
    BY <1>1 DEF ReceiveLeaf
  <2>2. copy.links = g[l] /\ copy.intact = TRUE
    BY DEF Genuine
  <2> HIDE DEF copy
  <2>3. DOMAIN arrived' = DOMAIN arrived \cup {l}
    BY <2>1 DEF Put
  <2>4. Genuinely(arrived)'
    BY <2>1, <2>2, <2>3 DEF IInv, Genuinely, Put
  <2>5. IInv'
    BY <2>1, <2>4 DEF IInv, Genuinely
  <2>6. Register!Arrive
    BY <2>1, <2>3 DEF Register!Arrive
  <2> QED
    BY <2>5, <2>6 DEF Register!Next
<1>2. CASE Discard
  <2>1. DOMAIN arrived' = {} /\ UNCHANGED <<g, root, leafs>>
    BY <1>2 DEF Discard, NoProofs
  <2>2. IInv'
    BY <2>1 DEF IInv, Genuinely
  <2>3. Register!Forget
    BY <2>1 DEF Register!Forget
  <2> QED
    BY <2>2, <2>3 DEF Register!Next
<1>3. CASE Update
  <2>1. PICK d \in ApplyToDAG(DiffFromNewLeaves(leafs, arrived), root, leafs) :
           root' = d.root /\ leafs' = d.leafs
    BY <1>3 DEF Update
  <2>2. UNCHANGED <<g, arrived>>
    BY <1>3 DEF Update
  <2>3. /\ d.root \in Roots
        /\ DOMAIN d.leafs = Contents(d.root)
        /\ Genuinely(d.leafs)
        /\ Contents(d.root) \subseteq DOMAIN leafs \cup DOMAIN arrived
    BY ApplyIsWhole
  <2>4. IInv'
    BY <2>1, <2>2, <2>3 DEF IInv, Genuinely
  <2>5. Register!Take
    BY <2>1, <2>2, <2>3 DEF Register!Take
  <2> QED
    BY <2>4, <2>5 DEF Register!Next
<1>4. CASE Restart
  <2>1. leafs' = Reloaded(g, leafs) /\ DOMAIN arrived' = {} /\ UNCHANGED <<g, root>>
    BY <1>4 DEF Restart, NoProofs
  <2>2. DOMAIN Reloaded(g, leafs) = DOMAIN leafs /\ Genuinely(Reloaded(g, leafs))
    BY ReloadedIsGenuine DEF IInv
  <2>3. IInv'
    BY <2>1, <2>2 DEF IInv, Genuinely
  <2>4. Register!Forget
    <3>1. arrived' = NoProofs
      BY <1>4 DEF Restart
    <3> QED
      BY <2>1, <2>2, <3>1 DEF Register!Forget
  <2> QED
    BY <2>3, <2>4 DEF Register!Next
<1>5. CASE UNCHANGED vars
  BY <1>5 DEF vars, IInv, Genuinely, Register!vars
<1> QED
  BY <1>1, <1>2, <1>3, <1>4, <1>5 DEF Next

\* The receiver starts as the register does.
LEMMA InitRefines == UpdateAssumption /\ Init => Register!Init
<1> SUFFICES ASSUME UpdateAssumption, Init PROVE Register!Init
  OBVIOUS
<1>1. [v \in Roots |-> Contents(v)] \in [Roots -> SUBSET Leaf]
  BY ReachInLeaf DEF Contents
<1>2. root \in Roots /\ DOMAIN leafs = Contents(root) /\ DOMAIN arrived = {}
  BY DEF Init, NoProofs
<1> QED
  BY <1>1, <1>2 DEF Register!Init

LEMMA InvariantHolds == ASSUME UpdateAssumption PROVE Spec => []IInv
<1>1. Init => IInv
  BY InitEstablishes
<1>2. IInv /\ [Next]_vars => IInv'
  BY StepRefines
<1> QED
  BY <1>1, <1>2, PTL DEF Spec

\* The receiver's leaves and those that arrive stay genuine: updating, saving
\* and reading back never change one.
THEOREM UpdateTypeCorrect == ASSUME UpdateAssumption PROVE Spec => []TypeOK
<1>1. IInv => TypeOK
  BY DEF IInv, TypeOK, Genuinely, VerifyLeaf
<1> QED
  BY <1>1, InvariantHolds, PTL

\* For every history of versions, and whatever leaves of them arrive in what
\* order, DiffFromNewLeaves and ApplyToDAG implement an atomic register.
THEOREM UpdatesAreAtomic == ASSUME UpdateAssumption PROVE Spec => Atomic
<1>1. Init => Register!Init
  BY InitRefines
<1>2. IInv /\ [Next]_vars => [Register!Next]_(Register!vars)
  BY StepRefines
<1>3. Spec => []IInv
  BY InvariantHolds
<1> QED
  BY <1>1, <1>2, <1>3, PTL DEF Spec, Atomic, Register!Spec
-----------------------------------------------------------------------------
(* What the senders send *)

\* The leaves of a version hang together: they are closed under links.
LEMMA ContentsAreClosed ==
    ASSUME LinksOfLeaves, NEW v \in Leaf
    PROVE  /\ v \in Contents(v) /\ Contents(v) \subseteq Leaf
           /\ \A k \in Contents(v) : g[k] \subseteq Contents(v)
<1>1. \A k \in Leaf : g[k] \subseteq Leaf
  BY DEF LinksOfLeaves
<1> QED
  BY <1>1, ReachIsClosed, ReachInLeaf DEF Contents

\* The only root in a version is its own.
LEMMA OneRootEach ==
    ASSUME LinksOfLeaves, RootsAreOnTop, NEW v \in Leaf, NEW w \in Roots, w \in Contents(v)
    PROVE  w = v
<1> SUFFICES ASSUME w # v PROVE FALSE
  OBVIOUS
<1> DEFINE T == Contents(v) \ {w}
<1>1. v \in T /\ T \in SUBSET Leaf
  BY ContentsAreClosed
<1>2. \A k \in T : g[k] \subseteq T
  BY <1>1, ContentsAreClosed DEF RootsAreOnTop
<1> HIDE DEF T
<1>3. Contents(v) \subseteq T
  BY <1>1, <1>2, ReachIsLeast DEF Contents
<1> QED
  BY <1>3 DEF T

\* The operators of a sender's DAG are those of the receiver.
LEMMA SameCardinality ==
    ASSUME NEW L, NEW R, NEW S
    PROVE  InDag(L, R)!Cardinality(S) = Cardinality(S)
BY DEF InDag!Cardinality, Cardinality

LEMMA SameProofs ==
    ASSUME NEW L, NEW R, NEW p, NEW children
    PROVE  InDag(L, R)!ProofsFor(g, p, children) = ProofsFor(g, p, children)
BY SameCardinality
   DEF InDag!ProofsFor, InDag!CurrentLinkCount, InDag!Branch, InDag!NoProofs,
       ProofsFor, CurrentLinkCount, Branch, NoProofs

\* Of any diff of two versions, the sender's partial DAG holds leaves of the
\* newer one, with all their links and with the proofs of the children it holds.
LEMMA ParcelOfVersion ==
    ASSUME UpdateAssumption, LinksOfLeaves, NEW base \in Roots, NEW v \in Roots
    PROVE  LET parcel == Parcel(base, v)
           IN  /\ DOMAIN parcel \subseteq Contents(v)
               /\ \A l \in DOMAIN parcel :
                     /\ parcel[l].links = g[l] /\ parcel[l].intact = TRUE
                     /\ parcel[l].proofs = ProofsFor(g, l, g[l] \cap DOMAIN parcel)
<1> DEFINE requested == DOMAIN Diff(Version(base), Version(v)).added
           members == InDag(Contents(v), v)!Members(g, requested)
<1>1. members \subseteq Contents(v)
  BY ContentsAreClosed
     DEF UpdateAssumption, InDag!Members, InDag!VerificationPath
<1>2. Parcel(base, v) = InDag(Contents(v), v)!GetPartial(g, requested, FALSE)
  BY DEF Parcel, CreatePartialDag
<1> HIDE DEF requested
<1>3. Parcel(base, v) =
         [p \in members |->
            [links  |-> g[p],
             proofs |-> InDag(Contents(v), v)!Merge(
                           InDag(Contents(v), v)!PathProofs(g, p, members),
                           InDag(Contents(v), v)!CompleteParentProofs(g, p, members)),
             intact |-> TRUE]]
  BY <1>2 DEF InDag!GetPartial
<1> HIDE DEF members
<1>4. ASSUME NEW p \in members
      PROVE  InDag(Contents(v), v)!Merge(
                InDag(Contents(v), v)!PathProofs(g, p, members),
                InDag(Contents(v), v)!CompleteParentProofs(g, p, members))
             = ProofsFor(g, p, g[p] \cap members)
  <2> DEFINE indexed == {c \in g[p] \cap members :
                            InDag(Contents(v), v)!IsIndexedParent(g, p, c)}
  <2>1. indexed \subseteq g[p] \cap members
    OBVIOUS
  <2>2. InDag(Contents(v), v)!PathProofs(g, p, members) = ProofsFor(g, p, indexed)
    BY SameProofs DEF InDag!PathProofs
  <2>3. InDag(Contents(v), v)!CompleteParentProofs(g, p, members)
           = ProofsFor(g, p, g[p] \cap members)
    BY SameProofs DEF InDag!CompleteParentProofs
  <2> HIDE DEF indexed
  <2>4. CASE CurrentLinkCount(g, p) > 1
    BY <2>1, <2>2, <2>3, <2>4 DEF InDag!Merge, ProofsFor
  <2>5. CASE ~(CurrentLinkCount(g, p) > 1)
    BY <2>2, <2>3, <2>5 DEF InDag!Merge, ProofsFor, NoProofs
  <2> QED
    BY <2>4, <2>5
<1>5. /\ DOMAIN Parcel(base, v) = members
      /\ \A p \in members :
            /\ Parcel(base, v)[p].links = g[p] /\ Parcel(base, v)[p].intact = TRUE
            /\ Parcel(base, v)[p].proofs = ProofsFor(g, p, g[p] \cap members)
  BY <1>3, <1>4
<1> QED
  BY <1>1, <1>5

\* So whatever a sender sends is what a receiver of DagUpdate may receive.
LEMMA ExchangeStep ==
    UpdateAssumption /\ IInv /\ [NextExchange]_vars => [Next]_vars
<1> SUFFICES ASSUME UpdateAssumption, IInv, ReceiveFromParcel PROVE Next
  BY DEF NextExchange, Next
<1>1. PICK base \in Roots, v \in Roots :
         \E l \in DOMAIN Parcel(base, v) : ReceiveLeaf(l, Parcel(base, v)[l].proofs)
  BY DEF ReceiveFromParcel
<1>2. PICK l \in DOMAIN Parcel(base, v) : ReceiveLeaf(l, Parcel(base, v)[l].proofs)
  BY <1>1
<1> DEFINE held == DOMAIN Parcel(base, v)
<1>3. LinksOfLeaves
  BY DEF IInv
<1>4. held \subseteq Leaf /\ Parcel(base, v)[l].proofs = ProofsFor(g, l, g[l] \cap held)
  BY <1>3, ParcelOfVersion, ReachInLeaf DEF Contents
<1>5. ReceiveLeaf(l, ProofsFor(g, l, g[l] \cap held))
  BY <1>2, <1>4
<1> QED
  BY <1>4, <1>5 DEF Next

\* The specification of the exchange is one of DagUpdate's behaviours, and so
\* has the invariant and the properties proved of that.
LEMMA ExchangeInvariantHolds == ASSUME UpdateAssumption PROVE SpecExchange => []IInv
<1>1. Init => IInv
  BY InitEstablishes
<1>2. IInv /\ [NextExchange]_vars => IInv'
  BY ExchangeStep, StepRefines
<1> QED
  BY <1>1, <1>2, PTL DEF SpecExchange

-----------------------------------------------------------------------------
(* A whole parcel *)

\* A version the receiver does not have brings at least its root, which the
\* receiver's version does not contain.
LEMMA NewRootIsNew ==
    ASSUME UpdateAssumption, IInv, NEW v \in Roots \ {root}
    PROVE  v \in Contents(v) \ Contents(root)
BY ContentsAreClosed, OneRootEach DEF UpdateAssumption, IInv

LEMMA VersionContents ==
    ASSUME NEW v
    PROVE  DOMAIN Version(v) = Contents(v)
BY DEF Version, InDag!FullDag

\* What was added lies on the way up to the new root together with all that
\* leads to it: a leaf above one that is new is new itself.  So the parcel is
\* exactly what was added, and with the receiver's leaves makes up the version.
LEMMA ParcelIsWhatIsNew ==
    ASSUME UpdateAssumption, IInv, NEW v \in Roots \ {root}
    PROVE  DOMAIN Parcel(root, v) = Contents(v) \ Contents(root)
<1> DEFINE new == Contents(v) \ Contents(root)
<1>1. v \in new
  BY NewRootIsNew
<1>2. DOMAIN Diff(Version(root), Version(v)).added = new
  BY VersionContents DEF Diff
<1>3. DOMAIN Parcel(root, v) = InDag(Contents(v), v)!Members(g, new)
  BY <1>2 DEF Parcel, CreatePartialDag, InDag!GetPartial
<1>4. new \in SUBSET Contents(v) /\ root \in Leaf /\ LinksOfLeaves
  BY DEF UpdateAssumption, IInv
<1>5. ASSUME NEW k \in new, NEW p \in Contents(v),
             InDag(Contents(v), v)!IsIndexedParent(g, p, k)
      PROVE  p \in new
  <2>1. k \in g[p]
    BY <1>5 DEF InDag!IsIndexedParent, InDag!IsLowest
  <2>2. p \in Contents(root) => k \in Contents(root)
    BY <1>4, <2>1, ContentsAreClosed
  <2> QED
    BY <2>2
<1> HIDE DEF new
<1>6. ASSUME NEW c \in new
      PROVE  /\ InDag(Contents(v), v)!VerificationPath(g, c) \subseteq new
             /\ c \in InDag(Contents(v), v)!VerificationPath(g, c)
  BY <1>4, <1>5 DEF InDag!VerificationPath
<1>7. InDag(Contents(v), v)!Members(g, new) = new
  BY <1>1, <1>6 DEF InDag!Members
<1> QED
  BY <1>3, <1>7 DEF new

LEMMA AddedIsParcel ==
    ASSUME UpdateAssumption, IInv, NEW v \in Roots \ {root}
    PROVE  LET added == AddedLeaves(leafs, Parcel(root, v))
           IN  /\ DOMAIN added = Contents(v) \ Contents(root)
               /\ \A l \in DOMAIN added : added[l] = Parcel(root, v)[l]
BY ParcelIsWhatIsNew DEF AddedLeaves, IInv

LEMMA ParcelIsGenuine ==
    ASSUME UpdateAssumption, IInv, NEW v \in Roots \ {root}
    PROVE  Genuinely(Parcel(root, v))
<1>1. /\ DOMAIN Parcel(root, v) \subseteq Contents(v)
      /\ \A l \in DOMAIN Parcel(root, v) :
            Parcel(root, v)[l].links = g[l] /\ Parcel(root, v)[l].intact = TRUE
  BY ParcelOfVersion DEF IInv
<1> QED
  BY <1>1, ReachInLeaf DEF Genuinely, Contents

\* A pool that has genuine copies of a version's leaves has all of its leaves
\* below its root and nothing else.
LEMMA PoolHasVersion ==
    ASSUME UpdateAssumption, IInv, NEW v \in Roots, NEW pool,
           Genuinely(pool), Contents(v) \subseteq DOMAIN pool
    PROVE  TraverseSucceeds(pool, v) /\ Below(pool, v) = Contents(v)
<1>1. v \in Leaf /\ LinksOfLeaves
  BY DEF UpdateAssumption, IInv
<1>2. \A k \in Contents(v) : LinksIn(pool)[k] = g[k]
  BY <1>1, ContentsAreClosed DEF LinksIn, Genuinely
<1>3. /\ v \in Contents(v) /\ Contents(v) \in SUBSET Leaf
      /\ \A k \in Contents(v) : LinksIn(pool)[k] \subseteq Contents(v)
  BY <1>1, <1>2, ContentsAreClosed
<1>4. Below(pool, v) \subseteq Contents(v)
  BY <1>3, ReachIsLeast DEF Below
<1>5. TraverseSucceeds(pool, v)
  BY <1>4 DEF TraverseSucceeds
<1> QED
  BY <1>1, <1>5, TraverseIsExact

\* The parcel's one root is that of the version it was made for.
LEMMA ParcelRoot ==
    ASSUME UpdateAssumption, IInv, NEW v \in Roots \ {root},
           NEW l \in Contents(v) \ Contents(root)
    PROVE  LeafCount(l) > 0 <=> l = v
<1>1. v \in Leaf /\ LinksOfLeaves /\ RootsAreOnTop
  BY DEF UpdateAssumption, IInv
<1>2. ASSUME l # v PROVE LeafCount(l) = 0
  <2>1. l \notin Roots
    BY <1>1, <1>2, OneRootEach
  <2> QED
    BY <2>1 DEF LeafCount
<1>3. v \in Contents(v) /\ IsFiniteSet(Contents(v))
  BY <1>1, ContentsAreClosed, FS_Subset DEF UpdateAssumption
<1>4. Cardinality(Contents(v)) \in Nat /\ Cardinality(Contents(v)) # 0
  BY <1>3, FS_CardinalityType, FS_EmptySet
<1>5. LeafCount(v) > 0
  BY <1>4 DEF LeafCount
<1> QED
  BY <1>2, <1>5

\* What is drawn from a parcel of the receiver's version is whole.
LEMMA ParcelPool ==
    ASSUME UpdateAssumption, IInv, NEW v \in Roots \ {root},
           NEW pool, DOMAIN pool = DOMAIN Parcel(root, v) \cup DOMAIN leafs,
           \A l \in DOMAIN pool : \/ l \in DOMAIN Parcel(root, v) /\ pool[l] = Parcel(root, v)[l]
                                  \/ l \in DOMAIN leafs /\ pool[l] = leafs[l]
    PROVE  /\ Genuinely(pool)
           /\ TraverseSucceeds(pool, v)
           /\ Below(pool, v) = Contents(v)
           /\ Contents(v) \subseteq DOMAIN pool
<1>1. Genuinely(Parcel(root, v)) /\ Genuinely(leafs)
  BY ParcelIsGenuine DEF IInv
<1>2. Genuinely(pool)
  BY <1>1 DEF Genuinely
<1>3. Contents(v) \subseteq DOMAIN pool
  BY ParcelIsWhatIsNew DEF IInv
<1> QED
  BY <1>2, <1>3, PoolHasVersion

\* DiffFromNewLeaves finds the root the parcel was made for, and from it the
\* leaves that the version no longer has.
LEMMA ParcelIsSeenWhole ==
    ASSUME UpdateAssumption, IInv, NEW v \in Roots \ {root}
    PROVE  RemovedLeaves(leafs, Parcel(root, v)) = Contents(root) \ Contents(v)
<1> DEFINE parcel == Parcel(root, v)
           pool == Merge(parcel, leafs)
<1>1. DOMAIN parcel = Contents(v) \ Contents(root) /\ v \in DOMAIN parcel
  BY ParcelIsWhatIsNew, NewRootIsNew
<1>2. \A l \in DOMAIN parcel : LeafCount(l) > 0 <=> l = v
  BY <1>1, ParcelRoot
<1>3. LeafCount(v) <= LeafCount(v) /\ v <= v
  <2>1. v \in Leaf /\ LeafCount(v) \in Int
    BY <1>1, ContentsAreClosed, FS_Subset, FS_CardinalityType
       DEF UpdateAssumption, IInv, LeafCount
  <2> QED
    BY <2>1 DEF UpdateAssumption
<1> HIDE DEF parcel
<1>4. NewRoots(parcel) = {v}
  BY <1>1, <1>2, <1>3 DEF NewRoots
<1>5. /\ DOMAIN pool = DOMAIN parcel \cup DOMAIN leafs
      /\ \A l \in DOMAIN pool : \/ l \in DOMAIN parcel /\ pool[l] = parcel[l]
                                \/ l \in DOMAIN leafs /\ pool[l] = leafs[l]
  BY DEF Merge
<1> HIDE DEF pool
<1>6. Below(pool, v) = Contents(v)
  BY <1>5, ParcelPool DEF parcel
<1>7. RemovedLeaves(leafs, parcel) = DOMAIN leafs \ Below(pool, v)
  BY <1>4 DEF RemovedLeaves, Below, pool
<1> QED
  BY <1>6, <1>7 DEF IInv, parcel

LEMMA InvariantImpliesAgreement == UpdateAssumption /\ IInv => DiffsAgree
<1> SUFFICES ASSUME UpdateAssumption, IInv, NEW v \in Roots \ {root}
             PROVE  LET sent == Diff(Version(root), Version(v))
                        seen == DiffFromNewLeaves(leafs, Parcel(root, v))
                    IN  /\ DOMAIN seen.added = DOMAIN sent.added
                        /\ seen.removed = sent.removed
                        /\ DOMAIN Parcel(root, v) = DOMAIN sent.added
  BY DEF DiffsAgree
<1>1. /\ DOMAIN Diff(Version(root), Version(v)).added = Contents(v) \ Contents(root)
      /\ Diff(Version(root), Version(v)).removed = Contents(root) \ Contents(v)
  BY VersionContents DEF Diff
<1>2. DiffFromNewLeaves(leafs, Parcel(root, v)).removed = Contents(root) \ Contents(v)
  BY ParcelIsSeenWhole DEF DiffFromNewLeaves
<1>3. DOMAIN DiffFromNewLeaves(leafs, Parcel(root, v)).added = Contents(v) \ Contents(root)
  BY AddedIsParcel DEF DiffFromNewLeaves
<1> QED
  BY <1>1, <1>2, <1>3, ParcelIsWhatIsNew

\* ApplyToDAG of a whole parcel has one outcome: the version, every leaf of it
\* genuine.
LEMMA ParcelApplies ==
    ASSUME UpdateAssumption, IInv, NEW v \in Roots \ {root}
    PROVE  LET results == ApplyToDAG(DiffFromNewLeaves(leafs, Parcel(root, v)), root, leafs)
           IN  /\ results # {}
               /\ \A d \in results : /\ d.root = v
                                     /\ DOMAIN d.leafs = Contents(v)
                                     /\ Genuinely(d.leafs)
<1> DEFINE diff == DiffFromNewLeaves(leafs, Parcel(root, v))
           added == diff.added
           pool == Merge(added, leafs)
           result(r) == [root |-> r,
                         leafs |-> [l \in DOMAIN pool \cap Below(pool, r) |-> pool[l]]]
<1>1. added = AddedLeaves(leafs, Parcel(root, v))
  BY DEF DiffFromNewLeaves
<1> HIDE DEF diff
<1>2. /\ DOMAIN added = DOMAIN Parcel(root, v)
      /\ \A l \in DOMAIN added : added[l] = Parcel(root, v)[l]
      /\ v \in DOMAIN added
      /\ \A l \in DOMAIN added : LeafCount(l) > 0 <=> l = v
  <2>1. DOMAIN added = Contents(v) \ Contents(root)
    BY <1>1, AddedIsParcel
  <2>2. \A l \in DOMAIN added : added[l] = Parcel(root, v)[l]
    BY <1>1, AddedIsParcel
  <2>3. \A l \in DOMAIN added : LeafCount(l) > 0 <=> l = v
    BY <2>1, ParcelRoot
  <2> QED
    BY <2>1, <2>2, <2>3, ParcelIsWhatIsNew, NewRootIsNew
<1>3. ApplyToDAG(diff, root, leafs)
         = {result(r) : r \in {l \in RootCandidates(pool, added) : TraverseSucceeds(pool, l)}}
  BY <1>2 DEF ApplyToDAG
<1> HIDE DEF added
<1>4. /\ DOMAIN pool = DOMAIN Parcel(root, v) \cup DOMAIN leafs
      /\ \A l \in DOMAIN pool :
            \/ l \in DOMAIN Parcel(root, v) /\ pool[l] = Parcel(root, v)[l]
            \/ l \in DOMAIN leafs /\ pool[l] = leafs[l]
  BY <1>2 DEF Merge
<1> HIDE DEF pool
<1>5. /\ Genuinely(pool) /\ TraverseSucceeds(pool, v)
      /\ Below(pool, v) = Contents(v) /\ Contents(v) \subseteq DOMAIN pool
  BY <1>4, ParcelPool
<1>6. v \notin Referenced(pool)
  <2>1. \A l \in DOMAIN pool : v \notin pool[l].links
    BY <1>5 DEF Genuinely, IInv, RootsAreOnTop
  <2> QED
    BY <2>1 DEF Referenced
<1>7. {l \in RootCandidates(pool, added) : TraverseSucceeds(pool, l)} = {v}
  BY <1>2, <1>5, <1>6 DEF RootCandidates
<1>8. ApplyToDAG(diff, root, leafs) = {result(v)}
  BY <1>3, <1>7
<1>9. /\ result(v).root = v /\ DOMAIN result(v).leafs = Contents(v)
      /\ \A l \in Contents(v) : result(v).leafs[l] = pool[l]
  BY <1>5
<1>10. Genuinely(result(v).leafs)
  BY <1>5, <1>9 DEF Genuinely
<1> QED
  BY <1>8, <1>9, <1>10 DEF diff

\* A complete DAG of genuine leaves verifies.
LEMMA WholeVersionVerifies ==
    ASSUME UpdateAssumption, IInv, NEW v \in Roots,
           NEW d, DOMAIN d = Contents(v), Genuinely(d)
    PROVE  InDag(Contents(v), v)!Verify(g, d)
<1>1. /\ v \in Contents(v) /\ Contents(v) \subseteq Leaf
      /\ \A k \in Contents(v) : g[k] \subseteq Contents(v)
  BY ContentsAreClosed DEF UpdateAssumption, IInv
<1>2. Cardinality(Contents(v)) \in Nat
  BY <1>1, FS_Subset, FS_CardinalityType DEF UpdateAssumption
<1>3. ~InDag(Contents(v), v)!IsPartial(d)
  BY <1>1, <1>2, SameCardinality DEF InDag!IsPartial
<1>4. InDag(Contents(v), v)!VerifyFullDag(g, d)
  <2>1. \A l \in DOMAIN d :
           /\ InDag(Contents(v), v)!VerifyLeaf(d[l])
           /\ d[l].links \subseteq DOMAIN d
           /\ InDag(Contents(v), v)!VerifyChildren(g, l, d[l])
    BY <1>1 DEF InDag!VerifyLeaf, InDag!VerifyChildren, Genuinely
  <2>2. v \in DOMAIN d
    BY <1>1
  <2> QED
    BY <2>1, <2>2 DEF InDag!VerifyFullDag
<1> QED
  BY <1>1, <1>3, <1>4 DEF InDag!Verify

LEMMA InvariantImpliesCompleteness == UpdateAssumption /\ IInv => CompleteUpdates
BY ParcelApplies, WholeVersionVerifies DEF CompleteUpdates

-----------------------------------------------------------------------------
(* Which parcels verify *)

\* A parcel has all the links of its leaves, and the proofs of its children.
LEMMA ParcelCopies ==
    ASSUME UpdateAssumption, IInv, NEW v \in Roots \ {root}, NEW p \in DOMAIN Parcel(root, v)
    PROVE  LET parcel == Parcel(root, v)
           IN  /\ p \in Contents(v) /\ g[p] \subseteq Contents(v)
               /\ parcel[p].links = g[p] /\ parcel[p].intact = TRUE
               /\ parcel[p].proofs = ProofsFor(g, p, g[p] \cap DOMAIN parcel)
               /\ IsFiniteSet(g[p]) /\ CurrentLinkCount(g, p) \in Nat
<1>1. LinksOfLeaves /\ v \in Leaf /\ root \in Roots
  BY DEF IInv, UpdateAssumption
<1>2. /\ p \in Contents(v)
      /\ Parcel(root, v)[p].links = g[p] /\ Parcel(root, v)[p].intact = TRUE
      /\ Parcel(root, v)[p].proofs = ProofsFor(g, p, g[p] \cap DOMAIN Parcel(root, v))
  BY <1>1, ParcelOfVersion
<1>3. g[p] \subseteq Contents(v) /\ g[p] \subseteq Leaf
  BY <1>1, <1>2, ContentsAreClosed
<1>4. IsFiniteSet(g[p]) /\ CurrentLinkCount(g, p) \in Nat
  BY <1>3, FS_Subset, FS_CardinalityType DEF UpdateAssumption, CurrentLinkCount
<1> QED
  BY <1>2, <1>3, <1>4

\* With two children, one in the parcel and one not, a parent has more than one.
LEMMA TwoChildren ==
    ASSUME NEW S, IsFiniteSet(S), NEW a \in S, NEW b \in S, a # b
    PROVE  Cardinality(S) > 1
<1>1. Cardinality(S) \in Nat /\ Cardinality(S) # 0 /\ Cardinality(S) # 1
  BY FS_CardinalityType, FS_EmptySet, FS_Singleton
<1> QED
  BY <1>1

\* Every leaf of a parcel but its root hangs from a leaf of the parcel.
LEMMA ParcelHangsTogether ==
    ASSUME UpdateAssumption, IInv, NEW v \in Roots \ {root},
           NEW c \in DOMAIN Parcel(root, v) \ {v}
    PROVE  \E p \in DOMAIN Parcel(root, v) : c \in g[p]
<1>1. /\ LinksOfLeaves /\ v \in Leaf /\ root \in Leaf
      /\ DOMAIN Parcel(root, v) = Contents(v) \ Contents(root)
  BY ParcelIsWhatIsNew DEF IInv, UpdateAssumption
<1>2. \E p \in Contents(v) : c \in g[p]
  <2> SUFFICES ASSUME \A p \in Contents(v) : c \notin g[p] PROVE FALSE
    OBVIOUS
  <2> DEFINE T == Contents(v) \ {c}
  <2>1. v \in T /\ T \in SUBSET Leaf /\ \A k \in T : g[k] \subseteq T
    BY <1>1, ContentsAreClosed
  <2> HIDE DEF T
  <2>2. Contents(v) \subseteq T
    BY <2>1, ReachIsLeast DEF Contents
  <2> QED
    BY <1>1, <2>2 DEF T
<1>3. PICK p \in Contents(v) : c \in g[p]
  BY <1>2
<1>4. p \notin Contents(root)
  BY <1>1, <1>3, ContentsAreClosed
<1> QED
  BY <1>1, <1>3, <1>4

LEMMA ParcelCounts ==
    ASSUME UpdateAssumption, IInv, NEW v \in Roots \ {root},
           NEW p \in DOMAIN Parcel(root, v)
    PROVE  InDag(Contents(v), v)!HasAllLinks(g, Parcel(root, v), p)
              <=> CurrentLinkCount(g, p) > 0
<1>1. Parcel(root, v)[p].links = g[p]
  BY ParcelCopies
<1> QED
  BY <1>1, SameCardinality DEF InDag!HasAllLinks, InDag!CurrentLinkCount, CurrentLinkCount

\* So each step of verifyWithProofs below the root has the proof it asks for.
LEMMA ParcelStep ==
    ASSUME UpdateAssumption, IInv, NEW v \in Roots \ {root},
           NEW c \in DOMAIN Parcel(root, v), NEW p \in DOMAIN Parcel(root, v), c \in g[p]
    PROVE  InDag(Contents(v), v)!VerifyStep(g, Parcel(root, v), p, c)
<1> DEFINE parcel == Parcel(root, v)
<1>1. /\ parcel[p].links = g[p]
      /\ parcel[p].proofs = ProofsFor(g, p, g[p] \cap DOMAIN parcel)
      /\ IsFiniteSet(g[p]) /\ CurrentLinkCount(g, p) \in Nat
  BY ParcelCopies
<1>2. CurrentLinkCount(g, p) > 0
  <2>1. CurrentLinkCount(g, p) # 0
    BY <1>1, FS_EmptySet DEF CurrentLinkCount
  <2> QED
    BY <1>1, <2>1
<1>3. InDag(Contents(v), v)!HasAllLinks(g, parcel, p)
  BY <1>2, ParcelCounts
<1> HIDE DEF parcel
<1>4. CASE g[p] \subseteq DOMAIN parcel
  <2>1. InDag(Contents(v), v)!VerifyChildren(g, p, parcel[p])
    BY <1>1 DEF InDag!VerifyChildren
  <2> QED
    BY <1>1, <1>3, <1>4, <2>1 DEF InDag!VerifyStep, parcel
<1>5. CASE ~(g[p] \subseteq DOMAIN parcel)
  <2>1. PICK b \in g[p] : b \notin DOMAIN parcel
    BY <1>5
  <2>2. c \in DOMAIN parcel /\ b # c
    BY <2>1 DEF parcel
  <2>3. CurrentLinkCount(g, p) > 1
    BY <1>1, <2>1, <2>2, TwoChildren DEF CurrentLinkCount
  <2>4. c \in DOMAIN parcel[p].proofs /\ parcel[p].proofs[c] = Branch(g, p, c)
    BY <1>1, <2>2, <2>3 DEF ProofsFor
  <2>5. InDag(Contents(v), v)!HasValidProof(g, parcel, p, c)
    BY <2>4 DEF InDag!HasValidProof, InDag!VerifyBranch, Branch
  <2> QED
    BY <1>1, <1>3, <1>5, <2>5 DEF InDag!VerifyStep, parcel
<1> QED
  BY <1>4, <1>5

\* At the root verifyWithProofs wants a child's proof, any child's.
LEMMA ParcelRootVerifies ==
    ASSUME UpdateAssumption, IInv, NEW v \in Roots \ {root}
    PROVE  InDag(Contents(v), v)!VerifyPartialRoot(g, Parcel(root, v))
              <=> (CurrentLinkCount(g, v) <= 1 \/ g[v] \cap DOMAIN Parcel(root, v) # {})
<1> DEFINE parcel == Parcel(root, v)
           full == InDag(Contents(v), v)!HasAllLinks(g, parcel, v)
<1>1. v \in DOMAIN parcel
  BY ParcelIsWhatIsNew, NewRootIsNew
<1>2. /\ parcel[v].links = g[v] /\ parcel[v].intact = TRUE
      /\ parcel[v].proofs = ProofsFor(g, v, g[v] \cap DOMAIN parcel)
      /\ IsFiniteSet(g[v]) /\ CurrentLinkCount(g, v) \in Nat
  BY <1>1, ParcelCopies
<1>3. full <=> CurrentLinkCount(g, v) > 0
  BY <1>1, ParcelCounts
<1>4. InDag(Contents(v), v)!CurrentLinkCount(g, v) = CurrentLinkCount(g, v)
  BY SameCardinality DEF InDag!CurrentLinkCount, CurrentLinkCount
<1> HIDE DEF full, parcel
<1>5. InDag(Contents(v), v)!VerifyPartialRoot(g, parcel)
         <=> (full => \/ g[v] \subseteq DOMAIN parcel
                      \/ CurrentLinkCount(g, v) = 1
                      \/ DOMAIN parcel[v].proofs # {})
  BY <1>2, <1>4 DEF InDag!VerifyPartialRoot, InDag!VerifyLeaf, InDag!VerifyChildren, full
<1>6. CASE CurrentLinkCount(g, v) = 0 \/ CurrentLinkCount(g, v) = 1
  BY <1>3, <1>5, <1>6 DEF parcel
<1>7. CASE CurrentLinkCount(g, v) > 1
  <2>1. DOMAIN parcel[v].proofs = g[v] \cap DOMAIN parcel
    BY <1>2, <1>7 DEF ProofsFor
  <2>2. g[v] # {}
    BY <1>7, FS_EmptySet DEF CurrentLinkCount
  <2>3. full /\ CurrentLinkCount(g, v) # 1 /\ ~(CurrentLinkCount(g, v) <= 1)
    BY <1>2, <1>3, <1>7
  <2> QED
    BY <1>5, <2>1, <2>2, <2>3 DEF parcel
<1> QED
  <2>1. \/ CurrentLinkCount(g, v) = 0 \/ CurrentLinkCount(g, v) = 1
        \/ CurrentLinkCount(g, v) > 1
    BY <1>2
  <2> QED
    BY <1>6, <1>7, <2>1

LEMMA ParcelPartialVerifies ==
    ASSUME UpdateAssumption, IInv, NEW v \in Roots \ {root}
    PROVE  InDag(Contents(v), v)!VerifyWithProofs(g, Parcel(root, v))
              <=> InDag(Contents(v), v)!VerifyPartialRoot(g, Parcel(root, v))
<1> DEFINE parcel == Parcel(root, v)
<1>1. ASSUME NEW c \in DOMAIN parcel \ {v}
      PROVE  /\ InDag(Contents(v), v)!VerifyLeaf(parcel[c])
             /\ InDag(Contents(v), v)!Parents(parcel, c) # {}
             /\ \A p \in InDag(Contents(v), v)!Parents(parcel, c) :
                   InDag(Contents(v), v)!VerifyStep(g, parcel, p, c)
  <2>1. \A p \in DOMAIN parcel : parcel[p].links = g[p]
    BY ParcelCopies
  <2>2. InDag(Contents(v), v)!VerifyLeaf(parcel[c])
    <3>1. parcel[c].intact = TRUE
      BY ParcelCopies
    <3> QED
      BY <3>1 DEF InDag!VerifyLeaf
  <2>3. InDag(Contents(v), v)!Parents(parcel, c) = {p \in DOMAIN parcel : c \in g[p]}
    BY <2>1 DEF InDag!Parents
  <2>4. \E p \in DOMAIN parcel : c \in g[p]
    BY ParcelHangsTogether
  <2>5. \A p \in DOMAIN parcel :
           c \in g[p] => InDag(Contents(v), v)!VerifyStep(g, parcel, p, c)
    BY ParcelStep
  <2> QED
    BY <2>2, <2>3, <2>4, <2>5
<1> HIDE DEF parcel
<1>2. InDag(Contents(v), v)!VerifyWithProofs(g, parcel)
         <=> InDag(Contents(v), v)!VerifyPartialRoot(g, parcel)
  BY <1>1 DEF InDag!VerifyWithProofs
<1> QED
  BY <1>2 DEF parcel

LEMMA InvariantImpliesWhichVerify == UpdateAssumption /\ IInv => ParcelsVerifyWithAChild
<1> SUFFICES ASSUME UpdateAssumption, IInv, NEW v \in Roots \ {root}
             PROVE  InDag(Contents(v), v)!Verify(g, Parcel(root, v)) <=>
                       (CurrentLinkCount(g, v) <= 1 \/ g[v] \cap DOMAIN Parcel(root, v) # {})
  BY DEF ParcelsVerifyWithAChild
<1> DEFINE parcel == Parcel(root, v)
<1>1. /\ v \in DOMAIN parcel /\ DOMAIN parcel \subseteq Contents(v)
      /\ v \in Leaf /\ LinksOfLeaves
  BY ParcelIsWhatIsNew, NewRootIsNew DEF UpdateAssumption, IInv
<1>2. IsFiniteSet(Contents(v))
  BY <1>1, ContentsAreClosed, FS_Subset DEF UpdateAssumption
<1>3. CASE DOMAIN parcel = Contents(v)
  <2>1. Genuinely(parcel)
    BY ParcelIsGenuine
  <2>2. InDag(Contents(v), v)!Verify(g, parcel)
    BY <1>3, <2>1, WholeVersionVerifies
  <2>3. g[v] \subseteq DOMAIN parcel
    BY <1>1, <1>3, ContentsAreClosed
  <2>4. g[v] = {} => CurrentLinkCount(g, v) <= 1
    BY FS_EmptySet DEF CurrentLinkCount
  <2> QED
    BY <2>2, <2>3, <2>4
<1>4. CASE DOMAIN parcel # Contents(v)
  <2> HIDE DEF parcel
  <2>1. Cardinality(DOMAIN parcel) \in Nat /\ Cardinality(Contents(v)) \in Nat
    BY <1>1, <1>2, FS_Subset, FS_CardinalityType
  <2>2. Cardinality(DOMAIN parcel) <= Cardinality(Contents(v))
    BY <1>1, <1>2, FS_Subset
  <2>3. Cardinality(DOMAIN parcel) # Cardinality(Contents(v))
    BY <1>1, <1>2, <1>4, FS_Subset
  <2>4. Cardinality(DOMAIN parcel) < Cardinality(Contents(v))
    BY <2>1, <2>2, <2>3
  <2>5. InDag(Contents(v), v)!IsPartial(parcel)
    BY <2>4, SameCardinality DEF InDag!IsPartial
  <2>6. InDag(Contents(v), v)!Verify(g, parcel)
           <=> InDag(Contents(v), v)!VerifyWithProofs(g, parcel)
    BY <1>1, <2>5 DEF InDag!Verify
  <2> QED
    BY <2>6, ParcelPartialVerifies, ParcelRootVerifies DEF parcel
<1> QED
  BY <1>3, <1>4

-----------------------------------------------------------------------------
(* Theorems about the exchange *)

\* With the senders of diff.go the receiver is still one of DagUpdate's: each
\* leaf that CreatePartialDag puts in a partial DAG is one it may receive.
THEOREM ExchangeIsUpdate == ASSUME UpdateAssumption PROVE SpecExchange => Spec
<1>1. UpdateAssumption /\ IInv /\ [NextExchange]_vars => [Next]_vars
  BY ExchangeStep
<1>2. SpecExchange => []IInv
  BY ExchangeInvariantHolds
<1> QED
  BY <1>1, <1>2, PTL DEF SpecExchange, Spec

\* For every history of versions, the receiver of a whole parcel works out the
\* same leaves to add and to remove as the Diff its sender made it from.
THEOREM SendersAndReceiversAgree ==
    ASSUME UpdateAssumption PROVE SpecExchange => []DiffsAgree
BY InvariantImpliesAgreement, ExchangeInvariantHolds, PTL

\* And ApplyToDAG of it yields exactly that version, whichever version the
\* receiver has, and Dag.Verify accepts the result.
THEOREM WholeParcelsUpdate ==
    ASSUME UpdateAssumption PROVE SpecExchange => []CompleteUpdates
BY InvariantImpliesCompleteness, ExchangeInvariantHolds, PTL

\* A parcel verifies by itself exactly if its root has at most one child or
\* brings one of its children: verifyWithProofs wants some proof at a root whose
\* children are not all there, and a parcel has proofs of new leaves only.
THEOREM ParcelsVerifyExactly ==
    ASSUME UpdateAssumption PROVE SpecExchange => []ParcelsVerifyWithAChild
BY InvariantImpliesWhichVerify, ExchangeInvariantHolds, PTL
=============================================================================
