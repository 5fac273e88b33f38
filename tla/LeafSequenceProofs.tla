------------------------- MODULE LeafSequenceProofs -------------------------
(***************************************************************************)
(* What holds of every sender of leaves, for every set of leaves and every *)
(* DAG over them: its copies are genuine, and it sends them below parents  *)
(* that link them.                                                         *)
(***************************************************************************)
EXTENDS LeafSequence, FiniteSetTheorems, WellFoundedInduction, TLAPS

(* A copy of leaf p whose links are some of those p has.                     *)
IsCopy(p, copy) ==
    /\ copy = [links |-> copy.links, proofs |-> copy.proofs, intact |-> TRUE]
    /\ copy.links \subseteq g[p]

(* Its proofs are branches of p's own tree.                                  *)
GenuineProofs(p, copy) ==
    /\ copy.proofs = [c \in DOMAIN copy.proofs |-> Branch(g, p, c)]
    /\ DOMAIN copy.proofs \subseteq g[p]

(* It lost no link, and holds proofs only if p has more than one child, and  *)
(* so none that the receiver would take unseen.                              *)
WholeCopy(p, copy) ==
    /\ copy.links = g[p]
    /\ Cardinality(g[p]) > 1 \/ DOMAIN copy.proofs = {}

(* A copy in the sender's hands.  A partial DAG embeds the proof of every    *)
(* child it holds.                                                           *)
SenderCopy(p, copy) ==
    /\ IsCopy(p, copy)
    /\ GenuineProofs(p, copy)
    /\ "pruned" \notin Senders => WholeCopy(p, copy)
    /\ ((IsPartial(source) \/ "full" \notin Senders) /\ Cardinality(g[p]) > 1) =>
          g[p] \cap DOMAIN source \subseteq DOMAIN copy.proofs

Entry == [leaf : DOMAIN source, parent : {NoParent} \cup DOMAIN source]

(* The inductive invariant of the sender: its copies, and that its sequence  *)
(* sends leaves under parents that link them.                                *)
SenderInv ==
    /\ g \in Shapes
    /\ DOMAIN source \subseteq Leaf
    /\ Senders = {"full"} => DOMAIN source = Leaf
    /\ \A p \in DOMAIN source : SenderCopy(p, source[p])
    /\ sequence \in Seq(Entry)
    /\ expanded \in 0..Len(sequence)
    /\ \A i \in DOMAIN sequence :
          sequence[i].parent = NoParent \/ sequence[i].leaf \in source[sequence[i].parent].links

-----------------------------------------------------------------------------
(* What the sender holds *)

LEMMA ProofsForGenuine ==
    ASSUME NEW shape, NEW p, NEW S
    PROVE  /\ ProofsFor(shape, p, S) = [c \in DOMAIN ProofsFor(shape, p, S) |-> Branch(shape, p, c)]
           /\ DOMAIN ProofsFor(shape, p, S) \subseteq S
           /\ Cardinality(shape[p]) > 1 \/ DOMAIN ProofsFor(shape, p, S) = {}
           /\ Cardinality(shape[p]) > 1 => DOMAIN ProofsFor(shape, p, S) = S
<1>1. CASE Cardinality(shape[p]) > 1
  <2>1. ProofsFor(shape, p, S) = [c \in S |-> Branch(shape, p, c)]
    BY <1>1 DEF ProofsFor, CurrentLinkCount
  <2> QED
    BY <1>1, <2>1
<1>2. CASE ~(Cardinality(shape[p]) > 1)
  <2>1. ProofsFor(shape, p, S) = [c \in {} |-> {}]
    BY <1>2 DEF ProofsFor, CurrentLinkCount, NoProofs
  <2>2. [c \in {} |-> {}] = [c \in {} |-> Branch(shape, p, c)]
    OBVIOUS
  <2> QED
    BY <1>2, <2>1, <2>2
<1> QED
  BY <1>1, <1>2

LEMMA FullDagGenuine ==
    ASSUME NEW p \in Leaf, g \in Shapes, source = FullDag(g), "full" \in Senders
    PROVE  SenderCopy(p, source[p])
<1>1. source[p] = [links |-> g[p], proofs |-> NoProofs, intact |-> TRUE]
  BY DEF FullDag, Genuine
<1>2. NoProofs = [c \in DOMAIN NoProofs |-> Branch(g, p, c)] /\ DOMAIN NoProofs = {}
  BY DEF NoProofs
<1>3. ~IsPartial(source)
  <2>1. DOMAIN source = Leaf
    BY DEF FullDag
  <2> QED
    BY <2>1, LeafAssumption, FS_CardinalityType DEF IsPartial
<1> QED
  BY <1>1, <1>2, <1>3 DEF SenderCopy, IsCopy, GenuineProofs, WholeCopy

(* A partial DAG's copies, pruned or not: each has the proofs of its path    *)
(* and those completeParentProofs added, all of its own children.            *)
LEMMA GetPartialGenuine ==
    ASSUME NEW r, NEW prune \in BOOLEAN, g \in Shapes, source = GetPartial(g, r, prune),
           "pruned" \notin Senders => prune = FALSE,
           NEW p \in DOMAIN source
    PROVE  SenderCopy(p, source[p])
<1> DEFINE members == Members(g, r)
           path == PathProofs(g, p, members)
           rest == CompleteParentProofs(g, p, members)
           kept == IF prune THEN g[p] \cap members ELSE g[p]
<1>1. /\ path = [c \in DOMAIN path |-> Branch(g, p, c)]
      /\ DOMAIN path \subseteq g[p]
      /\ Cardinality(g[p]) > 1 \/ DOMAIN path = {}
  BY ProofsForGenuine DEF PathProofs
<1>2. /\ rest = [c \in DOMAIN rest |-> Branch(g, p, c)]
      /\ DOMAIN rest \subseteq g[p]
      /\ Cardinality(g[p]) > 1 \/ DOMAIN rest = {}
      /\ Cardinality(g[p]) > 1 => DOMAIN rest = g[p] \cap members
  BY ProofsForGenuine DEF CompleteParentProofs
<1>3. /\ source[p] = [links |-> kept, proofs |-> Merge(path, rest), intact |-> TRUE]
      /\ DOMAIN source = members
  BY DEF GetPartial
<1>4. /\ Merge(path, rest) = [c \in DOMAIN Merge(path, rest) |-> Branch(g, p, c)]
      /\ DOMAIN Merge(path, rest) = DOMAIN path \cup DOMAIN rest
  <2> HIDE DEF path, rest
  <2>1. Merge(path, rest) = [c \in DOMAIN path \cup DOMAIN rest |->
                           IF c \in DOMAIN path THEN path[c] ELSE rest[c]]
    BY DEF Merge
  <2>2. \A c \in DOMAIN path : path[c] = Branch(g, p, c)
    BY <1>1
  <2>3. \A c \in DOMAIN rest : rest[c] = Branch(g, p, c)
    BY <1>2
  <2> QED
    BY <2>1, <2>2, <2>3
<1> HIDE DEF path, rest, members
<1> QED
  BY <1>1, <1>2, <1>3, <1>4 DEF SenderCopy, IsCopy, GenuineProofs, WholeCopy
-----------------------------------------------------------------------------
(* It is inductive *)

LEMMA SenderInitInv == SenderInit => SenderInv
<1> SUFFICES ASSUME SenderInit PROVE SenderInv
  OBVIOUS
<1> DEFINE Copies == /\ \A p \in DOMAIN source : SenderCopy(p, source[p])
                     /\ Root \in DOMAIN source
                     /\ DOMAIN source \subseteq Leaf
                     /\ Senders = {"full"} => DOMAIN source = Leaf
<1>1. Copies
  <2>1. PICK k \in Senders : source \in Kinds(g)[k]
    BY DEF SenderInit
  <2>2. CASE k = "full"
    <3>1. source = FullDag(g) /\ DOMAIN source = Leaf
      BY <2>1, <2>2 DEF Kinds, FullDag
    <3> QED
      BY <2>1, <2>2, <3>1, FullDagGenuine, LeafAssumption DEF SenderInit
  <2>3. ASSUME NEW r, NEW prune \in BOOLEAN, source = GetPartial(g, r, prune),
               "pruned" \notin Senders => prune = FALSE, Senders # {"full"}
        PROVE  Copies
    <3>1. Root \in DOMAIN source /\ DOMAIN source \subseteq Leaf
      BY <2>3, LeafAssumption DEF GetPartial, Members, VerificationPath
    <3> QED
      BY <2>3, <3>1, GetPartialGenuine DEF SenderInit
  <2>4. CASE k = "partial"
    <3>1. PICK r : source = GetPartial(g, r, FALSE)
      BY <2>1, <2>4 DEF Kinds
    <3> QED
      BY <2>1, <2>4, <3>1, <2>3
  <2>5. CASE k = "pruned"
    <3>1. PICK r : source = GetPartial(g, r, TRUE)
      BY <2>1, <2>5 DEF Kinds
    <3> QED
      BY <2>1, <2>5, <3>1, <2>3
  <2> QED
    BY <2>1, <2>2, <2>4, <2>5, SendersAssumption
<1>2. sequence \in Seq(Entry) /\ Len(sequence) = 1 /\ sequence[1].parent = NoParent
  BY <1>1 DEF SenderInit, Entry
<1> QED
  BY <1>1, <1>2 DEF SenderInit, SenderInv

LEMMA SenderStep == SenderInv /\ [ExtendSequence]_sent => SenderInv'
<1> SUFFICES ASSUME SenderInv, [ExtendSequence]_sent PROVE SenderInv'
  OBVIOUS
<1>1. CASE UNCHANGED sent
  BY <1>1 DEF SenderInv, SenderCopy, IsCopy, GenuineProofs, WholeCopy, Entry, IsPartial, sent
<1>2. CASE AppendChild
  <2> DEFINE p == sequence[expanded + 1].leaf
  <2>1. expanded + 1 \in DOMAIN sequence /\ p \in DOMAIN source
    <3>1. expanded + 1 \in 1..Len(sequence)
      BY <1>2 DEF AppendChild, SenderInv
    <3>2. sequence[expanded + 1] \in Entry
      BY <3>1 DEF SenderInv
    <3> QED
      BY <3>1, <3>2 DEF SenderInv, Entry
  <2>2. PICK c \in DOMAIN source :
           c \in source[p].links /\ sequence' = Append(sequence, [leaf |-> c, parent |-> p])
    BY <1>2 DEF AppendChild, Unvisited
  <2>3. sequence' \in Seq(Entry) /\ expanded \in 0..Len(sequence')
    <3>1. [leaf |-> c, parent |-> p] \in Entry
      BY <2>1 DEF Entry
    <3> QED
      BY <2>2, <3>1 DEF SenderInv
  <2>4. ASSUME NEW i \in DOMAIN sequence'
        PROVE  sequence'[i].parent = NoParent
                 \/ sequence'[i].leaf \in source[sequence'[i].parent].links
    <3> HIDE DEF p
    <3>1. CASE i \in DOMAIN sequence
      BY <3>1, <2>2 DEF SenderInv
    <3>2. CASE i = Len(sequence) + 1
      BY <3>2, <2>2 DEF SenderInv
    <3> QED
      BY <3>1, <3>2, <2>2, <2>4 DEF SenderInv
  <2>5. g' = g /\ source' = source /\ expanded' = expanded
    BY <1>2 DEF AppendChild
  <2> QED
    BY <2>3, <2>4, <2>5 DEF SenderInv, SenderCopy, IsCopy, GenuineProofs, WholeCopy, Entry, IsPartial
<1>3. CASE NextParent
  BY <1>3 DEF NextParent, SenderInv, SenderCopy, IsCopy, GenuineProofs, WholeCopy, Entry, IsPartial
<1> QED
  BY <1>1, <1>2, <1>3 DEF ExtendSequence, sent

-----------------------------------------------------------------------------
(* What follows from it *)

(* No leaf links itself, and a leaf's links are finitely many.               *)
LEMMA LinksOfShape ==
    ASSUME g \in Shapes, NEW l \in Leaf
    PROVE  l \notin g[l] /\ g[l] \subseteq Leaf /\ IsFiniteSet(g[l])
<1>1. g \in [Leaf -> SUBSET Leaf] /\ l \notin Reach(g, g[l])
  BY ShapesAssumption DEF IsDag
<1>2. l \in g[l] => l \in Reach(g, g[l])
  BY DEF Reach
<1> QED
  BY <1>1, <1>2, LeafAssumption, FS_Subset

(* What is known of an entry of the sequence.                                *)
LEMMA EntryFacts ==
    ASSUME SenderInv, NEW i \in DOMAIN sequence
    PROVE  LET e == sequence[i]
           IN  /\ e.leaf \in DOMAIN source
               /\ e.parent # NoParent => e.parent \in DOMAIN source
                                           /\ e.leaf \in source[e.parent].links
<1>1. sequence[i] \in Entry
  BY DEF SenderInv
<1> QED
  BY <1>1 DEF SenderInv, Entry

-----------------------------------------------------------------------------
(* The order of the sequence: no leaf twice, every parent before its child.  *)

OrderInv ==
    /\ sequence # <<>>
    /\ \A i, j \in DOMAIN sequence : sequence[i].leaf = sequence[j].leaf => i = j
    /\ \A i \in DOMAIN sequence :
          IF sequence[i].parent = NoParent THEN sequence[i].leaf = Root
          ELSE \E j \in DOMAIN sequence : j < i /\ sequence[j].leaf = sequence[i].parent

LEMMA OrderInit == SenderInit => OrderInv
BY DEF SenderInit, OrderInv

LEMMA OrderStep == SenderInv /\ OrderInv /\ [ExtendSequence]_sent => OrderInv'
<1> SUFFICES ASSUME SenderInv, OrderInv, [ExtendSequence]_sent PROVE OrderInv'
  OBVIOUS
<1>1. CASE NextParent \/ UNCHANGED sent
  BY <1>1 DEF NextParent, sent, OrderInv
<1>2. CASE AppendChild
  <2> DEFINE p == sequence[expanded + 1].leaf
             n == Len(sequence)
  <2>1. sequence \in Seq(Entry) /\ expanded \in 0..n /\ expanded < n
    BY <1>2 DEF AppendChild, SenderInv
  <2>2. expanded + 1 \in DOMAIN sequence /\ p \in Leaf /\ p # NoParent
    <3>1. expanded + 1 \in DOMAIN sequence
      BY <2>1
    <3> QED
      BY <3>1, EntryFacts, LeafAssumption DEF SenderInv, NoParent
  <2>3. PICK c : /\ c \notin Sequenced
                 /\ sequence' = Append(sequence, [leaf |-> c, parent |-> p])
    BY <1>2 DEF AppendChild, Unvisited
  <2> HIDE DEF p
  <2>4. /\ DOMAIN sequence' = DOMAIN sequence \cup {n + 1}
        /\ DOMAIN sequence = 1..n
        /\ \A i \in DOMAIN sequence : sequence'[i] = sequence[i]
        /\ sequence'[n + 1] = [leaf |-> c, parent |-> p]
        /\ sequence' # <<>>
    BY <2>1, <2>3
  <2>5. \A i \in DOMAIN sequence : sequence[i].leaf # c
    BY <2>3 DEF Sequenced
  <2>6. sequence[expanded + 1].leaf = p
    BY DEF p
  <2>7. ASSUME NEW i \in DOMAIN sequence', sequence'[i].parent # NoParent
        PROVE  \E j \in DOMAIN sequence' : j < i /\ sequence'[j].leaf = sequence'[i].parent
    <3>1. CASE i \in DOMAIN sequence
      BY <2>4, <2>7, <3>1 DEF OrderInv
    <3>2. CASE i = n + 1
      BY <2>1, <2>2, <2>4, <2>6, <3>2
    <3> QED
      BY <2>4, <3>1, <3>2
  <2>8. ASSUME NEW i \in DOMAIN sequence', sequence'[i].parent = NoParent
        PROVE  sequence'[i].leaf = Root
    BY <2>2, <2>4, <2>8 DEF OrderInv
  <2>9. \A i, j \in DOMAIN sequence' : sequence'[i].leaf = sequence'[j].leaf => i = j
    BY <2>4, <2>5 DEF OrderInv
  <2> QED
    BY <2>4, <2>7, <2>8, <2>9 DEF OrderInv
<1> QED
  BY <1>1, <1>2 DEF ExtendSequence

-----------------------------------------------------------------------------
(* DAGs as GetPartial and the builder make them                              *)

(* A leaf of such a DAG d: a sound copy that links the leaf's children in d, *)
(* and either all its other children or none, with the proofs Verify asks of *)
(* a partial DAG.                                                            *)
GoodCopy(d, p) ==
    /\ IsCopy(p, d[p])
    /\ GenuineProofs(p, d[p])
    /\ g[p] \cap DOMAIN d \subseteq d[p].links
    /\ d[p].links = g[p] \/ d[p].links \subseteq DOMAIN d
    /\ (IsPartial(d) /\ Cardinality(g[p]) > 1) => g[p] \cap DOMAIN d \subseteq DOMAIN d[p].proofs
    /\ DOMAIN d[p].proofs = {} \/ g[p] \cap DOMAIN d \subseteq DOMAIN d[p].proofs

(* With a leaf it has the parent under which Verify looks for it.            *)
GoodDag(d) ==
    /\ Root \in DOMAIN d /\ DOMAIN d \subseteq Leaf
    /\ \A p \in DOMAIN d : GoodCopy(d, p)
    /\ \A c \in DOMAIN d \ {Root}, p \in Leaf : IsIndexedParent(g, p, c) => p \in DOMAIN d

(* A DAG that is not partial has every leaf.                                 *)
LEMMA NotPartial ==
    ASSUME NEW d, Root \in DOMAIN d, DOMAIN d \subseteq Leaf
    PROVE  ~IsPartial(d) <=> DOMAIN d = Leaf
<1>1. IsFiniteSet(Leaf) /\ IsFiniteSet(DOMAIN d)
  BY LeafAssumption, FS_Subset
<1>2. Cardinality(DOMAIN d) <= Cardinality(Leaf) /\ (Cardinality(DOMAIN d) = Cardinality(Leaf) => DOMAIN d = Leaf)
  BY <1>1, FS_Subset
<1>3. Cardinality(DOMAIN d) \in Nat /\ Cardinality(Leaf) \in Nat
  BY <1>1, FS_CardinalityType
<1> QED
  BY <1>2, <1>3 DEF IsPartial

LEMMA GetPartialGood ==
    ASSUME NEW r, NEW prune \in BOOLEAN, g \in Shapes, NEW d, d = GetPartial(g, r, prune)
    PROVE  GoodDag(d)
<1> DEFINE members == Members(g, r)
<1>1. DOMAIN d = members /\ Root \in members /\ members \subseteq Leaf
  BY LeafAssumption DEF GetPartial, Members, VerificationPath
<1>2. ASSUME NEW p \in members PROVE GoodCopy(d, p)
  <2> DEFINE path == PathProofs(g, p, members)
             rest == CompleteParentProofs(g, p, members)
             kept == IF prune THEN g[p] \cap members ELSE g[p]
  <2>1. /\ path = [c \in DOMAIN path |-> Branch(g, p, c)]
        /\ DOMAIN path \subseteq g[p]
        /\ Cardinality(g[p]) > 1 \/ DOMAIN path = {}
    BY ProofsForGenuine DEF PathProofs
  <2>2. /\ rest = [c \in DOMAIN rest |-> Branch(g, p, c)]
        /\ DOMAIN rest \subseteq g[p]
        /\ Cardinality(g[p]) > 1 \/ DOMAIN rest = {}
        /\ Cardinality(g[p]) > 1 => DOMAIN rest = g[p] \cap members
    BY ProofsForGenuine DEF CompleteParentProofs
  <2>3. d[p] = [links |-> kept, proofs |-> Merge(path, rest), intact |-> TRUE]
    BY DEF GetPartial
  <2>4. /\ Merge(path, rest) = [c \in DOMAIN Merge(path, rest) |-> Branch(g, p, c)]
        /\ DOMAIN Merge(path, rest) = DOMAIN path \cup DOMAIN rest
    <3> HIDE DEF path, rest
    <3>1. Merge(path, rest) = [c \in DOMAIN path \cup DOMAIN rest |->
                             IF c \in DOMAIN path THEN path[c] ELSE rest[c]]
      BY DEF Merge
    <3>2. \A c \in DOMAIN path : path[c] = Branch(g, p, c)
      BY <2>1
    <3>3. \A c \in DOMAIN rest : rest[c] = Branch(g, p, c)
      BY <2>2
    <3> QED
      BY <3>1, <3>2, <3>3
  <2> HIDE DEF path, rest, members
  <2> QED
    BY <1>1, <2>1, <2>2, <2>3, <2>4 DEF GoodCopy, IsCopy, GenuineProofs
<1>3. ASSUME NEW c \in members \ {Root}, NEW p \in Leaf, IsIndexedParent(g, p, c)
      PROVE  p \in members
  <2>1. PICK x \in r : c \in VerificationPath(g, x)
    BY <1>3 DEF Members
  <2>2. p \in VerificationPath(g, x)
    BY <1>3, <2>1 DEF VerificationPath
  <2> QED
    BY <2>2 DEF Members
<1> HIDE DEF members
<1> QED
  BY <1>1, <1>2, <1>3 DEF GoodDag

LEMMA KindsGood ==
    ASSUME g \in Shapes, NEW k \in {"full", "partial", "pruned"}, NEW d \in Kinds(g)[k]
    PROVE  GoodDag(d)
<1>1. CASE k = "full"
  <2>1. d = FullDag(g)
    BY <1>1 DEF Kinds
  <2>2. DOMAIN d = Leaf /\ Root \in Leaf
    BY <2>1, LeafAssumption DEF FullDag
  <2>3. ~IsPartial(d)
    BY <2>2, NotPartial
  <2>4. ASSUME NEW p \in Leaf PROVE GoodCopy(d, p)
    <3>1. d[p] = [links |-> g[p], proofs |-> NoProofs, intact |-> TRUE]
      BY <2>1 DEF FullDag, Genuine
    <3>2. NoProofs = [c \in DOMAIN NoProofs |-> Branch(g, p, c)] /\ DOMAIN NoProofs = {}
      BY DEF NoProofs
    <3> QED
      BY <2>3, <3>1, <3>2 DEF GoodCopy, IsCopy, GenuineProofs
  <2> QED
    BY <2>2, <2>4 DEF GoodDag
<1>2. CASE k = "partial"
  <2>1. PICK r : d = GetPartial(g, r, FALSE)
    BY <1>2 DEF Kinds
  <2> QED
    BY <2>1, GetPartialGood
<1>3. CASE k = "pruned"
  <2>1. PICK r : d = GetPartial(g, r, TRUE)
    BY <1>3 DEF Kinds
  <2> QED
    BY <2>1, GetPartialGood
<1> QED
  BY <1>1, <1>2, <1>3

(* What makes Verify accept a DAG of sound copies.  Of a parent it looks at  *)
(* all its children if they are there, or else at the proof of the leaf.     *)
LEMMA VerifiesIf ==
    ASSUME g \in Shapes, NEW d, Root \in DOMAIN d, DOMAIN d \subseteq Leaf,
           \A p \in DOMAIN d :
              /\ d[p].links \subseteq g[p] /\ VerifyLeaf(d[p])
              /\ \A c \in DOMAIN d[p].proofs : c \in g[p] /\ d[p].proofs[c] = Branch(g, p, c),
           \/ d[Root].links \subseteq DOMAIN d \/ Cardinality(g[Root]) = 1
           \/ DOMAIN d[Root].proofs # {} \/ d[Root].links # g[Root],
           \A c \in DOMAIN d \ {Root} : Parents(d, c) # {},
           \A c \in DOMAIN d \ {Root}, p \in DOMAIN d : IsLowest(p, Parents(d, c)) =>
              \/ ~(Cardinality(g[p]) > 1)
              \/ d[p].links = g[p] /\ g[p] \subseteq DOMAIN d
              \/ c \in DOMAIN d[p].proofs
    PROVE  Verify(g, d)
<1>1. ASSUME NEW p \in DOMAIN d
      PROVE  /\ HasAllLinks(g, d, p) => d[p].links = g[p]
             /\ d[p].links = g[p] => VerifyChildren(g, p, d[p])
             /\ g[p] # {} => Cardinality(g[p]) \in Nat /\ Cardinality(g[p]) > 0
             /\ (~(Cardinality(g[p]) > 1) /\ d[p].links # {}) => d[p].links = g[p]
  <2>1. IsFiniteSet(g[p]) /\ d[p].links \subseteq g[p] /\ IsFiniteSet(d[p].links)
    BY LinksOfShape, FS_Subset
  <2>2. Cardinality(g[p]) \in Nat /\ Cardinality(d[p].links) \in Nat
        /\ (Cardinality(d[p].links) = 0 <=> d[p].links = {})
        /\ (Cardinality(g[p]) = 0 <=> g[p] = {})
    BY <2>1, FS_CardinalityType, FS_EmptySet
  <2>3. Cardinality(d[p].links) <= Cardinality(g[p])
        /\ (Cardinality(d[p].links) = Cardinality(g[p]) => d[p].links = g[p])
    BY <2>1, FS_Subset
  <2> QED
    BY <2>2, <2>3 DEF HasAllLinks, CurrentLinkCount, VerifyChildren
<1>2. CASE ~IsPartial(d)
  <2>1. DOMAIN d = Leaf
    BY <1>2, NotPartial
  <2>2. \A p \in Leaf : g[p] \subseteq Leaf
    BY LinksOfShape
  <2>3. VerifyFullDag(g, d)
    <3>1. \A l \in DOMAIN d :
             /\ VerifyLeaf(d[l])
             /\ d[l].links \subseteq DOMAIN d
             /\ HasAllLinks(g, d, l) => VerifyChildren(g, l, d[l])
      BY <1>1, <2>1, <2>2
    <3> QED
      BY <2>1, <3>1, LeafAssumption DEF VerifyFullDag
  <2> QED
    BY <1>2, <2>3 DEF Verify
<1>3. CASE IsPartial(d)
  <2>1. VerifyPartialRoot(g, d)
    BY <1>1 DEF VerifyPartialRoot, CurrentLinkCount
  <2>2. ASSUME NEW c \in DOMAIN d \ {Root}, NEW p \in DOMAIN d, IsLowest(p, Parents(d, c))
        PROVE  VerifyStep(g, d, p, c)
    <3>1. c \in d[p].links /\ c \in g[p]
      BY <2>2 DEF IsLowest, Parents
    <3>2. CASE ~(Cardinality(g[p]) > 1)
      <4>1. d[p].links = g[p]
        BY <1>1, <3>1, <3>2
      <4>2. g[p] = {c}
        <5>1. IsFiniteSet(g[p]) /\ Cardinality(g[p]) \in Nat /\ Cardinality(g[p]) > 0
          BY <1>1, <3>1, LinksOfShape
        <5>2. Cardinality(g[p]) = 1
          BY <3>2, <5>1
        <5> QED
          BY <3>1, <5>1, <5>2, FS_Singleton
      <4>3. d[p].links \subseteq DOMAIN d
        BY <4>1, <4>2
      <4> QED
        BY <1>1, <3>2, <4>1, <4>3 DEF VerifyStep, CurrentLinkCount
    <3>3. CASE d[p].links = g[p] /\ g[p] \subseteq DOMAIN d
      <4>1. HasAllLinks(g, d, p)
        BY <1>1, <3>1, <3>3 DEF HasAllLinks, CurrentLinkCount
      <4> QED
        BY <1>1, <3>3, <4>1 DEF VerifyStep
    <3>4. CASE c \in DOMAIN d[p].proofs
      <4>0. d[p].proofs[c] = Branch(g, p, c)
        BY <3>4
      <4>1. HasValidProof(g, d, p, c)
        BY <3>1, <3>4, <4>0 DEF HasValidProof, VerifyBranch, Branch
      <4> QED
        BY <1>1, <4>1 DEF VerifyStep
    <3> QED
      BY <2>2, <3>2, <3>3, <3>4
  <2>3. \A c \in DOMAIN d : Parents(d, c) \subseteq DOMAIN d
    BY DEF Parents
  <2>4. VerifyWithProofs(g, d)
    BY <2>1, <2>2, <2>3 DEF VerifyWithProofs, IsLowest
  <2> QED
    BY <1>3, <2>4 DEF Verify
<1> QED
  BY <1>2, <1>3

-----------------------------------------------------------------------------
(* The walk reaches every leaf                                               *)

(* A set of natural numbers has a least one.                                 *)
LEMMA Least ==
    ASSUME NEW T, T \subseteq Nat, T # {}
    PROVE  \E m \in T : \A k \in T : m <= k
<1>1. PICK R : IsWellFoundedOn(R, Nat) /\ \A k, m \in Nat : k < m => <<k, m>> \in R
  BY NatLessThanWellFounded DEF OpToRel
<1>2. IsWellFoundedOn(R, T)
  BY <1>1, IsWellFoundedOnSubset
<1>3. \E p \in T : \A k \in T : ~(<<k, p>> \in R)
  BY <1>2, WFMin
<1>4. PICK p \in T : \A k \in T : ~(<<k, p>> \in R)
  BY <1>3
<1>5. \A k \in T : ~(k < p)
  BY <1>1, <1>4
<1>6. \A k \in T : p <= k
  BY <1>5
<1> QED
  BY <1>6

(* Every leaf of a DAG but the root has a parent, and so an indexed one.     *)
LEMMA HasIndexedParent ==
    ASSUME NEW shape \in Shapes, NEW l \in Leaf \ {Root}
    PROVE  \E p \in Leaf : IsIndexedParent(shape, p, l)
<1> DEFINE parents == {q \in Leaf : l \in shape[q]}
<1>1. shape \in [Leaf -> SUBSET Leaf] /\ Reach(shape, {Root}) = Leaf
  BY ShapesAssumption DEF IsDag
<1>2. PICK q \in Leaf : l \in shape[q]
  <2> SUFFICES ASSUME \A k \in Leaf : l \notin shape[k] PROVE FALSE
    OBVIOUS
  <2>1. Leaf \ {l} \in SUBSET Leaf
    OBVIOUS
  <2>2. {Root} \subseteq Leaf \ {l} /\ \A k \in Leaf \ {l} : shape[k] \subseteq Leaf \ {l}
    BY <1>1, LeafAssumption
  <2>3. l \in Leaf \ {l}
    BY <1>1, <2>1, <2>2 DEF Reach
  <2> QED
    BY <2>3
<1>3. parents # {} /\ parents \subseteq Nat
  BY <1>2, LeafAssumption
<1>4. PICK p \in parents : \A k \in parents : p <= k
  BY <1>3, Least
<1> QED
  BY <1>4 DEF IsIndexedParent, IsLowest

(* In a DAG that GetPartial or the builder made it is there, links the leaf, *)
LEMMA IndexedParentThere ==
    ASSUME g \in Shapes, NEW d, GoodDag(d), NEW c \in DOMAIN d \ {Root}
    PROVE  \E p \in DOMAIN d : /\ IsIndexedParent(g, p, c)
                               /\ c \in g[p] \cap DOMAIN d /\ c \in d[p].links
<1>1. c \in Leaf \ {Root}
  BY DEF GoodDag
<1>2. PICK p \in Leaf : IsIndexedParent(g, p, c)
  BY <1>1, HasIndexedParent
<1>3. p \in DOMAIN d /\ c \in g[p]
  BY <1>1, <1>2 DEF GoodDag, IsIndexedParent, IsLowest
<1>4. g[p] \cap DOMAIN d \subseteq d[p].links
  BY <1>3 DEF GoodDag, GoodCopy
<1> QED
  BY <1>2, <1>3, <1>4

(* and is where Verify looks for the leaf's proof.                           *)
LEMMA LowestIsIndexed ==
    ASSUME NEW d, DOMAIN d \subseteq Leaf, \A l \in DOMAIN d : d[l].links \subseteq g[l],
           NEW c, NEW p, IsIndexedParent(g, p, c), p \in Parents(d, c),
           NEW q, IsLowest(q, Parents(d, c))
    PROVE  q = p
<1>1. p \in Nat /\ q \in Nat /\ q \in Leaf /\ c \in g[q]
  BY LeafAssumption DEF IsLowest, Parents
<1>2. p <= q /\ q <= p
  BY <1>1 DEF IsIndexedParent, IsLowest
<1> QED
  BY <1>1, <1>2

(* If it verifies and the root links a leaf that is not there, the root has  *)
(* proofs, unless that is its only child.                                    *)
LEMMA RootHasProofs ==
    ASSUME g \in Shapes, NEW d, GoodDag(d), Verify(g, d), NEW l \in d[Root].links, l \notin DOMAIN d,
           Cardinality(g[Root]) # 1
    PROVE  DOMAIN d[Root].proofs # {}
<1>1. Root \in Leaf /\ GoodCopy(d, Root) /\ d[Root].links = g[Root]
  BY LeafAssumption DEF GoodDag, GoodCopy
<1>2. l \in Leaf /\ IsFiniteSet(g[Root])
  BY <1>1, LinksOfShape
<1>3. IsPartial(d)
  BY <1>2, NotPartial DEF GoodDag
<1>4. VerifyPartialRoot(g, d)
  BY <1>3 DEF Verify, VerifyWithProofs
<1>5. Cardinality(g[Root]) \in Nat /\ Cardinality(g[Root]) # 0
  BY <1>1, <1>2, FS_CardinalityType, FS_EmptySet
<1>6. HasAllLinks(g, d, Root) /\ CurrentLinkCount(g, Root) # 1
  BY <1>1, <1>5 DEF HasAllLinks, CurrentLinkCount
<1> QED
  BY <1>4, <1>6 DEF VerifyPartialRoot

(* A leaf reaches strictly more than its child does.                         *)
LEMMA ParentReachesMore ==
    ASSUME NEW shape \in Shapes, NEW p \in Leaf, NEW c \in shape[p]
    PROVE  Cardinality(Leaf \ Reach(shape, {p})) < Cardinality(Leaf \ Reach(shape, {c}))
<1>1. shape \in [Leaf -> SUBSET Leaf] /\ p \notin Reach(shape, shape[p])
  BY ShapesAssumption DEF IsDag
<1>2. Reach(shape, {c}) \subseteq Reach(shape, shape[p])
  BY DEF Reach
<1>3. Reach(shape, {c}) \subseteq Reach(shape, {p}) /\ p \in Reach(shape, {p})
  BY DEF Reach
<1> DEFINE below(l) == Leaf \ Reach(shape, {l})
<1>4. below(p) \subseteq below(c) /\ p \in below(c) /\ p \notin below(p)
  BY <1>1, <1>2, <1>3
<1>5. IsFiniteSet(below(c)) /\ IsFiniteSet(below(p))
  BY LeafAssumption, FS_Subset
<1> HIDE DEF below
<1>6. Cardinality(below(p)) \in Nat /\ Cardinality(below(c)) \in Nat
  BY <1>5, FS_CardinalityType
<1>7. Cardinality(below(p)) <= Cardinality(below(c)) /\ Cardinality(below(p)) # Cardinality(below(c))
  BY <1>4, <1>5, FS_Subset
<1> QED
  BY <1>6, <1>7 DEF below

(* So a set of its leaves that holds the root, and with a leaf its children, *)
(* is the whole of a DAG.                                                    *)
LEMMA ClosedIsAll ==
    ASSUME g \in Shapes, NEW d, GoodDag(d), NEW T, T \subseteq DOMAIN d, Root \in T,
           \A p \in T : d[p].links \cap DOMAIN d \subseteq T
    PROVE  T = DOMAIN d
<1> SUFFICES ASSUME DOMAIN d \ T # {} PROVE FALSE
  OBVIOUS
<1> DEFINE missing == DOMAIN d \ T
           size(l) == Cardinality(Leaf \ Reach(g, {l}))
           sizes == {size(l) : l \in missing}
<1>1. \A l \in missing : size(l) \in Nat
  BY LeafAssumption, FS_Subset, FS_CardinalityType
<1>2. PICK m \in sizes : \A k \in sizes : m <= k
  <2>1. sizes \subseteq Nat /\ sizes # {}
    BY <1>1
  <2> HIDE DEF sizes
  <2> QED
    BY <2>1, Least
<1>3. PICK c \in missing : \A l \in missing : size(c) <= size(l)
  BY <1>2
<1>4. c \in Leaf \ {Root} /\ c \in DOMAIN d
  BY <1>3 DEF GoodDag
<1>5. PICK p \in Leaf : IsIndexedParent(g, p, c)
  BY <1>4, HasIndexedParent
<1>6. p \in DOMAIN d /\ c \in g[p]
  BY <1>4, <1>5 DEF GoodDag, IsIndexedParent, IsLowest
<1>7. c \in d[p].links
  BY <1>4, <1>6 DEF GoodDag, GoodCopy
<1>8. p \in missing
  BY <1>3, <1>4, <1>6, <1>7
<1>9. size(p) < size(c)
  BY <1>6, <1>5, ParentReachesMore
<1>10. size(c) <= size(p) /\ size(c) \in Nat /\ size(p) \in Nat
  BY <1>1, <1>3, <1>8
<1> HIDE DEF size
<1> QED
  BY <1>9, <1>10

(* What is sent is a DAG that GetPartial or the builder made, and of a leaf  *)
(* the walk is done with every child is in the sequence.                     *)
WalkInv ==
    /\ GoodDag(source)
    /\ Root \in Sequenced
    /\ \A i \in DOMAIN sequence : i <= expanded =>
          source[sequence[i].leaf].links \cap DOMAIN source \subseteq Sequenced

LEMMA WalkInit == SenderInit => WalkInv
<1> SUFFICES ASSUME SenderInit PROVE WalkInv
  OBVIOUS
<1>1. PICK k \in Senders : source \in Kinds(g)[k]
  BY DEF SenderInit
<1>2. GoodDag(source)
  BY <1>1, KindsGood, SendersAssumption DEF SenderInit
<1>3. Root \in Sequenced
  BY DEF SenderInit, Sequenced
<1>4. \A i \in DOMAIN sequence : ~(i <= expanded)
  BY DEF SenderInit
<1> QED
  BY <1>2, <1>3, <1>4 DEF WalkInv

LEMMA WalkStep == SenderInv /\ WalkInv /\ [ExtendSequence]_sent => WalkInv'
<1> SUFFICES ASSUME SenderInv, WalkInv, [ExtendSequence]_sent PROVE WalkInv'
  OBVIOUS
<1>1. sequence \in Seq(Entry) /\ expanded \in 0..Len(sequence)
  BY DEF SenderInv
<1>2. CASE UNCHANGED sent
  BY <1>2 DEF WalkInv, sent, Sequenced, GoodDag, GoodCopy, IsCopy, GenuineProofs
<1>3. CASE AppendChild
  <2>1. PICK e : sequence' = Append(sequence, e)
    BY <1>3 DEF AppendChild
  <2>2. /\ UNCHANGED <<g, source, expanded>>
        /\ \A i \in DOMAIN sequence : i \in DOMAIN sequence' /\ sequence'[i] = sequence[i]
        /\ \A i \in DOMAIN sequence' : i <= expanded => i \in DOMAIN sequence
    BY <1>1, <1>3, <2>1 DEF AppendChild
  <2>3. Sequenced \subseteq Sequenced'
    BY <2>2 DEF Sequenced
  <2>4. GoodDag(source)'
    BY <2>2 DEF WalkInv, GoodDag, GoodCopy, IsCopy, GenuineProofs
  <2> QED
    BY <2>2, <2>3, <2>4 DEF WalkInv
<1>4. CASE NextParent
  <2>1. /\ UNCHANGED <<g, source, sequence>> /\ expanded' = expanded + 1
        /\ Unvisited(sequence[expanded + 1].leaf) = {}
    BY <1>4 DEF NextParent
  <2>2. Sequenced' = Sequenced
    BY <2>1 DEF Sequenced
  <2>3. GoodDag(source)'
    BY <2>1 DEF WalkInv, GoodDag, GoodCopy, IsCopy, GenuineProofs
  <2>4. ASSUME NEW i \in DOMAIN sequence, i <= expanded + 1
        PROVE  source[sequence[i].leaf].links \cap DOMAIN source \subseteq Sequenced
    <3>1. i <= expanded \/ i = expanded + 1
      BY <1>1, <2>4
    <3> QED
      BY <2>1, <2>4, <3>1 DEF WalkInv, Unvisited
  <2> QED
    BY <2>1, <2>2, <2>3, <2>4 DEF WalkInv
<1> QED
  BY <1>2, <1>3, <1>4 DEF ExtendSequence

(* When it is done it has sent every leaf.                                   *)
LEMMA AllSequenced ==
    ASSUME SenderInv, WalkInv, Done
    PROVE  Sequenced = DOMAIN source
<1>1. Sequenced \subseteq DOMAIN source
  BY EntryFacts DEF Sequenced
<1>2. \A p \in Sequenced : source[p].links \cap DOMAIN source \subseteq Sequenced
  <2>1. ASSUME NEW i \in DOMAIN sequence PROVE i <= expanded
    BY DEF SenderInv, Done
  <2> QED
    BY <2>1 DEF WalkInv, Sequenced
<1> QED
  BY <1>1, <1>2, ClosedIsAll DEF SenderInv, WalkInv

=============================================================================
