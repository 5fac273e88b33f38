---------------------------- MODULE LeafSequence ----------------------------
(***************************************************************************)
(* What a sender of leaves holds, and the order in which it sends them:    *)
(* the breadth-first walk that GetLeafSequence, getPartialLeafSequence and *)
(* GetBatchedLeafSequence of src/dag/transmission.go have in common.       *)
(***************************************************************************)
EXTENDS PartialDag, Sequences

CONSTANTS Shapes,   \* the complete DAGs to be sent
          Senders   \* what the sender holds: "full", "partial", "pruned"

ASSUME ShapesAssumption == \A g \in Shapes : g \in [Leaf -> SUBSET Leaf] /\ IsDag(g)
ASSUME SendersAssumption == Senders \subseteq {"full", "partial", "pruned"}

VARIABLES g,         \* the complete DAG
          source,    \* the sender's Dag
          sequence,  \* the leaves to send, each with the parent it goes under
          expanded   \* how many of them had their children appended

sent == <<g, source, sequence, expanded>>

Kinds(shape) ==
    [full    |-> {FullDag(shape)},
     partial |-> {GetPartial(shape, r, FALSE) : r \in SUBSET Leaf \ {{}}},
     pruned  |-> {GetPartial(shape, r, TRUE) : r \in SUBSET Leaf \ {{}}}]

SenderInit ==
    /\ g \in Shapes
    /\ \E k \in Senders : source \in Kinds(g)[k]
    /\ sequence = <<[leaf |-> Root, parent |-> NoParent]>>
    /\ expanded = 0

\* The queue of the walk is the part of the sequence not yet expanded.
Sequenced == {sequence[i].leaf : i \in DOMAIN sequence}
Unvisited(p) == (source[p].links \cap DOMAIN source) \ Sequenced

\* The inner loop: the next child in hash order.
AppendChild ==
    /\ expanded < Len(sequence)
    /\ LET p == sequence[expanded + 1].leaf
       IN  \E c \in Unvisited(p) :
              /\ IsLowest(c, Unvisited(p))
              /\ sequence' = Append(sequence, [leaf |-> c, parent |-> p])
    /\ UNCHANGED <<g, source, expanded>>

\* The outer loop: on to the next leaf of the queue.
NextParent ==
    /\ expanded < Len(sequence)
    /\ Unvisited(sequence[expanded + 1].leaf) = {}
    /\ expanded' = expanded + 1
    /\ UNCHANGED <<g, source, sequence>>

ExtendSequence == AppendChild \/ NextParent

Done == expanded = Len(sequence)
=============================================================================
