-------------------------- MODULE MCTransmission --------------------------
(* Small DAGs for Transmission.                                            *)
EXTENDS Transmission

\* Every DAG whose leaves are four hashes, the root's the second lowest: a
\* shared leaf can have the root, a lower or a higher hash as its lowest
\* parent.
FourLeaves == 1..4
FourRoot == 2
AllShapes == {s \in [FourLeaves -> SUBSET (FourLeaves \ {FourRoot})] : IsDag(s)}

\* Those of them whose root has two links and which are no trees.
SharedShapes ==
    {s \in AllShapes : /\ Cardinality(s[FourRoot]) = 2
                       /\ \E c \in FourLeaves : Cardinality({p \in FourLeaves : c \in s[p]}) > 1}

\* Every DAG of five hashes of which two have no links: parents that share
\* children, a child at two depths, a parent of three or four children.
FiveLeaves == 1..5
FiveShapes ==
    {s \in [FiveLeaves -> SUBSET (FiveLeaves \ {FourRoot})] :
        s[4] = {} /\ s[5] = {} /\ IsDag(s)}
=============================================================================
