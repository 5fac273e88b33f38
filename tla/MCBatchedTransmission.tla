----------------------- MODULE MCBatchedTransmission -----------------------
(* Small DAGs for BatchedTransmission.                                     *)
EXTENDS BatchedTransmission

\* Every DAG whose leaves are four hashes, the root's the second lowest.
FourLeaves == 1..4
FourRoot == 2
AllShapes == {s \in [FourLeaves -> SUBSET (FourLeaves \ {FourRoot})] : IsDag(s)}

\* Those of them whose root has two links and which are no trees.
SharedShapes ==
    {s \in AllShapes : /\ Cardinality(s[FourRoot]) = 2
                       /\ \E c \in FourLeaves : Cardinality({p \in FourLeaves : c \in s[p]}) > 1}

\* Five leaves: two parents below the root that share children, a child at two
\* depths, and a parent with children in two batches.
FiveLeaves == 1..5
FiveShapes ==
    {<<{4, 5}, {1, 3}, {4, 5}, {}, {}>>,
     <<{}, {3, 5}, {1, 4}, {}, {1, 4}>>,
     <<{3, 5}, {4, 5}, {}, {1}, {}>>,
     <<{}, {3, 4}, {4, 5}, {1, 5}, {}>>,
     <<{}, {1, 3, 4}, {1, 5}, {1, 5}, {}>>,
     <<{3, 4, 5}, {1}, {4, 5}, {}, {}>>}
=============================================================================
