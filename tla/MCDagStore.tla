---------------------------- MODULE MCDagStore ----------------------------
(* Small DAGs for DagStore.                                                *)
EXTENDS StoreIndex

\* Every DAG of three hashes, the root's the second lowest: a shared child, a
\* chain, two children.
ThreeLeaves == 1..3
SecondRoot == 2
SmallShapes == {s \in [ThreeLeaves -> SUBSET (ThreeLeaves \ {SecondRoot})] : IsDag(s)}
=============================================================================
