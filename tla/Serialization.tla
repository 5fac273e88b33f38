--------------------------- MODULE Serialization ---------------------------
(***************************************************************************)
(* Writing a DAG and reading it back: ToSerializable and FromSerializable  *)
(* of src/dag/serialize.go.  CBOR and JSON carry every field they are      *)
(* given; Labels and trees are not among the fields.                       *)
(***************************************************************************)
EXTENDS Leaves

\* Mutant: the test is left out.
NoPrunedLinks(g, d) == FALSE

\* Some copy has fewer links than its leaf was built with.
HasPrunedLinks(g, d) == \E l \in DOMAIN d : Cardinality(d[l].links) < CurrentLinkCount(g, l)

\* A Merkle root made anew from a copy's links is the one its leaf was hashed
\* with if these are the links its leaf was built with.
Rebuild(g, l, copy) == [links  |-> copy.links,
                        proofs |-> copy.proofs,
                        intact |-> copy.intact /\ copy.links = g[l]]

\* FromSerializable of ToSerializable.  The Merkle roots are made anew unless
\* the links of some copy were pruned.
Reloaded(g, d) ==
    [l \in DOMAIN d |->
        IF ~HasPrunedLinks(g, d) /\ Cardinality(d[l].links) > 1 THEN Rebuild(g, l, d[l])
        ELSE d[l]]
=============================================================================
