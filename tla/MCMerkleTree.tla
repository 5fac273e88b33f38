---------------------------- MODULE MCMerkleTree ----------------------------
(* Small inputs for MerkleTree.                                            *)
EXTENDS MerkleTree

Upto(n) == [i \in 1..n |-> i]

\* No block and one, then every way to give two to four keys three blocks, and
\* every set of two to five blocks out of five.
AnyBlocks == UNION {[1..n -> 1..3] : n \in 0..4}
SetsOfBlocks == {bs \in UNION {[1..n -> 1..5] : n \in 2..5} : Ascending(bs)}

\* Larger trees, of every depth up to four, for loops with more pairs than
\* workers.
LargeSets == {Upto(n) : n \in 6..9}

MCBlocks == AnyBlocks \cup SetsOfBlocks \cup LargeSets
=============================================================================
