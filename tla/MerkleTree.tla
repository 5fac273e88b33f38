----------------------------- MODULE MerkleTree -----------------------------
(***************************************************************************)
(* The classic Merkle tree of src/merkletree/merkletree.go: New, which     *)
(* builds the tree or the proofs of all blocks, level by level, alone or   *)
(* with a pool of workers, and Verify and Proof.                           *)
(*                                                                         *)
(* Indices count from 0, as in the code.  Hashes are ideal: the hash of a  *)
(* block d is <<d>>, that of two concatenated hashes is <<a, b>>.          *)
(***************************************************************************)
EXTENDS Integers, Sequences, FiniteSetsExt

CONSTANTS Blocks,    \* the data blocks, sequences in the order of their keys
          Modes,     \* Config.Mode
          Routines   \* Config.NumRoutines, or 0 if not RunInParallel

ASSUME ModesAssumption ==
    Modes \subseteq {"ModeProofGen", "ModeTreeBuild", "ModeProofGenAndTreeBuild"}
ASSUME RoutinesAssumption == Routines \subseteq Nat

\* A block stands for its rank among the keys.
ASSUME BlocksAssumption == \A bs \in Blocks : bs \in Seq(Nat)
\* (So it is of all numbers; stated because the prover knows nothing of powers.)
ASSUME PowersAssumption ==
    2^0 = 1 /\ \A bs \in Blocks : \A k \in 0..Len(bs) : 2^(k + 1) = 2 * 2^k

VARIABLES
    blocks, mode, routines,         \* the input of New
    phase,                          \* the loop that New is in
    at,                             \* for each worker of the loop, its i
    step,                           \* the level it works on, and that level's
    buffer, temp, length,           \*    nodes, the next ones, and their number
    leaves, nodes, proofs, Root,    \* Leaves, nodes, Proofs and Root of the tree
    leafMap, mapped                 \* leafMap, and how many leaves it was given

input == <<blocks, mode, routines>>
level == <<step, buffer, temp, length>>
tree == <<leaves, nodes, proofs, Root>>
map == <<leafMap, mapped>>
vars == <<input, phase, at, level, tree, map>>

NumLeaves == Len(blocks)
IsDepth(n, d) == n <= 2^d /\ \A e \in 0..d - 1 : 2^e < n
Depth == CHOOSE d \in 0..NumLeaves : IsDepth(NumLeaves, d)
Parallel == routines > 0

Unset == <<>>
Empty == [i \in {} |-> Unset]
Slice(n) == [i \in 0..n - 1 |-> Unset]
LeafHash(d) == <<d>>
Concat(a, b) == <<a, b>>

\* Mutant: workers begin next to each other, whatever they advance by.
LoopFromNeighbours(unit, bound) ==
    [w \in 0..(IF Parallel THEN Min({routines, bound}) ELSE 1) - 1 |-> w]

\* A loop over 0, unit, 2 * unit, ... that min(NumRoutines, bound) workers share.
Loop(unit, bound) ==
    [w \in 0..(IF Parallel THEN Min({routines, bound}) ELSE 1) - 1 |-> w * unit]
Workers == DOMAIN at
Iterate(w, bound, stride) == at[w] < bound /\ at' = [at EXCEPT ![w] = @ + stride]
LoopDone(bound) == \A w \in Workers : at[w] >= bound

\* Trees need two blocks.
Init ==
    /\ blocks \in Blocks /\ mode \in Modes /\ routines \in Routines
    /\ phase = IF NumLeaves <= 1 THEN "failed" ELSE "leaves"
    /\ at = Loop(1, NumLeaves)
    /\ step = 0 /\ buffer = Empty /\ temp = Empty /\ length = 0
    /\ leaves = Slice(NumLeaves) /\ nodes = Empty /\ proofs = Empty /\ Root = Unset
    /\ leafMap = [h \in {} |-> 0] /\ mapped = 0

-----------------------------------------------------------------------------
(* Levels *)

\* Mutant: the first node stands in for the missing one.
FixWithFirst(buf, n) ==
    IF n % 2 = 0 THEN buf
    ELSE [i \in DOMAIN buf \cup {n} |-> IF i = n THEN buf[0] ELSE buf[i]]

\* A level of odd length repeats its last node, in a slice that may be longer.
FixOddLength(buf, n) ==
    IF n % 2 = 0 THEN buf
    ELSE [i \in DOMAIN buf \cup {n} |-> IF i = n THEN buf[n - 1] ELSE buf[i]]
FixedLength(n) == n + (n % 2)

InitProofs == [i \in 0..NumLeaves - 1 |-> [siblings |-> <<>>, path |-> 0]]

\* Nodes idx and idx + 1 become siblings of the proofs below the other one.
UpdateProofPairs(idx, batch) ==
    [i \in DOMAIN proofs |->
        IF i \in idx * batch..idx * batch + batch - 1
        THEN [siblings |-> Append(proofs[i].siblings, buffer[idx + 1]), path |-> proofs[i].path + batch]
        ELSE IF i \in idx * batch + batch..idx * batch + 2 * batch - 1
        THEN [proofs[i] EXCEPT !.siblings = Append(@, buffer[idx])]
        ELSE proofs[i]]

-----------------------------------------------------------------------------
(* The steps of New *)

\* generateLeaves and workerGenerateLeaves.
GenerateLeaf(w) ==
    /\ phase = "leaves"
    /\ Iterate(w, NumLeaves, Cardinality(Workers))
    /\ leaves' = [leaves EXCEPT ![at[w]] = LeafHash(blocks[at[w] + 1])]
    /\ UNCHANGED <<input, phase, level, nodes, proofs, Root, map>>

\* generateProofs begins with the proofs' first siblings, buildTree with the
\* levels, which the workers compute first if there are any.
BeginProofs ==
    /\ phase = "leaves" /\ LoopDone(NumLeaves) /\ mode = "ModeProofGen"
    /\ phase' = "proofs"
    /\ at' = Loop(2, NumLeaves)
    /\ buffer' = FixOddLength(leaves, NumLeaves)
    /\ length' = FixedLength(NumLeaves)
    /\ temp' = IF Parallel THEN Slice(length' \div 2) ELSE Empty
    /\ proofs' = InitProofs
    /\ UNCHANGED <<input, step, leaves, nodes, Root, map>>

\* The loop over the levels of the tree, from the one with i nodes.
BeginLevel(p, i) ==
    /\ phase' = p
    /\ length' = i
    /\ at' = IF p = "pool" THEN Loop(2, i) ELSE [w \in {0} |-> 0]

BeginTree ==
    /\ phase = "leaves" /\ LoopDone(NumLeaves) /\ mode # "ModeProofGen"
    /\ BeginLevel(IF Parallel THEN "pool" ELSE "nodes", FixedLength(NumLeaves))
    /\ nodes' = [i \in 0..Depth - 1 |->
                    IF i = 0 THEN FixOddLength(leaves, NumLeaves)
                    ELSE IF i = 1 THEN Slice(length' \div 2)
                    ELSE Empty]
    /\ UNCHANGED <<input, step, buffer, temp, leaves, proofs, Root, map>>

\* updateProofs and workerUpdateProofs.  The first level may lack its last node.
ProofsBound == IF mode = "ModeProofGen" /\ step = 0 THEN NumLeaves ELSE length

UpdateProofs(w) ==
    /\ phase = "proofs"
    /\ Iterate(w, ProofsBound, 2 * Cardinality(Workers))
    /\ proofs' = UpdateProofPairs(at[w], 2^step)
    /\ UNCHANGED <<input, phase, level, leaves, nodes, Root, map>>

\* Mutant: the workers write into the level they read.
HashLevelInPlace(w) ==
    /\ phase = "level"
    /\ Iterate(w, length, 2 * Cardinality(Workers))
    /\ buffer' = [buffer EXCEPT ![at[w] \div 2] = Concat(buffer[at[w]], buffer[at[w] + 1])]
    /\ UNCHANGED <<input, phase, step, length, temp, tree, map>>

\* generateProofs hashes a level in place, workerGenerateProofs into another.
HashLevel(w) ==
    /\ phase = "level"
    /\ Iterate(w, length, 2 * Cardinality(Workers))
    /\ LET hash == Concat(buffer[at[w]], buffer[at[w] + 1])
           i == at[w] \div 2
       IN  IF Parallel
           THEN temp' = [temp EXCEPT ![i] = hash] /\ UNCHANGED buffer
           ELSE buffer' = [buffer EXCEPT ![i] = hash] /\ UNCHANGED temp
    /\ UNCHANGED <<input, phase, step, length, tree, map>>

ComputeRoot(buf) == Concat(buf[0], buf[1])

\* Proofs have their siblings of a level: on to the next, or to the root.
NextStep ==
    /\ phase = "proofs" /\ LoopDone(ProofsBound) /\ mode = "ModeProofGen"
    /\ IF step + 1 < Depth
       THEN /\ phase' = "level" /\ step' = step + 1 /\ at' = Loop(2, length)
            /\ UNCHANGED Root
       ELSE /\ phase' = "done" /\ Root' = ComputeRoot(buffer)
            /\ UNCHANGED <<step, at>>
    /\ UNCHANGED <<input, buffer, temp, length, leaves, nodes, proofs, map>>

\* The next level is there; with workers, in the buffer they swap.
LevelDone ==
    /\ phase = "level" /\ LoopDone(length)
    /\ phase' = "proofs"
    /\ length' = FixedLength(length \div 2)
    /\ buffer' = FixOddLength(IF Parallel THEN temp ELSE buffer, length \div 2)
    /\ temp' = IF Parallel THEN buffer ELSE temp
    /\ at' = Loop(2, length')
    /\ UNCHANGED <<input, step, tree, map>>

\* workerBuildTree, and the loop of buildTree, which computes all levels again.
BuildNode(w) ==
    /\ phase \in {"pool", "nodes"} /\ step < Depth - 1
    /\ Iterate(w, length, 2 * (IF phase = "pool" THEN routines ELSE 1))
    /\ nodes' = [nodes EXCEPT ![step + 1][at[w] \div 2] =
                                  Concat(nodes[step][at[w]], nodes[step][at[w] + 1])]
    /\ UNCHANGED <<input, phase, level, leaves, proofs, Root, map>>

NodesDone ==
    /\ phase \in {"pool", "nodes"} /\ step < Depth - 1 /\ LoopDone(length)
    /\ BeginLevel(phase, FixedLength(length \div 2))
    /\ nodes' = [i \in DOMAIN nodes |->
                    IF i = step + 1 THEN FixOddLength(nodes[i], length \div 2)
                    ELSE IF i = step + 2 THEN Slice(length' \div 2)
                    ELSE nodes[i]]
    /\ step' = step + 1
    /\ UNCHANGED <<input, buffer, temp, leaves, proofs, Root, map>>

PoolDone ==
    /\ phase = "pool" /\ step = Depth - 1
    /\ BeginLevel("nodes", FixedLength(NumLeaves))
    /\ step' = 0
    /\ nodes' = [i \in DOMAIN nodes |-> IF i = 1 THEN Slice(length' \div 2) ELSE nodes[i]]
    /\ UNCHANGED <<input, buffer, temp, leaves, proofs, Root, map>>

TreeDone ==
    /\ phase = "nodes" /\ step = Depth - 1
    /\ phase' = "wait"
    /\ Root' = ComputeRoot(nodes[step])
    /\ UNCHANGED <<input, at, level, leaves, nodes, proofs, map>>

\* The goroutine that fills leafMap while the tree is built.
FillMap ==
    /\ phase \in {"pool", "nodes", "wait"} /\ mapped < NumLeaves
    /\ leafMap' = [h \in DOMAIN leafMap \cup {leaves[mapped]} |->
                      IF h = leaves[mapped] THEN mapped ELSE leafMap[h]]
    /\ mapped' = mapped + 1
    /\ UNCHANGED <<input, phase, at, level, tree>>

\* What comes after buildTree: nothing, or updating the proofs level by level.
AfterTree ==
    IF mode = "ModeTreeBuild"
    THEN phase' = "done" /\ UNCHANGED <<at, level, proofs>>
    ELSE /\ phase' = "proofs"
         /\ step' = 0 /\ buffer' = nodes[0] /\ length' = Cardinality(DOMAIN nodes[0])
         /\ at' = Loop(2, length')
         /\ proofs' = InitProofs
         /\ UNCHANGED temp

\* Mutant: buildTree returns before the map is filled.
GoOnWithoutMap ==
    /\ phase = "wait"
    /\ AfterTree
    /\ UNCHANGED <<input, leaves, nodes, Root, map>>

WaitForMap ==
    /\ phase = "wait" /\ mapped = NumLeaves
    /\ AfterTree
    /\ UNCHANGED <<input, leaves, nodes, Root, map>>

NextNodes ==
    /\ phase = "proofs" /\ LoopDone(ProofsBound) /\ mode = "ModeProofGenAndTreeBuild"
    /\ IF step + 1 < Depth
       THEN /\ step' = step + 1 /\ buffer' = nodes[step'] /\ length' = Cardinality(DOMAIN buffer')
            /\ at' = Loop(2, length')
            /\ UNCHANGED phase
       ELSE phase' = "done" /\ UNCHANGED <<step, buffer, length, at>>
    /\ UNCHANGED <<input, temp, tree, map>>

Finished == phase \in {"done", "failed"} /\ UNCHANGED vars

Work(w) == GenerateLeaf(w) \/ UpdateProofs(w) \/ HashLevel(w) \/ BuildNode(w)

Next == \/ \E w \in Workers : Work(w)
        \/ BeginProofs \/ NextStep \/ LevelDone
        \/ BeginTree \/ NodesDone \/ PoolDone \/ TreeDone \/ FillMap \/ WaitForMap \/ NextNodes
        \/ Finished

Spec == Init /\ [][Next]_vars

-----------------------------------------------------------------------------
(* Verify and Proof *)

\* The hash that a proof leads to from d: bit k of the path says that sibling
\* k is on the right.
Climb(d, proof) ==
    LET result[k \in 0..Len(proof.siblings)] ==
            IF k = 0 THEN LeafHash(d)
            ELSE IF (proof.path \div 2^(k - 1)) % 2 = 1
            THEN Concat(result[k - 1], proof.siblings[k])
            ELSE Concat(proof.siblings[k], result[k - 1])
    IN  result[Len(proof.siblings)]

Verify(d, proof, root) == Climb(d, proof) = root

\* Proof, once there is a tree, for a block whose hash is in leafMap.
Provable == {d \in {blocks[i] : i \in DOMAIN blocks} :
                mode # "ModeProofGen" /\ LeafHash(d) \in DOMAIN leafMap}
Proof(d) ==
    LET idx == leafMap[LeafHash(d)]
        up(k) == idx \div 2^k
        OnTheLeft(k) == up(k) % 2 = 0
        path[k \in 0..Depth] ==
            IF k = 0 THEN 0 ELSE path[k - 1] + (IF OnTheLeft(k - 1) THEN 2^(k - 1) ELSE 0)
    IN  [siblings |-> [k \in 1..Depth |->
                         nodes[k - 1][IF OnTheLeft(k - 1) THEN up(k - 1) + 1 ELSE up(k - 1) - 1]],
         path |-> path[Depth]]

-----------------------------------------------------------------------------
(* Properties *)

\* The tree by definition: node i of level k, where a node without a right
\* neighbour is its own.
LastNode(bs, k) == (Len(bs) - 1) \div 2^k
Level(bs) ==
    LET node[k \in 0..Len(bs)] ==
            [i \in 0..LastNode(bs, k) |->
                IF k = 0 THEN LeafHash(bs[i + 1])
                ELSE Concat(node[k - 1][2 * i],
                            node[k - 1][Min({2 * i + 1, LastNode(bs, k - 1)})])]
    IN  node
IdealRoot(bs) == Level(bs)[CHOOSE k \in 0..Len(bs) : LastNode(bs, k) = 0
                              /\ \A j \in 0..k - 1 : LastNode(bs, j) > 0][0]

\* While levels are hashed, by whatever workers, a proof leads from its block
\* to the node above it on the level the proof has reached, and no proof is
\* more than one level ahead.
ProofsClimb ==
    \A i \in DOMAIN proofs :
        LET k == Len(proofs[i].siblings)
        IN  /\ k \in step..step + 1
            /\ Climb(blocks[i + 1], proofs[i]) = Level(blocks)[k][i \div 2^k]

\* In every mode and with any number of workers the root is that of the tree
\* by definition, and no other set of blocks, in the order of their hashes,
\* has that root.
Ascending(bs) == \A i, j \in DOMAIN bs : i < j => bs[i] < bs[j]
RootCommits ==
    phase = "done" =>
        /\ Root = IdealRoot(blocks)
        /\ Ascending(blocks) =>
              \A bs \in Blocks : (Len(bs) > 1 /\ Ascending(bs) /\ Root = IdealRoot(bs)) => bs = blocks

\* Every block has a proof, and that proof verifies no other block, whether
\* it was made with the tree or is read off it later: proofs made either way are
\* the same where no block comes twice.
Provided(i) == {proofs[j] : j \in {i} \cap DOMAIN proofs} \cup
               {Proof(d) : d \in {blocks[i + 1]} \cap Provable}
ProofsExact ==
    phase = "done" =>
        \A i \in 0..NumLeaves - 1 :
            /\ mode # "ModeProofGen" => blocks[i + 1] \in Provable
            /\ mode # "ModeTreeBuild" => i \in DOMAIN proofs
            /\ Ascending(blocks) => Cardinality(Provided(i)) = 1
            /\ \A proof \in Provided(i), j \in 0..NumLeaves - 1 :
                  Verify(blocks[j + 1], proof, Root) <=> blocks[j + 1] = blocks[i + 1]

\* No two workers are about to touch the same leaf, proof or node, and none
\* reads a node that another one writes.
Reads(w) == CASE phase = "leaves" -> {}
              [] phase \in {"pool", "nodes"} -> {<<step, at[w]>>, <<step, at[w] + 1>>}
              [] OTHER -> {<<"buffer", at[w]>>, <<"buffer", at[w] + 1>>}
Writes(w) == CASE phase = "leaves" -> {<<"leaves", at[w]>>}
               [] phase \in {"pool", "nodes"} -> {<<step + 1, at[w] \div 2>>}
               [] phase = "level" -> {<<IF Parallel THEN "temp" ELSE "buffer", at[w] \div 2>>}
               [] OTHER -> {<<"proofs", i>> : i \in {j \in DOMAIN proofs :
                               j \div 2^step \in {at[w], at[w] + 1}}}
Bound == CASE phase = "leaves" -> NumLeaves [] phase = "proofs" -> ProofsBound [] OTHER -> length
Running == {w \in Workers : phase \in {"leaves", "proofs", "level", "pool"} /\ at[w] < Bound}
NoRace == \A v, w \in Running : v # w => Writes(v) \cap (Reads(w) \cup Writes(w)) = {}
=============================================================================
