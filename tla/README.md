# A specification of Scionic Merkle Trees

This directory specifies the Go implementation of Scionic Merkle Trees in TLA+:
content-addressed DAGs of files whose directories and files commit to their
children through a classic Merkle root, and the protocol that sends such DAGs,
or verifiable parts of them, leaf by leaf. TLC checks the modules on small
instances; TLAPS proves the theorems of the `*Proofs` modules for every value
of their constants. `PROJECT.json` maps each definition to its source lines and
lists the runs, the mutants each property was tried on, and the hazards.

## The system

| Component | Source | State | Operations | Hard behaviour | What makes it correct |
|---|---|---|---|---|---|
| Leaves | `dag/leaves.go`, `dag/types.go` | a leaf: hash, links, `CurrentLinkCount`, Merkle root, proofs, content | `BuildLeaf`, `BuildRootLeaf`, `VerifyLeaf`, `VerifyBranch`, `VerifyChildrenAgainstMerkleRoot`, `Clone` | `Links` and `Proofs` are not hashed and change after the leaf is built | a hash pins the content and the set of children |
| Builder | `dag/dag.go` | `DagBuilder`: leaf map, statistics, mutex | `createDag`, `createDagParallel` | nested goroutine pools, two channels each, shared map | same DAG as the sequential build; exact totals; no deadlock, no lost job |
| Verification | `dag/dag.go` | reads a `Dag` | `Verify`, `verifyFullDag`, `verifyWithProofs`, `IterateDag` | leaves with several parents; partials whose links are pruned | accepts what the builder or `GetPartial` made |
| Partials | `dag/dag.go` | reads a `Dag`, makes another | `GetPartial` and its helpers, `completeParentProofs` | shared leaves need a proof under every parent kept | a partial verifies, and can be sent |
| Labels | `dag/dag.go` | `Dag.Labels` | `CalculateLabels`, `GetHashesByLabelRange`, `GetLabel` | inclusive ranges, order of `IterateDag` | what two parties call label *n* is the same leaf |
| Transmission | `dag/transmission.go` | the receiver's `Dag` | `GetLeafSequence`, `ApplyAndVerifyTransmissionPacket` | packets lost, repeated, reordered or damaged | proofs genuine, nothing lost, the result verifies |
| Batches | `dag/transmission.go` | the receiver's `Dag` | `GetBatchedLeafSequence`, `ApplyAndVerifyBatchedTransmissionPacket` | a parent and its children in different batches | same, per batch |
| Store | `dag/store.go` | leaf, content and index stores, cached counts, `RWMutex` | store, retrieve, delete, index, streaming verification | two-step writes, stale index, root set before its leaf | store and in-memory DAG agree, content is never missing, sending again repairs |
| Merkle tree | `merkletree/`, `tree/` | `Tree` | `New`, `Proof`, `Verify` | odd levels | a proof verifies exactly for its block |
| Chunking | `dag/fastcdc.go` | a window on a stream | `CutChunks`, `streamFastCDCChunks` | short reads, cut rule at the window's end | streaming and one-shot cuts agree |
| Diff | `diff/diff.go` | `DagDiff` | `Diff`, `DiffFromNewLeaves`, `ApplyToDAG`, `CreatePartialDag` | new root found in map order, early return | applying a diff to the old DAG gives the new one |
| Serialization | `dag/serialize.go` | `SerializableDag` | `ToSerializable`, `FromSerializable` | Merkle trees rebuilt on the way in | a DAG saved half-way can go on receiving |

The caller builds a `Dag` (builder, leaves, chunking, Merkle tree), perhaps
takes a partial of it, and turns it into packets (transmission, batches). The
caller carries the packets to another process, whose `Dag` or `DagStore`
verifies and applies each of them. Diff and labels let two parties agree on
which leaves to send. Except for the builder's pool and the store's mutex
nothing is concurrent inside the library: interleaving comes from the wire.

## Modules

| Module | Extends | What it models |
|---|---|---|
| `Leaves` | | leaves, hashes, branches, what is checked of one leaf |
| `DagCore` | `Leaves` | a DAG with one root, `Verify` |
| `PartialDag` | `DagCore` | `GetPartial` |
| `Serialization` | `Leaves` | `ToSerializable`, `FromSerializable` |
| `LeafSequence` | `PartialDag` | the sender's breadth-first walk |
| `Wire` | `LeafSequence` | the kinds of damage a leaf can come to on its way |
| `LeafPackets`, `LeafBatches` | `Wire` | what the sender makes of the walk, and the wire of it |
| `Transmission` | `LeafPackets`, `Serialization` | a `Dag` that receives packets |
| `BatchedTransmission` | `LeafBatches` | a `Dag` that receives batches; refines `LeafSync` |
| `DagStore`, `StoreIndex` | `LeafSequence` | a `DagStore` that receives packets and batches, its verification, labels and index |
| `DagUpdate`, `UpdateExchange` | `Serialization` | diffs, and a receiver that updates by them; refines `VersionRegister` |
| `Chunking` | | cutting streams, content made again |
| `ParallelBuild` | | the builder |
| `MerkleTree` | | the classic tree |
| `LeafSync`, `VersionRegister`, `LeafMap` | | abstract specifications |

### Leaves, DagCore, PartialDag

A leaf is the rank of its hash; the function `g` gives the links each leaf was
built with, that is, what its hash commits to. What a `Dag` stores is a *copy*:
its `links` may be pruned, its `proofs` are filled in, and `intact` says whether
content and hashed fields still match the hash. A Merkle root is the set of its
blocks and a branch is a leaf with the tree it was taken from, so that a branch
verifies against exactly the root it was built for. (Collision freedom of sha256
is assumed; that a root and a branch of `merkletree` behave like this is what
`RootCommits` and `ProofsExact` of `MerkleTree` check.) No hash covers the `Links`,
the `Proofs` or the declared parent of a leaf (`leaves.go:368-430`), so `VerifyLeaf`
of the model looks at `intact` only.

Two simplifications are explained where they are made. `verifyFullDag` walks the links
from the root, and checks a parent's children on its way into a child it is the first
to reach; the model asks for some set of leaves with the root in it that is closed
under links and whose parents all have the children they commit to. The walk visits
the least such set. A visited parent whose children were all reached before goes
unchecked in the code; that makes no difference here, as a link that its leaf was not
built with names no leaf, and the walk fails on it. And `verifyWithProofs` walks from
each leaf to the root by lowest parents; the model checks each step of these walks
once.

### Sending: LeafSequence, LeafPackets, Transmission

`LeafSequence` is the breadth-first walk of every sender: one action for each
child appended and one for each parent done. `Wire` tells three kinds of damage
apart, by what a receiver can notice of them: `leaf` is done to content or hashed
fields, `proof` to a proof that is there to be checked, and `unhashed` to what no
hash covers: an entry of the `Links` is lost or changes, proofs that the leaf brings
along change, another parent is declared. A changed hash is `Unknown`, one that
names no leaf. `LeafPackets` has the packet of an
entry. In `Transmission`, `Receive` is `ApplyAndVerifyTransmissionPacket` of a
packet it accepts; a rejected packet changes nothing, so it is no action.
`Restart` saves the receiver's DAG and reads it back, at any moment
(`Serialization`): Merkle roots are made anew from the links, unless some copy
was pruned, and a copy whose root changes is no longer `intact`. That happens to a
parent with damaged links: the proofs of its children are then checked against
another root, and their packets rejected until its own comes again. The wire is the
caller's, not in the repository: `Ordered` and `Redelivery` say what it may do, and
`damage`, chosen once out of `Damages`, which kinds of damage it does. `Covered` says
that none is of the third kind. A packet that never arrives is simply never
received.

### Batches: LeafBatches, BatchedTransmission, LeafSync

`starts` are the positions where a batch begins: `AppendToBatch` is the inner loop of
`GetBatchedLeafSequence`, and whether the next leaf begins a new batch depends on
sizes in bytes, which may be anything, so both are possible at every leaf. With
`batching` false every leaf is a batch without a proof, as for `BatchSize <= 0`.
`FinalProofs` is `finalizeBatch`. The receiver may already hold a partial of the same
DAG (`Holdings`), one that it has verified. `VerifyBatchedTransmissionPacket` looks
for a leaf's parent in the batch, then among what is held; `MergeCopy` and
`ApplyBatchedTransmissionPacket` merge copies instead of replacing them, which is the
main difference to single packets. Whatever changes in a batch's `Relationships` has
the batch rejected, although no hash covers them; changed `Links` do not. `accepted`
is bookkeeping of the caller's, used to say when batches are sent again.

`LeafSync` is what both protocols could promise and this one keeps: the receiver's
leaves grow from the root downwards, each below a parent that commits to it.
`Connected` maps its `target` to the leaves the sender holds and its `held` to the
receiver's. (Single packets do not implement it: one that arrives before its
parent is stored.)

### DagStore, StoreIndex, LeafMap

The same packets and batches, sound or with damage of the first two kinds, but kept in
a `LeafStore` and perhaps a `ContentStore` (`separateContent`). A memory store never
fails, has a call for whole batches, and counts and lists its leaves; any other store
may fail at each call, with the call done or not, and is searched from the root
(`Listed`). The content of leaves is told from the leaves: `inlined` are leaves stored
with it, `contents` those whose content is set aside. `StoreLeaf` and `DeleteLeaf`
make two calls; an outcome of a method is what it leaves behind and whether it
returned an error, and the end of the process between two calls leaves the same
behind. `Restart` opens a store again, `NewEmptyDagStore` and perhaps `SetRoot`; the
contents of memory stores are gone. `halved`, which the code does not have, marks
leaves whose deletion was cut short and whose content is therefore missing.

`LeafMap` says what a store promises of its leaves. `Retrievable` are those that
`RetrieveLeaf` returns whole, `Calls` the leaves that may come in one call with the
order they are stored in. A call adds all its leaves, or, where calls fail, a
beginning of them in this order; a deletion takes one away; the end of the process
takes those of a memory store. `KeepsLeaves` is the refinement.

`VerifyStreaming` is translated from `verifyFullDagStreaming`,
`verifyWithProofsStreaming` and their helpers, separately from `Verify`; so is
`CalculateLabels`. `StoreIndex` evaluates `BuildIndex` on whatever is stored.

### DagUpdate, UpdateExchange, VersionRegister

Versions of a DAG share leaves; each is named by its root. The receiver of
`DagUpdate` has a complete version and collects leaves as they come; `Update` is
`DiffFromNewLeaves` and `ApplyToDAG` of what was collected so far, and returns
nothing but an error when that fails. The new root is an unreferenced leaf that
has a leaf count, one of several in the order of a map. In `DagUpdate` any leaf
may come at any time. `UpdateExchange` has the senders: leaves come from parcels
that `Diff` and `CreatePartialDag` make of two versions, in part, mixed and in any
order. `VersionRegister` says what is promised: the receiver has one version, all
of it and nothing else, and takes another only when all of that is there. Leaf
counts are those of the versions; leaves that are not roots have none.

### Chunking

A file is a sequence of bytes, the gear table a constant function, the 64-bit hash
a number modulo `Modulus`, and a mask test a comparison with a limit: for the
properties only that the strict mask implies the loose one matters. `Read` returns
any number of bytes that fit, and the end of the file with the last of them or by
itself; it may fail. `window`, `eof` and `pc` are the locals of
`streamFastCDCChunks`; `Filled`, `Cut` and `Slice` are its loops and the one of
`streamFileChunks` for fixed sizes. `CutChunks` is the one-shot cutter, a recursive
function. The leaves of the chunks are a set, as they are linked in hash order;
`GetContentFromLeaf` sorts them by their names, which are numbers.

### ParallelBuild

`createDagParallel` on a tree given by constants. Each entry of the tree is a
task (`processDirectoryParallel` or `processFileParallel`), run by one goroutine
at a time: `pc`, `step`, `links`, `pending` and `ret` are its local state. A
directory of two entries or more has a pool: `jobs` and `results` are its
channels, `worker` and `exited` its goroutines, `closed` tells whether the closer
goroutine has closed the results. `mu`, `section`, `leafs` and `stats` are the
`DagBuilder`; `AddLeafSafe` is the three actions `Lock`, `LookUp` and `Store`, so
that an interleaving between the look-up and the update could happen if the mutex
did not prevent it. `failing` is chosen once: the entries whose reading fails.
`Sequential` is the sequential `createDag` as a recursive function of the tree,
translated from its own code (`processDirectory`, `processFile`), and
`MatchesSequential` compares the two. A leaf stands for its own hash. Left out:
additional data and the leaf processor, which are passed through, and `DagSize`,
which is kept the way `ContentSize` is.

### MerkleTree

`merkletree.New` as a state machine: `phase` is the loop it is in, and `at` holds,
for each worker that shares the loop, its `i`. Without `RunInParallel` there is
one worker. `GenerateLeaf`, `UpdateProofs`, `HashLevel` and `BuildNode` are one
iteration of one worker; the actions named after what is `Done` are the barriers
between loops (`gool.Pool.Map` waits for all workers; gool is external).
`buffer`, `temp` and `length` are the slices of `generateProofs`, with stale
entries behind `length` as in the code; `FillMap` is the goroutine that fills
`leafMap`. The tree by definition, `Level`, is a property's reference and is not
translated from code.

## Runs

| Run | Instance | Shows |
|---|---|---|
| `build_tree` | a root, two directories, one of them with a single entry, and four files, repeated files and chunks, two workers per pool, three entries that may fail, 36,404 states | exact totals, children before parents, each job in one place, no send after close, same result as the sequential build, termination |
| `send_full` | 33 DAGs of four leaves, sent complete, unordered, repeated, restarted, with damage of the first two kinds or of the last two, 34,491 states | genuine proofs and a complete DAG that verifies, unless `unhashed` damage was done; arrival whatever was done |
| `send_partial` | every partial, pruned or not, of the DAGs of five leaves two of which have no links, unordered, repeated, restarted, 67,585 states | honest packets accepted, no loss, verifies whenever the parents of what came are there |
| `send_damaged` | pruned partials, in order, repeated, damaged | violates `ProofsGenuine`: see below |
| `batch_cuts` | all 79 DAGs of four leaves and every partial of them, every cut and none, unordered, repeated, 29,146 states | an honest batch is accepted once those it builds on were |
| `batch_merge` | six DAGs of five leaves, every sender, onto every verified partial of the same DAG, in order, repeated, 71,448 states | nothing lost, verifies after every batch once what arrived hangs from what arrived |
| `batch_damaged` | 33 DAGs of four leaves, every cut and none, unordered, repeated, with damage of the first two kinds or of the third, 19,827 states | connected to the root whatever the damage; complete DAG verifies, and arrival once damage ends, unless `unhashed` damage was done |
| `store` | all DAGs of three leaves and every partial, packets and batches, with damage of the first two kinds, four kinds of store, failing calls, deletions, restarts, 14,676 states | both verifications agree, content is there, leaves come and go as in a map, labels and index agree with the DAG, arrival once calls fail no more |
| `update` | three versions over six leaves, 12 shapes, parcels in part and mixed, restarts, 6,552 states | sender and receiver see the same diff, whole parcels give the version, which parcels verify, updates are atomic |
| `update_parcel` | the same | violates `ParcelsVerify`: see below |
| `chunk` | every file of up to seven bytes out of two and three of twelve, chunks by content, of one byte, of three, none; every way to read, errors, 12,162 states | stream and buffer agree, sizes, the file comes back, the stream ends |
| `merkle_tree` | every list of at most four blocks out of three, every set of two to five out of five, six to nine different blocks; all modes; no, one, two or three workers, 69,206 states | no race, proofs right at every level, root and proofs as defined, roots tell sets apart |

Properties checked elsewhere are not repeated: `HonestAccepted` of packets, for
instance, is checked with partial senders, the harder case, and proved for all;
`VerifiesThroughout` of batches is checked where they merge, in `batch_merge`, and
proved for every receiver; `TypeOK` of `BatchedTransmission` is only proved.

Bounds. Two workers over three entries make every pool state occur: a worker with a
job, one waiting, one gone, results in any order; `MaxWorkers` only scales that. Files
of no, one and two chunks, two of them sharing a chunk, cover the branches of the
chunk callback. Four leaves are enough for a shared leaf under two parents of any rank
order, for one at two depths, and for one the root links too; the root is the second
lowest hash, so that a lowest parent may be the root, lower or higher. The runs with
`unhashed` damage take those 33 of the 79 DAGs whose root has two links and which are
no trees (`SharedShapes`): a root with one link to lose has no sibling whose proof
could be asked for, and chains and trees have no leaf that is still reached when a
link to it was lost. One damaged packet changes one entry of the links; several do so
to several leaves. Five leaves add two parents with two children in common, and in
`batch_merge` two partials that overlap without either holding the other, one of them
with a link to a leaf that the other brings under a lower parent. The store has three
leaves, of every shape: a chain, a shared child, two children; its questions are about
which calls failed, on each of them. Six leaves in `update` are three roots above a
directory and two files, so that one version adds, another takes away, and a third
moves a file up a level. Files of up to seven bytes over windows of five with floor
one and target three have windows cut by the strict limit, by the loose one, by the
ceiling and by the end; twelve bytes give more than ten chunks. Two to nine blocks
give Merkle trees of depth one to four, with an odd level at any height and two odd
levels in one tree; three workers are fewer than, as many as and more than the pairs
of a level.

Deadlock is checked in every run but `chunk`, where a file is done or has failed.

### What the code does otherwise than it says

`send_damaged`. `VerifyTransmissionPacket` asks for a proof when the parent has
more than one entry in `Links` (`transmission.go:189`). A pruned parent may have
one left of several. The proof of that child is then accepted unread and stored,
also over a good one, whereas `README.md:361` promises that packets allow
"individual leaf verification". `Verify` of the whole DAG, which goes by
`CurrentLinkCount`, does reject the result. For the other senders, or where no proof
is damaged, stored proofs are genuine as long as no `unhashed` damage is done: that
is theorem `ProofsAreGenuine`.

`update_parcel`. A version that only takes entries of its root away is sent as a
partial DAG of just the new root, unpruned and without proofs, as no child is in
it. If the root has several links, `Verify` calls this partial broken
(`dag.go:827`), although `tests/integration_test.go:161` requires of such a
partial that it verifies. The update itself works: `CompleteUpdates`. And it is the
only such case: `ParcelsVerifyWithAChild` says that a parcel verifies if its root has at
most one link or a child of it comes with it, and only then.

### What is not promised

- *What no hash covers.* A leaf whose `Links`, stored `Proofs` or declared parent
  changed on the way is accepted (`transmission.go:185`, `541`). As a packet it
  replaces the copy that is held (`206`): a lost link can leave the parent with one,
  so that its children's proofs are not asked for (`189`), and a changed one makes
  `Verify` fail. `Verify` of a complete DAG does not notice a lost link to a leaf
  that hangs from another parent too. `ProofsGenuine`, `CompleteVerifies`,
  `HonestAccepted`, `VerifiesThroughout` and `NothingLost` of packets are therefore
  about wires that are `Covered`. What does hold is `Arrives`: when leaves are sent
  again once such damage has ended, the DAG is complete and verifies, since the
  sound copy replaces the other. Not so with batches: `610-614` merges a changed
  link into the copy that is held, where no later batch takes it out. The DAG never
  verifies, and where the parent's children are checked against its whole set of
  links (`570`) the rest of them are rejected for ever. So `CompleteVerifies` and
  `Arrives` of batches both ask for `Covered`; `Connected` holds whatever the damage.
  Of stores only damage of the first two kinds is modelled, and all that is said of
  them is said for that.
- *Packets.* A full sender's repeated packet replaces a parent's copy and drops
  the proofs attached since (`transmission.go:206`), so `NothingLost` is stated for
  partial senders only; the DAG still verifies when complete. `CompleteVerifies`
  asks that the receiver verifies what the sender does, which a partial of just an
  unpruned root does not.
- *Batches.* With batching off a receiver cannot verify midway, as parents have
  neither all their children nor proofs. A damaged proof of a leaf that comes in a
  later batch is stored unread with its parent; the leaf's batch is then rejected
  until the parent's comes again. So stored proofs need not be genuine while
  damage goes on, and two parents' batches can take turns in blocking each other's
  children for ever, however fair the wire: `Arrives` assumes that damage ends.
  A batch that is merged onto a partial held before may bring, under one parent, a
  leaf that a held, unpruned parent links too and has no proof of. If that parent
  is the one `Verify` looks for, the merged DAG does not verify until the held
  parent's own batch comes (`AddBatchedTransmissionPacket` asks for the proof of
  the parent in the batch only). `VerifiesThroughout` therefore asks that what
  arrived hangs from what arrived (`HangsTogether`); with the last batch it does.
- *Stores.* `AddBatchedTransmissionPacket` sets the root before it checks and
  stores anything (`store.go:994`). If that fails, the same batch is rejected ever
  after, because its root leaf is taken for a root only while there is none, and
  `VerifyLeaf` fails on a root. Only a packet of the root helps, and `Arrives` of
  the store speaks of packets. Batches bring proofs nobody looks at, so a store
  may hold damaged ones; both verifications say so. Streaming verification rejects
  the partial of just a pruned root, which `Verify` accepts: `store.go:1331` lacks
  the test that the root has all its links. `StreamingAgrees` leaves out roots that
  are stored without any link.
- *Index.* A leaf may be listed before the parent the index names for it, when it
  hangs from two levels and the lower hash is on the lower level; "parent leaves come before
  children" (`store.go:506`, also 617) is true of one parent only. `IndexAgrees`
  states that.
- *Updates.* Without a new root among the leaves that came, `DiffFromNewLeaves`
  takes every old leaf for removed, and `ApplyToDAG` fails; with the roots of two
  updates it may take either. `Atomic` covers both.

## Fairness

`ParallelBuild` assumes `WF_vars(Next)`: some goroutine that can run does, which is
all the Go scheduler has to do for `Termination`. `Chunking` assumes that readers make
progress, as `io.Reader` asks of them: no bytes and no error cannot be returned for
ever. `Transmission` assumes that the sender's loop runs on, and that the caller sends
every leaf again, undamaged, until all have come and the result verifies if it did at
the sender (`Complete`); the library has no retry of its own, so `Arrives` says that
retrying is enough, not that it happens. Its premise is that `unhashed` damage ends,
or there is none; damage of the other kinds may go on. `BatchedTransmission` assumes
the same of whole batches: as long as one was not accepted, all are sent again.
`DagStore` assumes of the caller that the packet of a leaf that is not stored is sent
until the store has taken it, and its `Arrives` starts when calls fail no more.
`DagUpdate` and `MerkleTree` have no liveness property; the waits of the latter are
covered by the deadlock check.

## Proofs

The prover has no induction over data. Where a definition is recursive (sums,
folds, cuts, levels, trees), the proofs take the least counterexample instead: a
nonempty set of natural numbers has a least element, and a nonempty set of
directories one with no directory of the set below it (`NoCycleAssumption`). A
recursive function is a `CHOOSE`, so it is first shown that some function satisfies
its equation; then the equation can be used.

`ParallelBuildProofs`, from the module's assumptions alone:

- `TypeCorrect`, `Exclusion`, `LeafCountIsExact`: `LockInv` says who is in the
  section, that the mutex names it, and that a leaf seen absent is still absent when
  it is stored.
- `StatsAreExact`: a sum over a set does not depend on which element is taken out
  first (`TakesAny`), so storing a leaf adds its size and no other.
- `SendsBeforeClose`: `PoolInv` says that a closed channel means all workers exited
  and that an exited worker has no job.
- `JobsAreKept`: `JobInv` says that an entry is queued, held or answered, each at
  most once and none of them together.
- `NoDanglingLink`: `LinkInv` follows every leaf from the moment it is built: what is
  linked is stored or still pending ahead of the leaf that links it.
- `ParallelIsSequential`: the sequential `createDag` is unfolded to what it returns
  for an entry given what it returns below it (`Outcome`), and the loop over the
  results of a directory to the prefix it has joined. `FileInv` and `RunInv` say that
  every task that has returned has the sequential result and that one at work has
  linked what it has joined, in order; `LeafInv` that, when the build succeeds, the
  leaves added are those of the sequential build; `DagInv` puts the two together.

`LeafSequenceProofs` and `TransmissionProofs`, for every DAG and every partial:
the sender's entries name leaves it holds under parents that link them, no leaf is
sequenced twice and none before its parent (`OrderInv`); what it holds is such a DAG as
`GetPartial` and the builder make, and a leaf the walk is done with has its
children in the sequence (`GoodDag`, `WalkInv`); whatever the damage, the
receiver's copies have no links but those of their leaf and `Unknown`, which is
`TransmissionTypeCorrect`. While the wire is `Covered` they come from the sender, with
links of their own leaf and genuine proofs (`ReceiverCopy`). From this follow
`HonestIsAccepted`, `NothingIsLost`, `ProofsAreGenuine` (`SoundWires`: without pruned
partials, or without damaged proofs; `send_damaged` shows that the assumption is
needed), `CompleteDagVerifies` and, for receivers of partials,
`PartialsVerifyThroughout`. A restart keeps the invariant because a copy whose links
are not all there makes `FromSerializable` keep every root.

`BatchedTransmissionProofs`, for every DAG, every sender, every cut and every wire.
`Inv` adds to the sender's invariants that batches start inside the sequence and none
is accepted before it is complete, and that the receiver's copies are sound, with
links of their own leaf and, only where `unhashed` damage is done, `Unknown` (`LinksOf`).

- `BatchTypeCorrect`, `BatchLosesNothing`: `Accepted` says what an accepted batch
  makes of the receiver's DAG, `PacketFacts` what survives the wire.
- `BatchesImplementLeafSync`, for a receiver that held nothing: `Connected`. The
  first leaf of a batch hangs from a leaf outside it or is the root
  (`FirstOfBatch`), so an accepted batch finds its anchor among what is held; every
  other leaf has its parent in the batch or there. That the sender's own leaves are
  anchored (`SourceAnchored`) rests on every leaf but the root having a lowest
  parent, by well-foundedness of the naturals.
- `HonestBatchesAreAccepted`, `BatchesVerifyThroughout` (both without damage) and
  `CompleteBatchesVerify` (without damage, or from full senders over a wire that is
  `Covered`): `MergeInv`
  says that the receiver's copies are made of a verified DAG it held before and of
  what accepted batches brought, and of nothing else. `FinalCopySound` says what a batch
  brings of a leaf with several children: all of them, or the proofs.
  `HonestBatchesAreAccepted` is stated for batching, or for a receiver that
  held nothing.

`DagStoreProofs`, for every DAG, every sender, every kind of store and whatever fails:

- `ContentIsAvailable`: `ContentAvailable` is inductive by itself, as content is
  stored before and deleted before its leaf; `Full` states it of a state of the two
  stores, and each storing operator has a lemma about it.
- `StoreTypeCorrect`, `StreamingIsExact`: `IInv` says that the sender's pruned copies
  have some proof (`PrunedSource`: what pruned them kept a proof for each link that
  is left) and that stored copies come from the sender, with its links and none of
  its proofs lost (`Sound`). Then the search the streaming verification makes
  finds a set closed under the links that are there (`ListedFacts`), counts of
  children agree with the sets they count, and the two verifications agree at the
  root (`RootAgrees`), at each step (`StepsAgree`) and in the full case. The lemmas
  `SameCardinality` and `SameSender` equate the instances' own copies of operators
  with those of the module.
- `LabelsAreSound`, `IndexIsRight`: `Walk` and `Traversal` are recursive functions,
  and first have to be shown to run out. A step of theirs lists a leaf that was not
  listed, or takes one off what is pending (`StepIsLess`), so the pair of leaves left
  and length pending descends; `WalksAgree` and `WalkExists` then give the function
  its values, for both walks. A walk that stops at a missing leaf has listed the
  beginning of what the walk of the complete DAG lists, since up to there the two
  make the same steps (`WalkOfLess`). Of the search, `SearchInv` says that nothing
  is listed twice, each leaf comes after a parent, and no link of a listed leaf is
  forgotten; when it has run out it has listed all that hangs from the root
  (`NothingMissed`).
- `StoreImplementsMap`: `Whole` are the leaves that are retrieved whole from a state
  of the two stores. Storing a leaf makes it whole and leaves every other as it was
  (`WithLeavesWhole`); a call that fails has made it whole or changed nothing that is
  retrieved, as its content is stored first (`FailedLeafWhole`); the leaves before one
  at which a batch fails are a beginning of it, since each leaf has a place of its own
  in the sequence (`BeforeIsPart`). A deletion that is cut short has taken the leaf's
  content, so that the leaf is not whole any more, or nothing.

`DagUpdateProofs`, for versions of any shape and any leaves that arrive:

- `UpdatesAreAtomic`: `DagUpdate` implements `VersionRegister`. `IInv` says that the
  receiver's leaves are genuine and are exactly those of its version. A traversal
  that finds no leaf missing has found exactly the new version (`TraverseIsExact`),
  because it is a set closed under links, and least; reading the DAG back leaves it
  as it is (`ReloadedIsGenuine`), because it is complete.
- `UpdateTypeCorrect`, of the same invariant.
- `ExchangeIsUpdate`: a parcel consists of genuine leaves of versions, so with the
  senders of `UpdateExchange` the receiver is still one of `DagUpdate`'s, and its
  theorems hold.
- `SendersAndReceiversAgree`, `WholeParcelsUpdate`: the parcel is worked out to be the
  leaves of the new version that the old one does not have. `Diff` adds these leaves;
  of each, `CreatePartialDag` takes the leaf and its path to the root, and no leaf on
  such a path is an old one, since whatever is below an old leaf is old. So among what
  arrived only the root has a leaf count and is linked by nothing new, what the
  receiver removes is what the sender does, and the old leaves with the parcel's hold
  all of the new version.
- `ParcelsVerifyExactly`: a leaf of a parcel has a parent there, and each parent there
  has the proofs of its children that came (`ParcelStep`), so that only the root's own
  test can fail: it asks for some proof (`ParcelRootVerifies`).

`MerkleTreeProofs`, for any blocks, in every mode and with any number of workers.
`PowersAssumption`, that a power of two is twice the one before, is true of all
numbers; it is assumed because the prover knows nothing of powers, and TLC evaluates
it. That every number of leaves has a depth follows (`PowersGrow`).

- `WorkersNeverRace`: `Shares` says that the workers of a loop are at turns of
  their own, worker `w` at `w + stride * k`, which no two workers share as the
  stride is at least their number (`TurnsDiffer`). Every loop begins like that
  (`LoopShares`) and goes on like that (`IterationShares`); the rest of the
  invariant says that strides and bounds are numbers when a loop begins, for which
  the levels of the tree must be finite and all there.
- `RootIsThatOfTheTree`: `Comes` tells the turns of a loop that no worker has taken
  yet, `TurnTaken` that one iteration takes exactly one of them. `TreeInv` then says
  what the loop has done so far: leaves hashed, nodes built, or, where a level is
  hashed in place, which nodes the buffer holds already and which it still holds of
  the level below, with the last one repeated on a level of odd length
  (`FixHoldsLevel`). Two trees with one root have equal nodes level by level down to
  their leaves, and their depths are equal because a leaf is no node (`RootsDiffer`).
- `ProofsFollowTheTree`: `ProofsInv` says that the proof of a leaf reaches the level
  of the loop, or the next one if the turn of the leaf's pair was taken. `ClimbStep`
  adds a sibling: the bits of the path are those of the leaf's index (`BitsOfPath`),
  so climbing goes on with the right node on the right side.
- `EveryBlockIsProved`: `Reaches` says more than that a proof climbs: it is the one
  that `Made` describes, with the siblings of the leaf on each level and the path
  whose bits are the opposite of the index's (`PathOf`). `Proof` reads the same off
  the levels that are left (`DoneInv`, `ChosenPathIs`), at a place that the filled
  map knows (`MapInv`). One proof leads different blocks to different nodes
  (`ClimbsApart`), so it verifies no other block.

`ChunkingProofs`, for any file, any sizes and gear, and any reader:

- `SizesAreBounded`: `WindowInv` says that a window is cut only when it is full or
  holds all that is left of the file. A cut from more than the floor is above the
  floor (`CutBounds`), so a short chunk took all of a window that ended the file.
- `StreamsCutAlike`: `CutsInv` says that the chunks so far, followed by what
  `CutChunks` makes of the rest, are what it makes of the whole file. A full window is
  cut like the rest of the file, as no cut looks past the ceiling.
- `FilesComeBack`: `JoinInv` says that the chunks so far are the file up to the
  window; a list of leaves is joined in the order of the chunks.

Model-checked only: liveness (`Termination`, `Returns`, and `Arrives` of packets,
batches and stores), which needs fairness and `ENABLED`. Every invariant and every
safety property of the runs is a theorem.

## Plan

What is left:

1. The index over time: `AddToIndex` while leaves arrive, an index that leaves were
   added to since, and `UpdateParentHashesStreaming` writing from it.

## Not modelled

- Hash functions, CIDs, CBOR and JSON encodings: taken as injective, and as carrying
  every field. The conversions of packets copy fields one by one.
- The bytes of content, except in `Chunking`; file system reading beyond success
  and failure.
- Writing files: `CreateDirectory` and its streaming form go through the leaves the
  way `IterateDag` does and have no state of their own.
- Of labels, `GetHashesByLabelRange`, `GetLabel` and `ClearLabels`: a loop over
  numbers and a look-up.
- Of the store, a `RelationshipCache`, which no store in the repository has,
  changes to an index that was built, and packets and batches with damage that no hash
  covers; concurrent calls on one `DagStore`, whose
  readers take no lock.
- Of `merkletree`, `SortSiblingPairs` and `DisableLeafHashing`, which nothing here
  sets, and hash functions that fail.
- Printing and temporary files (`utils.go`), `tools/`, `testutil/`, and the
  conformance vectors of `spec/`: no logic of the system.
