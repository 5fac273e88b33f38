--------------------------- MODULE ParallelBuild ---------------------------
(***************************************************************************)
(* Creation of a DAG from a file tree by the pool of goroutines of         *)
(* src/dag/dag.go: createDagParallel, processDirectoryParallel,            *)
(* processFileParallel and the mutex of DagBuilder.AddLeafSafe.            *)
(*                                                                         *)
(* Every entry of the tree is a task, run by one goroutine at a time: the  *)
(* caller's for the root, a pool worker's for the other entries.  A leaf   *)
(* is its own hash: two leaves are equal exactly when they have the same   *)
(* type, name, links and data, which is what an ideal CID distinguishes.   *)
(***************************************************************************)
EXTENDS Integers, FiniteSets, SequencesExt

CONSTANTS Dirs, Files,   \* the entries of the tree
          Root,          \* the entry the DAG is made of
          Entries,       \* [Dirs -> Seq(entries)], sorted by name
          Name,          \* [entries -> name relative to the parent directory]
          Content,       \* [Files -> Seq(blocks)], as the chunker cuts them
          BlockSize,     \* [blocks -> Nat]
          MaxWorkers,    \* DagBuilderConfig.MaxWorkers
          NumCPU,        \* runtime.NumCPU()
          MayFail,       \* the entries whose reading may return an error
          NoOne          \* nobody holds the mutex

Entry == Dirs \cup Files

ASSUME TreeAssumption ==
    /\ Dirs \cap Files = {}
    /\ Root \in Entry
    /\ Entries \in [Dirs -> Seq(Entry)]
    /\ \A d \in Dirs : IsInjective(Entries[d])
    /\ \A d, c \in Dirs : d # c => ToSet(Entries[d]) \cap ToSet(Entries[c]) = {}
    /\ \A d \in Dirs : Root \notin ToSet(Entries[d])
    /\ \A d \in Dirs : IsInjective([i \in DOMAIN Entries[d] |-> Name[Entries[d][i]]])
    /\ MayFail \subseteq Entry
    /\ Content \in [Files -> Seq(DOMAIN BlockSize)]
    /\ BlockSize \in [DOMAIN BlockSize -> Nat]
\* No directory is below itself: entry.IsDir() does not follow a link.
ASSUME NoCycleAssumption ==
    \A S \in SUBSET Dirs : S # {} => \E d \in S : ToSet(Entries[d]) \cap S = {}
ASSUME NoOneAssumption == NoOne \notin Entry
ASSUME WorkerAssumption == MaxWorkers \in Int /\ NumCPU \in Nat \ {0}

VARIABLES failing,    \* the entries whose reading fails in this behaviour
          pc,         \* [Entry -> where its task is]
          step,       \* [Entry -> chunks read, or results applied]
          links,      \* [Entry -> builder.Links]
          pending,    \* [Entry -> leaves its task has still to AddLeafSafe]
          ret,        \* [Entry -> what its task returned]
          jobs,       \* [Dirs -> the jobs channel, indexes of Entries[d]]
          worker,     \* [Dirs -> [worker -> index it processes, 0 if none]]
          exited,     \* [Dirs -> the workers that have exited]
          results,    \* [Dirs -> the results sent]
          closed,     \* [Dirs -> the results channel is closed]
          mu,         \* the task that holds DagBuilder.mu, or NoOne
          section,    \* [Entry -> where it is in AddLeafSafe]
          leafs, stats,  \* DagBuilder.Leafs and DagBuilder.stats
          dag         \* what createDagParallel returned

taskVars == <<pc, step, links, pending, ret>>
poolVars == <<jobs, worker, exited, results, closed>>
lockVars == <<mu, section, leafs, stats>>
vars == <<failing, taskVars, poolVars, lockVars, dag>>

-----------------------------------------------------------------------------
(* Leaves *)

ChunkLeaf(i, b) == [type |-> "chunk", index |-> i, data |-> <<b>>]

\* BuildLeaf: the links of a directory are sorted, so their order is not
\* part of the leaf; those of a file stay in chunk order.
BuildLeaf(e, ls, data) ==
    IF e \in Dirs
    THEN [type |-> "dir", name |-> Name[e], links |-> ToSet(ls)]
    ELSE [type |-> "file", name |-> Name[e], chunks |-> ls, data |-> data]

\* The leaf's own Links.
LinksOf(leaf) == IF leaf.type = "dir" THEN leaf.links
                 ELSE IF leaf.type = "file" THEN ToSet(leaf.chunks) ELSE {}

SizeOf(leaf) ==
    IF leaf.type # "dir" /\ leaf.data # <<>> THEN BlockSize[leaf.data[1]] ELSE 0

\* BuildRootLeafWithStats: the same leaf, with the totals of the whole DAG.
BuildRootLeaf(leaf, st) ==
    [leaf |-> leaf,
     LeafCount |-> st.LeafCount + 1,
     ContentSize |-> st.ContentSize + SizeOf(leaf)]

Built(l) == [ok |-> TRUE, leaf |-> l]
Error(e)   == [ok |-> FALSE, at |-> e]
NoRet      == [ok |-> FALSE]

\* A file of one block keeps it; of two or more, each block is a chunk leaf.
FileData(f)   == IF Len(Content[f]) = 1 THEN Content[f] ELSE <<>>
FileChunks(f) == IF Len(Content[f]) < 2 THEN <<>>
                 ELSE [i \in 1..Len(Content[f]) |-> ChunkLeaf(i - 1, Content[f][i])]

-----------------------------------------------------------------------------
(* The sequential createDag, as the function of the tree it computes: the  *)
(* result of every entry, and the leaves added on the way.                 *)

AddAll(acc, child) ==
    IF ~acc.res.ok THEN acc
    ELSE [res |-> child.res,
          links |-> IF child.res.ok THEN Append(acc.links, child.res.leaf) ELSE acc.links,
          leafs |-> acc.leafs \cup child.leafs
                      \cup (IF child.res.ok THEN {child.res.leaf} ELSE {})]

Sequential(bad) ==
    LET out[e \in Entry] ==
        IF e \in bad THEN [res |-> Error(e), leafs |-> {}]
        ELSE IF e \in Files
        THEN [res |-> Built(BuildLeaf(e, FileChunks(e), FileData(e))),
              leafs |-> ToSet(FileChunks(e))]
        ELSE LET all == FoldLeft(AddAll,
                                 [res |-> [ok |-> TRUE], links |-> <<>>, leafs |-> {}],
                                 [i \in DOMAIN Entries[e] |-> out[Entries[e][i]]])
             IN  [res |-> IF all.res.ok THEN Built(BuildLeaf(e, all.links, <<>>)) ELSE all.res,
                  leafs |-> all.leafs]
    IN  out[Root]

ContentTotal(S) == MapThenSumSet(SizeOf, S)

\* What createDag returns: an error, or the DAG with its root leaf.
SequentialDag(bad) ==
    LET s == Sequential(bad)
        root == BuildRootLeaf(s.res.leaf, [LeafCount |-> Cardinality(s.leafs),
                                           ContentSize |-> ContentTotal(s.leafs)])
    IN  IF s.res.ok THEN [ok |-> TRUE, root |-> root, leafs |-> s.leafs] ELSE s.res

-----------------------------------------------------------------------------
(* The pool *)

Index(d) == DOMAIN Entries[d]

Smaller(a, b) == IF a < b THEN a ELSE b

NumWorkers(d) ==
    LET n == Len(Entries[d])
    IN  Smaller(CASE MaxWorkers = 0 -> NumCPU
                  [] MaxWorkers < 0 -> n
                  [] OTHER -> MaxWorkers, n)

Workers(d) == IF Len(Entries[d]) > 1 THEN 1..NumWorkers(d) ELSE {}

FirstPC(e) == IF e \in Files THEN "read" ELSE "open"

Init ==
    /\ failing \in SUBSET MayFail
    /\ pc = [e \in Entry |-> IF e = Root THEN FirstPC(e) ELSE "none"]
    /\ step = [e \in Entry |-> 0]
    /\ links = [e \in Entry |-> <<>>]
    /\ pending = [e \in Entry |-> <<>>]
    /\ ret = [e \in Entry |-> NoRet]
    /\ jobs = [d \in Dirs |-> <<>>]
    /\ worker = [d \in Dirs |-> [w \in Workers(d) |-> 0]]
    /\ exited = [d \in Dirs |-> {}]
    /\ results = [d \in Dirs |-> {}]
    /\ closed = [d \in Dirs |-> FALSE]
    /\ mu = NoOne
    /\ section = [e \in Entry |-> "out"]
    /\ leafs = {}
    /\ stats = [LeafCount |-> 0, ContentSize |-> 0]
    /\ dag = NoRet

\* The task of e is at p, not inside AddLeafSafe.
At(e, p) == pc[e] = p /\ pending[e] = <<>>

Return(e, r) == /\ pc' = [pc EXCEPT ![e] = "returned"]
                /\ ret' = [ret EXCEPT ![e] = r]

\* Mutant of LinkAndAdd: the chunk held back is linked, but never added.
LinkAndAddLast(e, ls) == /\ links' = [links EXCEPT ![e] = @ \o ls]
                         /\ pending' = [pending EXCEPT ![e] = IF Len(ls) = 2 THEN Tail(ls) ELSE ls]

\* builder.AddLink(leaf.Hash); dag.AddLeafSafe(leaf, nil), for each leaf of ls.
LinkAndAdd(e, ls) == /\ links' = [links EXCEPT ![e] = @ \o ls]
                     /\ pending' = [pending EXCEPT ![e] = ls]

-----------------------------------------------------------------------------
(* Directories *)

\* os.ReadDir returns an error.
FailOpen(d) ==
    /\ At(d, "open") /\ d \in failing
    /\ Return(d, Error(d))
    /\ UNCHANGED <<failing, step, links, pending, poolVars, lockVars, dag>>

\* No entry: BuildLeaf at once.  One entry: the same goroutine processes it.
OpenSingle(d) ==
    /\ At(d, "open") /\ d \notin failing
    /\ Len(Entries[d]) <= 1
    /\ pc' = IF Entries[d] = <<>> THEN [pc EXCEPT ![d] = "build"]
             ELSE [pc EXCEPT ![d] = "single", ![Entries[d][1]] = FirstPC(Entries[d][1])]
    /\ UNCHANGED <<failing, step, links, pending, ret, poolVars, lockVars, dag>>

\* Mutant of OpenPool: jobs numbered from 0.
OpenPoolFromZero(d) ==
    /\ At(d, "open") /\ d \notin failing
    /\ Len(Entries[d]) > 1
    /\ pc' = [pc EXCEPT ![d] = "collect"]
    /\ jobs' = [jobs EXCEPT ![d] = [i \in DOMAIN Entries[d] |-> i - 1]]
    /\ UNCHANGED <<failing, step, links, pending, ret, worker, exited, results, closed,
                   lockVars, dag>>

\* Start the workers, send every job into a channel that holds them all, and
\* close it.  Nothing of this blocks.
OpenPool(d) ==
    /\ At(d, "open") /\ d \notin failing
    /\ Len(Entries[d]) > 1
    /\ pc' = [pc EXCEPT ![d] = "collect"]
    /\ jobs' = [jobs EXCEPT ![d] = [i \in DOMAIN Entries[d] |-> i]]
    /\ UNCHANGED <<failing, step, links, pending, ret, worker, exited, results, closed,
                   lockVars, dag>>

JoinSingle(d) ==
    /\ At(d, "single")
    /\ \E c \in ToSet(Entries[d]) :
          /\ pc[c] = "returned"
          /\ \/ /\ ret[c].ok
                /\ LinkAndAdd(d, <<ret[c].leaf>>)
                /\ pc' = [pc EXCEPT ![d] = "build"]
                /\ UNCHANGED ret
             \/ /\ ~ret[c].ok
                /\ Return(d, ret[c])
                /\ UNCHANGED <<links, pending>>
    /\ UNCHANGED <<failing, step, poolVars, lockVars, dag>>

\* Mutant of TakeJob: the job stays in the queue.
TakeJobTwice(d, w) ==
    /\ At(d, "collect")
    /\ w \notin exited[d] /\ worker[d][w] = 0
    /\ jobs[d] # <<>>
    /\ LET i == Head(jobs[d])
       IN  /\ worker' = [worker EXCEPT ![d][w] = i]
           /\ pc' = [pc EXCEPT ![Entries[d][i]] = FirstPC(Entries[d][i])]
    /\ UNCHANGED <<failing, step, links, pending, ret, jobs, exited, results, closed,
                   lockVars, dag>>

\* A worker receives a job and begins with its entry.
TakeJob(d, w) ==
    /\ At(d, "collect")
    /\ w \notin exited[d] /\ worker[d][w] = 0
    /\ jobs[d] # <<>>
    /\ LET i == Head(jobs[d])
       IN  /\ worker' = [worker EXCEPT ![d][w] = i]
           /\ pc' = [pc EXCEPT ![Entries[d][i]] = FirstPC(Entries[d][i])]
    /\ jobs' = [jobs EXCEPT ![d] = Tail(@)]
    /\ UNCHANGED <<failing, step, links, pending, ret, exited, results, closed, lockVars, dag>>

\* The entry's task has returned: send the result, ask for the next job.
SendResult(d, w) ==
    /\ w \notin exited[d]
    /\ \E i \in Index(d) :
          /\ worker[d][w] = i
          /\ pc[Entries[d][i]] = "returned"
          /\ results' = [results EXCEPT ![d] = @ \cup {[index |-> i, res |-> ret[Entries[d][i]]]}]
    /\ worker' = [worker EXCEPT ![d][w] = 0]
    /\ UNCHANGED <<failing, taskVars, jobs, exited, closed, lockVars, dag>>

\* The jobs channel is closed and drained: wg.Done().
ExitWorker(d, w) ==
    /\ At(d, "collect")
    /\ w \notin exited[d] /\ worker[d][w] = 0
    /\ jobs[d] = <<>>
    /\ exited' = [exited EXCEPT ![d] = @ \cup {w}]
    /\ UNCHANGED <<failing, taskVars, jobs, worker, results, closed, lockVars, dag>>

\* Mutant of CloseResults: closes when no job waits, before wg.Wait().
CloseResultsEarly(d) ==
    /\ At(d, "collect") /\ ~closed[d]
    /\ jobs[d] = <<>>
    /\ closed' = [closed EXCEPT ![d] = TRUE]
    /\ UNCHANGED <<failing, taskVars, jobs, worker, exited, results, lockVars, dag>>

\* The closer goroutine: wg.Wait(); close(results).
CloseResults(d) ==
    /\ At(d, "collect") /\ ~closed[d]
    /\ exited[d] = Workers(d)
    /\ closed' = [closed EXCEPT ![d] = TRUE]
    /\ UNCHANGED <<failing, taskVars, jobs, worker, exited, results, lockVars, dag>>

\* The collector has received every result: it sorts them by index.
SortResults(d) ==
    /\ At(d, "collect") /\ closed[d]
    /\ pc' = [pc EXCEPT ![d] = "apply"]
    /\ UNCHANGED <<failing, step, links, pending, ret, poolVars, lockVars, dag>>

\* The result that sort.Slice leaves at position k, counting from 0.
AtPosition(d, r, k) == Cardinality({q \in results[d] : q.index < r.index}) = k

\* One round of the loop over the sorted results.
ApplyResult(d) ==
    /\ At(d, "apply")
    /\ \E r \in results[d] :
          /\ AtPosition(d, r, step[d])
          /\ \/ /\ r.res.ok
                /\ LinkAndAdd(d, <<r.res.leaf>>)
                /\ step' = [step EXCEPT ![d] = @ + 1]
                /\ UNCHANGED <<pc, ret>>
             \/ /\ ~r.res.ok
                /\ Return(d, r.res)
                /\ UNCHANGED <<step, links, pending>>
    /\ UNCHANGED <<failing, poolVars, lockVars, dag>>

\* builder.BuildLeaf(additionalData) after the last AddLeafSafe.
BuildDir(d) ==
    /\ \/ At(d, "build")
       \/ At(d, "apply") /\ step[d] >= Cardinality(results[d])
    /\ Return(d, Built(BuildLeaf(d, links[d], <<>>)))
    /\ UNCHANGED <<failing, step, links, pending, poolVars, lockVars, dag>>

-----------------------------------------------------------------------------
(* Files *)

\* The leaves the n-th chunk gives rise to: the first is held back, the second
\* releases it as chunk leaf "0" before adding itself.
NewChunks(f, n) ==
    LET chunk(i) == ChunkLeaf(i - 1, Content[f][i])
    IN  IF n = 1 THEN <<>> ELSE IF n = 2 THEN <<chunk(1), chunk(2)>> ELSE <<chunk(n)>>

\* Mutant of ReadChunk: the loop's counter does not advance.
ReadChunkAgain(f) ==
    /\ At(f, "read")
    /\ step[f] < Len(Content[f])
    /\ LinkAndAdd(f, NewChunks(f, step[f] + 1))
    /\ UNCHANGED <<failing, pc, step, ret, poolVars, lockVars, dag>>

\* The callback of streamChunksFromFile.
ReadChunk(f) ==
    /\ At(f, "read")
    /\ step[f] < Len(Content[f])
    /\ step' = [step EXCEPT ![f] = @ + 1]
    /\ LinkAndAdd(f, NewChunks(f, step[f] + 1))
    /\ UNCHANGED <<failing, pc, ret, poolVars, lockVars, dag>>

\* The file cannot be opened, or ends before the size it had when opened.
FailRead(f) ==
    /\ At(f, "read") /\ f \in failing
    /\ Return(f, Error(f))
    /\ UNCHANGED <<failing, step, links, pending, poolVars, lockVars, dag>>

\* Mutant of BuildFile: the single chunk held back is forgotten.
BuildFileWithoutData(f) ==
    /\ At(f, "read") /\ f \notin failing
    /\ step[f] = Len(Content[f])
    /\ Return(f, Built(BuildLeaf(f, links[f], <<>>)))
    /\ UNCHANGED <<failing, step, links, pending, poolVars, lockVars, dag>>

\* A single chunk is the file leaf's own data.
BuildFile(f) ==
    /\ At(f, "read") /\ f \notin failing
    /\ step[f] = Len(Content[f])
    /\ LET data == IF step[f] = 1 THEN <<Content[f][1]>> ELSE <<>>
       IN  Return(f, Built(BuildLeaf(f, links[f], data)))
    /\ UNCHANGED <<failing, step, links, pending, poolVars, lockVars, dag>>

-----------------------------------------------------------------------------
(* DagBuilder.AddLeafSafe *)

\* Mutant of Lock: AddLeaf in place of AddLeafSafe.
LockNothing(e) ==
    /\ pending[e] # <<>> /\ section[e] = "out"
    /\ mu' = e
    /\ section' = [section EXCEPT ![e] = "locked"]
    /\ UNCHANGED <<failing, taskVars, poolVars, leafs, stats, dag>>

\* b.mu.Lock()
Lock(e) ==
    /\ pending[e] # <<>> /\ section[e] = "out"
    /\ mu = NoOne
    /\ mu' = e
    /\ section' = [section EXCEPT ![e] = "locked"]
    /\ UNCHANGED <<failing, taskVars, poolVars, leafs, stats, dag>>

Unlock(e) == /\ mu' = NoOne
             /\ section' = [section EXCEPT ![e] = "out"]
             /\ pending' = [pending EXCEPT ![e] = Tail(@)]

\* addLeafUnsafe looks the hash up; a leaf that exists counts only once.
LookUp(e) ==
    /\ section[e] = "locked"
    /\ \/ /\ Head(pending[e]) \in leafs
          /\ Unlock(e)
       \/ /\ Head(pending[e]) \notin leafs
          /\ section' = [section EXCEPT ![e] = "absent"]
          /\ UNCHANGED <<mu, pending>>
    /\ UNCHANGED <<failing, pc, step, links, ret, poolVars, leafs, stats, dag>>

Store(e) ==
    /\ section[e] = "absent"
    /\ leafs' = leafs \cup {Head(pending[e])}
    /\ stats' = [LeafCount |-> stats.LeafCount + 1,
                 ContentSize |-> stats.ContentSize + SizeOf(Head(pending[e]))]
    /\ Unlock(e)
    /\ UNCHANGED <<failing, pc, step, links, ret, poolVars, dag>>

-----------------------------------------------------------------------------
(* createDagParallel: the root leaf is rebuilt with the totals, and added. *)

FinishDag ==
    /\ pc[Root] = "returned" /\ mu = NoOne /\ dag = NoRet
    /\ dag' = IF ret[Root].ok
              THEN [ok |-> TRUE, root |-> BuildRootLeaf(ret[Root].leaf, stats), leafs |-> leafs]
              ELSE ret[Root]
    /\ UNCHANGED <<failing, taskVars, poolVars, lockVars>>

Finished == dag # NoRet /\ UNCHANGED vars

DirStep(d) ==
    \/ FailOpen(d) \/ OpenSingle(d) \/ OpenPool(d) \/ JoinSingle(d)
    \/ CloseResults(d) \/ SortResults(d) \/ ApplyResult(d) \/ BuildDir(d)
    \/ \E w \in Workers(d) : TakeJob(d, w) \/ SendResult(d, w) \/ ExitWorker(d, w)
FileStep(f) == ReadChunk(f) \/ FailRead(f) \/ BuildFile(f)
LockStep(e) == Lock(e) \/ LookUp(e) \/ Store(e)

Next == \/ \E d \in Dirs : DirStep(d)
        \/ \E f \in Files : FileStep(f)
        \/ \E e \in Entry : LockStep(e)
        \/ FinishDag
        \/ Finished

Spec == Init /\ [][Next]_vars

\* The Go scheduler runs some goroutine as long as one can run.
FairSpec == Spec /\ WF_vars(Next)
-----------------------------------------------------------------------------
(* Properties *)

PCs == {"none", "open", "single", "collect", "apply", "build", "read", "returned"}

FunctionOn(S, f) == f = [x \in S |-> f[x]]
IsSeq(s) == s \in Seq(ToSet(s))

\* Every variable keeps the shape its declaration gives it.
TypeOK ==
    /\ failing \subseteq MayFail
    /\ pc \in [Entry -> PCs]
    /\ step \in [Entry -> Nat]
    /\ FunctionOn(Entry, links)   /\ \A e \in Entry : IsSeq(links[e])
    /\ FunctionOn(Entry, pending) /\ \A e \in Entry : IsSeq(pending[e])
    /\ FunctionOn(Entry, ret)     /\ \A e \in Entry : ret[e].ok \in BOOLEAN
    /\ FunctionOn(Dirs, jobs)     /\ \A d \in Dirs : jobs[d] \in Seq(Index(d))
    /\ FunctionOn(Dirs, worker)
    /\ \A d \in Dirs : worker[d] \in [Workers(d) -> {0} \cup Index(d)]
    /\ FunctionOn(Dirs, exited)   /\ \A d \in Dirs : exited[d] \subseteq Workers(d)
    /\ FunctionOn(Dirs, results)
    /\ \A d \in Dirs : \A r \in results[d] : r.index \in Index(d) /\ r.res.ok \in BOOLEAN
    /\ closed \in [Dirs -> BOOLEAN]
    /\ mu \in Entry \cup {NoOne}
    /\ section \in [Entry -> {"out", "locked", "absent"}]
    /\ stats \in [LeafCount : Nat, ContentSize : Nat]

\* At most one goroutine is inside AddLeafSafe: the one DagBuilder.mu names.
MutualExclusion == \A e \in Entry : section[e] # "out" => mu = e

\* At every moment the builder's leaf count is the size of its map.
LeafCountExact == stats.LeafCount = Cardinality(leafs)

\* The totals the root leaf will carry count every leaf of the map once,
\* however many goroutines add it and however often the tree repeats it
\* (addLeafUnsafe: "must contribute to root statistics exactly once").
StatsExact == LeafCountExact /\ stats.ContentSize = ContentTotal(leafs)

\* A leaf enters DagBuilder.Leafs after every leaf it links to, whichever
\* goroutines process them: the builder never holds a dangling link.
ChildrenFirst == \A l \in leafs : LinksOf(l) \subseteq leafs

\* While a directory's pool runs, each of its entries is in exactly one
\* place: waiting in the jobs channel, with one worker, or in the results.
EveryJobOnce ==
    \A d \in Dirs : pc[d] \in {"collect", "apply"} =>
        \A i \in Index(d) :
            Cardinality({k \in DOMAIN jobs[d] : jobs[d][k] = i})
          + Cardinality({w \in Workers(d) : worker[d][w] = i})
          + Cardinality({r \in results[d] : r.index = i}) = 1

\* createDagParallel returns what the sequential createDag returns for the
\* same tree: the same leaves and root under the same totals, or the error
\* of the same entry (processDirectoryParallel: "maintain determinism").
MatchesSequential == dag # NoRet => dag = SequentialDag(failing)

\* No worker sends on the results channel once the closer has closed it:
\* in Go that send would panic.
NoSendAfterClose == [][\A d \in Dirs : closed[d] => results'[d] = results[d]]_vars

\* createDagParallel returns, whatever fails on the way and in whatever order
\* the goroutines run.
Termination == <>(dag # NoRet)
=============================================================================
