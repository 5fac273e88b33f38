------------------------ MODULE ParallelBuildProofs ------------------------
(***************************************************************************)
(* Theorems about ParallelBuild, for every tree, every number of workers   *)
(* and every set of failing entries.                                       *)
(***************************************************************************)
EXTENDS ParallelBuild, FiniteSetTheorems, SequenceTheorems, WellFoundedInduction, TLAPS

(* The invariant of the mutex: who is inside AddLeafSafe holds mu, and what *)
(* the lookup found absent stays absent until it is stored.                 *)
LockInv ==
    /\ FunctionOn(Entry, pending)
    /\ FunctionOn(Entry, section)
    /\ \A e \in Entry : section[e] # "out" => mu = e /\ pending[e] # <<>>
    /\ \A e \in Entry : section[e] = "absent" => Head(pending[e]) \notin leafs
    /\ IsFiniteSet(leafs)
    /\ stats.LeafCount = Cardinality(leafs)

LEMMA LockInvInit == Init => LockInv
BY FS_EmptySet DEF Init, LockInv, FunctionOn

(* A step outside the mutex may give a task that is not in AddLeafSafe       *)
(* leaves to add; it touches nothing else that LockInv speaks of.            *)
LEMMA LockInvFrame ==
    ASSUME LockInv, NEW e \in Entry, NEW ls, section[e] = "out",
           pending' = [pending EXCEPT ![e] = ls], UNCHANGED lockVars
    PROVE  LockInv'
BY DEF LockInv, FunctionOn, lockVars

LEMMA LockInvStep == LockInv /\ [Next]_vars => LockInv'
<1> SUFFICES ASSUME LockInv, [Next]_vars PROVE LockInv'
  OBVIOUS
<1>0. ASSUME UNCHANGED <<pending, lockVars>> PROVE LockInv'
  BY <1>0 DEF LockInv, FunctionOn, lockVars
<1>idle. ASSUME NEW e \in Entry, pending[e] = <<>> PROVE section[e] = "out"
  BY <1>idle DEF LockInv
<1>1. ASSUME NEW d \in Dirs, DirStep(d) PROVE LockInv'
  <2> d \in Entry
    BY DEF Entry
  <2>1. CASE FailOpen(d) \/ OpenSingle(d) \/ OpenPool(d)
    BY <2>1, <1>0 DEF FailOpen, OpenSingle, OpenPool
  <2>2. CASE CloseResults(d) \/ SortResults(d) \/ BuildDir(d)
    BY <2>2, <1>0 DEF CloseResults, SortResults, BuildDir, taskVars
  <2>3. CASE JoinSingle(d)
    BY <2>3, <1>0, <1>idle, LockInvFrame DEF JoinSingle, At, LinkAndAdd
  <2>4. CASE ApplyResult(d)
    BY <2>4, <1>0, <1>idle, LockInvFrame DEF ApplyResult, At, LinkAndAdd
  <2>5. ASSUME NEW w \in Workers(d), TakeJob(d, w) \/ SendResult(d, w) \/ ExitWorker(d, w)
        PROVE  LockInv'
    BY <2>5, <1>0 DEF TakeJob, SendResult, ExitWorker, taskVars
  <2> QED
    BY <1>1, <2>1, <2>2, <2>3, <2>4, <2>5 DEF DirStep
<1>2. ASSUME NEW f \in Files, FileStep(f) PROVE LockInv'
  <2> f \in Entry
    BY DEF Entry
  <2>1. CASE ReadChunk(f)
    BY <2>1, <1>idle, LockInvFrame DEF ReadChunk, At, LinkAndAdd
  <2>2. CASE FailRead(f) \/ BuildFile(f)
    BY <2>2, <1>0 DEF FailRead, BuildFile
  <2> QED
    BY <1>2, <2>1, <2>2 DEF FileStep
<1>3. ASSUME NEW e \in Entry, LockStep(e) PROVE LockInv'
  <2>1. CASE Lock(e)
    BY <2>1, NoOneAssumption DEF Lock, LockInv, FunctionOn, taskVars
  <2>2. CASE LookUp(e)
    BY <2>2, NoOneAssumption DEF LookUp, Unlock, LockInv, FunctionOn
  <2>3. CASE Store(e)
    <3>1. /\ IsFiniteSet(leafs')
          /\ stats'.LeafCount = Cardinality(leafs')
      BY <2>3, FS_AddElement DEF Store, LockInv
    <3> QED
      BY <2>3, <3>1, NoOneAssumption DEF Store, Unlock, LockInv, FunctionOn
  <2> QED
    BY <1>3, <2>1, <2>2, <2>3 DEF LockStep
<1>4. CASE FinishDag \/ Finished \/ UNCHANGED vars
  BY <1>4, <1>0 DEF FinishDag, Finished, vars, taskVars
<1> QED
  BY <1>1, <1>2, <1>3, <1>4 DEF Next

LEMMA LockInvariant == Spec => []LockInv
BY LockInvInit, LockInvStep, PTL DEF Spec

\* DagBuilder.mu lets one goroutine at a time into AddLeafSafe.
THEOREM Exclusion == Spec => []MutualExclusion
<1>1. LockInv => MutualExclusion
  BY DEF LockInv, MutualExclusion
<1> QED
  BY <1>1, LockInvariant, PTL

\* The leaf count of the builder is exact in every reachable state: a leaf
\* added by several goroutines, or met several times in the tree, counts once.
THEOREM LeafCountIsExact == Spec => []LeafCountExact
<1>1. LockInv => LeafCountExact
  BY DEF LockInv, LeafCountExact
<1> QED
  BY <1>1, LockInvariant, PTL

-----------------------------------------------------------------------------
(* The results channel *)

(* The closer closes the channel after wg.Wait(), and a worker that has      *)
(* exited sends nothing.                                                     *)
PoolInv ==
    /\ FunctionOn(Dirs, exited) /\ FunctionOn(Dirs, closed) /\ FunctionOn(Dirs, results)
    /\ \A d \in Dirs : exited[d] \subseteq Workers(d)
    /\ \A d \in Dirs : closed[d] => exited[d] = Workers(d)

LEMMA PoolInvInit == Init => PoolInv
BY DEF Init, PoolInv, FunctionOn

LEMMA PoolInvStep == PoolInv /\ [Next]_vars => PoolInv'
<1> SUFFICES ASSUME PoolInv, [Next]_vars PROVE PoolInv'
  OBVIOUS
<1> USE DEF PoolInv, FunctionOn
<1>0. ASSUME UNCHANGED poolVars PROVE PoolInv'
  BY <1>0 DEF poolVars
<1>1. ASSUME NEW d \in Dirs, DirStep(d) PROVE PoolInv'
  <2>1. CASE FailOpen(d) \/ OpenSingle(d) \/ JoinSingle(d) \/ SortResults(d)
             \/ ApplyResult(d) \/ BuildDir(d)
    BY <2>1, <1>0 DEF FailOpen, OpenSingle, JoinSingle, SortResults, ApplyResult, BuildDir
  <2>2. CASE OpenPool(d)
    BY <2>2 DEF OpenPool
  <2>3. CASE CloseResults(d)
    BY <2>3 DEF CloseResults
  <2>4. ASSUME NEW w \in Workers(d), TakeJob(d, w) PROVE PoolInv'
    BY <2>4 DEF TakeJob
  <2>5. ASSUME NEW w \in Workers(d), SendResult(d, w) PROVE PoolInv'
    BY <2>5 DEF SendResult
  <2>6. ASSUME NEW w \in Workers(d), ExitWorker(d, w) PROVE PoolInv'
    BY <2>6 DEF ExitWorker
  <2> QED
    BY <1>1, <2>1, <2>2, <2>3, <2>4, <2>5, <2>6 DEF DirStep
<1>2. ASSUME NEW f \in Files, FileStep(f) PROVE PoolInv'
  BY <1>2, <1>0 DEF FileStep, ReadChunk, FailRead, BuildFile
<1>3. ASSUME NEW e \in Entry, LockStep(e) PROVE PoolInv'
  BY <1>3, <1>0 DEF LockStep, Lock, LookUp, Store
<1>4. CASE FinishDag \/ Finished \/ UNCHANGED vars
  BY <1>4, <1>0 DEF FinishDag, Finished, vars
<1> QED
  BY <1>1, <1>2, <1>3, <1>4 DEF Next

\* Only SendResult sends, and it needs a worker that has not exited.
LEMMA SendStep ==
    ASSUME PoolInv, [Next]_vars, NEW d \in Dirs, closed[d]
    PROVE  results'[d] = results[d]
<1>0. ASSUME UNCHANGED results PROVE results'[d] = results[d]
  BY <1>0
<1>1. ASSUME NEW c \in Dirs, DirStep(c) PROVE results'[d] = results[d]
  <2>1. ASSUME NEW w \in Workers(c), SendResult(c, w) PROVE results'[d] = results[d]
    BY <2>1 DEF SendResult, PoolInv, FunctionOn
  <2>2. ASSUME NEW w \in Workers(c), TakeJob(c, w) \/ ExitWorker(c, w)
        PROVE  results'[d] = results[d]
    BY <2>2 DEF TakeJob, ExitWorker
  <2> QED
    BY <1>1, <2>1, <2>2 DEF DirStep, FailOpen, OpenSingle, OpenPool, JoinSingle,
       CloseResults, SortResults, ApplyResult, BuildDir, poolVars
<1>2. ASSUME NEW f \in Files, FileStep(f) PROVE results'[d] = results[d]
  BY <1>2 DEF FileStep, ReadChunk, FailRead, BuildFile, poolVars
<1>3. ASSUME NEW e \in Entry, LockStep(e) PROVE results'[d] = results[d]
  BY <1>3 DEF LockStep, Lock, LookUp, Store, poolVars
<1> QED
  BY <1>1, <1>2, <1>3 DEF Next, FinishDag, Finished, vars, poolVars

\* No send on a closed results channel: in Go it would panic.
THEOREM SendsBeforeClose == Spec => NoSendAfterClose
<1>1. Init => PoolInv
  BY PoolInvInit
<1>2. PoolInv /\ [Next]_vars => PoolInv'
  BY PoolInvStep
<1>3. PoolInv /\ [Next]_vars => [\A d \in Dirs : closed[d] => results'[d] = results[d]]_vars
  BY SendStep
<1> QED
  BY <1>1, <1>2, <1>3, PTL DEF Spec, NoSendAfterClose

-----------------------------------------------------------------------------
(* Links *)

\* A sequence over any set is a sequence over the set of its own elements.
LEMMA SeqOfOwn == ASSUME NEW S, NEW s \in Seq(S) PROVE IsSeq(s)
<1>1. Len(s) \in Nat /\ s \in [1..Len(s) -> ToSet(s)]
  <2>1. Len(s) \in Nat /\ s \in [1..Len(s) -> S]
    BY LenProperties
  <2> QED BY <2>1 DEF ToSet
<1> QED BY <1>1, SeqDef DEF IsSeq

LEMMA TailSet ==
    ASSUME NEW s, IsSeq(s), s # <<>>
    PROVE  /\ IsSeq(Tail(s))
           /\ ToSet(s) = {Head(s)} \cup ToSet(Tail(s))
<1> DEFINE t == Tail(s)
<1>1. /\ t \in Seq(ToSet(s))
      /\ Len(s) \in Nat \ {0}
      /\ Len(t) = Len(s) - 1
      /\ \A i \in 1..Len(t) : t[i] = s[i + 1]
      /\ DOMAIN s = 1..Len(s) /\ DOMAIN t = 1..Len(t)
  BY DEF IsSeq
<1>2. IsSeq(t)
  BY <1>1, SeqOfOwn
<1>3. ToSet(s) \subseteq {Head(s)} \cup ToSet(t)
  <2> SUFFICES ASSUME NEW i \in 1..Len(s), i # 1 PROVE s[i] \in ToSet(t)
    BY <1>1 DEF ToSet
  <2>1. i - 1 \in 1..Len(t) /\ t[i - 1] = s[i]
    BY <1>1
  <2> QED BY <2>1, <1>1 DEF ToSet
<1>4. {Head(s)} \cup ToSet(t) \subseteq ToSet(s)
  <2>1. 1 \in DOMAIN s /\ Head(s) = s[1]
    BY <1>1
  <2>2. \A i \in 1..Len(t) : t[i] = s[i + 1] /\ i + 1 \in DOMAIN s
    BY <1>1
  <2> QED BY <2>1, <2>2, <1>1 DEF ToSet
<1> QED BY <1>2, <1>3, <1>4

LEMMA ConcatSet ==
    ASSUME NEW s, NEW t, IsSeq(s), IsSeq(t)
    PROVE  /\ IsSeq(s \o t)
           /\ ToSet(s \o t) = ToSet(s) \cup ToSet(t)
<1> DEFINE u == s \o t
<1>1. /\ s \in Seq(ToSet(s) \cup ToSet(t)) /\ t \in Seq(ToSet(s) \cup ToSet(t))
  BY DEF IsSeq
<1>2. /\ u \in Seq(ToSet(s) \cup ToSet(t))
      /\ Len(s) \in Nat /\ Len(t) \in Nat /\ Len(u) = Len(s) + Len(t)
      /\ DOMAIN s = 1..Len(s) /\ DOMAIN t = 1..Len(t) /\ DOMAIN u = 1..Len(u)
      /\ \A i \in 1..Len(u) : u[i] = IF i <= Len(s) THEN s[i] ELSE t[i - Len(s)]
  BY <1>1
<1>3. IsSeq(u)
  BY <1>2, SeqOfOwn
<1>4. ToSet(u) \subseteq ToSet(s) \cup ToSet(t)
  <2> SUFFICES ASSUME NEW i \in 1..Len(u) PROVE u[i] \in ToSet(s) \cup ToSet(t)
    BY <1>2 DEF ToSet
  <2> QED BY <1>1, <1>2
<1>5. ToSet(s) \subseteq ToSet(u)
  BY <1>2 DEF ToSet
<1>6. ToSet(t) \subseteq ToSet(u)
  <2> SUFFICES ASSUME NEW i \in 1..Len(t) PROVE t[i] \in ToSet(u)
    BY <1>2 DEF ToSet
  <2>1. i + Len(s) \in 1..Len(u) /\ u[i + Len(s)] = t[i]
    BY <1>2
  <2> QED BY <2>1, <1>2 DEF ToSet
<1> QED BY <1>3, <1>4, <1>5, <1>6

LEMMA ShortSeq ==
    /\ IsSeq(<<>>) /\ ToSet(<<>>) = {}
    /\ \A a : IsSeq(<<a>>) /\ ToSet(<<a>>) = {a}
    /\ \A a, b : IsSeq(<<a, b>>) /\ ToSet(<<a, b>>) = {a, b}
<1>1. IsSeq(<<>>) /\ ToSet(<<>>) = {}
  BY DEF IsSeq, ToSet
<1>2. ASSUME NEW a PROVE IsSeq(<<a>>) /\ ToSet(<<a>>) = {a}
  <2>1. ToSet(<<a>>) = {a}
    BY DEF ToSet
  <2> QED BY <2>1 DEF IsSeq
<1>3. ASSUME NEW a, NEW b PROVE IsSeq(<<a, b>>) /\ ToSet(<<a, b>>) = {a, b}
  <2>1. ToSet(<<a, b>>) = {a, b}
    BY DEF ToSet
  <2> QED BY <2>1 DEF IsSeq
<1> QED BY <1>1, <1>2, <1>3

\* A leaf fit to be added: what it links to is there, and it has a size.
Sealed(l) == LinksOf(l) \subseteq leafs /\ SizeOf(l) \in Nat

(* Where leaves travel: from a task's builder to its AddLeafSafe calls, to   *)
(* its result, to the results channel.  A link is always to a leaf that is   *)
(* in the map or about to enter it, and who passes a leaf on passes a sealed *)
(* one.                                                                      *)
LinkInv ==
    /\ FunctionOn(Entry, links) /\ FunctionOn(Entry, pending)
    /\ FunctionOn(Entry, ret) /\ FunctionOn(Dirs, results)
    /\ FunctionOn(Entry, section)
    /\ \A e \in Entry : IsSeq(links[e]) /\ IsSeq(pending[e])
    /\ \A e \in Entry : section[e] # "out" => pending[e] # <<>>
    /\ \A e \in Entry : ToSet(links[e]) \subseteq leafs \cup ToSet(pending[e])
    /\ \A e \in Entry : \A l \in ToSet(pending[e]) : Sealed(l)
    /\ \A e \in Entry : ret[e].ok => Sealed(ret[e].leaf)
    /\ \A d \in Dirs : \A r \in results[d] : r.res.ok => Sealed(r.res.leaf)
    /\ \A l \in leafs : Sealed(l)

LEMMA LinkInvInit == Init => LinkInv
BY ShortSeq DEF Init, LinkInv, FunctionOn, NoRet

\* AddLink and AddLeafSafe of sealed leaves, by a task not in AddLeafSafe.
LEMMA LinkInvAdd ==
    ASSUME LinkInv, NEW e \in Entry, NEW ls, IsSeq(ls), \A l \in ToSet(ls) : Sealed(l),
           pending[e] = <<>>, LinkAndAdd(e, ls), UNCHANGED <<ret, results, section, leafs>>
    PROVE  LinkInv'
<1>1. IsSeq(links[e] \o ls) /\ ToSet(links[e] \o ls) = ToSet(links[e]) \cup ToSet(ls)
  BY ConcatSet DEF LinkInv
<1>2. ToSet(links[e]) \subseteq leafs
  BY ShortSeq DEF LinkInv
<1>3. \A l : Sealed(l)' <=> Sealed(l)
  BY DEF Sealed
<1>4. links'[e] = links[e] \o ls /\ pending'[e] = ls
  BY DEF LinkInv, FunctionOn, LinkAndAdd
<1>5. \A x \in Entry \ {e} : links'[x] = links[x] /\ pending'[x] = pending[x]
  BY DEF LinkInv, FunctionOn, LinkAndAdd
<1>6. FunctionOn(Entry, links)' /\ FunctionOn(Entry, pending)'
  BY DEF LinkInv, FunctionOn, LinkAndAdd
<1> QED
  BY <1>1, <1>2, <1>3, <1>4, <1>5, <1>6 DEF LinkInv, FunctionOn

\* A task that returns an error or a sealed leaf.
LEMMA LinkInvReturn ==
    ASSUME LinkInv, NEW e \in Entry, NEW r, Return(e, r), r.ok => Sealed(r.leaf),
           UNCHANGED <<links, pending, results, section, leafs>>
    PROVE  LinkInv'
<1>1. \A l : Sealed(l)' <=> Sealed(l)
  BY DEF Sealed
<1>2. ret'[e] = r /\ \A x \in Entry \ {e} : ret'[x] = ret[x]
  BY DEF LinkInv, FunctionOn, Return
<1>3. FunctionOn(Entry, ret)'
  BY DEF LinkInv, FunctionOn, Return
<1> QED
  BY <1>1, <1>2, <1>3 DEF LinkInv, FunctionOn

\* The leaf a task builds from its own links is sealed.
LEMMA BuiltLeaf ==
    ASSUME LinkInv, NEW e \in Entry, pending[e] = <<>>, NEW data,
           data = <<>> \/ (data # <<>> /\ data[1] \in DOMAIN BlockSize)
    PROVE  Sealed(BuildLeaf(e, links[e], data))
<1> DEFINE l == BuildLeaf(e, links[e], data)
<1>1. ToSet(links[e]) \subseteq leafs
  BY ShortSeq DEF LinkInv
<1>2. CASE e \in Dirs
  BY <1>1, <1>2 DEF BuildLeaf, Sealed, LinksOf, SizeOf
<1>3. CASE e \notin Dirs
  <2>1. LinksOf(l) = ToSet(links[e])
    BY <1>3 DEF BuildLeaf, LinksOf
  <2>2. SizeOf(l) \in Nat
    BY <1>3, TreeAssumption DEF BuildLeaf, SizeOf
  <2> QED BY <1>1, <2>1, <2>2 DEF Sealed
<1> QED BY <1>2, <1>3

LEMMA ChunkSealed ==
    ASSUME NEW i, NEW b \in DOMAIN BlockSize PROVE Sealed(ChunkLeaf(i, b))
BY TreeAssumption DEF Sealed, ChunkLeaf, LinksOf, SizeOf

LEMMA ReadSealed ==
    ASSUME NEW f \in Files, NEW n \in 1..Len(Content[f])
    PROVE  /\ IsSeq(NewChunks(f, n))
           /\ \A l \in ToSet(NewChunks(f, n)) : Sealed(l)
<1>1. \A i \in 1..Len(Content[f]) : Content[f][i] \in DOMAIN BlockSize
  BY TreeAssumption
<1>2. Len(Content[f]) \in Nat
  BY TreeAssumption
<1>3. \A i \in 1..Len(Content[f]) : Sealed(ChunkLeaf(i - 1, Content[f][i]))
  BY <1>1, ChunkSealed
<1>4. CASE n = 1
  BY <1>4, ShortSeq DEF NewChunks
<1>5. CASE n = 2
  <2>1. 1 \in 1..Len(Content[f]) /\ 2 \in 1..Len(Content[f])
    BY <1>5, <1>2
  <2> QED BY <2>1, <1>3, <1>5, ShortSeq DEF NewChunks
<1>6. CASE n # 1 /\ n # 2
  BY <1>6, <1>3, ShortSeq DEF NewChunks
<1> QED BY <1>4, <1>5, <1>6

LEMMA StepType == Spec => [](step \in [Entry -> Nat])
<1> DEFINE Counts == step \in [Entry -> Nat]
<1>1. Init => Counts
  BY DEF Init
<1>2. Counts /\ [Next]_vars => Counts'
  <2> SUFFICES ASSUME Counts, [Next]_vars PROVE Counts'
    OBVIOUS
  <2>1. ASSUME NEW d \in Dirs, DirStep(d) PROVE Counts'
    <3> d \in Entry
      BY DEF Entry
    <3>1. CASE ApplyResult(d)
      <4>1. step' = step \/ step' = [step EXCEPT ![d] = @ + 1]
        BY <3>1 DEF ApplyResult
      <4> QED BY <4>1
    <3>2. CASE ~ApplyResult(d)
      <4>1. UNCHANGED step
        BY <2>1, <3>2 DEF DirStep, FailOpen, OpenSingle, OpenPool, JoinSingle, CloseResults,
           SortResults, BuildDir, TakeJob, SendResult, ExitWorker, taskVars
      <4> QED BY <4>1
    <3> QED BY <3>1, <3>2
  <2>2. ASSUME NEW f \in Files, FileStep(f) PROVE Counts'
    BY <2>2 DEF FileStep, ReadChunk, FailRead, BuildFile
  <2>3. ASSUME NEW e \in Entry, LockStep(e) PROVE Counts'
    BY <2>3 DEF LockStep, Lock, LookUp, Store, taskVars
  <2> QED
    BY <2>1, <2>2, <2>3 DEF Next, FinishDag, Finished, vars, taskVars
<1> QED
  BY <1>1, <1>2, PTL DEF Spec

LEMMA LinkInvStep == LinkInv /\ step \in [Entry -> Nat] /\ [Next]_vars => LinkInv'
<1> SUFFICES ASSUME LinkInv, step \in [Entry -> Nat], [Next]_vars PROVE LinkInv'
  OBVIOUS
<1>0. ASSUME UNCHANGED <<links, pending, ret, results, section, leafs>> PROVE LinkInv'
  BY <1>0 DEF LinkInv, FunctionOn, Sealed
<1>1. ASSUME NEW d \in Dirs, DirStep(d) PROVE LinkInv'
  <2> d \in Entry
    BY DEF Entry
  <2>1. CASE FailOpen(d)
    BY <2>1, LinkInvReturn DEF FailOpen, Error, poolVars, lockVars
  <2>2. CASE OpenSingle(d) \/ OpenPool(d) \/ CloseResults(d) \/ SortResults(d)
    BY <2>2, <1>0 DEF OpenSingle, OpenPool, CloseResults, SortResults,
       taskVars, poolVars, lockVars
  <2>3. CASE JoinSingle(d)
    <3>1. PICK c \in ToSet(Entries[d]) :
            \/ ret[c].ok /\ LinkAndAdd(d, <<ret[c].leaf>>) /\ UNCHANGED ret
            \/ ~ret[c].ok /\ Return(d, ret[c]) /\ UNCHANGED <<links, pending>>
      BY <2>3 DEF JoinSingle
    <3> c \in Entry
      BY TreeAssumption DEF ToSet
    <3>2. CASE ret[c].ok /\ LinkAndAdd(d, <<ret[c].leaf>>) /\ UNCHANGED ret
      <4>1. Sealed(ret[c].leaf)
        BY <3>2 DEF LinkInv
      <4> QED
        BY <4>1, <3>2, <2>3, ShortSeq, LinkInvAdd DEF JoinSingle, At, poolVars, lockVars
    <3>3. CASE ~ret[c].ok /\ Return(d, ret[c]) /\ UNCHANGED <<links, pending>>
      BY <3>3, <2>3, LinkInvReturn DEF JoinSingle, poolVars, lockVars
    <3> QED
      BY <3>1, <3>2, <3>3
  <2>4. CASE ApplyResult(d)
    <3>1. PICK r \in results[d] :
            \/ r.res.ok /\ LinkAndAdd(d, <<r.res.leaf>>) /\ UNCHANGED ret
            \/ ~r.res.ok /\ Return(d, r.res) /\ UNCHANGED <<links, pending>>
      BY <2>4 DEF ApplyResult
    <3>2. CASE r.res.ok /\ LinkAndAdd(d, <<r.res.leaf>>) /\ UNCHANGED ret
      <4>1. Sealed(r.res.leaf)
        BY <3>2 DEF LinkInv
      <4> QED
        BY <4>1, <3>2, <2>4, ShortSeq, LinkInvAdd DEF ApplyResult, At, poolVars, lockVars
    <3>3. CASE ~r.res.ok /\ Return(d, r.res) /\ UNCHANGED <<links, pending>>
      BY <3>3, <2>4, LinkInvReturn DEF ApplyResult, poolVars, lockVars
    <3> QED
      BY <3>1, <3>2, <3>3
  <2>5. CASE BuildDir(d)
    <3>1. pending[d] = <<>>
      BY <2>5 DEF BuildDir, At
    <3>2. Sealed(BuildLeaf(d, links[d], <<>>))
      BY <3>1, BuiltLeaf
    <3> QED
      BY <3>2, <2>5, LinkInvReturn DEF BuildDir, Built, poolVars, lockVars
  <2>6. ASSUME NEW w \in Workers(d), TakeJob(d, w) \/ ExitWorker(d, w) PROVE LinkInv'
    BY <2>6, <1>0 DEF TakeJob, ExitWorker, taskVars, lockVars
  <2>7. ASSUME NEW w \in Workers(d), SendResult(d, w) PROVE LinkInv'
    <3>1. PICK i \in Index(d) :
            results' = [results EXCEPT ![d] = @ \cup {[index |-> i, res |-> ret[Entries[d][i]]]}]
      BY <2>7 DEF SendResult
    <3>2. ret[Entries[d][i]].ok => Sealed(ret[Entries[d][i]].leaf)
      BY TreeAssumption DEF LinkInv, Index
    <3>3. \A l : Sealed(l)' <=> Sealed(l)
      BY <2>7 DEF SendResult, Sealed, lockVars
    <3>4. FunctionOn(Dirs, results)'
      BY <3>1 DEF LinkInv, FunctionOn
    <3>5. \A x \in Dirs : \A r \in results'[x] : r.res.ok => Sealed(r.res.leaf)
      BY <3>1, <3>2 DEF LinkInv, FunctionOn
    <3>6. UNCHANGED <<links, pending, ret, section, leafs>>
      BY <2>7 DEF SendResult, taskVars, lockVars
    <3> QED
      BY <3>3, <3>4, <3>5, <3>6 DEF LinkInv, FunctionOn
  <2> QED
    BY <1>1, <2>1, <2>2, <2>3, <2>4, <2>5, <2>6, <2>7 DEF DirStep
<1>2. ASSUME NEW f \in Files, FileStep(f) PROVE LinkInv'
  <2> f \in Entry
    BY DEF Entry
  <2>1. CASE ReadChunk(f)
    <3> DEFINE n == step[f] + 1
    <3>1. IsSeq(NewChunks(f, n)) /\ \A l \in ToSet(NewChunks(f, n)) : Sealed(l)
      <4>1. step[f] \in Nat /\ Len(Content[f]) \in Nat /\ step[f] < Len(Content[f])
        BY <2>1, TreeAssumption DEF ReadChunk
      <4>2. n \in 1..Len(Content[f])
        BY <4>1
      <4> QED BY <4>2, ReadSealed
    <3> QED
      BY <3>1, <2>1, LinkInvAdd DEF ReadChunk, At, poolVars, lockVars
  <2>2. CASE FailRead(f)
    BY <2>2, LinkInvReturn DEF FailRead, Error, poolVars, lockVars
  <2>3. CASE BuildFile(f)
    <3> DEFINE data == IF step[f] = 1 THEN <<Content[f][1]>> ELSE <<>>
    <3>1. data = <<>> \/ (data # <<>> /\ data[1] \in DOMAIN BlockSize)
      BY <2>3, TreeAssumption DEF BuildFile
    <3>2. Sealed(BuildLeaf(f, links[f], data))
      BY <3>1, <2>3, BuiltLeaf DEF BuildFile, At
    <3> QED
      BY <3>2, <2>3, LinkInvReturn DEF BuildFile, Built, poolVars, lockVars
  <2> QED
    BY <1>2, <2>1, <2>2, <2>3 DEF FileStep
<1>3. ASSUME NEW e \in Entry, LockStep(e) PROVE LinkInv'
  <2>1. CASE Lock(e)
    BY <2>1 DEF Lock, LinkInv, FunctionOn, Sealed, taskVars, poolVars
  <2>2. ASSUME section[e] # "out" PROVE /\ IsSeq(Tail(pending[e]))
                 /\ ToSet(pending[e]) = {Head(pending[e])} \cup ToSet(Tail(pending[e]))
    BY <2>2, TailSet DEF LinkInv
  <2>3. CASE LookUp(e) /\ Head(pending[e]) \in leafs /\ Unlock(e)
    BY <2>2, <2>3 DEF LookUp, Unlock, LinkInv, FunctionOn, Sealed, poolVars
  <2>4. CASE LookUp(e) /\ section' = [section EXCEPT ![e] = "absent"] /\ UNCHANGED pending
    BY <2>4 DEF LookUp, LinkInv, FunctionOn, Sealed, poolVars
  <2>5. CASE Store(e)
    <3>1. \A l : Sealed(l) => Sealed(l)'
      BY <2>5 DEF Store, Sealed
    <3>2. Sealed(Head(pending[e]))
      BY <2>5, <2>2 DEF Store, LinkInv
    <3> QED
      BY <3>1, <3>2, <2>2, <2>5 DEF Store, Unlock, LinkInv, FunctionOn, poolVars
  <2> QED
    BY <1>3, <2>1, <2>3, <2>4, <2>5 DEF LockStep, LookUp
<1>4. CASE FinishDag \/ Finished \/ UNCHANGED vars
  BY <1>4, <1>0 DEF FinishDag, Finished, vars, taskVars, poolVars, lockVars
<1> QED
  BY <1>1, <1>2, <1>3, <1>4 DEF Next

LEMMA LinkInvariant == Spec => []LinkInv
BY LinkInvInit, LinkInvStep, StepType, PTL DEF Spec

\* Whatever the goroutines' order, a leaf enters the map after its children.
THEOREM NoDanglingLink == Spec => []ChildrenFirst
<1>1. LinkInv => ChildrenFirst
  BY DEF LinkInv, Sealed, ChildrenFirst
<1> QED
  BY <1>1, LinkInvariant, PTL

-----------------------------------------------------------------------------
(* Types.  TypeOK is inductive together with LinkInv, which knows that the   *)
(* leaf a goroutine is about to store has a size.                            *)

LEMMA FirstPCType == \A e \in Entry : FirstPC(e) \in PCs
BY DEF FirstPC, PCs

LEMMA ResultOk == \A e, l : Error(e).ok \in BOOLEAN /\ Built(l).ok \in BOOLEAN
BY DEF Error, Built

LEMMA TypeInit == Init => TypeOK
<1> SUFFICES ASSUME Init PROVE TypeOK
  OBVIOUS
<1>1. pc \in [Entry -> PCs]
  BY FirstPCType DEF Init, PCs
<1>2. \A d \in Dirs : <<>> \in Seq(Index(d))
  OBVIOUS
<1> QED
  BY <1>1, <1>2, ShortSeq DEF Init, TypeOK, FunctionOn, NoRet

LEMMA TypeStep == TypeOK /\ LinkInv /\ [Next]_vars => TypeOK'
<1> SUFFICES ASSUME TypeOK, LinkInv, [Next]_vars PROVE TypeOK'
  OBVIOUS
<1> DEFINE Task == /\ failing \subseteq MayFail
                   /\ pc \in [Entry -> PCs]
                   /\ step \in [Entry -> Nat]
                   /\ FunctionOn(Entry, ret) /\ \A e \in Entry : ret[e].ok \in BOOLEAN
           Builder == /\ FunctionOn(Entry, links)   /\ \A e \in Entry : IsSeq(links[e])
                      /\ FunctionOn(Entry, pending) /\ \A e \in Entry : IsSeq(pending[e])
           Pool == /\ FunctionOn(Dirs, jobs)     /\ \A d \in Dirs : jobs[d] \in Seq(Index(d))
                   /\ FunctionOn(Dirs, worker)
                   /\ \A d \in Dirs : worker[d] \in [Workers(d) -> {0} \cup Index(d)]
                   /\ FunctionOn(Dirs, exited)   /\ \A d \in Dirs : exited[d] \subseteq Workers(d)
                   /\ FunctionOn(Dirs, results)
                   /\ \A d \in Dirs : \A r \in results[d] :
                         r.index \in Index(d) /\ r.res.ok \in BOOLEAN
                   /\ closed \in [Dirs -> BOOLEAN]
           Locked == /\ mu \in Entry \cup {NoOne}
                     /\ section \in [Entry -> {"out", "locked", "absent"}]
                     /\ stats \in [LeafCount : Nat, ContentSize : Nat]
<1> USE DEF FunctionOn
<1>0. (Task /\ Builder /\ Pool /\ Locked) /\ ((Task /\ Builder /\ Pool /\ Locked)' => TypeOK')
  BY DEF TypeOK
<1>1. LinkInv'
  BY LinkInvStep, <1>0
<1>2. Builder'
  BY <1>1 DEF LinkInv
<1>3. Locked'
  <2>1. CASE UNCHANGED <<mu, section, stats>>
    BY <2>1, <1>0
  <2>2. ASSUME NEW e \in Entry, LockStep(e) PROVE Locked'
    <3>1. CASE Lock(e) \/ LookUp(e)
      BY <3>1, <1>0 DEF Lock, LookUp, Unlock
    <3>2. CASE Store(e)
      <4>1. Head(pending[e]) \in ToSet(pending[e])
        BY <3>2, TailSet DEF LinkInv, Store
      <4>2. SizeOf(Head(pending[e])) \in Nat
        BY <4>1 DEF LinkInv, Sealed
      <4> QED BY <4>2, <3>2, <1>0 DEF Store, Unlock
    <3> QED BY <2>2, <3>1, <3>2 DEF LockStep
  <2>3. ASSUME NEW d \in Dirs, DirStep(d) PROVE UNCHANGED <<mu, section, stats>>
    BY <2>3 DEF DirStep, FailOpen, OpenSingle, OpenPool, JoinSingle, CloseResults, SortResults,
       ApplyResult, BuildDir, TakeJob, SendResult, ExitWorker, lockVars
  <2>4. ASSUME NEW f \in Files, FileStep(f) PROVE UNCHANGED <<mu, section, stats>>
    BY <2>4 DEF FileStep, ReadChunk, FailRead, BuildFile, lockVars
  <2>5. CASE FinishDag \/ Finished \/ UNCHANGED vars
    BY <2>5, <2>1 DEF FinishDag, Finished, vars, lockVars
  <2> QED
    BY <2>1, <2>2, <2>3, <2>4, <2>5 DEF Next
<1>4. Pool'
  <2>1. CASE UNCHANGED poolVars
    BY <2>1, <1>0 DEF poolVars
  <2>2. ASSUME NEW d \in Dirs, DirStep(d) PROVE Pool'
    <3>1. CASE OpenPool(d)
      <4>1. Entries[d] \in Seq(Entry)
        BY TreeAssumption
      <4>2. [i \in DOMAIN Entries[d] |-> i] \in Seq(Index(d))
        BY <4>1 DEF Index
      <4> QED BY <4>2, <3>1, <1>0 DEF OpenPool
    <3>2. CASE CloseResults(d)
      BY <3>2, <1>0 DEF CloseResults
    <3>3. ASSUME NEW w \in Workers(d), TakeJob(d, w) PROVE Pool'
      <4>1. jobs[d] # <<>> /\ jobs[d] \in Seq(Index(d))
        BY <3>3, <1>0 DEF TakeJob
      <4>2. Head(jobs[d]) \in Index(d) /\ Tail(jobs[d]) \in Seq(Index(d))
        BY <4>1, HeadTailProperties
      <4> QED BY <4>2, <3>3, <1>0 DEF TakeJob
    <3>4. ASSUME NEW w \in Workers(d), SendResult(d, w) PROVE Pool'
      <4>1. PICK i \in Index(d) :
              results' = [results EXCEPT ![d] = @ \cup {[index |-> i, res |-> ret[Entries[d][i]]]}]
        BY <3>4 DEF SendResult
      <4>2. ret[Entries[d][i]].ok \in BOOLEAN
        BY TreeAssumption, <1>0 DEF Index
      <4>3. \A c \in Dirs : \A r \in results'[c] : r.index \in Index(c) /\ r.res.ok \in BOOLEAN
        BY <4>1, <4>2, <1>0
      <4>4. FunctionOn(Dirs, results)'
        BY <4>1, <1>0
      <4> QED BY <4>3, <4>4, <3>4, <1>0 DEF SendResult
    <3>5. ASSUME NEW w \in Workers(d), ExitWorker(d, w) PROVE Pool'
      BY <3>5, <1>0 DEF ExitWorker
    <3>6. CASE FailOpen(d) \/ OpenSingle(d) \/ JoinSingle(d) \/ SortResults(d)
               \/ ApplyResult(d) \/ BuildDir(d)
      BY <3>6, <2>1 DEF FailOpen, OpenSingle, JoinSingle, SortResults, ApplyResult, BuildDir
    <3> QED
      BY <2>2, <3>1, <3>2, <3>3, <3>4, <3>5, <3>6 DEF DirStep
  <2>3. ASSUME NEW f \in Files, FileStep(f) PROVE UNCHANGED poolVars
    BY <2>3 DEF FileStep, ReadChunk, FailRead, BuildFile
  <2>4. ASSUME NEW e \in Entry, LockStep(e) PROVE UNCHANGED poolVars
    BY <2>4 DEF LockStep, Lock, LookUp, Store
  <2>5. CASE FinishDag \/ Finished \/ UNCHANGED vars
    BY <2>5, <2>1 DEF FinishDag, Finished, vars
  <2> QED
    BY <2>1, <2>2, <2>3, <2>4, <2>5 DEF Next
<1>5. Task'
  <2>1. CASE UNCHANGED <<failing, pc, step, ret>>
    BY <2>1, <1>0
  <2>2. ASSUME NEW e \in Entry, NEW r, r.ok \in BOOLEAN, Return(e, r), UNCHANGED <<failing, step>>
        PROVE  Task'
    <3>1. pc' \in [Entry -> PCs]
      BY <2>2, <1>0 DEF Return, PCs
    <3>2. FunctionOn(Entry, ret)' /\ \A x \in Entry : ret'[x].ok \in BOOLEAN
      BY <2>2, <1>0 DEF Return
    <3> QED BY <3>1, <3>2, <2>2, <1>0
  <2>3. ASSUME NEW p, p \in [Entry -> PCs], pc' = p, UNCHANGED <<failing, ret>>,
               step' \in [Entry -> Nat]
        PROVE  Task'
    BY <2>3, <1>0
  <2>4. ASSUME NEW d \in Dirs, DirStep(d) PROVE Task'
    <3> d \in Entry
      BY DEF Entry
    <3>1. CASE FailOpen(d)
      BY <3>1, <2>2, ResultOk DEF FailOpen
    <3>2. CASE OpenSingle(d)
      <4>1. pc' \in [Entry -> PCs]
        BY <3>2, <1>0, FirstPCType DEF OpenSingle, PCs
      <4> QED BY <4>1, <3>2, <1>0 DEF OpenSingle
    <3>3. CASE OpenPool(d)
      <4>1. pc' \in [Entry -> PCs]
        BY <3>3, <1>0 DEF OpenPool, PCs
      <4> QED BY <4>1, <3>3, <1>0 DEF OpenPool
    <3>4. CASE JoinSingle(d)
      <4>1. PICK c \in ToSet(Entries[d]) :
              \/ pc' = [pc EXCEPT ![d] = "build"] /\ UNCHANGED ret
              \/ Return(d, ret[c])
        BY <3>4 DEF JoinSingle
      <4>2. ret[c].ok \in BOOLEAN
        BY TreeAssumption, <1>0 DEF ToSet
      <4>3. CASE pc' = [pc EXCEPT ![d] = "build"] /\ UNCHANGED ret
        <5>1. pc' \in [Entry -> PCs]
          BY <4>3, <1>0 DEF PCs
        <5> QED BY <5>1, <4>3, <3>4, <1>0 DEF JoinSingle
      <4>4. CASE Return(d, ret[c])
        BY <4>4, <4>2, <3>4, <2>2 DEF JoinSingle
      <4> QED BY <4>1, <4>3, <4>4
    <3>5. CASE SortResults(d)
      <4>1. pc' \in [Entry -> PCs]
        BY <3>5, <1>0 DEF SortResults, PCs
      <4> QED BY <4>1, <3>5, <1>0 DEF SortResults
    <3>6. CASE ApplyResult(d)
      <4>1. PICK r \in results[d] :
              \/ step' = [step EXCEPT ![d] = @ + 1] /\ UNCHANGED <<pc, ret>>
              \/ Return(d, r.res) /\ UNCHANGED step
        BY <3>6 DEF ApplyResult
      <4>2. UNCHANGED failing
        BY <3>6 DEF ApplyResult
      <4>3. CASE step' = [step EXCEPT ![d] = @ + 1] /\ UNCHANGED <<pc, ret>>
        BY <4>2, <4>3, <1>0
      <4>4. CASE Return(d, r.res) /\ UNCHANGED step
        <5>1. r.res.ok \in BOOLEAN
          BY <1>0
        <5> QED BY <5>1, <4>2, <4>4, <2>2
      <4> QED BY <4>1, <4>3, <4>4
    <3>7. CASE BuildDir(d)
      BY <3>7, <2>2, ResultOk DEF BuildDir
    <3>8. ASSUME NEW w \in Workers(d), TakeJob(d, w) PROVE Task'
      <4>1. pc' \in [Entry -> PCs]
        <5>1. \A x \in Entry : [pc EXCEPT ![x] = FirstPC(x)] \in [Entry -> PCs]
          BY <1>0, FirstPCType
        <5>2. jobs[d] # <<>> /\ jobs[d] \in Seq(Index(d))
          BY <3>8, <1>0 DEF TakeJob
        <5>3. Entries[d][Head(jobs[d])] \in Entry
          BY <5>2, TreeAssumption, HeadTailProperties DEF Index
        <5> QED BY <5>1, <5>3, <3>8 DEF TakeJob
      <4> QED BY <4>1, <3>8, <1>0 DEF TakeJob
    <3>9. ASSUME NEW w \in Workers(d), SendResult(d, w) \/ ExitWorker(d, w) PROVE Task'
      BY <3>9, <2>1 DEF SendResult, ExitWorker, taskVars
    <3>10. CASE CloseResults(d)
      BY <3>10, <2>1 DEF CloseResults, taskVars
    <3> QED
      BY <2>4, <3>1, <3>2, <3>3, <3>4, <3>5, <3>6, <3>7, <3>8, <3>9, <3>10 DEF DirStep
  <2>5. ASSUME NEW f \in Files, FileStep(f) PROVE Task'
    <3> f \in Entry
      BY DEF Entry
    <3>1. CASE ReadChunk(f)
      BY <3>1, <1>0 DEF ReadChunk
    <3>2. CASE FailRead(f)
      BY <3>2, <2>2, ResultOk DEF FailRead
    <3>3. CASE BuildFile(f)
      BY <3>3, <2>2, ResultOk DEF BuildFile
    <3> QED BY <2>5, <3>1, <3>2, <3>3 DEF FileStep
  <2>6. ASSUME NEW e \in Entry, LockStep(e) PROVE Task'
    BY <2>6, <2>1 DEF LockStep, Lock, LookUp, Store, taskVars
  <2>7. CASE FinishDag \/ Finished \/ UNCHANGED vars
    BY <2>7, <2>1 DEF FinishDag, Finished, vars, taskVars
  <2> QED
    BY <2>4, <2>5, <2>6, <2>7 DEF Next
<1> QED
  BY <1>0, <1>2, <1>3, <1>4, <1>5

\* Every variable keeps its type.
THEOREM TypeCorrect == Spec => []TypeOK
<1>1. TypeOK /\ LinkInv /\ [Next]_vars => LinkInv'
  BY LinkInvStep DEF TypeOK
<1> QED
  BY TypeInit, TypeStep, LinkInvInit, <1>1, PTL DEF Spec

-----------------------------------------------------------------------------
(* Totals                                                                    *)

(* A set of natural numbers has a least one.                                 *)
LEMMA Least ==
    ASSUME NEW T, T \subseteq Nat, T # {}
    PROVE  \E m \in T : \A k \in T : m <= k
<1>1. PICK R : IsWellFoundedOn(R, Nat) /\ \A k, m \in Nat : k < m => <<k, m>> \in R
  BY NatLessThanWellFounded DEF OpToRel
<1>2. IsWellFoundedOn(R, T)
  BY <1>1, IsWellFoundedOnSubset
<1>3. \E p \in T : \A k \in T : ~(<<k, p>> \in R)
  BY <1>2, WFMin
<1>4. PICK p \in T : \A k \in T : ~(<<k, p>> \in R)
  BY <1>3
<1>5. \A k \in T : ~(k < p)
  BY <1>1, <1>4
<1>6. \A k \in T : p <= k
  BY <1>5
<1> QED
  BY <1>6

(* MapThenSumSet folds over the subsets of S, an element of each picked by   *)
(* CHOOSE: the function it folds with exists, and whichever element is taken *)
(* out of a set, the sum is that of the rest and of the element.             *)
Pick(s) == CHOOSE x \in s : TRUE
SumOf(h, s) == IF s = {} THEN 0 ELSE SizeOf(Pick(s)) + h[s \ {Pick(s)}]
Sums(h, S) == h = [s \in SUBSET S |-> SumOf(h, s)]
Total(S) == CHOOSE h : Sums(h, S)

LEMMA TotalIs == \A S : ContentTotal(S) = Total(S)[S]
BY DEF ContentTotal, MapThenSumSet, MapThenFoldSet, Total, Sums, SumOf, Pick

LEMMA PickOut ==
    ASSUME NEW S, IsFiniteSet(S), NEW s \in SUBSET S, s # {}
    PROVE  /\ Pick(s) \in s
           /\ \A a \in s : /\ s \ {a} \in SUBSET S
                           /\ Cardinality(s) \in Nat /\ Cardinality(s \ {a}) \in Nat
                           /\ Cardinality(s \ {a}) = Cardinality(s) - 1
<1>1. IsFiniteSet(s)
  BY FS_Subset
<1>2. \A a \in s : Cardinality(s \ {a}) = Cardinality(s) - 1
  BY <1>1, FS_RemoveElement
<1> QED
  BY <1>1, <1>2, FS_CardinalityType, FS_RemoveElement DEF Pick

(* The sums of the subsets of at most n elements.                            *)
UpTo(S, n) == {s \in SUBSET S : Cardinality(s) <= n}
SumsUpTo(h, S, n) == h = [s \in UpTo(S, n) |-> SumOf(h, s)]
HasSums(S, n) == \E h : SumsUpTo(h, S, n)

LEMMA SumsExist ==
    ASSUME NEW S, IsFiniteSet(S)
    PROVE  Sums(Total(S), S)
<1> DEFINE T == {n \in Nat : ~HasSums(S, n)}
<1>1. T = {}
  <2> SUFFICES ASSUME T # {} PROVE FALSE
    OBVIOUS
  <2>1. PICK m \in T : \A k \in T : m <= k
    BY Least
  <2>2. CASE m = 0
    <3> DEFINE g == [s \in UpTo(S, 0) |-> 0]
    <3>1. ASSUME NEW s \in UpTo(S, 0), s # {} PROVE FALSE
      <4>1. s \in SUBSET S /\ Cardinality(s) <= 0
        BY DEF UpTo
      <4>2. PICK a \in s : TRUE
        BY <3>1
      <4>3. /\ Cardinality(s) \in Nat /\ Cardinality(s \ {a}) \in Nat
            /\ Cardinality(s \ {a}) = Cardinality(s) - 1
        BY <4>1, <3>1, PickOut
      <4> QED BY <4>1, <4>3
    <3>2. \A s \in UpTo(S, 0) : SumOf(g, s) = 0
      BY <3>1 DEF SumOf
    <3>3. g = [s \in UpTo(S, 0) |-> SumOf(g, s)]
      BY <3>2
    <3>4. SumsUpTo(g, S, 0)
      BY <3>3 DEF SumsUpTo
    <3> QED BY <3>4, <2>2 DEF HasSums
  <2>3. CASE m # 0
    <3>1. m \in Nat /\ m - 1 \in Nat /\ ~(m <= m - 1)
      BY <2>3
    <3>2. PICK h : SumsUpTo(h, S, m - 1)
      BY <3>1, <2>1 DEF HasSums
    <3> DEFINE g == [s \in UpTo(S, m) |-> SumOf(h, s)]
    <3>3. ASSUME NEW s \in UpTo(S, m) PROVE SumOf(g, s) = SumOf(h, s)
      <4>1. CASE s = {}
        BY <4>1 DEF SumOf
      <4>2. CASE s # {}
        <5> DEFINE r == s \ {Pick(s)}
        <5>1. s \in SUBSET S /\ Cardinality(s) <= m
          BY DEF UpTo
        <5>2. /\ r \in SUBSET S /\ Cardinality(r) \in Nat
              /\ Cardinality(r) = Cardinality(s) - 1 /\ Cardinality(s) \in Nat
          BY <5>1, <4>2, PickOut
        <5>3. Cardinality(r) <= m - 1 /\ Cardinality(r) <= m
          BY <5>1, <5>2, <3>1
        <5>4. r \in UpTo(S, m - 1) /\ r \in UpTo(S, m)
          BY <5>2, <5>3 DEF UpTo
        <5>5. g[r] = SumOf(h, r) /\ h[r] = SumOf(h, r)
          BY <5>4, <3>2 DEF SumsUpTo
        <5> QED BY <5>5, <4>2 DEF SumOf
      <4> QED BY <4>1, <4>2
    <3>4. g = [s \in UpTo(S, m) |-> SumOf(g, s)]
      BY <3>3
    <3>5. SumsUpTo(g, S, m)
      BY <3>4 DEF SumsUpTo
    <3> QED BY <3>5 DEF HasSums
  <2> QED BY <2>2, <2>3
<1>2. Cardinality(S) \in Nat
  BY FS_CardinalityType
<1>3. UpTo(S, Cardinality(S)) = SUBSET S
  BY FS_Subset DEF UpTo
<1>4. PICK h : SumsUpTo(h, S, Cardinality(S))
  BY <1>1, <1>2 DEF HasSums
<1>5. Sums(h, S)
  BY <1>3, <1>4 DEF Sums, SumsUpTo
<1> QED
  BY <1>5 DEF Total

(* Two folds agree wherever both are defined.                                *)
LEMMA SumsAgree ==
    ASSUME NEW S, IsFiniteSet(S), NEW R \in SUBSET S,
           NEW h, Sums(h, S), NEW g, Sums(g, R)
    PROVE  h[R] = g[R]
<1> DEFINE T == {n \in Nat : \E s \in SUBSET R : Cardinality(s) = n /\ h[s] # g[s]}
<1>0. \A s \in SUBSET R : s \in SUBSET S /\ h[s] = SumOf(h, s) /\ g[s] = SumOf(g, s)
  BY DEF Sums
<1>1. T = {}
  <2> SUFFICES ASSUME T # {} PROVE FALSE
    OBVIOUS
  <2>1. PICK m \in T : \A k \in T : m <= k
    BY Least
  <2>2. PICK s \in SUBSET R : Cardinality(s) = m /\ h[s] # g[s]
    OBVIOUS
  <2>3. s # {}
    BY <2>2, <1>0 DEF SumOf
  <2> DEFINE r == s \ {Pick(s)}
  <2>4. /\ r \in SUBSET S /\ Cardinality(r) \in Nat
        /\ Cardinality(r) = Cardinality(s) - 1 /\ Cardinality(s) \in Nat
    BY <1>0, <2>3, PickOut
  <2>5. ~(m <= Cardinality(r))
    BY <2>4, <2>2
  <2>6. r \in SUBSET R /\ Cardinality(r) \notin T
    BY <2>5, <2>1
  <2>7. h[r] = g[r]
    BY <2>6, <2>4
  <2> QED BY <2>2, <2>3, <2>7, <1>0 DEF SumOf
<1>2. Cardinality(R) \in Nat
  BY FS_Subset, FS_CardinalityType
<1> QED
  BY <1>1, <1>2

(* The sum does not depend on the order in which the elements are taken.     *)
TakesAny(h, s) == h[s] \in Nat /\ \A a \in s : h[s] = SizeOf(a) + h[s \ {a}]

LEMMA AnyOrder ==
    ASSUME NEW S, IsFiniteSet(S), \A x \in S : SizeOf(x) \in Nat, NEW h, Sums(h, S)
    PROVE  \A s \in SUBSET S : TakesAny(h, s)
<1> DEFINE T == {n \in Nat : \E s \in SUBSET S : Cardinality(s) = n /\ ~TakesAny(h, s)}
<1>0. \A s \in SUBSET S : h[s] = SumOf(h, s)
  BY DEF Sums
<1>1. T = {}
  <2> SUFFICES ASSUME T # {} PROVE FALSE
    OBVIOUS
  <2>1. PICK m \in T : \A k \in T : m <= k
    BY Least
  <2>2. PICK s \in SUBSET S : Cardinality(s) = m /\ ~TakesAny(h, s)
    OBVIOUS
  <2>3. CASE s = {}
    <3>1. h[s] = 0
      BY <2>3, <1>0 DEF SumOf
    <3> QED BY <3>1, <2>2, <2>3 DEF TakesAny
  <2>4. CASE s # {}
    <3> DEFINE p == Pick(s)
    <3>1. \A a \in s : /\ s \ {a} \in SUBSET S /\ Cardinality(s \ {a}) \in Nat
                       /\ Cardinality(s \ {a}) = Cardinality(s) - 1
                       /\ Cardinality(s) \in Nat
      BY <2>4, PickOut
    <3>2. ASSUME NEW a \in s PROVE TakesAny(h, s \ {a})
      <4>1. ~(m <= Cardinality(s \ {a}))
        BY <3>1, <2>2
      <4>2. Cardinality(s \ {a}) \notin T
        BY <4>1, <2>1
      <4> QED BY <4>2, <3>1
    <3>3. p \in s
      BY <2>4, PickOut
    <3>4. h[s] = SizeOf(p) + h[s \ {p}]
      BY <2>4, <1>0 DEF SumOf
    <3>5. h[s] \in Nat /\ SizeOf(p) \in Nat /\ h[s \ {p}] \in Nat
      BY <3>2, <3>3, <3>4 DEF TakesAny
    <3>6. ASSUME NEW a \in s, a # p PROVE h[s] = SizeOf(a) + h[s \ {a}]
      <4> DEFINE r == (s \ {p}) \ {a}
      <4>1. h[s \ {p}] = SizeOf(a) + h[r]
        BY <3>2, <3>3, <3>6 DEF TakesAny
      <4>2. h[s \ {a}] = SizeOf(p) + h[(s \ {a}) \ {p}]
        BY <3>2, <3>3, <3>6 DEF TakesAny
      <4>3. (s \ {a}) \ {p} = r
        OBVIOUS
      <4>4. /\ (s \ {p}) \ {a} \in SUBSET S
            /\ Cardinality(s \ {p}) \in Nat /\ Cardinality(r) \in Nat
            /\ Cardinality(r) = Cardinality(s \ {p}) - 1
            /\ Cardinality(s \ {p}) = Cardinality(s) - 1
        <5>1. s \ {p} \in SUBSET S /\ a \in s \ {p} /\ s \ {p} # {}
          BY <3>6
        <5> DEFINE u == s \ {p}
        <5> HIDE DEF u
        <5>2. \A b \in u : /\ u \ {b} \in SUBSET S /\ Cardinality(u \ {b}) \in Nat
                            /\ Cardinality(u \ {b}) = Cardinality(u) - 1
          <6>1. u \in SUBSET S /\ u # {}
            BY <5>1 DEF u
          <6> QED BY <6>1, PickOut
        <5>3. /\ r \in SUBSET S /\ Cardinality(r) \in Nat
              /\ Cardinality(r) = Cardinality(s \ {p}) - 1
          BY <5>1, <5>2 DEF u
        <5> QED BY <5>3, <3>1, <3>3
      <4>5. ~(m <= Cardinality(r))
        BY <4>4, <3>1, <2>2
      <4>6. Cardinality(r) \notin T
        BY <4>5, <2>1
      <4>7. h[r] \in Nat
        BY <4>6, <4>4 DEF TakesAny
      <4>8. SizeOf(a) \in Nat
        BY <3>6
      <4> HIDE DEF p, r
      <4>9. SizeOf(p) + (SizeOf(a) + h[r]) = SizeOf(a) + (SizeOf(p) + h[r])
        BY <4>7, <4>8, <3>5
      <4> QED BY <4>1, <4>2, <4>3, <4>9, <3>4
    <3>7. \A a \in s : h[s] = SizeOf(a) + h[s \ {a}]
      BY <3>4, <3>6
    <3> QED BY <3>5, <3>7, <2>2 DEF TakesAny
  <2> QED BY <2>3, <2>4
<1>2. \A s \in SUBSET S : Cardinality(s) \in Nat
  BY FS_Subset, FS_CardinalityType
<1> QED
  BY <1>1, <1>2

(* A leaf that was not there adds its own size to the total.                 *)
LEMMA TotalAdd ==
    ASSUME NEW S, IsFiniteSet(S), NEW a, a \notin S, \A x \in S \cup {a} : SizeOf(x) \in Nat
    PROVE  ContentTotal(S \cup {a}) = ContentTotal(S) + SizeOf(a) /\ ContentTotal(S) \in Nat
<1> DEFINE U == S \cup {a}
<1>1. IsFiniteSet(U)
  BY FS_AddElement
<1>2. Sums(Total(U), U) /\ Sums(Total(S), S)
  BY <1>1, SumsExist
<1>3. TakesAny(Total(U), U)
  <2> HIDE DEF U
  <2>1. \A x \in U : SizeOf(x) \in Nat
    BY DEF U
  <2> QED BY <2>1, <1>1, <1>2, AnyOrder
<1>4. TakesAny(Total(S), S)
  BY <1>2, AnyOrder
<1>5. U \ {a} = S /\ a \in U /\ S \in SUBSET U
  OBVIOUS
<1>6. Total(U)[S] = Total(S)[S]
  <2> HIDE DEF U
  <2> QED BY <1>1, <1>2, <1>5, SumsAgree
<1>7. Total(U)[U] = SizeOf(a) + Total(S)[S]
  BY <1>3, <1>5, <1>6 DEF TakesAny
<1>8. Total(S)[S] \in Nat /\ SizeOf(a) \in Nat
  BY <1>4 DEF TakesAny
<1> QED
  BY <1>7, <1>8, TotalIs

LEMMA TotalNone == ContentTotal({}) = 0
<1>1. Sums(Total({}), {})
  BY SumsExist, FS_EmptySet
<1> QED
  BY <1>1, TotalIs DEF Sums, SumOf

SizeInv == stats.ContentSize = ContentTotal(leafs)

LEMMA SizeStep == SizeInv /\ LockInv /\ LinkInv /\ [Next]_vars => SizeInv'
<1> SUFFICES ASSUME SizeInv, LockInv, LinkInv, [Next]_vars PROVE SizeInv'
  OBVIOUS
<1>0. ASSUME UNCHANGED <<leafs, stats>> PROVE SizeInv'
  BY <1>0 DEF SizeInv
<1>1. ASSUME NEW d \in Dirs, DirStep(d) PROVE SizeInv'
  BY <1>1, <1>0 DEF DirStep, FailOpen, OpenSingle, OpenPool, JoinSingle, CloseResults,
     SortResults, ApplyResult, BuildDir, TakeJob, SendResult, ExitWorker, lockVars
<1>2. ASSUME NEW f \in Files, FileStep(f) PROVE SizeInv'
  BY <1>2, <1>0 DEF FileStep, ReadChunk, FailRead, BuildFile, lockVars
<1>3. ASSUME NEW e \in Entry, LockStep(e) PROVE SizeInv'
  <2>1. CASE Lock(e) \/ LookUp(e)
    BY <2>1, <1>0 DEF Lock, LookUp
  <2>2. CASE Store(e)
    <3> DEFINE l == Head(pending[e])
    <3>1. pending[e] \in Seq(ToSet(pending[e])) /\ pending[e] # <<>>
      BY <2>2 DEF Store, LinkInv, IsSeq
    <3>2. l \in ToSet(pending[e])
      BY <3>1, HeadTailProperties
    <3>3. SizeOf(l) \in Nat /\ \A x \in leafs : SizeOf(x) \in Nat
      BY <3>2 DEF LinkInv, Sealed
    <3>4. l \notin leafs /\ IsFiniteSet(leafs)
      BY <2>2 DEF Store, LockInv
    <3>5. leafs' = leafs \cup {l} /\ stats'.ContentSize = stats.ContentSize + SizeOf(l)
      BY <2>2 DEF Store
    <3> HIDE DEF l
    <3>6. ContentTotal(leafs \cup {l}) = ContentTotal(leafs) + SizeOf(l)
      BY <3>3, <3>4, TotalAdd
    <3> QED BY <3>5, <3>6 DEF SizeInv
  <2> QED BY <1>3, <2>1, <2>2 DEF LockStep
<1>4. CASE FinishDag \/ Finished \/ UNCHANGED vars
  BY <1>4, <1>0 DEF FinishDag, Finished, vars, lockVars
<1> QED
  BY <1>1, <1>2, <1>3, <1>4 DEF Next

\* The totals of the builder are exact in every reachable state, whatever the
\* tree, the workers and the failures: each leaf of the map counts once, with
\* the size of its own content.
THEOREM StatsAreExact == Spec => []StatsExact
<1>1. Init => SizeInv
  BY TotalNone DEF Init, SizeInv
<1>2. LockInv /\ SizeInv => StatsExact
  BY DEF LockInv, SizeInv, StatsExact, LeafCountExact
<1>3. LockInv /\ LinkInv /\ TypeOK /\ [Next]_vars => LinkInv' /\ LockInv'
  BY LinkInvStep, LockInvStep DEF TypeOK
<1> QED
  BY <1>1, <1>2, <1>3, SizeStep, LockInvInit, LinkInvInit, TypeCorrect, PTL DEF Spec

-----------------------------------------------------------------------------
(* The jobs of a directory                                                   *)

Queued(d, i) == i \in ToSet(jobs[d])
Held(d, i) == \E w \in Workers(d) : worker[d][w] = i
Sent(d, i) == \E r \in results[d] : r.index = i

InOnePlace(d, i) ==
    \/ Queued(d, i) /\ ~Held(d, i) /\ ~Sent(d, i)
    \/ ~Queued(d, i) /\ Held(d, i) /\ ~Sent(d, i)
    \/ ~Queued(d, i) /\ ~Held(d, i) /\ Sent(d, i)

(* A directory that is not open yet has started none of its entries; while   *)
(* its pool runs each job is in one place, once, and the task of a job that  *)
(* waits has not begun: no entry is started twice.                           *)
DirInv(d) ==
    /\ pc[d] \in {"none", "open"} =>
          /\ \A c \in ToSet(Entries[d]) : pc[c] = "none"
          /\ results[d] = {} /\ exited[d] = {}
          /\ \A w \in Workers(d) : worker[d][w] = 0
    /\ pc[d] \in {"collect", "apply"} =>
          /\ IsInjective(jobs[d])
          /\ \A w, v \in Workers(d) : worker[d][w] = worker[d][v] /\ worker[d][w] # 0 => w = v
          /\ \A r, q \in results[d] : r.index = q.index => r = q
          /\ \A i \in Index(d) : InOnePlace(d, i)
          /\ \A i \in ToSet(jobs[d]) : pc[Entries[d][i]] = "none"

JobInv == \A d \in Dirs : DirInv(d)

LEMMA EntryTypes ==
    /\ \A d \in Dirs : d \in Entry /\ d \notin Files
    /\ \A d \in Dirs : \A i \in Index(d) : /\ Entries[d][i] \in Entry
                                           /\ Entries[d][i] \in ToSet(Entries[d])
                                           /\ i \in Nat \ {0}
    /\ \A d \in Dirs : \A c \in ToSet(Entries[d]) :
          \E i \in Index(d) : c = Entries[d][i]
    /\ \A d \in Dirs : \A i, j \in Index(d) : Entries[d][i] = Entries[d][j] => i = j
    /\ \A d, x \in Dirs : \A c \in ToSet(Entries[d]) : c \in ToSet(Entries[x]) => d = x
<1>1. \A d \in Dirs : Entries[d] \in Seq(Entry) /\ Index(d) = 1..Len(Entries[d])
  BY TreeAssumption DEF Index
<1>2. \A d \in Dirs : \A c \in ToSet(Entries[d]) : \E i \in Index(d) : c = Entries[d][i]
  BY <1>1 DEF ToSet, Index
<1>3. \A d \in Dirs : \A i \in Index(d) : Entries[d][i] \in Entry /\ i \in Nat \ {0}
  BY <1>1
<1>4. \A d \in Dirs : \A i \in Index(d) : Entries[d][i] \in ToSet(Entries[d])
  BY DEF ToSet, Index
<1>5. \A d \in Dirs : \A i, j \in Index(d) : Entries[d][i] = Entries[d][j] => i = j
  BY TreeAssumption DEF IsInjective, Index
<1>6. \A d, x \in Dirs : \A c \in ToSet(Entries[d]) : c \in ToSet(Entries[x]) => d = x
  BY TreeAssumption
<1>7. \A d \in Dirs : d \in Entry /\ d \notin Files
  BY TreeAssumption DEF Entry
<1> QED
  BY <1>2, <1>3, <1>4, <1>5, <1>6, <1>7

(* A step that leaves a directory's pool alone, and starts none of its       *)
(* entries, keeps its invariant.                                             *)
LEMMA DirFrame ==
    ASSUME NEW d \in Dirs, DirInv(d),
           jobs'[d] = jobs[d], worker'[d] = worker[d],
           exited'[d] = exited[d], results'[d] = results[d],
           \A c \in ToSet(Entries[d]) : pc[c] = "none" => pc'[c] = "none",
           pc'[d] \in {"none", "open"} => pc[d] \in {"none", "open"},
           pc'[d] \in {"collect", "apply"} => pc[d] \in {"collect", "apply"},
           jobs[d] \in Seq(Index(d))
    PROVE  DirInv(d)'
<1>1. \A i \in Index(d) : InOnePlace(d, i)' <=> InOnePlace(d, i)
  BY DEF InOnePlace, Queued, Held, Sent
<1>2. \A i \in ToSet(jobs[d]) : i \in Index(d)
  BY DEF ToSet
<1>3. \A i \in ToSet(jobs[d]) : Entries[d][i] \in ToSet(Entries[d])
  BY <1>2, EntryTypes
<1> QED
  BY <1>1, <1>3 DEF DirInv

\* A task that goes on, fails or returns; it has begun, so it is in no queue.
LEMMA JobMove ==
    ASSUME TypeOK, JobInv, UNCHANGED <<jobs, worker, exited, results>>,
           NEW e \in Entry, pc[e] # "none", NEW p, pc' = [pc EXCEPT ![e] = p],
           p \in {"single", "build", "returned"} \/ (p = "apply" /\ pc[e] = "collect")
    PROVE  JobInv'
<1> SUFFICES ASSUME NEW d \in Dirs PROVE DirInv(d)'
  BY DEF JobInv
<1>1. \A x \in Entry : x # e => pc'[x] = pc[x]
  BY DEF TypeOK
<1>2. pc'[e] = p
  BY DEF TypeOK
<1>3. d \in Entry /\ ToSet(Entries[d]) \subseteq Entry
  BY EntryTypes
<1>4. DirInv(d) /\ jobs[d] \in Seq(Index(d))
  BY DEF JobInv, TypeOK
<1> QED
  BY <1>1, <1>2, <1>3, <1>4, DirFrame

LEMMA JobIdle ==
    ASSUME TypeOK, JobInv, UNCHANGED <<pc, jobs, worker, exited, results>>
    PROVE  JobInv'
<1> SUFFICES ASSUME NEW d \in Dirs PROVE DirInv(d)'
  BY DEF JobInv
<1>1. DirInv(d) /\ jobs[d] \in Seq(Index(d))
  BY DEF JobInv, TypeOK
<1> QED
  BY <1>1, DirFrame

(* The other directories, when d starts its entry c.                         *)
LEMMA JobStart ==
    ASSUME TypeOK, JobInv, NEW d \in Dirs, NEW c \in ToSet(Entries[d]), pc[d] # "none",
           pc[c] = "none", pc'[c] = FirstPC(c),
           \A x \in Entry : x # c /\ x # d => pc'[x] = pc[x],
           NEW x \in Dirs, x # d, jobs'[x] = jobs[x], worker'[x] = worker[x],
           exited'[x] = exited[x], results'[x] = results[x]
    PROVE  DirInv(x)'
<1>1. d \in Entry /\ c \in Entry /\ c # d /\ x \in Entry /\ ToSet(Entries[x]) \subseteq Entry
  BY EntryTypes
<1>2. c \notin ToSet(Entries[x])
  BY EntryTypes
<1>3. DirInv(x) /\ jobs[x] \in Seq(Index(x))
  BY DEF JobInv, TypeOK
<1>4. \A y \in ToSet(Entries[x]) : pc[y] = "none" => pc'[y] = "none"
  BY <1>1, <1>2
<1>5. x = c => pc[x] = "none" /\ pc'[x] = "open"
  BY EntryTypes DEF FirstPC
<1> QED
  BY <1>1, <1>3, <1>4, <1>5, DirFrame

\* What is left of a queue without repetitions when its head is taken.
LEMMA TailInjective ==
    ASSUME NEW S, NEW s \in Seq(S), s # <<>>, IsInjective(s)
    PROVE  /\ Head(s) \in ToSet(s) /\ IsInjective(Tail(s))
           /\ ToSet(Tail(s)) = ToSet(s) \ {Head(s)}
<1>0. IsSeq(s)
  BY SeqOfOwn
<1>1. ToSet(s) = {Head(s)} \cup ToSet(Tail(s))
  BY <1>0, TailSet
<1>2. /\ Len(s) \in Nat \ {0} /\ DOMAIN s = 1..Len(s) /\ Head(s) = s[1]
      /\ Tail(s) \in Seq(S) /\ Len(Tail(s)) = Len(s) - 1
      /\ \A k \in 1..Len(Tail(s)) : Tail(s)[k] = s[k + 1]
      /\ DOMAIN Tail(s) = 1..Len(Tail(s))
  OBVIOUS
<1>3. ASSUME NEW k \in DOMAIN Tail(s)
      PROVE  k \in Nat \ {0} /\ k + 1 \in DOMAIN s /\ Tail(s)[k] = s[k + 1]
  BY <1>2
<1>4. ASSUME NEW k \in DOMAIN Tail(s), NEW j \in DOMAIN Tail(s), Tail(s)[k] = Tail(s)[j]
      PROVE  k = j
  <2>1. s[k + 1] = s[j + 1] /\ k + 1 \in DOMAIN s /\ j + 1 \in DOMAIN s
    BY <1>3, <1>4
  <2>2. k + 1 = j + 1
    BY <2>1 DEF IsInjective
  <2> QED BY <2>2, <1>3
<1>5. Head(s) \notin ToSet(Tail(s))
  <2> SUFFICES ASSUME NEW k \in DOMAIN Tail(s), Tail(s)[k] = Head(s) PROVE FALSE
    BY DEF ToSet
  <2>1. s[k + 1] = s[1] /\ k + 1 \in DOMAIN s /\ 1 \in DOMAIN s
    BY <1>2, <1>3
  <2>2. k + 1 = 1
    BY <2>1 DEF IsInjective
  <2> QED BY <2>2, <1>3
<1> QED
  BY <1>1, <1>4, <1>5 DEF IsInjective

LEMMA JobInit == Init => JobInv
<1> SUFFICES ASSUME Init, NEW d \in Dirs PROVE DirInv(d)
  BY DEF JobInv
<1>1. \A c \in ToSet(Entries[d]) : c \in Entry /\ c # Root
  BY TreeAssumption, EntryTypes
<1>2. \A c \in ToSet(Entries[d]) : pc[c] = "none"
  BY <1>1 DEF Init
<1>3. results[d] = {} /\ exited[d] = {} /\ \A w \in Workers(d) : worker[d][w] = 0
  BY DEF Init
<1>4. pc[d] \in {"none", "open"}
  BY EntryTypes DEF Init, FirstPC
<1> QED
  BY <1>2, <1>3, <1>4 DEF DirInv

LEMMA OpenSingleJobs ==
    ASSUME TypeOK, JobInv, NEW d \in Dirs, OpenSingle(d) PROVE JobInv'
<1>0. d \in Entry /\ pc[d] = "open"
  BY EntryTypes DEF OpenSingle, At
<1>1. CASE Entries[d] = <<>>
  <2>1. pc' = [pc EXCEPT ![d] = "build"] /\ UNCHANGED <<jobs, worker, exited, results>>
    BY <1>1 DEF OpenSingle, poolVars
  <2> QED BY <2>1, <1>0, JobMove
<1>2. CASE Entries[d] # <<>>
  <2> DEFINE c == Entries[d][1]
  <2>1. 1 \in Index(d)
    BY <1>2, TreeAssumption DEF Index
  <2>2. c \in ToSet(Entries[d]) /\ c \in Entry
    BY <2>1, EntryTypes
  <2>3. /\ pc' = [pc EXCEPT ![d] = "single", ![c] = FirstPC(c)]
        /\ UNCHANGED <<jobs, worker, exited, results>>
    BY <1>2 DEF OpenSingle, poolVars
  <2>4. pc[c] = "none"
    BY <2>2, <1>0 DEF JobInv, DirInv
  <2>5. /\ pc'[c] = FirstPC(c) /\ pc'[d] = "single"
        /\ \A x \in Entry : x # c /\ x # d => pc'[x] = pc[x]
    <3> HIDE DEF c
    <3> QED BY <2>2, <2>3, <2>4, <1>0 DEF TypeOK
  <2>6. \A x \in Dirs : x # d => DirInv(x)'
    <3> HIDE DEF c
    <3> QED BY <2>2, <2>3, <2>4, <2>5, <1>0, JobStart
  <2>7. DirInv(d)'
    BY <2>5 DEF DirInv
  <2> QED BY <2>6, <2>7 DEF JobInv
<1> QED BY <1>1, <1>2

LEMMA OpenPoolJobs ==
    ASSUME TypeOK, JobInv, NEW d \in Dirs, OpenPool(d) PROVE JobInv'
<1>0. d \in Entry /\ pc[d] = "open"
  BY EntryTypes DEF OpenPool, At
<1>1. /\ pc'[d] = "collect" /\ \A x \in Entry : x # d => pc'[x] = pc[x]
      /\ \A x \in Dirs : x # d => jobs'[x] = jobs[x]
      /\ UNCHANGED <<worker, exited, results>>
  BY <1>0 DEF OpenPool, TypeOK, FunctionOn
<1>2. jobs'[d] = [i \in Index(d) |-> i]
  BY DEF OpenPool, TypeOK, FunctionOn, Index
<1>3. ASSUME NEW x \in Dirs, x # d PROVE DirInv(x)'
  <2>1. DirInv(x) /\ jobs[x] \in Seq(Index(x))
    BY DEF JobInv, TypeOK
  <2>0. x \in Entry /\ ToSet(Entries[x]) \subseteq Entry
    BY EntryTypes
  <2>2. \A c \in ToSet(Entries[x]) : pc[c] = "none" => pc'[c] = "none"
    BY <2>0, <1>0, <1>1
  <2> QED BY <2>0, <1>1, <1>3, <2>1, <2>2, DirFrame
<1>4. DirInv(d)'
  <2>1. /\ \A c \in ToSet(Entries[d]) : pc[c] = "none"
        /\ results[d] = {} /\ \A w \in Workers(d) : worker[d][w] = 0
    BY <1>0 DEF JobInv, DirInv
  <2>2. ToSet(jobs'[d]) = Index(d) /\ IsInjective(jobs'[d])
    BY <1>2 DEF ToSet, IsInjective
  <2>3. \A i \in Index(d) : InOnePlace(d, i)'
    BY <2>1, <2>2, <1>1, EntryTypes DEF InOnePlace, Queued, Held, Sent
  <2>4. \A i \in Index(d) : pc'[Entries[d][i]] = "none"
    <3> SUFFICES ASSUME NEW i \in Index(d) PROVE pc'[Entries[d][i]] = "none"
      OBVIOUS
    <3>1. Entries[d][i] \in ToSet(Entries[d]) /\ Entries[d][i] \in Entry
      BY EntryTypes
    <3> QED BY <3>1, <2>1, <1>0, <1>1
  <2> QED BY <2>1, <2>2, <2>3, <2>4, <1>1 DEF DirInv
<1> QED BY <1>3, <1>4 DEF JobInv

LEMMA TakeJobJobs ==
    ASSUME TypeOK, JobInv, NEW d \in Dirs, NEW w \in Workers(d), TakeJob(d, w) PROVE JobInv'
<1>i. PICK i : i = Head(jobs[d])
  OBVIOUS
<1> DEFINE c == Entries[d][i]
<1>0. /\ d \in Entry /\ pc[d] = "collect" /\ DirInv(d)
      /\ jobs[d] \in Seq(Index(d)) /\ jobs[d] # <<>> /\ worker[d][w] = 0
      /\ worker[d] \in [Workers(d) -> {0} \cup Index(d)]
  BY EntryTypes DEF TakeJob, At, JobInv, TypeOK
<1>1. IsInjective(jobs[d])
  BY <1>0 DEF DirInv
<1>2. /\ i \in ToSet(jobs[d]) /\ IsInjective(Tail(jobs[d]))
      /\ ToSet(Tail(jobs[d])) = ToSet(jobs[d]) \ {i}
  BY <1>i, <1>0, <1>1, TailInjective
<1>3. ToSet(jobs[d]) \subseteq Index(d)
  BY <1>0 DEF ToSet
<1>4. /\ i \in Index(d) /\ i # 0 /\ c \in ToSet(Entries[d]) /\ c \in Entry
  BY <1>2, <1>3, EntryTypes
<1>5. pc[c] = "none" /\ c # d
  BY <1>0, <1>2 DEF DirInv
<1>6. /\ pc' = [pc EXCEPT ![c] = FirstPC(c)]
      /\ worker' = [worker EXCEPT ![d][w] = i]
      /\ jobs' = [jobs EXCEPT ![d] = Tail(jobs[d])]
      /\ UNCHANGED <<exited, results>>
  BY <1>i DEF TakeJob
<1> HIDE DEF c
<1>7. /\ pc'[c] = FirstPC(c) /\ \A x \in Entry : x # c => pc'[x] = pc[x]
      /\ jobs'[d] = Tail(jobs[d]) /\ \A x \in Dirs : x # d => jobs'[x] = jobs[x]
      /\ \A x \in Dirs : x # d => worker'[x] = worker[x]
      /\ worker'[d] = [worker[d] EXCEPT ![w] = i]
  BY <1>4, <1>6 DEF TypeOK, FunctionOn
<1>8. worker'[d][w] = i /\ \A v \in Workers(d) : v # w => worker'[d][v] = worker[d][v]
  BY <1>7, <1>0
<1>9. ASSUME NEW x \in Dirs, x # d PROVE DirInv(x)'
  BY <1>9, <1>0, <1>4, <1>5, <1>6, <1>7, JobStart
<1>10. DirInv(d)'
  <2>1. InOnePlace(d, i) /\ Queued(d, i)
    BY <1>0, <1>2, <1>4 DEF DirInv, Queued
  <2>2. ~Held(d, i) /\ ~Sent(d, i)
    BY <2>1 DEF InOnePlace
  <2>3. InOnePlace(d, i)'
    <3>1. ~Queued(d, i)'
      BY <1>2, <1>7 DEF Queued
    <3>2. Held(d, i)'
      BY <1>8 DEF Held
    <3>3. ~Sent(d, i)'
      BY <2>2, <1>6 DEF Sent
    <3> QED BY <3>1, <3>2, <3>3 DEF InOnePlace
  <2>4. ASSUME NEW j \in Index(d), j # i PROVE InOnePlace(d, j)'
    <3>1. Queued(d, j)' <=> Queued(d, j)
      BY <2>4, <1>2, <1>7 DEF Queued
    <3>2. Held(d, j)' <=> Held(d, j)
      <4>1. j # 0
        BY EntryTypes
      <4> QED BY <2>4, <4>1, <1>0, <1>8 DEF Held
    <3>3. Sent(d, j)' <=> Sent(d, j)
      BY <1>6 DEF Sent
    <3>4. InOnePlace(d, j)
      BY <1>0 DEF DirInv
    <3> QED BY <3>1, <3>2, <3>3, <3>4 DEF InOnePlace
  <2>5. \A j \in Index(d) : InOnePlace(d, j)'
    <3> SUFFICES ASSUME NEW j \in Index(d) PROVE InOnePlace(d, j)'
      OBVIOUS
    <3>1. CASE j = i
      BY <2>3, <3>1
    <3>2. CASE j # i
      BY <2>4, <3>2
    <3> QED BY <3>1, <3>2
  <2>6. \A v, u \in Workers(d) : worker'[d][v] = worker'[d][u] /\ worker'[d][v] # 0 => v = u
    <3>1. \A v, u \in Workers(d) : worker[d][v] = worker[d][u] /\ worker[d][v] # 0 => v = u
      BY <1>0 DEF DirInv
    <3>2. \A v \in Workers(d) : worker[d][v] # i
      BY <2>2 DEF Held
    <3> QED BY <3>1, <3>2, <1>8
  <2>7. \A j \in ToSet(Tail(jobs[d])) : pc'[Entries[d][j]] = "none"
    <3> SUFFICES ASSUME NEW j \in ToSet(Tail(jobs[d])) PROVE pc'[Entries[d][j]] = "none"
      OBVIOUS
    <3>1. j \in ToSet(jobs[d]) /\ j # i /\ j \in Index(d)
      BY <1>2, <1>3
    <3>2. pc[Entries[d][j]] = "none"
      BY <3>1, <1>0 DEF DirInv
    <3>3. Entries[d][j] # c /\ Entries[d][j] \in Entry
      BY <3>1, <1>4, EntryTypes DEF c
    <3> QED BY <3>2, <3>3, <1>7
  <2>8. \A r, q \in results'[d] : r.index = q.index => r = q
    BY <1>0, <1>6 DEF DirInv
  <2>9. pc'[d] = "collect"
    BY <1>0, <1>5, <1>7
  <2> QED BY <2>5, <2>6, <2>7, <2>8, <2>9, <1>2, <1>7 DEF DirInv
<1> QED BY <1>9, <1>10 DEF JobInv

LEMMA SendResultJobs ==
    ASSUME TypeOK, JobInv, NEW d \in Dirs, NEW w \in Workers(d), SendResult(d, w) PROVE JobInv'
<1>0. /\ d \in Entry /\ DirInv(d) /\ jobs[d] \in Seq(Index(d))
      /\ worker[d] \in [Workers(d) -> {0} \cup Index(d)]
  BY EntryTypes DEF JobInv, TypeOK
<1>1. PICK i \in Index(d) :
        /\ worker[d][w] = i
        /\ results' = [results EXCEPT ![d] = @ \cup {[index |-> i, res |-> ret[Entries[d][i]]]}]
  BY DEF SendResult
<1> DEFINE new == [index |-> i, res |-> ret[Entries[d][i]]]
<1>2. UNCHANGED <<pc, jobs, exited>> /\ worker' = [worker EXCEPT ![d][w] = 0]
  BY DEF SendResult, taskVars
<1>3. new.index = i /\ i # 0
  BY EntryTypes
<1>4. /\ results'[d] = results[d] \cup {new}
      /\ \A x \in Dirs : x # d => results'[x] = results[x] /\ worker'[x] = worker[x]
      /\ worker'[d] = [worker[d] EXCEPT ![w] = 0]
  BY <1>1, <1>2 DEF TypeOK, FunctionOn
<1> HIDE DEF new
<1>5. worker'[d][w] = 0 /\ \A v \in Workers(d) : v # w => worker'[d][v] = worker[d][v]
  BY <1>0, <1>4
<1>6. ASSUME NEW x \in Dirs, x # d PROVE DirInv(x)'
  <2>1. DirInv(x) /\ jobs[x] \in Seq(Index(x))
    BY DEF JobInv, TypeOK
  <2> QED BY <2>1, <1>2, <1>4, <1>6, DirFrame
<1>7. ~(pc[d] \in {"none", "open"})
  BY <1>0, <1>1, <1>3 DEF DirInv
<1>8. ASSUME pc[d] \in {"collect", "apply"} PROVE DirInv(d)'
  <2>1. Held(d, i) /\ InOnePlace(d, i)
    BY <1>0, <1>1, <1>8 DEF Held, DirInv
  <2>2. ~Queued(d, i) /\ ~Sent(d, i)
    BY <2>1 DEF InOnePlace
  <2>3. \A v, u \in Workers(d) : worker[d][v] = worker[d][u] /\ worker[d][v] # 0 => v = u
    BY <1>0, <1>8 DEF DirInv
  <2>4. InOnePlace(d, i)'
    <3>1. ~Queued(d, i)' /\ Sent(d, i)'
      BY <2>2, <1>2, <1>3, <1>4 DEF Queued, Sent
    <3>2. ~Held(d, i)'
      BY <2>3, <1>1, <1>3, <1>5 DEF Held
    <3> QED BY <3>1, <3>2 DEF InOnePlace
  <2>5. ASSUME NEW j \in Index(d), j # i PROVE InOnePlace(d, j)'
    <3>1. Queued(d, j)' <=> Queued(d, j)
      BY <1>2 DEF Queued
    <3>2. Held(d, j)' <=> Held(d, j)
      <4>1. j # 0
        BY EntryTypes
      <4> QED BY <2>5, <4>1, <1>1, <1>5 DEF Held
    <3>3. Sent(d, j)' <=> Sent(d, j)
      BY <2>5, <1>3, <1>4 DEF Sent
    <3>4. InOnePlace(d, j)
      BY <1>0, <1>8 DEF DirInv
    <3> QED BY <3>1, <3>2, <3>3, <3>4 DEF InOnePlace
  <2>6. \A v, u \in Workers(d) : worker'[d][v] = worker'[d][u] /\ worker'[d][v] # 0 => v = u
    BY <2>3, <1>5
  <2>7. \A r, q \in results'[d] : r.index = q.index => r = q
    <3>1. \A r, q \in results[d] : r.index = q.index => r = q
      BY <1>0, <1>8 DEF DirInv
    <3>2. \A r \in results[d] : r.index # i
      BY <2>2 DEF Sent
    <3> QED BY <3>1, <3>2, <1>3, <1>4
  <2>8. /\ IsInjective(jobs'[d]) /\ \A j \in ToSet(jobs'[d]) : pc'[Entries[d][j]] = "none"
    BY <1>0, <1>2, <1>8 DEF DirInv
  <2>9. \A j \in Index(d) : InOnePlace(d, j)'
    BY <2>4, <2>5
  <2> QED BY <2>6, <2>7, <2>8, <2>9, <1>7, <1>2 DEF DirInv
<1>9. ASSUME ~(pc[d] \in {"collect", "apply"}) PROVE DirInv(d)'
  BY <1>2, <1>7, <1>9 DEF DirInv
<1> QED BY <1>6, <1>8, <1>9 DEF JobInv

LEMMA ExitJobs ==
    ASSUME TypeOK, JobInv, NEW d \in Dirs, NEW w \in Workers(d), ExitWorker(d, w) PROVE JobInv'
<1>1. /\ pc[d] = "collect" /\ UNCHANGED <<pc, jobs, worker, results>>
      /\ \A x \in Dirs : x # d => exited'[x] = exited[x]
  BY DEF ExitWorker, At, taskVars, TypeOK, FunctionOn
<1>2. ASSUME NEW x \in Dirs, x # d PROVE DirInv(x)'
  <2>1. DirInv(x) /\ jobs[x] \in Seq(Index(x))
    BY DEF JobInv, TypeOK
  <2> QED BY <2>1, <1>1, <1>2, DirFrame
<1>3. DirInv(d)'
  <2>1. DirInv(d)
    BY DEF JobInv
  <2>2. \A i \in Index(d) : InOnePlace(d, i)' <=> InOnePlace(d, i)
    BY <1>1 DEF InOnePlace, Queued, Held, Sent
  <2> QED BY <1>1, <2>1, <2>2 DEF DirInv
<1> QED BY <1>2, <1>3 DEF JobInv

LEMMA JobStep == TypeOK /\ JobInv /\ [Next]_vars => JobInv'
<1> SUFFICES ASSUME TypeOK, JobInv, [Next]_vars PROVE JobInv'
  OBVIOUS
<1>0. ASSUME UNCHANGED <<pc, jobs, worker, exited, results>> PROVE JobInv'
  BY <1>0, JobIdle
<1>1. ASSUME NEW d \in Dirs, DirStep(d) PROVE JobInv'
  <2>0. d \in Entry
    BY EntryTypes
  <2>1. CASE FailOpen(d)
    <3>1. pc[d] # "none" /\ pc' = [pc EXCEPT ![d] = "returned"]
          /\ UNCHANGED <<jobs, worker, exited, results>>
      BY <2>1 DEF FailOpen, At, Return, poolVars
    <3> QED BY <3>1, <2>0, JobMove
  <2>2. CASE OpenSingle(d)
    BY <2>2, OpenSingleJobs
  <2>3. CASE OpenPool(d)
    BY <2>3, OpenPoolJobs
  <2>4. CASE JoinSingle(d)
    <3>1. /\ pc[d] # "none" /\ UNCHANGED <<jobs, worker, exited, results>>
          /\ \/ pc' = [pc EXCEPT ![d] = "build"]
             \/ pc' = [pc EXCEPT ![d] = "returned"]
      BY <2>4 DEF JoinSingle, At, Return, poolVars
    <3> QED BY <3>1, <2>0, JobMove
  <2>5. CASE SortResults(d)
    <3>1. pc[d] = "collect" /\ pc' = [pc EXCEPT ![d] = "apply"]
          /\ UNCHANGED <<jobs, worker, exited, results>>
      BY <2>5 DEF SortResults, At, poolVars
    <3> QED BY <3>1, <2>0, JobMove
  <2>6. CASE ApplyResult(d)
    <3>1. /\ pc[d] # "none" /\ UNCHANGED <<jobs, worker, exited, results>>
          /\ \/ UNCHANGED pc
             \/ pc' = [pc EXCEPT ![d] = "returned"]
      BY <2>6 DEF ApplyResult, At, Return, poolVars
    <3> QED BY <3>1, <2>0, <1>0, JobMove
  <2>7. CASE BuildDir(d)
    <3>1. pc[d] # "none" /\ pc' = [pc EXCEPT ![d] = "returned"]
          /\ UNCHANGED <<jobs, worker, exited, results>>
      BY <2>7 DEF BuildDir, At, Return, poolVars
    <3> QED BY <3>1, <2>0, JobMove
  <2>8. CASE CloseResults(d)
    BY <2>8, <1>0 DEF CloseResults, taskVars
  <2>9. ASSUME NEW w \in Workers(d), TakeJob(d, w) \/ SendResult(d, w) \/ ExitWorker(d, w)
        PROVE  JobInv'
    BY <2>9, TakeJobJobs, SendResultJobs, ExitJobs
  <2> QED
    BY <1>1, <2>1, <2>2, <2>3, <2>4, <2>5, <2>6, <2>7, <2>8, <2>9 DEF DirStep
<1>2. ASSUME NEW f \in Files, FileStep(f) PROVE JobInv'
  <2>0. f \in Entry
    BY DEF Entry
  <2>1. CASE ReadChunk(f)
    BY <2>1, <1>0 DEF ReadChunk, poolVars
  <2>2. CASE FailRead(f) \/ BuildFile(f)
    <3>1. pc[f] # "none" /\ pc' = [pc EXCEPT ![f] = "returned"]
          /\ UNCHANGED <<jobs, worker, exited, results>>
      BY <2>2 DEF FailRead, BuildFile, At, Return, poolVars
    <3> QED BY <3>1, <2>0, JobMove
  <2> QED BY <1>2, <2>1, <2>2 DEF FileStep
<1>3. ASSUME NEW e \in Entry, LockStep(e) PROVE JobInv'
  BY <1>3, <1>0 DEF LockStep, Lock, LookUp, Store, taskVars, poolVars
<1>4. CASE FinishDag \/ Finished \/ UNCHANGED vars
  BY <1>4, <1>0 DEF FinishDag, Finished, vars, taskVars, poolVars
<1> QED
  BY <1>1, <1>2, <1>3, <1>4 DEF Next

LEMMA JobInvariant == Spec => []JobInv
BY JobInit, JobStep, TypeCorrect, PTL DEF Spec

\* How many elements of S, of which at most one satisfies a condition, do.
LEMMA CountOne ==
    ASSUME NEW S, \A x, y \in S : x = y
    PROVE  Cardinality(S) = IF S = {} THEN 0 ELSE 1
<1>1. CASE S = {}
  BY <1>1, FS_EmptySet
<1>2. CASE S # {}
  <2>1. PICK x : S = {x}
    BY <1>2
  <2> QED BY <2>1, FS_Singleton
<1> QED BY <1>1, <1>2

\* Every entry of a directory whose pool runs is in exactly one place: no job
\* is lost, taken by two workers, or answered twice.
THEOREM JobsAreKept == Spec => []EveryJobOnce
<1>1. TypeOK /\ JobInv => EveryJobOnce
  <2> SUFFICES ASSUME TypeOK, JobInv, NEW d \in Dirs, pc[d] \in {"collect", "apply"},
                      NEW i \in Index(d)
      PROVE   Cardinality({k \in DOMAIN jobs[d] : jobs[d][k] = i})
            + Cardinality({w \in Workers(d) : worker[d][w] = i})
            + Cardinality({r \in results[d] : r.index = i}) = 1
    BY DEF EveryJobOnce
  <2> DEFINE Q == {k \in DOMAIN jobs[d] : jobs[d][k] = i}
             H == {w \in Workers(d) : worker[d][w] = i}
             R == {r \in results[d] : r.index = i}
  <2>1. DirInv(d) /\ i # 0
    BY EntryTypes DEF JobInv
  <2>2. \A x, y \in Q : x = y
    BY <2>1 DEF DirInv, IsInjective
  <2>3. \A x, y \in H : x = y
    BY <2>1 DEF DirInv
  <2>4. \A x, y \in R : x = y
    BY <2>1 DEF DirInv
  <2>5. /\ Q = {} <=> ~Queued(d, i)
        /\ H = {} <=> ~Held(d, i)
        /\ R = {} <=> ~Sent(d, i)
    BY DEF Queued, Held, Sent, ToSet
  <2>6. InOnePlace(d, i)
    BY <2>1 DEF DirInv
  <2> HIDE DEF Q, H, R
  <2>7. /\ Cardinality(Q) = IF Q = {} THEN 0 ELSE 1
        /\ Cardinality(H) = IF H = {} THEN 0 ELSE 1
        /\ Cardinality(R) = IF R = {} THEN 0 ELSE 1
    BY <2>2, <2>3, <2>4, CountOne
  <2>8. Cardinality(Q) + Cardinality(H) + Cardinality(R) = 1
    BY <2>5, <2>6, <2>7 DEF InOnePlace
  <2> QED BY <2>8 DEF Q, H, R
<1> QED
  BY <1>1, JobInvariant, TypeCorrect, PTL

-----------------------------------------------------------------------------
(* What the sequential createDag computes.  The recursive function and the   *)
(* fold by which Sequential is written are unfolded here: both exist, and    *)
(* satisfy their equations.                                                  *)

Start == [res |-> [ok |-> TRUE], links |-> <<>>, leafs |-> {}]
All(q) == FoldLeft(AddAll, Start, q)
DirOutcome(d, all) ==
    [res |-> IF all.res.ok THEN Built(BuildLeaf(d, all.links, <<>>)) ELSE all.res,
     leafs |-> all.leafs]
Below(h, d) == [i \in DOMAIN Entries[d] |-> h[Entries[d][i]]]
Outcome(h, bad, e) ==
    IF e \in bad THEN [res |-> Error(e), leafs |-> {}]
    ELSE IF e \in Files
    THEN [res |-> Built(BuildLeaf(e, FileChunks(e), FileData(e))),
          leafs |-> ToSet(FileChunks(e))]
    ELSE DirOutcome(e, All(Below(h, e)))
AreOutcomes(h, bad) == h = [e \in Entry |-> Outcome(h, bad, e)]
Outcomes(bad) == CHOOSE h : AreOutcomes(h, bad)

LEMMA SequentialIs == \A bad : Sequential(bad) = Outcomes(bad)[Root]
BY DEF Sequential, Outcomes, AreOutcomes, Outcome, DirOutcome, Below, All, Start,
       FoldLeft, MapThenFoldSet

FoldStep(h, q, s) == IF s = {} THEN Start ELSE AddAll(h[s \ {Max(s)}], q[Max(s)])
IsFold(h, q) == h = [s \in SUBSET DOMAIN q |-> FoldStep(h, q, s)]
FoldOf(q) == CHOOSE h : IsFold(h, q)

LEMMA AllIs == \A q : All(q) = FoldOf(q)[DOMAIN q]
BY DEF All, FoldOf, IsFold, FoldStep, FoldLeft, MapThenFoldSet

LEMMA MaxIs ==
    ASSUME NEW n \in Nat, NEW s \in SUBSET (1..n), s # {}
    PROVE  Max(s) \in s /\ \A x \in s : Max(s) >= x
<1> DEFINE T == {n - x : x \in s}
<1>1. \A x \in s : x \in Nat /\ n - x \in Nat
  OBVIOUS
<1>2. T \subseteq Nat /\ T # {}
  BY <1>1
<1>3. PICK m \in T : \A k \in T : m <= k
  BY <1>2, Least
<1>4. PICK x \in s : m = n - x
  OBVIOUS
<1>5. ASSUME NEW y \in s PROVE x >= y
  <2>1. n - x <= n - y
    BY <1>3, <1>4
  <2> QED BY <2>1, <1>1
<1>6. \E z \in s : \A y \in s : z >= y
  BY <1>5
<1> QED
  BY <1>6 DEF Max

FewOf(q, n) == {s \in SUBSET DOMAIN q : Cardinality(s) <= n}
FoldUpTo(h, q, n) == h = [s \in FewOf(q, n) |-> FoldStep(h, q, s)]
HasFold(q, n) == \E h : FoldUpTo(h, q, n)

LEMMA FoldExists ==
    ASSUME NEW n \in Nat, NEW q, DOMAIN q = 1..n
    PROVE  IsFold(FoldOf(q), q)
<1> DEFINE S == DOMAIN q
           T == {k \in Nat : ~HasFold(q, k)}
<1>0. IsFiniteSet(S) /\ Cardinality(S) \in Nat
  BY FS_Interval, FS_CardinalityType
<1>rest. ASSUME NEW s \in SUBSET S, s # {}
         PROVE  /\ s \ {Max(s)} \in SUBSET S
                /\ Cardinality(s) \in Nat /\ Cardinality(s \ {Max(s)}) \in Nat
                /\ Cardinality(s \ {Max(s)}) = Cardinality(s) - 1
  <2>1. IsFiniteSet(s) /\ Max(s) \in s
    BY <1>0, <1>rest, FS_Subset, MaxIs
  <2> QED BY <2>1, FS_RemoveElement, FS_CardinalityType
<1>1. T = {}
  <2> SUFFICES ASSUME T # {} PROVE FALSE
    OBVIOUS
  <2>1. PICK m \in T : \A k \in T : m <= k
    BY Least
  <2>2. CASE m = 0
    <3> DEFINE g == [s \in FewOf(q, 0) |-> Start]
    <3>1. \A s \in FewOf(q, 0) : s = {}
      BY <1>0, <1>rest, FS_Subset, FS_EmptySet, FS_CardinalityType DEF FewOf
    <3>2. \A s \in FewOf(q, 0) : FoldStep(g, q, s) = Start
      BY <3>1 DEF FoldStep
    <3>3. g = [s \in FewOf(q, 0) |-> FoldStep(g, q, s)]
      BY <3>2
    <3>4. FoldUpTo(g, q, 0)
      BY <3>3 DEF FoldUpTo
    <3> QED BY <3>4, <2>2 DEF HasFold
  <2>3. CASE m # 0
    <3>1. m \in Nat /\ m - 1 \in Nat /\ ~(m <= m - 1)
      BY <2>3
    <3>2. PICK h : FoldUpTo(h, q, m - 1)
      BY <3>1, <2>1 DEF HasFold
    <3> DEFINE g == [s \in FewOf(q, m) |-> FoldStep(h, q, s)]
    <3>3. ASSUME NEW s \in FewOf(q, m) PROVE FoldStep(g, q, s) = FoldStep(h, q, s)
      <4>1. CASE s = {}
        BY <4>1 DEF FoldStep
      <4>2. CASE s # {}
        <5> DEFINE r == s \ {Max(s)}
        <5>1. s \in SUBSET S /\ Cardinality(s) <= m
          BY DEF FewOf
        <5>2. /\ r \in SUBSET S /\ Cardinality(r) \in Nat
              /\ Cardinality(r) = Cardinality(s) - 1 /\ Cardinality(s) \in Nat
          BY <5>1, <4>2, <1>rest
        <5>3. Cardinality(r) <= m - 1 /\ Cardinality(r) <= m
          BY <5>1, <5>2, <3>1
        <5>4. r \in FewOf(q, m - 1) /\ r \in FewOf(q, m)
          BY <5>2, <5>3 DEF FewOf
        <5>5. g[r] = FoldStep(h, q, r) /\ h[r] = FoldStep(h, q, r)
          BY <5>4, <3>2 DEF FoldUpTo
        <5> QED BY <5>5, <4>2 DEF FoldStep
      <4> QED BY <4>1, <4>2
    <3>4. g = [s \in FewOf(q, m) |-> FoldStep(g, q, s)]
      BY <3>3
    <3>5. FoldUpTo(g, q, m)
      BY <3>4 DEF FoldUpTo
    <3> QED BY <3>5 DEF HasFold
  <2> QED BY <2>2, <2>3
<1>3. FewOf(q, Cardinality(S)) = SUBSET S
  BY <1>0, FS_Subset DEF FewOf
<1>4. PICK h : FoldUpTo(h, q, Cardinality(S))
  BY <1>1, <1>0 DEF HasFold
<1>5. IsFold(h, q)
  BY <1>3, <1>4 DEF IsFold, FoldUpTo
<1> QED
  BY <1>5 DEF FoldOf

\* The fold over the first k results.
Prefix(q, k) == FoldOf(q)[1..k]

LEMMA FoldPrefix ==
    ASSUME NEW n \in Nat, NEW q, DOMAIN q = 1..n
    PROVE  /\ Prefix(q, 0) = Start
           /\ \A k \in 1..n : Prefix(q, k) = AddAll(Prefix(q, k - 1), q[k])
           /\ All(q) = Prefix(q, n)
<1>1. \A s \in SUBSET (1..n) : FoldOf(q)[s] = FoldStep(FoldOf(q), q, s)
  <2>1. IsFold(FoldOf(q), q)
    BY FoldExists
  <2> QED BY <2>1 DEF IsFold
<1>2. Prefix(q, 0) = Start
  <2>1. 1..0 = {}
    OBVIOUS
  <2> QED BY <1>1, <2>1 DEF Prefix, FoldStep
<1>3. ASSUME NEW k \in 1..n PROVE Prefix(q, k) = AddAll(Prefix(q, k - 1), q[k])
  <2>1. 1..k \in SUBSET (1..n) /\ 1..k # {} /\ k \in 1..k
    <3>1. k \in 1..k /\ \A x \in 1..k : x \in 1..n
      OBVIOUS
    <3> QED BY <3>1
  <2>2. Max(1..k) \in 1..k /\ Max(1..k) >= k
    BY <2>1, MaxIs
  <2>3. Max(1..k) = k
    BY <2>2
  <2>4. (1..k) \ {k} = 1..(k - 1)
    OBVIOUS
  <2>5. FoldOf(q)[1..k] = FoldStep(FoldOf(q), q, 1..k)
    BY <1>1, <2>1
  <2> QED BY <2>1, <2>3, <2>4, <2>5 DEF Prefix, FoldStep
<1>4. All(q) = Prefix(q, n)
  BY AllIs DEF Prefix
<1> QED
  BY <1>2, <1>3, <1>4

AllOk(q, k) == \A i \in 1..k : q[i].res.ok
Leaves(q, k) == [i \in 1..k |-> q[i].res.leaf]
Adds(q, k) == UNION {q[i].leafs \cup {q[i].res.leaf} : i \in 1..k}
PrefixIsOk(q, k) == /\ Prefix(q, k).res.ok
                    /\ Prefix(q, k).links = Leaves(q, k)
                    /\ Prefix(q, k).leafs = Adds(q, k)

LEMMA SeqLength ==
    ASSUME NEW S, NEW m \in Nat, NEW s \in [1..m -> S]
    PROVE  s \in Seq(S) /\ Len(s) = m
<1>1. s \in Seq(S)
  BY SeqDef
<1> QED
  BY <1>1, LenProperties

LEMMA AppendLeaf ==
    ASSUME NEW n \in Nat, NEW q, NEW k \in 1..n
    PROVE  Append(Leaves(q, k - 1), q[k].res.leaf) = Leaves(q, k)
<1> DEFINE S == {q[i].res.leaf : i \in 1..n}
           s == Leaves(q, k - 1)
           t == Leaves(q, k)
<1>1. s \in [1..(k - 1) -> S] /\ t \in [1..k -> S] /\ q[k].res.leaf \in S
  BY DEF Leaves
<1>2. k - 1 \in Nat /\ k \in Nat
  OBVIOUS
<1>3. s \in Seq(S) /\ Len(s) = k - 1 /\ t \in Seq(S) /\ Len(t) = k
  <2> HIDE DEF s, t, S
  <2> QED BY <1>1, <1>2, SeqLength
<1>4. \A i \in 1..(k - 1) : s[i] = t[i]
  BY DEF Leaves
<1>5. t[k] = q[k].res.leaf
  BY DEF Leaves
<1> HIDE DEF s, t, S
<1>6. /\ Append(s, q[k].res.leaf) \in Seq(S) /\ Len(Append(s, q[k].res.leaf)) = k
      /\ \A i \in 1..(k - 1) : Append(s, q[k].res.leaf)[i] = s[i]
      /\ Append(s, q[k].res.leaf)[k] = q[k].res.leaf
  BY <1>1, <1>2, <1>3
<1>7. \A i \in 1..k : Append(s, q[k].res.leaf)[i] = t[i]
  BY <1>4, <1>5, <1>6, <1>2
<1> QED
  BY <1>3, <1>6, <1>7, SeqEqual DEF s, t

LEMMA PrefixOk ==
    ASSUME NEW n \in Nat, NEW q, DOMAIN q = 1..n, NEW k \in 0..n, AllOk(q, k)
    PROVE  PrefixIsOk(q, k)
<1> DEFINE T == {j \in 0..n : AllOk(q, j) /\ ~PrefixIsOk(q, j)}
<1>1. T = {}
  <2> SUFFICES ASSUME T # {} PROVE FALSE
    OBVIOUS
  <2>1. PICK m \in T : \A j \in T : m <= j
    <3>1. T \subseteq Nat
      OBVIOUS
    <3> HIDE DEF T
    <3> QED BY <3>1, Least
  <2>2. CASE m = 0
    <3>1. Prefix(q, 0) = Start
      BY FoldPrefix
    <3>2. Leaves(q, 0) = <<>> /\ Adds(q, 0) = {}
      BY DEF Leaves, Adds
    <3>3. Start.res.ok /\ Start.links = <<>> /\ Start.leafs = {}
      BY DEF Start
    <3>4. PrefixIsOk(q, 0)
      BY <3>1, <3>2, <3>3 DEF PrefixIsOk
    <3> QED BY <2>2, <3>4
  <2>3. CASE m # 0
    <3>1. m \in 1..n /\ m - 1 \in 0..n /\ ~(m <= m - 1)
      BY <2>3
    <3>2. AllOk(q, m)
      OBVIOUS
    <3>3. AllOk(q, m - 1) /\ q[m].res.ok
      BY <3>1, <3>2 DEF AllOk
    <3>4. PrefixIsOk(q, m - 1)
      BY <2>1, <3>1, <3>3
    <3>5. Prefix(q, m) = AddAll(Prefix(q, m - 1), q[m])
      BY <3>1, FoldPrefix
    <3>6. /\ Prefix(q, m).res = q[m].res
          /\ Prefix(q, m).links = Append(Prefix(q, m - 1).links, q[m].res.leaf)
          /\ Prefix(q, m).leafs = Prefix(q, m - 1).leafs \cup q[m].leafs \cup {q[m].res.leaf}
      BY <3>3, <3>4, <3>5 DEF PrefixIsOk, AddAll
    <3>7. Prefix(q, m).links = Leaves(q, m)
      BY <3>1, <3>4, <3>6, AppendLeaf DEF PrefixIsOk
    <3>8. Prefix(q, m).leafs = Adds(q, m)
      <4>1. 1..m = (1..(m - 1)) \cup {m}
        BY <3>1
      <4>2. Adds(q, m) = Adds(q, m - 1) \cup q[m].leafs \cup {q[m].res.leaf}
        BY <4>1 DEF Adds
      <4> QED BY <4>2, <3>4, <3>6 DEF PrefixIsOk
    <3>9. PrefixIsOk(q, m)
      BY <3>3, <3>6, <3>7, <3>8 DEF PrefixIsOk
    <3> QED BY <3>9
  <2> QED BY <2>2, <2>3
<1> QED
  BY <1>1

LEMMA PrefixFails ==
    ASSUME NEW n \in Nat, NEW q, DOMAIN q = 1..n,
           NEW i \in 1..n, AllOk(q, i - 1), ~q[i].res.ok, NEW k \in i..n
    PROVE  Prefix(q, k).res = q[i].res
<1> DEFINE T == {j \in i..n : Prefix(q, j).res # q[i].res}
<1>1. T = {}
  <2> SUFFICES ASSUME T # {} PROVE FALSE
    OBVIOUS
  <2>1. PICK m \in T : \A j \in T : m <= j
    <3>1. T \subseteq Nat
      OBVIOUS
    <3> HIDE DEF T
    <3> QED BY <3>1, Least
  <2>2. m \in 1..n /\ Prefix(q, m) = AddAll(Prefix(q, m - 1), q[m])
    BY FoldPrefix
  <2>3. CASE m = i
    <3>1. i - 1 \in 0..n
      OBVIOUS
    <3>2. Prefix(q, i - 1).res.ok
      BY <3>1, PrefixOk DEF PrefixIsOk
    <3> QED BY <2>2, <2>3, <3>2 DEF AddAll
  <2>4. CASE m # i
    <3>1. m - 1 \in i..n /\ ~(m <= m - 1)
      BY <2>4
    <3>2. Prefix(q, m - 1).res = q[i].res
      BY <2>1, <3>1
    <3> QED BY <2>2, <3>2 DEF AddAll
  <2> QED BY <2>3, <2>4
<1> QED
  BY <1>1

(* Every set of entries has one none of whose own entries is in the set.     *)
LEMMA LowestEntry ==
    ASSUME NEW B \in SUBSET Entry, B # {}
    PROVE  \E e \in B : e \in Dirs => ToSet(Entries[e]) \cap B = {}
<1>1. CASE \E f \in B : f \notin Dirs
  BY <1>1
<1>2. CASE \A f \in B : f \in Dirs
  BY <1>2, NoCycleAssumption
<1> QED BY <1>1, <1>2

LEMMA OutcomeLocal ==
    ASSUME NEW h, NEW g, NEW bad, NEW e \in Entry,
           e \in Dirs => \A c \in ToSet(Entries[e]) : h[c] = g[c]
    PROVE  Outcome(h, bad, e) = Outcome(g, bad, e)
<1>1. CASE e \in Files
  BY <1>1 DEF Outcome
<1>2. CASE e \in Dirs
  <2>1. \A i \in DOMAIN Entries[e] : h[Entries[e][i]] = g[Entries[e][i]]
    BY <1>2 DEF ToSet
  <2>2. Below(h, e) = Below(g, e)
    BY <2>1 DEF Below
  <2> QED BY <2>2 DEF Outcome
<1> QED BY <1>1, <1>2 DEF Entry

Subtree(S) == S \subseteq Entry /\ \A d \in S \cap Dirs : ToSet(Entries[d]) \subseteq S
Computes(h, S, bad) == h = [e \in S |-> Outcome(h, bad, e)]
Reached(e, bad, v) == \E S : \E h : /\ e \in S /\ Subtree(S) /\ Computes(h, S, bad)
                                    /\ v = h[e]
OutcomeOf(e, bad) == CHOOSE v : Reached(e, bad, v)

LEMMA OneOutcome ==
    ASSUME NEW bad, NEW S, Subtree(S), NEW h, Computes(h, S, bad),
           NEW R, Subtree(R), NEW g, Computes(g, R, bad), NEW e \in S \cap R
    PROVE  h[e] = g[e]
<1> DEFINE B == {x \in S \cap R : h[x] # g[x]}
<1>1. B = {}
  <2> SUFFICES ASSUME B # {} PROVE FALSE
    OBVIOUS
  <2>1. B \in SUBSET Entry
    BY DEF Subtree
  <2>2. PICK x \in B : x \in Dirs => ToSet(Entries[x]) \cap B = {}
    BY <2>1, LowestEntry
  <2>3. x \in Dirs => \A c \in ToSet(Entries[x]) : h[c] = g[c]
    BY <2>2 DEF Subtree
  <2>4. h[x] = Outcome(h, bad, x) /\ g[x] = Outcome(g, bad, x)
    BY DEF Computes
  <2>5. Outcome(h, bad, x) = Outcome(g, bad, x)
    BY <2>1, <2>3, OutcomeLocal
  <2> QED BY <2>4, <2>5
<1> QED
  BY <1>1

LEMMA OutcomesExist == \A bad : AreOutcomes(Outcomes(bad), bad)
<1> SUFFICES ASSUME NEW bad PROVE AreOutcomes(Outcomes(bad), bad)
  OBVIOUS
<1> DEFINE Good == {e \in Entry : \E v : Reached(e, bad, v)}
           G == [e \in Good |-> OutcomeOf(e, bad)]
<1>1. ASSUME NEW S, Subtree(S), NEW h, Computes(h, S, bad), NEW e \in S
      PROVE  e \in Good /\ G[e] = h[e]
  <2>1. Reached(e, bad, h[e]) /\ e \in Entry
    BY <1>1 DEF Reached, Subtree
  <2>2. Reached(e, bad, OutcomeOf(e, bad))
    BY <2>1 DEF OutcomeOf
  <2>3. OutcomeOf(e, bad) = h[e]
    BY <2>2, <1>1, OneOutcome DEF Reached
  <2> QED BY <2>1, <2>3
<1>2. ASSUME NEW e \in Good
      PROVE  /\ e \in Dirs => ToSet(Entries[e]) \subseteq Good
             /\ G[e] = Outcome(G, bad, e)
  <2>1. PICK S : \E h : e \in S /\ Subtree(S) /\ Computes(h, S, bad)
    BY DEF Reached
  <2>2. PICK h : e \in S /\ Subtree(S) /\ Computes(h, S, bad)
    BY <2>1
  <2>3. \A x \in S : x \in Good /\ G[x] = h[x]
    BY <2>2, <1>1
  <2>4. e \in Dirs => \A c \in ToSet(Entries[e]) : c \in S
    BY <2>2 DEF Subtree
  <2> HIDE DEF G, Good
  <2>5. Outcome(G, bad, e) = Outcome(h, bad, e)
    <3>1. e \in Entry
      BY <2>2 DEF Subtree
    <3>2. e \in Dirs => \A c \in ToSet(Entries[e]) : G[c] = h[c]
      BY <2>3, <2>4
    <3> QED BY <3>1, <3>2, OutcomeLocal
  <2>6. h[e] = Outcome(h, bad, e)
    BY <2>2 DEF Computes
  <2> QED BY <2>2, <2>3, <2>4, <2>5, <2>6
<1>3. Good = Entry
  <2> SUFFICES ASSUME Entry \ Good # {} PROVE FALSE
    OBVIOUS
  <2>1. PICK e \in Entry \ Good : e \in Dirs => ToSet(Entries[e]) \cap (Entry \ Good) = {}
    <3>1. Entry \ Good \in SUBSET Entry
      OBVIOUS
    <3> HIDE DEF Good
    <3> QED BY <3>1, LowestEntry
  <2>2. e \in Dirs => ToSet(Entries[e]) \subseteq Good
    BY <2>1, EntryTypes
  <2> DEFINE S == Good \cup {e}
             g == [x \in S |-> IF x \in Good THEN G[x] ELSE Outcome(G, bad, e)]
  <2>3. Subtree(S)
    BY <1>2, <2>2 DEF Subtree
  <2>4. \A x \in Good : g[x] = G[x]
    OBVIOUS
  <2>5. ASSUME NEW x \in S PROVE g[x] = Outcome(g, bad, x)
    <3>1. x \in Entry /\ (x \in Dirs => ToSet(Entries[x]) \subseteq Good)
      BY <1>2, <2>2
    <3>2. g[x] = Outcome(G, bad, x)
      BY <1>2
    <3>3. x \in Dirs => \A c \in ToSet(Entries[x]) : g[c] = G[c]
      BY <3>1, <2>4
    <3> HIDE DEF g, G, S, Good
    <3>4. Outcome(g, bad, x) = Outcome(G, bad, x)
      BY <3>1, <3>3, OutcomeLocal
    <3> QED BY <3>2, <3>4
  <2>6. g = [x \in S |-> Outcome(g, bad, x)]
    <3>1. \A x \in S : g[x] = Outcome(g, bad, x)
      BY <2>5
    <3> QED BY <3>1
  <2>7. Computes(g, S, bad) /\ e \in S
    BY <2>6 DEF Computes
  <2> QED BY <2>3, <2>7, <1>1
<1>4. G = [e \in Entry |-> Outcome(G, bad, e)]
  <2>1. \A e \in Entry : G[e] = Outcome(G, bad, e)
    BY <1>2, <1>3
  <2> QED BY <2>1, <1>3
<1>5. AreOutcomes(G, bad)
  BY <1>4 DEF AreOutcomes
<1> QED
  BY <1>5 DEF Outcomes

Result(bad, e) == Outcomes(bad)[e].res
Added(bad, e) == Outcomes(bad)[e].leafs
\* The links of a directory whose first k entries have succeeded.
ChildLinks(bad, d, k) == [i \in 1..k |-> Result(bad, Entries[d][i]).leaf]

LEMMA FileResult ==
    ASSUME NEW bad, NEW f \in Files
    PROVE  /\ f \in bad => Result(bad, f) = Error(f)
           /\ f \notin bad => /\ Result(bad, f) = Built(BuildLeaf(f, FileChunks(f), FileData(f)))
                              /\ Added(bad, f) = ToSet(FileChunks(f))
<1>1. Outcomes(bad)[f] = Outcome(Outcomes(bad), bad, f)
  BY OutcomesExist DEF AreOutcomes, Entry
<1> QED
  BY <1>1 DEF Outcome, Result, Added

LEMMA DirFails ==
    ASSUME NEW bad, NEW d \in Dirs, d \in bad
    PROVE  Result(bad, d) = Error(d)
<1>1. Outcomes(bad)[d] = Outcome(Outcomes(bad), bad, d)
  BY OutcomesExist DEF AreOutcomes, Entry
<1> QED
  BY <1>1 DEF Outcome, Result

LEMMA DirResult ==
    ASSUME NEW bad, NEW d \in Dirs, d \notin bad
    PROVE  /\ (\A i \in Index(d) : Result(bad, Entries[d][i]).ok) =>
                /\ Result(bad, d) = Built(BuildLeaf(d, ChildLinks(bad, d, Len(Entries[d])), <<>>))
                /\ Added(bad, d) = UNION {Added(bad, Entries[d][i])
                                            \cup {Result(bad, Entries[d][i]).leaf} : i \in Index(d)}
           /\ \A i \in Index(d) :
                /\ \A j \in Index(d) : j < i => Result(bad, Entries[d][j]).ok
                /\ ~Result(bad, Entries[d][i]).ok
                => Result(bad, d) = Result(bad, Entries[d][i])
<1> DEFINE O == Outcomes(bad)
           q == Below(O, d)
           n == Len(Entries[d])
<1>1. O[d] = Outcome(O, bad, d)
  BY OutcomesExist DEF AreOutcomes, Entry
<1>2. O[d] = DirOutcome(d, All(q))
  BY <1>1, EntryTypes DEF Outcome
<1>3. n \in Nat /\ Index(d) = 1..n
  BY TreeAssumption DEF Index
<1>4. DOMAIN q = 1..n /\ \A i \in 1..n : /\ q[i].res = Result(bad, Entries[d][i])
                                         /\ q[i].leafs = Added(bad, Entries[d][i])
  BY <1>3 DEF Below, Index, Result, Added
<1> HIDE DEF q, n, O
<1>5. All(q) = Prefix(q, n)
  BY <1>3, <1>4, FoldPrefix
<1>6. ASSUME \A i \in Index(d) : Result(bad, Entries[d][i]).ok
      PROVE  /\ Result(bad, d) = Built(BuildLeaf(d, ChildLinks(bad, d, n), <<>>))
             /\ Added(bad, d) = UNION {Added(bad, Entries[d][i])
                                         \cup {Result(bad, Entries[d][i]).leaf} : i \in Index(d)}
  <2>1. AllOk(q, n)
    BY <1>3, <1>4, <1>6 DEF AllOk
  <2>2. n \in 0..n
    BY <1>3
  <2>3. PrefixIsOk(q, n)
    BY <2>1, <2>2, <1>3, <1>4, PrefixOk
  <2>4. Leaves(q, n) = ChildLinks(bad, d, n)
    BY <1>4 DEF Leaves, ChildLinks
  <2>5. Adds(q, n) = UNION {Added(bad, Entries[d][i])
                              \cup {Result(bad, Entries[d][i]).leaf} : i \in Index(d)}
    BY <1>3, <1>4 DEF Adds
  <2>6. /\ O[d].res = Built(BuildLeaf(d, Leaves(q, n), <<>>)) /\ O[d].leafs = Adds(q, n)
    BY <2>3, <1>2, <1>5 DEF PrefixIsOk, DirOutcome
  <2> QED BY <2>4, <2>5, <2>6 DEF Result, Added, O
<1>7. ASSUME NEW i \in Index(d), \A j \in Index(d) : j < i => Result(bad, Entries[d][j]).ok,
             ~Result(bad, Entries[d][i]).ok
      PROVE  Result(bad, d) = Result(bad, Entries[d][i])
  <2>1. i \in 1..n /\ n \in i..n
    BY <1>3
  <2>2. \A j \in 1..(i - 1) : j \in Index(d) /\ j < i
    BY <1>3, <2>1
  <2>3. AllOk(q, i - 1)
    <3> SUFFICES ASSUME NEW j \in 1..(i - 1) PROVE q[j].res.ok
      BY DEF AllOk
    <3> QED BY <2>2, <1>3, <1>4, <1>7
  <2>4. ~q[i].res.ok
    BY <2>1, <1>4, <1>7
  <2>5. Prefix(q, n).res = q[i].res
    BY <2>1, <2>3, <2>4, <1>3, <1>4, PrefixFails
  <2>6. ~All(q).res.ok /\ O[d].res = q[i].res
    BY <2>4, <2>5, <1>2, <1>5 DEF DirOutcome
  <2> QED BY <2>1, <2>6, <1>4 DEF Result, O
<1> QED
  BY <1>6, <1>7 DEF n

\* A directory succeeds only if each of its entries does.
LEMMA AllSucceed ==
    ASSUME NEW bad, NEW d \in Dirs, Result(bad, d).ok
    PROVE  d \notin bad /\ \A i \in Index(d) : Result(bad, Entries[d][i]).ok
<1>1. d \notin bad
  BY DirFails DEF Error
<1> DEFINE T == {i \in Index(d) : ~Result(bad, Entries[d][i]).ok}
<1>2. T = {}
  <2> SUFFICES ASSUME T # {} PROVE FALSE
    OBVIOUS
  <2>1. T \subseteq Nat
    BY EntryTypes
  <2>2. PICK i \in T : \A j \in T : i <= j
    <3> HIDE DEF T
    <3> QED BY <2>1, Least
  <2>3. \A j \in Index(d) : j < i => Result(bad, Entries[d][j]).ok
    <3> SUFFICES ASSUME NEW j \in Index(d), j < i, ~Result(bad, Entries[d][j]).ok PROVE FALSE
      OBVIOUS
    <3>1. j \in T
      OBVIOUS
    <3>2. i <= j /\ i \in Nat /\ j \in Nat
      BY <3>1, <2>1, <2>2
    <3> QED BY <3>2
  <2>4. Result(bad, d) = Result(bad, Entries[d][i])
    BY <1>1, <2>3, DirResult
  <2> QED BY <2>4
<1> QED
  BY <1>1, <1>2

-----------------------------------------------------------------------------
(* The run of the pool against the sequential result                         *)

Expected(e) == Result(failing, e)

\* What has been returned stays returned, and the reads that fail are the same.
Kept == /\ failing' = failing
        /\ \A e \in Entry : pc[e] = "returned" => pc'[e] = "returned" /\ ret'[e] = ret[e]

LEMMA KeptStep == TypeOK /\ JobInv /\ [Next]_vars => Kept
<1> SUFFICES ASSUME TypeOK, JobInv, [Next]_vars PROVE Kept
  OBVIOUS
<1>0. ASSUME UNCHANGED <<failing, pc, ret>> PROVE Kept
  BY <1>0 DEF Kept
<1>1. ASSUME NEW e \in Entry, pc[e] # "returned", UNCHANGED failing,
             \A x \in Entry : x # e => pc'[x] = pc[x] /\ ret'[x] = ret[x]
      PROVE  Kept
  BY <1>1 DEF Kept
<1>2. ASSUME NEW e \in Entry, NEW p, pc' = [pc EXCEPT ![e] = p]
      PROVE  \A x \in Entry : x # e => pc'[x] = pc[x]
  BY <1>2 DEF TypeOK
<1>3. ASSUME NEW e \in Entry, NEW r, ret' = [ret EXCEPT ![e] = r]
      PROVE  \A x \in Entry : x # e => ret'[x] = ret[x]
  BY <1>3 DEF TypeOK, FunctionOn
<1>4. ASSUME NEW e \in Entry, NEW r, pc[e] # "returned", Return(e, r), UNCHANGED failing
      PROVE  Kept
  BY <1>1, <1>2, <1>3, <1>4 DEF Return
<1>5. ASSUME NEW d \in Dirs, DirStep(d) PROVE Kept
  <2>0. d \in Entry
    BY EntryTypes
  <2>1. CASE FailOpen(d) \/ BuildDir(d)
    BY <2>0, <2>1, <1>4 DEF FailOpen, BuildDir, At
  <2>2. CASE OpenSingle(d)
    <3>1. CASE Entries[d] = <<>>
      <4>1. pc' = [pc EXCEPT ![d] = "build"] /\ pc[d] # "returned" /\ UNCHANGED <<failing, ret>>
        BY <2>2, <3>1 DEF OpenSingle, At
      <4> QED BY <4>1, <2>0, <1>1, <1>2
    <3>2. CASE Entries[d] # <<>>
      <4> DEFINE c == Entries[d][1]
      <4>1. 1 \in Index(d)
        BY <3>2, TreeAssumption DEF Index
      <4>2. c \in ToSet(Entries[d]) /\ c \in Entry
        BY <4>1, EntryTypes
      <4>3. /\ pc' = [pc EXCEPT ![d] = "single", ![c] = FirstPC(c)]
            /\ pc[d] = "open" /\ UNCHANGED <<failing, ret>>
        BY <2>2, <3>2 DEF OpenSingle, At
      <4>4. pc[c] = "none"
        BY <4>2, <4>3 DEF JobInv, DirInv
      <4> HIDE DEF c
      <4>5. \A x \in Entry : x # c /\ x # d => pc'[x] = pc[x]
        BY <2>0, <4>2, <4>3 DEF TypeOK
      <4> QED BY <4>3, <4>4, <4>5 DEF Kept
    <3> QED BY <3>1, <3>2
  <2>3. CASE OpenPool(d) \/ SortResults(d)
    <3>1. /\ \E p : pc' = [pc EXCEPT ![d] = p]
          /\ pc[d] # "returned" /\ UNCHANGED <<failing, ret>>
      BY <2>3 DEF OpenPool, SortResults, At
    <3> QED BY <3>1, <2>0, <1>1, <1>2
  <2>4. CASE JoinSingle(d) \/ ApplyResult(d)
    <3>1. /\ pc[d] # "returned" /\ UNCHANGED failing
          /\ \/ \E r : Return(d, r)
             \/ \E p : pc' = [pc EXCEPT ![d] = p] /\ UNCHANGED ret
             \/ UNCHANGED <<pc, ret>>
      BY <2>4 DEF JoinSingle, ApplyResult, At
    <3> QED BY <3>1, <2>0, <1>0, <1>1, <1>2, <1>4
  <2>5. ASSUME NEW w \in Workers(d), TakeJob(d, w) PROVE Kept
    <3> DEFINE i == Head(jobs[d])
               c == Entries[d][i]
    <3>1. /\ pc[d] = "collect" /\ DirInv(d) /\ jobs[d] \in Seq(Index(d)) /\ jobs[d] # <<>>
          /\ UNCHANGED <<failing, ret>> /\ pc' = [pc EXCEPT ![c] = FirstPC(c)]
      BY <2>5 DEF TakeJob, At, JobInv, TypeOK
    <3>2. IsInjective(jobs[d])
      BY <3>1 DEF DirInv
    <3>3. i \in ToSet(jobs[d]) /\ ToSet(jobs[d]) \subseteq Index(d)
      BY <3>1, <3>2, TailInjective DEF ToSet
    <3>4. pc[c] = "none" /\ c \in Entry
      BY <3>1, <3>3, EntryTypes DEF DirInv
    <3> HIDE DEF c, i
    <3> QED BY <3>1, <3>4, <1>1, <1>2
  <2>6. CASE CloseResults(d)
    BY <2>6, <1>0 DEF CloseResults, taskVars
  <2>7. ASSUME NEW w \in Workers(d), SendResult(d, w) \/ ExitWorker(d, w) PROVE Kept
    BY <2>7, <1>0 DEF SendResult, ExitWorker, taskVars
  <2> QED
    BY <1>5, <2>1, <2>2, <2>3, <2>4, <2>5, <2>6, <2>7 DEF DirStep
<1>6. ASSUME NEW f \in Files, FileStep(f) PROVE Kept
  <2>0. f \in Entry
    BY DEF Entry
  <2>1. CASE ReadChunk(f)
    BY <2>1, <1>0 DEF ReadChunk
  <2>2. CASE FailRead(f) \/ BuildFile(f)
    BY <2>0, <2>2, <1>4 DEF FailRead, BuildFile, At
  <2> QED BY <1>6, <2>1, <2>2 DEF FileStep
<1>7. ASSUME NEW e \in Entry, LockStep(e) PROVE Kept
  BY <1>7, <1>0 DEF LockStep, Lock, LookUp, Store, taskVars
<1>8. CASE FinishDag \/ Finished \/ UNCHANGED vars
  BY <1>8, <1>0 DEF FinishDag, Finished, vars, taskVars
<1> QED
  BY <1>5, <1>6, <1>7, <1>8 DEF Next

(* Files: a task that reads has linked the chunk leaves of what it has read. *)

FirstChunks(f, k) == IF k < 2 THEN <<>>
                     ELSE [i \in 1..k |-> ChunkLeaf(i - 1, Content[f][i])]

LEMMA NextChunks ==
    ASSUME NEW f \in Files, NEW k \in 0..Len(Content[f]), k < Len(Content[f])
    PROVE  FirstChunks(f, k) \o NewChunks(f, k + 1) = FirstChunks(f, k + 1)
<1> DEFINE chunk(i) == ChunkLeaf(i - 1, Content[f][i])
           n == Len(Content[f])
           S == {chunk(i) : i \in 1..n}
<1>0. n \in Nat /\ k \in Nat /\ k + 1 \in 1..n
  BY TreeAssumption
<1>1. CASE k = 0
  BY <1>1 DEF FirstChunks, NewChunks
<1>2. CASE k = 1
  <2>1. FirstChunks(f, k) = <<>> /\ NewChunks(f, k + 1) = <<chunk(1), chunk(2)>>
    BY <1>2 DEF FirstChunks, NewChunks
  <2>2. FirstChunks(f, k + 1) = [i \in 1..2 |-> chunk(i)]
    BY <1>2 DEF FirstChunks
  <2> DEFINE t == [i \in 1..2 |-> chunk(i)]
             a == chunk(1)
             b == chunk(2)
  <2>3. t[1] = a /\ t[2] = b /\ t \in [1..2 -> {a, b}]
    <3>1. \A i \in 1..2 : i = 1 \/ i = 2
      OBVIOUS
    <3> QED BY <3>1
  <2> HIDE DEF t, a, b
  <2>4. t \in Seq({a, b}) /\ Len(t) = 2
    BY <2>3, SeqLength
  <2>5. <<a, b>> \in Seq({a, b}) /\ Len(<<a, b>>) = 2 /\ <<a, b>>[1] = a /\ <<a, b>>[2] = b
    OBVIOUS
  <2>6. \A i \in 1..2 : t[i] = <<a, b>>[i]
    <3>1. \A i \in 1..2 : i = 1 \/ i = 2
      OBVIOUS
    <3> QED BY <2>3, <2>5, <3>1
  <2>7. t = <<a, b>>
    BY <2>4, <2>5, <2>6, SeqEqual
  <2>8. <<>> \o <<a, b>> = <<a, b>>
    BY <2>5
  <2> QED BY <2>1, <2>2, <2>7, <2>8 DEF t, a, b
<1>3. CASE k > 1
  <2> DEFINE s == [i \in 1..k |-> chunk(i)]
             t == [i \in 1..(k + 1) |-> chunk(i)]
             c == chunk(k + 1)
  <2>1. ~(k < 2) /\ ~(k + 1 < 2) /\ k + 1 # 1 /\ k + 1 # 2
    BY <1>0, <1>3
  <2>2. FirstChunks(f, k) = s /\ FirstChunks(f, k + 1) = t /\ NewChunks(f, k + 1) = <<c>>
    BY <2>1 DEF FirstChunks, NewChunks
  <2>3. s \in [1..k -> S] /\ t \in [1..(k + 1) -> S] /\ c \in S
    BY <1>0
  <2>4. t[k + 1] = c /\ \A i \in 1..k : s[i] = t[i]
    BY <1>0
  <2> HIDE DEF s, t, c, S
  <2>5. s \in Seq(S) /\ Len(s) = k /\ t \in Seq(S) /\ Len(t) = k + 1
    BY <2>3, <1>0, SeqLength
  <2> DEFINE u == s \o <<c>>
  <2>6. /\ u \in Seq(S) /\ Len(u) = k + 1 /\ u[k + 1] = c
        /\ \A i \in 1..k : u[i] = s[i]
    BY <2>3, <2>5, <1>0
  <2>7. \A i \in 1..(k + 1) : i \in 1..k \/ i = k + 1
    BY <1>0
  <2>8. \A i \in 1..(k + 1) : u[i] = t[i]
    BY <2>4, <2>6, <2>7
  <2>9. u = t
    <3> HIDE DEF u
    <3> QED BY <2>5, <2>6, <2>8, SeqEqual
  <2> QED BY <2>2, <2>9
<1> QED BY <1>0, <1>1, <1>2, <1>3

FileRun(f) == pc[f] # "returned" => /\ step[f] \in 0..Len(Content[f])
                                    /\ links[f] = FirstChunks(f, step[f])
FileInv == \A f \in Files : FileRun(f)

LEMMA FileInit == Init => FileInv
<1> SUFFICES ASSUME Init, NEW f \in Files PROVE FileRun(f)
  BY DEF FileInv
<1>1. step[f] = 0 /\ links[f] = <<>>
  BY DEF Init, Entry
<1>2. Len(Content[f]) \in Nat
  BY TreeAssumption
<1> QED
  BY <1>1, <1>2 DEF FileRun, FirstChunks

LEMMA FileStepKeeps == FileInv /\ TypeOK /\ JobInv /\ [Next]_vars => FileInv'
<1> SUFFICES ASSUME FileInv, TypeOK, JobInv, [Next]_vars, NEW f \in Files PROVE FileRun(f)'
  BY DEF FileInv
<1>0. /\ f \in Entry /\ f \notin Dirs /\ FileRun(f)
      /\ pc'[f] # "returned" => pc[f] # "returned"
  BY KeptStep, EntryTypes DEF Kept, Entry, FileInv
<1>1. ASSUME step'[f] = step[f], links'[f] = links[f] PROVE FileRun(f)'
  BY <1>0, <1>1 DEF FileRun
<1>2. ASSUME NEW d \in Dirs, DirStep(d) PROVE FileRun(f)'
  <2>0. d # f /\ d \in Entry
    BY <1>0, EntryTypes
  <2>1. \/ UNCHANGED <<step, links>>
        \/ /\ UNCHANGED step /\ \E ls : links' = [links EXCEPT ![d] = ls]
        \/ /\ step' = [step EXCEPT ![d] = @ + 1] /\ \E ls : links' = [links EXCEPT ![d] = ls]
    <3>1. CASE FailOpen(d) \/ OpenSingle(d) \/ OpenPool(d) \/ BuildDir(d) \/ SortResults(d)
      BY <3>1 DEF FailOpen, OpenSingle, OpenPool, BuildDir, SortResults
    <3>2. CASE JoinSingle(d)
      BY <3>2 DEF JoinSingle, LinkAndAdd
    <3>3. CASE ApplyResult(d)
      BY <3>3 DEF ApplyResult, LinkAndAdd
    <3>4. CASE CloseResults(d)
      BY <3>4 DEF CloseResults, taskVars
    <3>5. ASSUME NEW w \in Workers(d), TakeJob(d, w) \/ SendResult(d, w) \/ ExitWorker(d, w)
          PROVE  UNCHANGED <<step, links>>
      BY <3>5 DEF TakeJob, SendResult, ExitWorker, taskVars
    <3> QED BY <1>2, <3>1, <3>2, <3>3, <3>4, <3>5 DEF DirStep
  <2>2. step'[f] = step[f] /\ links'[f] = links[f]
    BY <2>0, <2>1, <1>0 DEF TypeOK, FunctionOn
  <2> QED BY <2>2, <1>1
<1>3. ASSUME NEW g \in Files, FileStep(g) PROVE FileRun(f)'
  <2>1. CASE FailRead(g) \/ BuildFile(g)
    BY <2>1, <1>1 DEF FailRead, BuildFile
  <2>2. CASE ReadChunk(g)
    <3>1. CASE g # f
      <4>1. step'[f] = step[f] /\ links'[f] = links[f]
        BY <2>2, <3>1, <1>0 DEF ReadChunk, LinkAndAdd, TypeOK, FunctionOn
      <4> QED BY <4>1, <1>1
    <3>2. CASE g = f
      <4>1. /\ step[f] < Len(Content[f]) /\ step'[f] = step[f] + 1
            /\ links'[f] = links[f] \o NewChunks(f, step[f] + 1)
            /\ pc[f] = "read"
        BY <2>2, <3>2, <1>0 DEF ReadChunk, At, LinkAndAdd, TypeOK, FunctionOn
      <4>2. step[f] \in 0..Len(Content[f]) /\ links[f] = FirstChunks(f, step[f])
        BY <4>1, <1>0 DEF FileRun
      <4>3. Len(Content[f]) \in Nat
        BY TreeAssumption
      <4>4. links'[f] = FirstChunks(f, step[f] + 1)
        BY <4>1, <4>2, NextChunks
      <4>5. step[f] + 1 \in 0..Len(Content[f])
        BY <4>1, <4>2, <4>3
      <4> QED BY <4>1, <4>4, <4>5 DEF FileRun
    <3> QED BY <3>1, <3>2
  <2> QED BY <1>3, <2>1, <2>2 DEF FileStep
<1>4. ASSUME NEW e \in Entry, LockStep(e) PROVE FileRun(f)'
  BY <1>4, <1>1 DEF LockStep, Lock, LookUp, Store, taskVars
<1>5. CASE FinishDag \/ Finished \/ UNCHANGED vars
  BY <1>5, <1>1 DEF FinishDag, Finished, vars, taskVars
<1> QED
  BY <1>2, <1>3, <1>4, <1>5 DEF Next

\* What the task of a file returns.
LEMMA FileReturns ==
    ASSUME FileInv, NEW f \in Files
    PROVE  /\ FailRead(f) => Return(f, Expected(f))
           /\ BuildFile(f) => /\ Return(f, Expected(f)) /\ links[f] = FileChunks(f)
                              /\ Added(failing, f) = ToSet(FileChunks(f))
<1>1. ASSUME FailRead(f) PROVE Return(f, Expected(f))
  BY <1>1, FileResult DEF FailRead, Expected
<1>2. ASSUME BuildFile(f)
      PROVE  /\ Return(f, Expected(f)) /\ links[f] = FileChunks(f)
             /\ Added(failing, f) = ToSet(FileChunks(f))
  <2>1. /\ f \notin failing /\ step[f] = Len(Content[f])
        /\ links[f] = FirstChunks(f, Len(Content[f]))
    BY <1>2 DEF BuildFile, At, FileInv, FileRun
  <2>2. links[f] = FileChunks(f)
    BY <2>1 DEF FirstChunks, FileChunks
  <2>3. (IF step[f] = 1 THEN <<Content[f][1]>> ELSE <<>>) = FileData(f)
    <3>1. CASE Len(Content[f]) = 1
      <4>1. Content[f] \in Seq(DOMAIN BlockSize) /\ Len(Content[f]) = 1
        BY <3>1, TreeAssumption
      <4> DEFINE s == Content[f]
      <4> HIDE DEF s
      <4>2. ASSUME s \in Seq(DOMAIN BlockSize), Len(s) = 1 PROVE <<s[1]>> = s
        BY <4>2
      <4>3. <<Content[f][1]>> = Content[f]
        BY <4>1, <4>2 DEF s
      <4> QED BY <4>3, <3>1, <2>1 DEF FileData
    <3>2. CASE Len(Content[f]) # 1
      BY <3>2, <2>1 DEF FileData
    <3> QED BY <3>1, <3>2
  <2>4. Return(f, Built(BuildLeaf(f, links[f], FileData(f))))
    BY <1>2, <2>3 DEF BuildFile
  <2> QED BY <2>1, <2>2, <2>4, FileResult DEF Expected
<1> QED BY <1>1, <1>2

(* Directories: a pool is drained when its workers have exited, and a        *)
(* directory has linked the leaves of the entries it has joined, which have  *)
(* all succeeded, in the order of their names.                               *)
Done(d, k) == /\ \A i \in 1..k : /\ pc[Entries[d][i]] = "returned"
                                 /\ Expected(Entries[d][i]).ok
              /\ links[d] = ChildLinks(failing, d, k)
DirRun(d) ==
    /\ pc[d] \in {"none", "open", "single", "collect"} => step[d] = 0 /\ links[d] = <<>>
    /\ pc[d] \in {"single", "build", "collect", "apply"} => d \notin failing
    /\ pc[d] = "single" => Len(Entries[d]) = 1
    /\ pc[d] \in {"collect", "apply"} => Len(Entries[d]) > 1
    /\ pc[d] = "build" => Done(d, Len(Entries[d]))
    /\ pc[d] = "apply" => /\ exited[d] = Workers(d)
                          /\ step[d] \in 0..Len(Entries[d]) /\ Done(d, step[d])
    /\ \A w \in exited[d] : worker[d][w] = 0 /\ jobs[d] = <<>>
    /\ \A r \in results[d] : /\ pc[Entries[d][r.index]] = "returned"
                             /\ r.res = Expected(Entries[d][r.index])
RunInv == /\ \A d \in Dirs : DirRun(d)
          /\ \A e \in Entry : pc[e] = "returned" => ret[e] = Expected(e)

LEMMA EntryLength ==
    \A d \in Dirs : Len(Entries[d]) \in Nat /\ Index(d) = 1..Len(Entries[d])
BY TreeAssumption DEF Index

LEMMA SomeWorker == \A d \in Dirs : Len(Entries[d]) > 1 => 1 \in Workers(d)
<1> SUFFICES ASSUME NEW d \in Dirs, Len(Entries[d]) > 1 PROVE 1 \in Workers(d)
  OBVIOUS
<1> DEFINE n == Len(Entries[d])
<1>1. n \in Nat
  BY EntryLength
<1>2. NumWorkers(d) \in Nat /\ NumWorkers(d) >= 1
  <2> DEFINE m == CASE MaxWorkers = 0 -> NumCPU [] MaxWorkers < 0 -> n [] OTHER -> MaxWorkers
  <2>1. m \in Nat /\ m >= 1
    <3>1. CASE MaxWorkers = 0
      BY <3>1, WorkerAssumption
    <3>2. CASE MaxWorkers < 0
      BY <3>2, <1>1, WorkerAssumption
    <3>3. CASE ~(MaxWorkers = 0) /\ ~(MaxWorkers < 0)
      BY <3>3, WorkerAssumption
    <3> QED BY <3>1, <3>2, <3>3
  <2>2. NumWorkers(d) = Smaller(m, n)
    BY DEF NumWorkers
  <2> HIDE DEF m, n
  <2> QED BY <2>1, <2>2, <1>1 DEF Smaller, n
<1> QED
  BY <1>2 DEF Workers

\* As many elements as indexes, when each index belongs to one.
LEMMA CountIndexes ==
    ASSUME NEW m \in Nat, NEW Q, \A r \in Q : r.index \in 1..m,
           \A r, q \in Q : r.index = q.index => r = q,
           \A i \in 1..m : \E r \in Q : r.index = i
    PROVE  Cardinality(Q) = m
<1> DEFINE f == [r \in Q |-> r.index]
<1>1. f \in Injection(Q, 1..m)
  BY DEF Injection, IsInjective
<1>2. f \in Surjection(Q, 1..m)
  BY DEF Surjection
<1>3. IsFiniteSet(1..m) /\ Cardinality(1..m) = m
  BY FS_Interval
<1> QED
  BY <1>1, <1>2, <1>3, FS_Injection

\* Once the pool of d is drained, the k-th of the sorted results is that of the
\* k-th entry.
LEMMA Drained ==
    ASSUME TypeOK, JobInv, NEW d \in Dirs, DirRun(d), pc[d] = "apply"
    PROVE  /\ Cardinality(results[d]) = Len(Entries[d])
           /\ \A r \in results[d] : \A k : AtPosition(d, r, k) => r.index = k + 1
<1> DEFINE n == Len(Entries[d])
<1>0. /\ DirInv(d) /\ n \in Nat /\ Index(d) = 1..n
      /\ \A r \in results[d] : r.index \in 1..n
  BY EntryLength DEF JobInv, TypeOK
<1>1. jobs[d] = <<>> /\ \A w \in Workers(d) : worker[d][w] = 0
  BY SomeWorker DEF DirRun
<1>2. ASSUME NEW i \in 1..n PROVE \E r \in results[d] : r.index = i
  <2>1. i # 0 /\ InOnePlace(d, i)
    BY <1>0 DEF DirInv
  <2>2. ~Queued(d, i) /\ ~Held(d, i)
    BY <2>1, <1>1 DEF Queued, Held, ToSet
  <2> QED BY <2>1, <2>2 DEF InOnePlace, Sent
<1>3. \A r, q \in results[d] : r.index = q.index => r = q
  BY <1>0 DEF DirInv
<1> HIDE DEF n
<1>4. Cardinality(results[d]) = n
  BY <1>0, <1>2, <1>3, CountIndexes
<1>5. ASSUME NEW r \in results[d], NEW k, AtPosition(d, r, k) PROVE r.index = k + 1
  <2> DEFINE Q == {q \in results[d] : q.index < r.index}
             m == r.index - 1
  <2>1. m \in Nat /\ r.index \in 1..n
    BY <1>0
  <2>2. \A q \in Q : q.index \in 1..m
    BY <1>0, <2>1
  <2>3. \A i \in 1..m : \E q \in Q : q.index = i
    <3> SUFFICES ASSUME NEW i \in 1..m PROVE \E q \in Q : q.index = i
      OBVIOUS
    <3>1. i \in 1..n /\ i < r.index
      BY <1>0, <2>1
    <3> QED BY <3>1, <1>2
  <2>4. \A q, p \in Q : q.index = p.index => q = p
    BY <1>3
  <2>5. Cardinality(Q) = k
    BY <1>5 DEF AtPosition
  <2> HIDE DEF Q, m
  <2>6. Cardinality(Q) = m
    BY <2>1, <2>2, <2>3, <2>4, CountIndexes
  <2> QED BY <2>1, <2>5, <2>6 DEF m
<1> QED
  BY <1>4, <1>5 DEF n

LEMMA NoLink == \A bad, d : ChildLinks(bad, d, 0) = <<>>
BY DEF ChildLinks

LEMMA NextLink ==
    ASSUME NEW bad, NEW d, NEW k \in Nat
    PROVE  ChildLinks(bad, d, k) \o <<Result(bad, Entries[d][k + 1]).leaf>>
             = ChildLinks(bad, d, k + 1)
<1> DEFINE S == {Result(bad, Entries[d][i]).leaf : i \in 1..(k + 1)}
           s == ChildLinks(bad, d, k)
           t == ChildLinks(bad, d, k + 1)
           c == Result(bad, Entries[d][k + 1]).leaf
           u == s \o <<c>>
<1>2. s \in [1..k -> S] /\ t \in [1..(k + 1) -> S] /\ c \in S
  BY DEF ChildLinks
<1>3. t[k + 1] = c /\ \A i \in 1..k : s[i] = t[i]
  BY DEF ChildLinks
<1> HIDE DEF s, t, c, S
<1>4. s \in Seq(S) /\ Len(s) = k /\ t \in Seq(S) /\ Len(t) = k + 1
  BY <1>2, SeqLength
<1>5. /\ u \in Seq(S) /\ Len(u) = k + 1 /\ u[k + 1] = c
      /\ \A i \in 1..k : u[i] = s[i]
  BY <1>2, <1>4
<1>6. \A i \in 1..(k + 1) : u[i] = t[i]
  <2>1. \A i \in 1..(k + 1) : i \in 1..k \/ i = k + 1
    OBVIOUS
  <2> QED BY <2>1, <1>3, <1>5
<1>7. u = t
  <2> HIDE DEF u
  <2> QED BY <1>4, <1>5, <1>6, SeqEqual
<1> QED
  BY <1>7 DEF s, t, c

\* The k-th entry of d is joined: its leaf is linked and added.
Joins(d, k) == /\ k \in Index(d) /\ pc[Entries[d][k]] = "returned"
               /\ Expected(Entries[d][k]).ok
               /\ LinkAndAdd(d, <<Expected(Entries[d][k]).leaf>>)
Fails(d) == /\ Return(d, Expected(d)) /\ ~Expected(d).ok
            /\ UNCHANGED <<step, links, pending>>

LEMMA JoinSingleDoes ==
    ASSUME TypeOK, JobInv, RunInv, NEW d \in Dirs, JoinSingle(d)
    PROVE  \/ Joins(d, 1) /\ pc' = [pc EXCEPT ![d] = "build"] /\ UNCHANGED <<step, ret>>
           \/ Fails(d)
<1>1. /\ DirRun(d) /\ pc[d] = "single"
      /\ UNCHANGED step
  BY DEF RunInv, JoinSingle, At
<1>2. Len(Entries[d]) = 1 /\ Index(d) = 1..1 /\ d \notin failing
  BY <1>1, EntryLength DEF DirRun
<1>3. \A c \in ToSet(Entries[d]) : c = Entries[d][1]
  <2> SUFFICES ASSUME NEW c \in ToSet(Entries[d]) PROVE c = Entries[d][1]
    OBVIOUS
  <2>1. PICK i \in Index(d) : c = Entries[d][i]
    BY EntryTypes
  <2>2. i = 1
    BY <1>2
  <2> QED BY <2>1, <2>2
<1> DEFINE c == Entries[d][1]
<1>4. 1 \in Index(d) /\ c \in Entry
  <2>1. 1 \in Index(d)
    BY <1>2
  <2> QED BY <2>1, EntryTypes
<1>5. /\ pc[c] = "returned"
      /\ \/ /\ ret[c].ok
            /\ LinkAndAdd(d, <<ret[c].leaf>>)
            /\ pc' = [pc EXCEPT ![d] = "build"]
            /\ UNCHANGED ret
         \/ /\ ~ret[c].ok
            /\ Return(d, ret[c])
            /\ UNCHANGED <<links, pending>>
  BY <1>3 DEF JoinSingle
<1>6. ret[c] = Expected(c)
  BY <1>4, <1>5 DEF RunInv
<1>7. CASE ~ret[c].ok
  <2>1. \A j \in Index(d) : ~(j < 1)
    BY <1>2
  <2>2. ~Result(failing, Entries[d][1]).ok
    BY <1>6, <1>7 DEF Expected
  <2>3. Expected(d) = Expected(c)
    BY <1>2, <1>4, <2>1, <2>2, DirResult DEF Expected
  <2> QED BY <1>1, <1>5, <1>6, <1>7, <2>3 DEF Fails
<1>8. CASE ret[c].ok
  BY <1>1, <1>4, <1>5, <1>6, <1>8 DEF Joins
<1> QED
  BY <1>7, <1>8

LEMMA ApplyResultDoes ==
    ASSUME TypeOK, JobInv, RunInv, NEW d \in Dirs, ApplyResult(d)
    PROVE  \/ Joins(d, step[d] + 1) /\ step' = [step EXCEPT ![d] = @ + 1] /\ UNCHANGED <<pc, ret>>
           \/ Fails(d)
<1>1. DirRun(d) /\ pc[d] = "apply"
  BY DEF RunInv, ApplyResult, At
<1>2. PICK r \in results[d] :
        /\ AtPosition(d, r, step[d])
        /\ \/ /\ r.res.ok
              /\ LinkAndAdd(d, <<r.res.leaf>>)
              /\ step' = [step EXCEPT ![d] = @ + 1]
              /\ UNCHANGED <<pc, ret>>
           \/ /\ ~r.res.ok
              /\ Return(d, r.res)
              /\ UNCHANGED <<step, links, pending>>
  BY DEF ApplyResult
<1> DEFINE k == step[d] + 1
<1>3. r.index = k
  BY <1>1, <1>2, Drained
<1>4. k \in Index(d)
  BY <1>3 DEF TypeOK
<1>5. pc[Entries[d][k]] = "returned" /\ r.res = Expected(Entries[d][k])
  BY <1>1, <1>3 DEF DirRun
<1>6. CASE r.res.ok
  <2>1. /\ LinkAndAdd(d, <<Expected(Entries[d][k]).leaf>>) /\ Expected(Entries[d][k]).ok
        /\ step' = [step EXCEPT ![d] = @ + 1] /\ UNCHANGED <<pc, ret>>
    BY <1>2, <1>5, <1>6
  <2> QED BY <2>1, <1>4, <1>5 DEF Joins
<1>7. CASE ~r.res.ok
  <2>1. /\ Return(d, Expected(Entries[d][k])) /\ ~Expected(Entries[d][k]).ok
        /\ UNCHANGED <<step, links, pending>>
    BY <1>2, <1>5, <1>7
  <2>2. d \notin failing /\ \A i \in 1..step[d] : Expected(Entries[d][i]).ok
    BY <1>1 DEF DirRun, Done
  <2>3. \A j \in Index(d) : j < k => j \in 1..step[d]
    <3>1. step[d] \in Nat /\ \A j \in Index(d) : j \in Nat \ {0}
      BY <1>1, EntryLength DEF DirRun
    <3> QED BY <3>1
  <2>4. \A j \in Index(d) : j < k => Result(failing, Entries[d][j]).ok
    BY <2>2, <2>3 DEF Expected
  <2>5. Expected(d) = Expected(Entries[d][k])
    BY <1>4, <2>1, <2>2, <2>4, DirResult DEF Expected
  <2> QED BY <2>1, <2>5 DEF Fails
<1> QED
  BY <1>6, <1>7

LEMMA BuildDirDoes ==
    ASSUME TypeOK, JobInv, RunInv, NEW d \in Dirs, BuildDir(d)
    PROVE  /\ Return(d, Expected(d)) /\ Done(d, Len(Entries[d])) /\ d \notin failing
           /\ UNCHANGED <<step, links, pending>>
<1> DEFINE n == Len(Entries[d])
<1>0. DirRun(d) /\ n \in Nat /\ Index(d) = 1..n
  BY EntryLength DEF RunInv
<1>1. Done(d, n) /\ d \notin failing
  <2>1. CASE pc[d] = "build"
    BY <1>0, <2>1 DEF DirRun
  <2>2. CASE pc[d] = "apply" /\ step[d] >= Cardinality(results[d])
    <3>1. Cardinality(results[d]) = n /\ step[d] \in 0..n /\ Done(d, step[d])
      BY <1>0, <2>2, Drained DEF DirRun
    <3>2. step[d] = n
      BY <1>0, <2>2, <3>1
    <3> QED BY <3>1, <3>2, <1>0, <2>2 DEF DirRun
  <2> QED BY <2>1, <2>2 DEF BuildDir, At
<1>2. \A i \in Index(d) : Result(failing, Entries[d][i]).ok
  BY <1>0, <1>1 DEF Done, Expected
<1>3. Expected(d) = Built(BuildLeaf(d, ChildLinks(failing, d, n), <<>>))
  BY <1>1, <1>2, DirResult DEF Expected
<1>4. links[d] = ChildLinks(failing, d, n)
  BY <1>1 DEF Done
<1> QED
  BY <1>1, <1>3, <1>4 DEF BuildDir

LEMMA RunInit == Init => RunInv
<1> SUFFICES ASSUME Init PROVE RunInv
  OBVIOUS
<1>1. ASSUME NEW e \in Entry PROVE pc[e] \in {"none", "open", "read"}
  BY DEF Init, FirstPC
<1>2. ASSUME NEW d \in Dirs PROVE DirRun(d)
  <2>1. d \in Entry
    BY EntryTypes
  <2>2. step[d] = 0 /\ links[d] = <<>> /\ results[d] = {} /\ exited[d] = {}
    BY <2>1 DEF Init
  <2>3. pc[d] \in {"none", "open", "read"}
    BY <2>1, <1>1
  <2> QED BY <2>2, <2>3 DEF DirRun
<1> QED BY <1>1, <1>2 DEF RunInv

\* The entry that a directory starts has not begun, and no other task moves.
LEMMA StartsOne ==
    ASSUME TypeOK, JobInv, NEW d \in Dirs,
           \/ OpenSingle(d) /\ Entries[d] # <<>>
           \/ \E w \in Workers(d) : TakeJob(d, w)
    PROVE  \E c \in ToSet(Entries[d]) :
              /\ c \in Entry /\ c # d /\ pc[c] = "none" /\ pc'[c] = FirstPC(c)
              /\ \A x \in Entry : x # c /\ x # d => pc'[x] = pc[x]
<1>0. d \in Entry
  BY EntryTypes
<1>1. CASE OpenSingle(d) /\ Entries[d] # <<>>
  <2> DEFINE c == Entries[d][1]
  <2>1. 1 \in Index(d)
    BY <1>1, TreeAssumption DEF Index
  <2>2. c \in ToSet(Entries[d]) /\ c \in Entry
    BY <2>1, EntryTypes
  <2>3. pc' = [pc EXCEPT ![d] = "single", ![c] = FirstPC(c)] /\ pc[d] = "open"
    BY <1>1 DEF OpenSingle, At
  <2>4. pc[c] = "none"
    BY <2>2, <2>3 DEF JobInv, DirInv
  <2> HIDE DEF c
  <2>5. pc'[c] = FirstPC(c) /\ \A x \in Entry : x # c /\ x # d => pc'[x] = pc[x]
    BY <1>0, <2>2, <2>3 DEF TypeOK
  <2> QED BY <2>2, <2>3, <2>4, <2>5
<1>2. ASSUME NEW w \in Workers(d), TakeJob(d, w)
      PROVE  \E c \in ToSet(Entries[d]) :
                /\ c \in Entry /\ c # d /\ pc[c] = "none" /\ pc'[c] = FirstPC(c)
                /\ \A x \in Entry : x # c /\ x # d => pc'[x] = pc[x]
  <2> DEFINE i == Head(jobs[d])
             c == Entries[d][i]
  <2>1. /\ pc[d] = "collect" /\ DirInv(d) /\ jobs[d] \in Seq(Index(d)) /\ jobs[d] # <<>>
        /\ pc' = [pc EXCEPT ![c] = FirstPC(c)]
    BY <1>2 DEF TakeJob, At, JobInv, TypeOK
  <2>2. IsInjective(jobs[d])
    BY <2>1 DEF DirInv
  <2>3. i \in ToSet(jobs[d]) /\ ToSet(jobs[d]) \subseteq Index(d)
    BY <2>1, <2>2, TailInjective DEF ToSet
  <2>4. pc[c] = "none" /\ c \in Entry /\ c \in ToSet(Entries[d])
    BY <2>1, <2>3, EntryTypes DEF DirInv
  <2> HIDE DEF c, i
  <2>5. pc'[c] = FirstPC(c) /\ \A x \in Entry : x # c => pc'[x] = pc[x]
    BY <2>1, <2>4 DEF TypeOK
  <2> QED BY <2>1, <2>4, <2>5
<1> QED BY <1>1, <1>2

\* A directory is moved by its own steps, and started by its parent's.
LEMMA OthersStep ==
    ASSUME TypeOK, JobInv, NEW d \in Dirs, DirStep(d), NEW x \in Entry, x # d
    PROVE  /\ pc'[x] = pc[x] \/ (pc[x] = "none" /\ pc'[x] = FirstPC(x))
           /\ ret'[x] = ret[x]
           /\ step'[x] = step[x] /\ links'[x] = links[x]
           /\ x \in Dirs => /\ exited'[x] = exited[x] /\ jobs'[x] = jobs[x]
                            /\ worker'[x] = worker[x] /\ results'[x] = results[x]
<1>0. d \in Entry
  BY EntryTypes
<1>e. ASSUME NEW p, pc' = [pc EXCEPT ![d] = p] PROVE pc'[x] = pc[x]
  BY <1>e DEF TypeOK
<1>r. ASSUME NEW r, ret' = [ret EXCEPT ![d] = r] PROVE ret'[x] = ret[x]
  BY <1>r DEF TypeOK, FunctionOn
<1>l. ASSUME NEW ls, LinkAndAdd(d, ls) PROVE links'[x] = links[x]
  BY <1>l DEF LinkAndAdd, TypeOK, FunctionOn
<1>1. CASE FailOpen(d) \/ BuildDir(d)
  BY <1>1, <1>e, <1>r DEF FailOpen, BuildDir, Return, poolVars
<1>2. CASE OpenSingle(d)
  <2>1. UNCHANGED <<ret, step, links, exited, jobs, worker, results>>
    BY <1>2 DEF OpenSingle, poolVars
  <2>2. CASE Entries[d] = <<>>
    BY <1>2, <2>1, <2>2, <1>e DEF OpenSingle
  <2>3. CASE Entries[d] # <<>>
    BY <1>2, <2>1, <2>3, StartsOne
  <2> QED BY <2>2, <2>3
<1>3. CASE OpenPool(d)
  <2>1. x \in Dirs => jobs'[x] = jobs[x]
    BY <1>3 DEF OpenPool, TypeOK, FunctionOn
  <2> QED BY <1>3, <2>1, <1>e DEF OpenPool
<1>4. CASE SortResults(d)
  BY <1>4, <1>e DEF SortResults, poolVars
<1>5. CASE JoinSingle(d)
  BY <1>5, <1>e, <1>r, <1>l DEF JoinSingle, Return, poolVars
<1>6. CASE ApplyResult(d)
  <2>1. step'[x] = step[x]
    BY <1>6 DEF ApplyResult, TypeOK
  <2> QED BY <1>6, <2>1, <1>e, <1>r, <1>l DEF ApplyResult, Return, poolVars
<1>7. ASSUME NEW w \in Workers(d), TakeJob(d, w) PROVE
        /\ pc'[x] = pc[x] \/ (pc[x] = "none" /\ pc'[x] = FirstPC(x))
        /\ UNCHANGED <<ret, step, links, exited, results>>
        /\ x \in Dirs => jobs'[x] = jobs[x] /\ worker'[x] = worker[x]
  <2>1. UNCHANGED <<ret, step, links, exited, results>>
    BY <1>7 DEF TakeJob
  <2>2. x \in Dirs => jobs'[x] = jobs[x] /\ worker'[x] = worker[x]
    BY <1>7 DEF TakeJob, TypeOK, FunctionOn
  <2> QED BY <1>7, <2>1, <2>2, StartsOne
<1>8. ASSUME NEW w \in Workers(d), SendResult(d, w) PROVE
        /\ UNCHANGED <<pc, ret, step, links, exited, jobs>>
        /\ x \in Dirs => results'[x] = results[x] /\ worker'[x] = worker[x]
  BY <1>8 DEF SendResult, taskVars, TypeOK, FunctionOn
<1>9. ASSUME NEW w \in Workers(d), ExitWorker(d, w) PROVE
        /\ UNCHANGED <<pc, ret, step, links, jobs, worker, results>>
        /\ x \in Dirs => exited'[x] = exited[x]
  BY <1>9 DEF ExitWorker, taskVars, TypeOK, FunctionOn
<1>10. CASE CloseResults(d)
  BY <1>10 DEF CloseResults, taskVars
<1> QED
  BY <1>1, <1>2, <1>3, <1>4, <1>5, <1>6, <1>7, <1>8, <1>9, <1>10 DEF DirStep

LEMMA DoneKept ==
    ASSUME Kept, NEW d \in Dirs, links'[d] = links[d], NEW k \in 0..Len(Entries[d]), Done(d, k)
    PROVE  Done(d, k)'
<1>1. \A i \in 1..k : i \in Index(d)
  BY EntryLength
<1>2. \A i \in 1..k : pc'[Entries[d][i]] = "returned"
  BY <1>1, EntryTypes DEF Kept, Done
<1>3. failing' = failing
  BY DEF Kept
<1> QED
  BY <1>2, <1>3 DEF Done, Expected

LEMMA RunFrame ==
    ASSUME TypeOK, Kept, NEW d \in Dirs, DirRun(d),
           step'[d] = step[d], links'[d] = links[d], exited'[d] = exited[d],
           jobs'[d] = jobs[d], worker'[d] = worker[d], results'[d] = results[d],
           \/ pc'[d] = pc[d]
           \/ pc'[d] = "returned"
           \/ pc[d] = "none" /\ pc'[d] = "open"
    PROVE  DirRun(d)'
<1>1. \A r \in results[d] : Entries[d][r.index] \in Entry
  BY EntryTypes DEF TypeOK
<1>2. failing' = failing
  BY DEF Kept
<1>3. \A r \in results'[d] : /\ pc'[Entries[d][r.index]] = "returned"
                             /\ r.res = Expected(Entries[d][r.index])'
  BY <1>1, <1>2 DEF DirRun, Kept, Expected
<1>4. Len(Entries[d]) \in 0..Len(Entries[d])
  BY EntryLength
<1>5. pc'[d] = "build" => Done(d, Len(Entries[d]))'
  BY <1>4, DoneKept DEF DirRun
<1>6. pc'[d] = "apply" => step[d] \in 0..Len(Entries[d]) /\ Done(d, step[d])'
  BY DoneKept DEF DirRun
<1> QED
  BY <1>2, <1>3, <1>5, <1>6 DEF DirRun

LEMMA AnswersKept ==
    ASSUME TypeOK, Kept, NEW d \in Dirs, DirRun(d)
    PROVE  \A r \in results[d] : /\ pc'[Entries[d][r.index]] = "returned"
                                 /\ r.res = Expected(Entries[d][r.index])'
<1>1. \A r \in results[d] : Entries[d][r.index] \in Entry
  BY EntryTypes DEF TypeOK
<1> QED
  BY <1>1 DEF DirRun, Kept, Expected

\* The entry k + 1 is joined after the first k.
LEMMA DoneNext ==
    ASSUME TypeOK, Kept, NEW d \in Dirs, NEW k \in Nat, Done(d, k), Joins(d, k + 1)
    PROVE  Done(d, k + 1)'
<1>1. d \in Entry /\ k + 1 \in 1..Len(Entries[d]) /\ Len(Entries[d]) \in Nat
  BY EntryTypes, EntryLength DEF Joins
<1>2. links'[d] = links[d] \o <<Expected(Entries[d][k + 1]).leaf>>
  BY <1>1 DEF Joins, LinkAndAdd, TypeOK, FunctionOn
<1>3. links'[d] = ChildLinks(failing, d, k + 1)
  BY <1>2, NextLink DEF Done, Expected
<1>4. failing' = failing
  BY DEF Kept
<1>5. \A i \in 1..(k + 1) : i \in 1..k \/ i = k + 1
  OBVIOUS
<1>6. \A i \in 1..(k + 1) : pc[Entries[d][i]] = "returned" /\ Expected(Entries[d][i]).ok
  BY <1>5 DEF Done, Joins
<1>7. \A i \in 1..(k + 1) : i \in Index(d)
  BY <1>1, EntryLength
<1>8. \A i \in 1..(k + 1) : pc'[Entries[d][i]] = "returned"
  BY <1>6, <1>7, EntryTypes DEF Kept
<1> QED
  BY <1>3, <1>4, <1>6, <1>8 DEF Done, Expected

LEMMA DoneNone ==
    ASSUME NEW d \in Dirs, links[d] = <<>> PROVE Done(d, 0)
BY NoLink DEF Done

LEMMA OwnStep ==
    ASSUME TypeOK, JobInv, PoolInv, RunInv, Kept, NEW d \in Dirs, DirStep(d)
    PROVE  DirRun(d)'
<1>0. d \in Entry /\ DirRun(d) /\ DirInv(d) /\ failing' = failing
  BY EntryTypes DEF RunInv, JobInv, Kept
<1>e. ASSUME NEW p, pc' = [pc EXCEPT ![d] = p] PROVE pc'[d] = p
  BY <1>0, <1>e DEF TypeOK
<1>f. ASSUME UNCHANGED <<step, links, poolVars>>, pc'[d] = pc[d] \/ pc'[d] = "returned"
      PROVE  DirRun(d)'
  BY <1>f, <1>0, RunFrame DEF poolVars
<1>a. \A r \in results[d] : /\ pc'[Entries[d][r.index]] = "returned"
                            /\ r.res = Expected(Entries[d][r.index])'
  BY <1>0, AnswersKept
<1>1. CASE FailOpen(d)
  BY <1>1, <1>e, <1>f DEF FailOpen, Return
<1>2. CASE BuildDir(d)
  BY <1>2, <1>e, <1>f DEF BuildDir, Return
<1>3. CASE OpenSingle(d)
  <2>1. /\ pc[d] = "open" /\ d \notin failing /\ Len(Entries[d]) <= 1
        /\ UNCHANGED <<step, links, exited, jobs, worker, results>>
    BY <1>3 DEF OpenSingle, At, poolVars
  <2>2. step[d] = 0 /\ links[d] = <<>>
    BY <2>1, <1>0 DEF DirRun
  <2>3. CASE Entries[d] = <<>>
    <3>1. pc'[d] = "build" /\ Len(Entries[d]) = 0
      BY <1>3, <2>3, <1>e DEF OpenSingle
    <3>2. Done(d, 0)'
      BY <2>1, <2>2, NoLink DEF Done
    <3> QED BY <3>1, <3>2, <2>1, <2>2, <1>0, <1>a DEF DirRun
  <2>4. CASE Entries[d] # <<>>
    <3>1. pc'[d] = "single"
      <4>1. PICK c \in ToSet(Entries[d]) : c \in Entry /\ c # d /\ pc[c] = "none"
        BY <1>3, <2>4, StartsOne
      <4>2. 1 \in Index(d)
        BY <2>4, TreeAssumption DEF Index
      <4>3. Entries[d][1] \in Entry /\ Entries[d][1] \in ToSet(Entries[d])
        BY <4>2, EntryTypes
      <4>4. Entries[d][1] # d
        BY <4>3, <2>1, <1>0 DEF DirInv
      <4>5. pc' = [pc EXCEPT ![d] = "single", ![Entries[d][1]] = FirstPC(Entries[d][1])]
        BY <1>3, <2>4 DEF OpenSingle
      <4> QED BY <4>3, <4>4, <4>5, <1>0 DEF TypeOK
    <3>2. Len(Entries[d]) = 1
      <4>1. Entries[d] \in Seq(Entry)
        BY TreeAssumption
      <4> DEFINE n == Len(Entries[d])
      <4>2. n \in Nat /\ n # 0
        BY <4>1, <2>4, EmptySeq
      <4>3. n <= 1
        BY <2>1
      <4> HIDE DEF n
      <4>4. n = 1
        BY <4>2, <4>3
      <4> QED BY <4>4 DEF n
    <3> QED BY <3>1, <3>2, <2>1, <2>2, <1>0, <1>a DEF DirRun
  <2> QED BY <2>3, <2>4
<1>4. CASE OpenPool(d)
  <2>1. /\ pc[d] = "open" /\ d \notin failing /\ Len(Entries[d]) > 1 /\ pc'[d] = "collect"
        /\ UNCHANGED <<step, links, exited, worker, results>>
    BY <1>4, <1>e DEF OpenPool, At
  <2>2. step[d] = 0 /\ links[d] = <<>> /\ exited[d] = {}
    BY <2>1, <1>0 DEF DirRun, DirInv
  <2> QED BY <2>1, <2>2, <1>0, <1>a DEF DirRun
<1>5. CASE JoinSingle(d)
  <2>1. UNCHANGED poolVars /\ pc[d] = "single"
    BY <1>5 DEF JoinSingle, At
  <2>2. CASE Fails(d)
    BY <2>1, <2>2, <1>e, <1>f DEF Fails, Return
  <2>3. CASE Joins(d, 1) /\ pc' = [pc EXCEPT ![d] = "build"] /\ UNCHANGED <<step, ret>>
    <3>1. Len(Entries[d]) = 1 /\ links[d] = <<>> /\ d \notin failing
      BY <2>1, <1>0 DEF DirRun
    <3>2. Done(d, 0 + 1)'
      <4>1. Joins(d, 0 + 1) /\ Done(d, 0) /\ 0 \in Nat
        BY <2>3, <3>1, DoneNone
      <4> QED BY <4>1, DoneNext
    <3>3. Done(d, Len(Entries[d]))'
      BY <3>1, <3>2 DEF Done
    <3>4. pc'[d] = "build"
      BY <2>3, <1>e
    <3> QED BY <3>1, <3>3, <3>4, <2>1, <1>0, <1>a DEF DirRun, poolVars
  <2> QED BY <1>5, <2>2, <2>3, JoinSingleDoes
<1>6. CASE CloseResults(d)
  <2>1. UNCHANGED <<step, links, pc, exited, jobs, worker, results>>
    BY <1>6 DEF CloseResults, taskVars
  <2> QED BY <2>1, <1>0, RunFrame
<1>7. CASE SortResults(d)
  <2>1. /\ pc[d] = "collect" /\ pc'[d] = "apply" /\ exited[d] = Workers(d)
        /\ UNCHANGED <<step, links, exited, jobs, worker, results>>
    BY <1>7, <1>e DEF SortResults, At, poolVars, PoolInv
  <2>2. step[d] = 0 /\ links[d] = <<>> /\ d \notin failing /\ Len(Entries[d]) > 1
    BY <2>1, <1>0 DEF DirRun
  <2>3. Done(d, step[d])'
    BY <2>1, <2>2, NoLink DEF Done
  <2>4. step[d] \in 0..Len(Entries[d])
    BY <2>2, EntryLength
  <2> QED BY <2>1, <2>2, <2>3, <2>4, <1>0, <1>a DEF DirRun
<1>8. CASE ApplyResult(d)
  <2>1. UNCHANGED poolVars /\ pc[d] = "apply"
    BY <1>8 DEF ApplyResult, At
  <2>2. CASE Fails(d)
    BY <2>1, <2>2, <1>e, <1>f DEF Fails, Return
  <2>3. CASE /\ Joins(d, step[d] + 1) /\ step' = [step EXCEPT ![d] = @ + 1]
             /\ UNCHANGED <<pc, ret>>
    <3>1. /\ Done(d, step[d]) /\ step[d] \in Nat /\ d \notin failing
          /\ Len(Entries[d]) > 1 /\ exited[d] = Workers(d)
      BY <2>1, <1>0, EntryLength DEF DirRun
    <3>2. PICK k \in Nat : k = step[d]
      BY <3>1
    <3>3. k + 1 \in 0..Len(Entries[d])
      BY <2>3, <3>2, EntryLength DEF Joins
    <3>4. Done(d, k + 1)'
      BY <2>3, <3>1, <3>2, DoneNext
    <3>5. step'[d] = k + 1
      BY <2>3, <3>2, <1>0 DEF TypeOK
    <3>6. Done(d, step[d])'
      BY <3>4, <3>5 DEF Done
    <3> QED BY <2>1, <2>3, <3>1, <3>3, <3>5, <3>6, <1>0, <1>a DEF DirRun, poolVars
  <2> QED BY <1>8, <2>2, <2>3, ApplyResultDoes
<1>9. ASSUME NEW w \in Workers(d), TakeJob(d, w) PROVE DirRun(d)'
  <2>1. /\ pc[d] = "collect" /\ jobs[d] # <<>>
        /\ UNCHANGED <<step, links, exited, results>>
    BY <1>9 DEF TakeJob, At
  <2>2. pc'[d] = "collect"
    <3>1. PICK c \in ToSet(Entries[d]) : c \in Entry /\ c # d
      BY <1>9, StartsOne
    <3> DEFINE i == Head(jobs[d])
    <3>2. i \in ToSet(jobs[d]) /\ ToSet(jobs[d]) \subseteq Index(d)
      BY <2>1, <1>0, TailInjective DEF TypeOK, DirInv, ToSet
    <3>3. pc[Entries[d][i]] = "none"
      BY <3>2, <2>1, <1>0 DEF DirInv
    <3>4. pc' = [pc EXCEPT ![Entries[d][i]] = FirstPC(Entries[d][i])]
      BY <1>9 DEF TakeJob
    <3> HIDE DEF i
    <3> QED BY <3>3, <3>4, <2>1, <1>0 DEF TypeOK
  <2>3. exited[d] = {}
    BY <2>1, <1>0 DEF DirRun
  <2> QED BY <2>1, <2>2, <2>3, <1>0, <1>a DEF DirRun
<1>10. ASSUME NEW w \in Workers(d), SendResult(d, w) PROVE DirRun(d)'
  <2>1. PICK i \in Index(d) :
          /\ worker[d][w] = i
          /\ pc[Entries[d][i]] = "returned"
          /\ results' = [results EXCEPT ![d] = @ \cup {[index |-> i, res |-> ret[Entries[d][i]]]}]
    BY <1>10 DEF SendResult
  <2>2. UNCHANGED <<pc, ret, step, links, jobs, exited>> /\ worker' = [worker EXCEPT ![d][w] = 0]
    BY <1>10 DEF SendResult, taskVars
  <2> DEFINE new == [index |-> i, res |-> ret[Entries[d][i]]]
  <2>3. Entries[d][i] \in Entry
    BY EntryTypes
  <2>4. ret[Entries[d][i]] = Expected(Entries[d][i])
    BY <2>1, <2>3 DEF RunInv
  <2>5. results'[d] = results[d] \cup {new}
    BY <2>1 DEF TypeOK, FunctionOn
  <2>6. Expected(Entries[d][i])' = Expected(Entries[d][i])
    BY <1>0 DEF Expected
  <2>7. new.index = i /\ new.res = Expected(Entries[d][i])'
    BY <2>4, <2>6
  <2> HIDE DEF new
  <2>8. \A r \in results'[d] : /\ pc'[Entries[d][r.index]] = "returned"
                               /\ r.res = Expected(Entries[d][r.index])'
    <3> SUFFICES ASSUME NEW r \in results'[d]
                 PROVE  /\ pc'[Entries[d][r.index]] = "returned"
                        /\ r.res = Expected(Entries[d][r.index])'
      OBVIOUS
    <3>1. CASE r \in results[d]
      BY <3>1, <1>a
    <3>2. CASE r = new
      BY <3>2, <2>1, <2>2, <2>7
    <3> QED BY <3>1, <3>2, <2>5
  <2>9. \A v \in Workers(d) : worker[d][v] = 0 => worker'[d][v] = 0
    <3>1. worker[d] \in [Workers(d) -> {0} \cup Index(d)] /\ worker'[d] = [worker[d] EXCEPT ![w] = 0]
      BY <2>2 DEF TypeOK, FunctionOn
    <3> QED BY <3>1
  <2>10. \A v \in exited'[d] : worker'[d][v] = 0 /\ jobs'[d] = <<>>
    <3>1. exited[d] \subseteq Workers(d)
      BY DEF TypeOK
    <3> QED BY <3>1, <2>2, <2>9, <1>0 DEF DirRun
  <2>11. Len(Entries[d]) \in 0..Len(Entries[d]) /\ links'[d] = links[d] /\ step'[d] = step[d]
    BY <2>2, EntryLength
  <2>12. pc'[d] = "build" => Done(d, Len(Entries[d]))'
    BY <2>2, <2>11, <1>0, DoneKept DEF DirRun
  <2>13. pc'[d] = "apply" => step[d] \in 0..Len(Entries[d]) /\ Done(d, step[d])'
    BY <2>2, <2>11, <1>0, DoneKept DEF DirRun
  <2> QED BY <2>2, <2>8, <2>10, <2>12, <2>13, <1>0 DEF DirRun
<1>11. ASSUME NEW w \in Workers(d), ExitWorker(d, w) PROVE DirRun(d)'
  <2>1. /\ pc[d] = "collect" /\ worker[d][w] = 0 /\ jobs[d] = <<>>
        /\ exited'[d] = exited[d] \cup {w}
        /\ UNCHANGED <<pc, step, links, jobs, worker, results>>
    BY <1>11 DEF ExitWorker, At, taskVars, TypeOK, FunctionOn
  <2> QED BY <2>1, <1>0, <1>a DEF DirRun
<1> QED
  BY <1>1, <1>2, <1>3, <1>4, <1>5, <1>6, <1>7, <1>8, <1>9, <1>10, <1>11 DEF DirStep

LEMMA DirReturns ==
    ASSUME TypeOK, JobInv, RunInv, NEW d \in Dirs, DirStep(d),
           pc[d] # "returned", pc'[d] = "returned"
    PROVE  ret'[d] = Expected(d)
<1>0. d \in Entry
  BY EntryTypes
<1>e. ASSUME NEW p, pc' = [pc EXCEPT ![d] = p] PROVE p = "returned"
  BY <1>0, <1>e DEF TypeOK
<1>r. ASSUME NEW r, Return(d, r) PROVE ret'[d] = r
  BY <1>0, <1>r DEF Return, TypeOK, FunctionOn
<1>1. CASE FailOpen(d)
  <2>1. Return(d, Error(d)) /\ d \in failing
    BY <1>1 DEF FailOpen
  <2> QED BY <2>1, <1>r, DirFails DEF Expected
<1>2. CASE BuildDir(d)
  BY <1>2, <1>r, BuildDirDoes
<1>3. CASE JoinSingle(d)
  BY <1>3, <1>e, <1>r, JoinSingleDoes DEF Fails
<1>4. CASE ApplyResult(d)
  BY <1>4, <1>r, ApplyResultDoes DEF Fails
<1>5. CASE OpenPool(d) \/ SortResults(d)
  BY <1>5, <1>e DEF OpenPool, SortResults
<1>6. CASE OpenSingle(d)
  <2>1. CASE Entries[d] = <<>>
    BY <1>6, <2>1, <1>e DEF OpenSingle
  <2>2. CASE Entries[d] # <<>>
    <3> DEFINE c == Entries[d][1]
    <3>1. pc' = [pc EXCEPT ![d] = "single", ![c] = FirstPC(c)]
      BY <1>6, <2>2 DEF OpenSingle
    <3>2. FirstPC(c) # "returned"
      BY DEF FirstPC
    <3> HIDE DEF c
    <3> QED BY <3>1, <3>2, <1>0 DEF TypeOK
  <2> QED BY <2>1, <2>2
<1>7. ASSUME NEW w \in Workers(d), TakeJob(d, w) PROVE FALSE
  <2> DEFINE c == Entries[d][Head(jobs[d])]
  <2>1. pc' = [pc EXCEPT ![c] = FirstPC(c)]
    BY <1>7 DEF TakeJob
  <2>2. FirstPC(c) # "returned"
    BY DEF FirstPC
  <2> HIDE DEF c
  <2> QED BY <2>1, <2>2, <1>0 DEF TypeOK
<1>8. ASSUME NEW w \in Workers(d), SendResult(d, w) \/ ExitWorker(d, w) PROVE FALSE
  BY <1>8 DEF SendResult, ExitWorker, taskVars
<1>9. CASE CloseResults(d)
  BY <1>9 DEF CloseResults, taskVars
<1> QED
  BY <1>1, <1>2, <1>3, <1>4, <1>5, <1>6, <1>7, <1>8, <1>9 DEF DirStep

LEMMA RunStep == RunInv /\ FileInv /\ PoolInv /\ TypeOK /\ JobInv /\ [Next]_vars => RunInv'
<1> SUFFICES ASSUME RunInv, FileInv, PoolInv, TypeOK, JobInv, [Next]_vars PROVE RunInv'
  OBVIOUS
<1>0. Kept /\ failing' = failing /\ \A e \in Entry : Expected(e)' = Expected(e)
  BY KeptStep DEF Kept, Expected
<1>k. \A e \in Entry : pc[e] = "returned" => pc'[e] = "returned" /\ ret'[e] = Expected(e)'
  BY <1>0 DEF Kept, RunInv
<1>r. \A d \in Dirs : DirRun(d) /\ d \in Entry
  BY EntryTypes DEF RunInv
<1>f. ASSUME UNCHANGED <<pc, step, links, exited, jobs, worker, results>> PROVE RunInv'
  <2>1. \A d \in Dirs : DirRun(d)'
    BY <1>0, <1>r, <1>f, RunFrame
  <2> QED BY <2>1, <1>k, <1>f DEF RunInv
<1>1. ASSUME NEW d \in Dirs, DirStep(d) PROVE RunInv'
  <2>1. DirRun(d)'
    BY <1>0, <1>1, OwnStep
  <2>2. ASSUME NEW x \in Dirs, x # d PROVE DirRun(x)'
    <3>1. FirstPC(x) = "open"
      BY EntryTypes DEF FirstPC
    <3>2. /\ pc'[x] = pc[x] \/ (pc[x] = "none" /\ pc'[x] = "open")
          /\ step'[x] = step[x] /\ links'[x] = links[x]
          /\ exited'[x] = exited[x] /\ jobs'[x] = jobs[x]
          /\ worker'[x] = worker[x] /\ results'[x] = results[x]
      BY <1>1, <1>r, <2>2, <3>1, OthersStep
    <3> QED BY <1>0, <1>r, <3>2, RunFrame
  <2>3. ASSUME NEW e \in Entry, pc'[e] = "returned", pc[e] # "returned"
        PROVE  ret'[e] = Expected(e)'
    <3>1. CASE e = d
      BY <1>0, <1>1, <2>3, <3>1, DirReturns
    <3>2. CASE e # d
      <4>1. FirstPC(e) # "returned"
        BY DEF FirstPC
      <4> QED BY <1>1, <2>3, <3>2, <4>1, OthersStep
    <3> QED BY <3>1, <3>2
  <2>4. \A x \in Dirs : DirRun(x)'
    BY <2>1, <2>2
  <2> QED BY <2>3, <2>4, <1>k DEF RunInv
<1>2. ASSUME NEW f \in Files, FileStep(f) PROVE RunInv'
  <2>0. f \in Entry /\ f \notin Dirs
    BY EntryTypes DEF Entry
  <2>1. /\ UNCHANGED <<exited, jobs, worker, results>>
        /\ \/ UNCHANGED pc
           \/ pc' = [pc EXCEPT ![f] = "returned"] /\ Return(f, Expected(f))
        /\ \/ UNCHANGED <<step, links>>
           \/ step' = [step EXCEPT ![f] = @ + 1]
              /\ \E ls : links' = [links EXCEPT ![f] = ls]
    <3>1. CASE ReadChunk(f)
      BY <3>1 DEF ReadChunk, LinkAndAdd, poolVars
    <3>2. CASE FailRead(f)
      BY <3>2, FileReturns DEF FailRead, poolVars, Return
    <3>3. CASE BuildFile(f)
      BY <3>3, FileReturns DEF BuildFile, poolVars, Return
    <3> QED BY <1>2, <3>1, <3>2, <3>3 DEF FileStep
  <2>2. \A x \in Entry : x # f => pc'[x] = pc[x] /\ step'[x] = step[x] /\ links'[x] = links[x]
    BY <2>0, <2>1 DEF TypeOK, FunctionOn
  <2>3. ASSUME NEW d \in Dirs PROVE DirRun(d)'
    <3>1. pc'[d] = pc[d] /\ step'[d] = step[d] /\ links'[d] = links[d]
      BY <2>0, <2>2, <1>r
    <3> QED BY <3>1, <2>1, <1>0, <1>r, RunFrame
  <2>4. ASSUME NEW e \in Entry, pc'[e] = "returned", pc[e] # "returned"
        PROVE  ret'[e] = Expected(e)'
    <3>1. e = f /\ Return(f, Expected(f))
      BY <2>1, <2>2, <2>4
    <3> QED BY <3>1, <1>0, <2>0 DEF Return, TypeOK, FunctionOn
  <2> QED BY <2>3, <2>4, <1>k DEF RunInv
<1>3. ASSUME NEW e \in Entry, LockStep(e) PROVE RunInv'
  BY <1>3, <1>f DEF LockStep, Lock, LookUp, Store, taskVars, poolVars
<1>4. CASE FinishDag \/ Finished \/ UNCHANGED vars
  BY <1>4, <1>f DEF FinishDag, Finished, vars, taskVars, poolVars
<1> QED
  BY <1>1, <1>2, <1>3, <1>4 DEF Next

-----------------------------------------------------------------------------
(* The leaves of a DAG that succeeds                                         *)

Whole == Added(failing, Root)

(* When the sequential result is a DAG, the leaves that travel are its       *)
(* leaves, and a task that has returned has added all those below it.        *)
LeafInv == Expected(Root).ok =>
    /\ leafs \subseteq Whole
    /\ \A e \in Entry : ToSet(pending[e]) \subseteq Whole
    /\ \A e \in Entry : pc[e] # "none" => Expected(e).ok /\ Added(failing, e) \subseteq Whole
    /\ \A e \in Entry : pc[e] = "returned" => Added(failing, e) \subseteq leafs

LEMMA ChildAdds ==
    ASSUME NEW bad, NEW d \in Dirs, Result(bad, d).ok, NEW c \in ToSet(Entries[d])
    PROVE  /\ Result(bad, c).ok /\ Added(bad, c) \subseteq Added(bad, d)
           /\ Result(bad, c).leaf \in Added(bad, d)
<1>1. d \notin bad /\ \A i \in Index(d) : Result(bad, Entries[d][i]).ok
  BY AllSucceed
<1>2. Added(bad, d) = UNION {Added(bad, Entries[d][i])
                               \cup {Result(bad, Entries[d][i]).leaf} : i \in Index(d)}
  BY <1>1, DirResult
<1>3. PICK i \in Index(d) : c = Entries[d][i]
  BY EntryTypes
<1> QED
  BY <1>1, <1>2, <1>3

LEMMA ChunksAdded ==
    ASSUME NEW f \in Files, NEW n \in 1..Len(Content[f])
    PROVE  ToSet(NewChunks(f, n)) \subseteq ToSet(FileChunks(f))
<1> DEFINE m == Len(Content[f])
           chunk(i) == ChunkLeaf(i - 1, Content[f][i])
<1>0. m \in Nat /\ n \in 1..m
  BY TreeAssumption
<1>1. CASE n = 1
  BY <1>1, ShortSeq DEF NewChunks
<1>2. CASE n # 1
  <2>1. ~(m < 2) /\ 1 \in 1..m /\ 2 \in 1..m /\ n \in 1..m
    BY <1>0, <1>2
  <2>2. FileChunks(f) = [i \in 1..m |-> chunk(i)]
    BY <2>1 DEF FileChunks
  <2>3. \A i \in 1..m : chunk(i) \in ToSet(FileChunks(f))
    BY <2>2 DEF ToSet
  <2>4. CASE n = 2
    <3> DEFINE a == chunk(1)
               b == chunk(2)
    <3>1. NewChunks(f, n) = <<a, b>>
      BY <2>4 DEF NewChunks
    <3>2. a \in ToSet(FileChunks(f)) /\ b \in ToSet(FileChunks(f))
      BY <2>1, <2>3
    <3> HIDE DEF a, b
    <3>3. ToSet(<<a, b>>) = {a, b}
      BY ShortSeq
    <3> QED BY <3>1, <3>2, <3>3
  <2>5. CASE n # 2
    <3> DEFINE a == chunk(n)
    <3>1. NewChunks(f, n) = <<a>>
      BY <1>2, <2>5 DEF NewChunks
    <3>2. a \in ToSet(FileChunks(f))
      BY <2>1, <2>3
    <3> HIDE DEF a
    <3>3. ToSet(<<a>>) = {a}
      BY ShortSeq
    <3> QED BY <3>1, <3>2, <3>3
  <2> QED BY <2>4, <2>5
<1> QED BY <1>1, <1>2

\* A directory that has begun starts its own entries, and nobody else does.
LEMMA NewlyStarted ==
    ASSUME TypeOK, JobInv, NEW d \in Dirs, DirStep(d), NEW e \in Entry,
           pc[e] = "none", pc'[e] # "none"
    PROVE  e \in ToSet(Entries[d]) /\ pc[d] # "none"
<1>0. d \in Entry
  BY EntryTypes
<1>1. ASSUME NEW p, pc' = [pc EXCEPT ![d] = p], pc[d] # "none" PROVE FALSE
  BY <1>0, <1>1 DEF TypeOK
<1>2. ASSUME \/ OpenSingle(d) /\ Entries[d] # <<>>
             \/ \E w \in Workers(d) : TakeJob(d, w)
      PROVE  e \in ToSet(Entries[d]) /\ pc[d] # "none"
  <2>1. pc[d] # "none"
    BY <1>2 DEF OpenSingle, TakeJob, At
  <2> QED BY <1>2, <2>1, StartsOne
<1>3. CASE OpenSingle(d)
  <2>1. CASE Entries[d] = <<>>
    BY <1>1, <1>3, <2>1 DEF OpenSingle, At
  <2> QED BY <1>2, <1>3, <2>1
<1>4. CASE FailOpen(d) \/ OpenPool(d) \/ BuildDir(d) \/ SortResults(d)
  BY <1>1, <1>4 DEF FailOpen, OpenPool, BuildDir, SortResults, Return, At
<1>5. CASE JoinSingle(d)
  BY <1>1, <1>5 DEF JoinSingle, Return, At
<1>6. CASE ApplyResult(d)
  BY <1>1, <1>6 DEF ApplyResult, Return, At
<1>7. CASE CloseResults(d)
  BY <1>7 DEF CloseResults, taskVars
<1>8. ASSUME NEW w \in Workers(d), SendResult(d, w) \/ ExitWorker(d, w) PROVE FALSE
  BY <1>8 DEF SendResult, ExitWorker, taskVars
<1>9. ASSUME NEW w \in Workers(d), TakeJob(d, w) PROVE e \in ToSet(Entries[d]) /\ pc[d] # "none"
  BY <1>2, <1>9
<1> QED
  BY <1>3, <1>4, <1>5, <1>6, <1>7, <1>8, <1>9 DEF DirStep

LEMMA LeafInit == Init => LeafInv
<1> SUFFICES ASSUME Init, Expected(Root).ok
             PROVE  /\ leafs \subseteq Whole
                    /\ \A e \in Entry : ToSet(pending[e]) \subseteq Whole
                    /\ \A e \in Entry : pc[e] # "none" =>
                          Expected(e).ok /\ Added(failing, e) \subseteq Whole
                    /\ \A e \in Entry : pc[e] = "returned" => Added(failing, e) \subseteq leafs
  BY DEF LeafInv
<1>1. ToSet(<<>>) = {}
  BY ShortSeq
<1>2. \A e \in Entry : pending[e] = <<>> /\ (pc[e] # "none" => e = Root) /\ pc[e] # "returned"
  BY DEF Init, FirstPC
<1>3. leafs = {}
  BY DEF Init
<1> QED
  BY <1>1, <1>2, <1>3 DEF Whole

(* A directory has added what is below it when it returns its leaf.          *)
LEMMA DirAdded ==
    ASSUME TypeOK, JobInv, RunInv, LeafInv, LinkInv, Expected(Root).ok,
           NEW d \in Dirs, BuildDir(d)
    PROVE  Added(failing, d) \subseteq leafs
<1> DEFINE n == Len(Entries[d])
<1>0. n \in Nat /\ Index(d) = 1..n /\ d \in Entry
  BY EntryLength, EntryTypes
<1>1. Done(d, n) /\ d \notin failing
  BY BuildDirDoes
<1>2. \A i \in Index(d) : Result(failing, Entries[d][i]).ok
  BY <1>0, <1>1 DEF Done, Expected
<1>3. Added(failing, d) = UNION {Added(failing, Entries[d][i])
                                   \cup {Result(failing, Entries[d][i]).leaf} : i \in Index(d)}
  BY <1>1, <1>2, DirResult
<1>4. ToSet(links[d]) \subseteq leafs
  <2>1. pending[d] = <<>>
    BY DEF BuildDir, At
  <2> QED BY <1>0, <2>1, ShortSeq DEF LinkInv
<1>5. \A i \in Index(d) : Result(failing, Entries[d][i]).leaf \in leafs
  <2>1. links[d] = [i \in 1..n |-> Result(failing, Entries[d][i]).leaf]
    BY <1>1 DEF Done, ChildLinks
  <2> QED BY <1>0, <1>4, <2>1 DEF ToSet
<1>6. \A i \in Index(d) : Added(failing, Entries[d][i]) \subseteq leafs
  <2>1. \A i \in Index(d) : pc[Entries[d][i]] = "returned"
    BY <1>0, <1>1 DEF Done
  <2> QED BY <2>1, EntryTypes DEF LeafInv
<1> QED
  BY <1>3, <1>5, <1>6

\* What a step must show for the leaves to stay where they belong.
LEMMA LeafFrame ==
    ASSUME LeafInv, Expected(Root).ok, Kept,
           leafs \subseteq leafs', leafs' \subseteq Whole,
           \A e \in Entry : ToSet(pending'[e]) \subseteq Whole,
           \A e \in Entry : pc[e] = "none" /\ pc'[e] # "none" =>
                               Expected(e).ok /\ Added(failing, e) \subseteq Whole,
           \A e \in Entry : pc[e] # "returned" /\ pc'[e] = "returned" =>
                               Added(failing, e) \subseteq leafs'
    PROVE  LeafInv'
<1>0. failing' = failing
  BY DEF Kept
<1>1. Whole' = Whole /\ \A e : Expected(e)' = Expected(e)
  BY <1>0 DEF Whole, Expected
<1>2. /\ \A e \in Entry : pc[e] # "none" => Expected(e).ok /\ Added(failing, e) \subseteq Whole
      /\ \A e \in Entry : pc[e] = "returned" => Added(failing, e) \subseteq leafs
  BY DEF LeafInv
<1>3. \A e \in Entry : pc'[e] # "none" => Expected(e).ok /\ Added(failing, e) \subseteq Whole
  BY <1>2
<1>4. \A e \in Entry : pc'[e] = "returned" => Added(failing, e) \subseteq leafs'
  BY <1>2
<1> QED
  BY <1>0, <1>1, <1>3, <1>4 DEF LeafInv

\* A step that adds no leaf to those that travel, and neither starts a task
\* nor returns from one.
LEMMA LeafIdle ==
    ASSUME LeafInv, Expected(Root).ok, Kept, UNCHANGED <<pc, leafs>>,
           \A e \in Entry : ToSet(pending'[e]) \subseteq ToSet(pending[e])
    PROVE  LeafInv'
<1>1. leafs \subseteq Whole /\ \A e \in Entry : ToSet(pending[e]) \subseteq Whole
  BY DEF LeafInv
<1>2. \A e \in Entry : ToSet(pending'[e]) \subseteq Whole
  BY <1>1
<1> QED
  BY <1>1, <1>2, LeafFrame

\* The leaf that a directory joins is one of the DAG.
LEMMA JoinedLeaf ==
    ASSUME TypeOK, LeafInv, Expected(Root).ok, NEW d \in Dirs, pc[d] # "none",
           NEW k, Joins(d, k)
    PROVE  \A e \in Entry : ToSet(pending'[e]) \subseteq Whole
<1> DEFINE c == Entries[d][k]
           l == Expected(c).leaf
<1>0. d \in Entry /\ c \in ToSet(Entries[d]) /\ pending' = [pending EXCEPT ![d] = <<l>>]
  BY EntryTypes DEF Joins, LinkAndAdd
<1>1. Result(failing, d).ok /\ Added(failing, d) \subseteq Whole
  BY <1>0 DEF LeafInv, Expected
<1>2. l \in Whole
  BY <1>0, <1>1, ChildAdds DEF Expected
<1> HIDE DEF l, c
<1>3. ToSet(<<l>>) = {l}
  BY ShortSeq
<1>4. ASSUME NEW e \in Entry PROVE ToSet(pending'[e]) \subseteq Whole
  <2>1. CASE e = d
    <3>1. pending'[e] = <<l>>
      BY <1>0, <2>1 DEF TypeOK, FunctionOn
    <3> QED BY <3>1, <1>2, <1>3
  <2>2. CASE e # d
    <3>1. pending'[e] = pending[e]
      BY <1>0, <2>2 DEF TypeOK, FunctionOn
    <3> QED BY <3>1 DEF LeafInv
  <2> QED BY <2>1, <2>2
<1> QED BY <1>4

LEMMA DirLeaf ==
    ASSUME LeafInv, RunInv, LinkInv, TypeOK, JobInv, Kept, Expected(Root).ok,
           NEW d \in Dirs, DirStep(d)
    PROVE  LeafInv'
<1>0. d \in Entry /\ leafs' = leafs /\ leafs \subseteq Whole
      /\ \A e \in Entry : ToSet(pending[e]) \subseteq Whole
  BY EntryTypes DEF DirStep, FailOpen, OpenSingle, OpenPool, JoinSingle, CloseResults, SortResults,
                    ApplyResult, BuildDir, TakeJob, SendResult, ExitWorker, lockVars, LeafInv
<1>1. ASSUME NEW e \in Entry, pc[e] = "none", pc'[e] # "none"
      PROVE  Expected(e).ok /\ Added(failing, e) \subseteq Whole
  <2>1. e \in ToSet(Entries[d]) /\ pc[d] # "none"
    BY <1>1, NewlyStarted
  <2>2. Result(failing, d).ok /\ Added(failing, d) \subseteq Whole
    BY <1>0, <2>1 DEF LeafInv, Expected
  <2> QED BY <2>1, <2>2, ChildAdds DEF Expected
<1>2. pc[d] # "none" => ~Fails(d)
  BY <1>0 DEF LeafInv, Fails
<1>3. \A e \in Entry : ToSet(pending'[e]) \subseteq Whole
  <2>1. CASE JoinSingle(d)
    <3>1. pc[d] # "none"
      BY <2>1 DEF JoinSingle, At
    <3>2. Joins(d, 1)
      BY <2>1, <3>1, <1>2, JoinSingleDoes
    <3> QED BY <3>1, <3>2, JoinedLeaf
  <2>2. CASE ApplyResult(d)
    <3>1. pc[d] # "none"
      BY <2>2 DEF ApplyResult, At
    <3>2. Joins(d, step[d] + 1)
      BY <2>2, <3>1, <1>2, ApplyResultDoes
    <3> QED BY <3>1, <3>2, JoinedLeaf
  <2>3. CASE ~JoinSingle(d) /\ ~ApplyResult(d)
    <3>1. pending' = pending
      BY <2>3 DEF DirStep, FailOpen, OpenSingle, OpenPool, CloseResults, SortResults,
                  BuildDir, TakeJob, SendResult, ExitWorker, taskVars
    <3> QED BY <3>1, <1>0
  <2> QED BY <2>1, <2>2, <2>3
<1>4. ASSUME NEW e \in Entry, pc[e] # "returned", pc'[e] = "returned"
      PROVE  Added(failing, e) \subseteq leafs
  <2>1. e = d
    <3>1. FirstPC(e) # "returned"
      BY DEF FirstPC
    <3> QED BY <1>4, <3>1, OthersStep
  <2>e. ASSUME NEW p, pc' = [pc EXCEPT ![d] = p] PROVE p = "returned"
    BY <1>0, <1>4, <2>1, <2>e DEF TypeOK
  <2>2. CASE BuildDir(d)
    BY <2>1, <2>2, DirAdded
  <2>3. CASE FailOpen(d)
    <3>1. pc[d] # "none" /\ d \in failing
      BY <2>3 DEF FailOpen, At
    <3>2. Expected(d) = Error(d)
      BY <3>1, DirFails DEF Expected
    <3>3. Expected(d).ok
      BY <1>0, <3>1 DEF LeafInv
    <3> QED BY <3>2, <3>3 DEF Error
  <2>4. CASE JoinSingle(d)
    <3>1. pc[d] # "none"
      BY <2>4 DEF JoinSingle, At
    <3>2. pc' = [pc EXCEPT ![d] = "build"]
      BY <2>4, <3>1, <1>2, JoinSingleDoes
    <3> QED BY <3>2, <2>e
  <2>5. CASE ApplyResult(d)
    <3>1. pc[d] # "none"
      BY <2>5 DEF ApplyResult, At
    <3>2. pc' = pc
      BY <2>5, <3>1, <1>2, ApplyResultDoes
    <3> QED BY <3>2, <1>4
  <2>6. CASE OpenPool(d) \/ SortResults(d)
    BY <2>6, <2>e DEF OpenPool, SortResults
  <2>7. CASE OpenSingle(d)
    <3>1. CASE Entries[d] = <<>>
      BY <2>7, <3>1, <2>e DEF OpenSingle
    <3>2. CASE Entries[d] # <<>>
      <4> DEFINE c == Entries[d][1]
      <4>1. pc' = [pc EXCEPT ![d] = "single", ![c] = FirstPC(c)]
        BY <2>7, <3>2 DEF OpenSingle
      <4>2. FirstPC(c) # "returned"
        BY DEF FirstPC
      <4> HIDE DEF c
      <4> QED BY <4>1, <4>2, <1>0, <1>4, <2>1 DEF TypeOK
    <3> QED BY <3>1, <3>2
  <2>8. ASSUME NEW w \in Workers(d), TakeJob(d, w) PROVE FALSE
    <3> DEFINE c == Entries[d][Head(jobs[d])]
    <3>1. pc' = [pc EXCEPT ![c] = FirstPC(c)]
      BY <2>8 DEF TakeJob
    <3>2. FirstPC(c) # "returned"
      BY DEF FirstPC
    <3> HIDE DEF c
    <3> QED BY <3>1, <3>2, <1>0, <1>4, <2>1 DEF TypeOK
  <2>9. ASSUME NEW w \in Workers(d), SendResult(d, w) \/ ExitWorker(d, w) PROVE FALSE
    BY <2>9, <1>4 DEF SendResult, ExitWorker, taskVars
  <2>10. CASE CloseResults(d)
    BY <2>10, <1>4 DEF CloseResults, taskVars
  <2> QED
    BY <2>2, <2>3, <2>4, <2>5, <2>6, <2>7, <2>8, <2>9, <2>10 DEF DirStep
<1> QED
  BY <1>0, <1>1, <1>3, <1>4, LeafFrame

LEMMA FileLeaf ==
    ASSUME LeafInv, FileInv, LinkInv, TypeOK, Kept, Expected(Root).ok,
           NEW f \in Files, FileStep(f)
    PROVE  LeafInv'
<1>0. /\ f \in Entry /\ pc[f] = "read" /\ pending[f] = <<>>
      /\ leafs' = leafs /\ leafs \subseteq Whole
      /\ \A e \in Entry : ToSet(pending[e]) \subseteq Whole
  BY DEF FileStep, ReadChunk, FailRead, BuildFile, At, lockVars, LeafInv, Entry
<1>1. Expected(f).ok /\ Added(failing, f) \subseteq Whole
  BY <1>0 DEF LeafInv
<1>2. f \notin failing
  <2> SUFFICES ASSUME f \in failing PROVE FALSE
    OBVIOUS
  <2>1. Expected(f) = Error(f)
    BY FileResult DEF Expected
  <2> QED BY <1>1, <2>1 DEF Error
<1>3. Added(failing, f) = ToSet(FileChunks(f))
  BY <1>2, FileResult
<1>4. CASE ReadChunk(f)
  <2> DEFINE n == step[f] + 1
             ls == NewChunks(f, n)
  <2>1. n \in 1..Len(Content[f])
    <3>1. step[f] < Len(Content[f]) /\ step[f] \in 0..Len(Content[f])
      BY <1>0, <1>4 DEF ReadChunk, FileInv, FileRun
    <3>2. Len(Content[f]) \in Nat
      BY TreeAssumption
    <3> QED BY <3>1, <3>2
  <2>2. ToSet(ls) \subseteq Whole
    BY <2>1, <1>1, <1>3, ChunksAdded
  <2>3. pending' = [pending EXCEPT ![f] = ls] /\ UNCHANGED pc
    BY <1>4 DEF ReadChunk, LinkAndAdd
  <2> HIDE DEF ls
  <2>4. \A e \in Entry : ToSet(pending'[e]) \subseteq Whole
    BY <1>0, <2>2, <2>3 DEF TypeOK, FunctionOn
  <2> QED BY <1>0, <2>3, <2>4, LeafFrame
<1>5. CASE BuildFile(f)
  <2>1. links[f] = FileChunks(f)
    BY <1>5, FileReturns
  <2>2. ToSet(links[f]) \subseteq leafs
    BY <1>0, ShortSeq DEF LinkInv
  <2>3. pc' = [pc EXCEPT ![f] = "returned"] /\ UNCHANGED pending
    BY <1>5 DEF BuildFile, Return
  <2>4. ASSUME NEW e \in Entry, pc'[e] # pc[e] PROVE e = f
    BY <2>3, <2>4 DEF TypeOK
  <2> QED BY <1>0, <1>3, <2>1, <2>2, <2>3, <2>4, LeafFrame
<1> QED
  BY <1>2, <1>4, <1>5 DEF FileStep, FailRead

LEMMA LockLeaf ==
    ASSUME LeafInv, LinkInv, TypeOK, Kept, Expected(Root).ok,
           NEW e \in Entry, LockStep(e)
    PROVE  LeafInv'
<1>1. CASE Lock(e)
  BY <1>1, LeafIdle DEF Lock, taskVars
<1> DEFINE p == pending[e]
<1>2. section[e] # "out" => /\ p # <<>> /\ IsSeq(p)
                            /\ ToSet(Tail(p)) \subseteq ToSet(p) /\ Head(p) \in ToSet(p)
  <2>1. section[e] # "out" => p # <<>> /\ IsSeq(p)
    BY DEF LinkInv
  <2> HIDE DEF p
  <2>2. p # <<>> /\ IsSeq(p) => ToSet(p) = {Head(p)} \cup ToSet(Tail(p))
    BY TailSet
  <2> QED BY <2>1, <2>2
<1>3. ASSUME section[e] # "out", Unlock(e)
      PROVE  \A x \in Entry : ToSet(pending'[x]) \subseteq ToSet(pending[x])
  <2>1. pending' = [pending EXCEPT ![e] = Tail(p)]
    BY <1>3 DEF Unlock
  <2>2. pending'[e] = Tail(p) /\ \A x \in Entry : x # e => pending'[x] = pending[x]
    BY <2>1 DEF TypeOK, FunctionOn
  <2> QED BY <2>2, <1>2, <1>3
<1>4. CASE LookUp(e)
  <2>1. UNCHANGED <<pc, leafs>> /\ section[e] # "out"
    BY <1>4 DEF LookUp
  <2>2. \A x \in Entry : ToSet(pending'[x]) \subseteq ToSet(pending[x])
    <3>1. Unlock(e) \/ UNCHANGED pending
      BY <1>4 DEF LookUp
    <3> QED BY <2>1, <3>1, <1>3
  <2> QED BY <2>1, <2>2, LeafIdle
<1>5. CASE Store(e)
  <2>1. UNCHANGED pc /\ section[e] # "out" /\ Unlock(e) /\ leafs' = leafs \cup {Head(p)}
    BY <1>5 DEF Store
  <2>2. leafs \subseteq Whole /\ \A x \in Entry : ToSet(pending[x]) \subseteq Whole
    BY DEF LeafInv
  <2>3. \A x \in Entry : ToSet(pending'[x]) \subseteq Whole
    BY <2>1, <2>2, <1>3
  <2>4. leafs \subseteq leafs' /\ leafs' \subseteq Whole
    BY <2>1, <2>2, <1>2
  <2> QED BY <2>1, <2>3, <2>4, LeafFrame
<1> QED
  BY <1>1, <1>4, <1>5 DEF LockStep

LEMMA LeafStep ==
    LeafInv /\ RunInv /\ FileInv /\ LinkInv /\ TypeOK /\ JobInv /\ [Next]_vars => LeafInv'
<1> SUFFICES ASSUME LeafInv, RunInv, FileInv, LinkInv, TypeOK, JobInv, [Next]_vars
             PROVE  LeafInv'
  OBVIOUS
<1>0. Kept
  BY KeptStep
<1>1. CASE ~Expected(Root).ok
  <2>1. ~Expected(Root)'.ok
    BY <1>0, <1>1 DEF Kept, Expected
  <2> QED BY <2>1 DEF LeafInv
<1>2. CASE Expected(Root).ok
  <2>1. ASSUME NEW d \in Dirs, DirStep(d) PROVE LeafInv'
    BY <1>0, <1>2, <2>1, DirLeaf
  <2>2. ASSUME NEW f \in Files, FileStep(f) PROVE LeafInv'
    BY <1>0, <1>2, <2>2, FileLeaf
  <2>3. ASSUME NEW e \in Entry, LockStep(e) PROVE LeafInv'
    BY <1>0, <1>2, <2>3, LockLeaf
  <2>4. CASE FinishDag \/ Finished \/ UNCHANGED vars
    <3>1. UNCHANGED <<pc, leafs, pending>>
      BY <2>4 DEF FinishDag, Finished, vars, taskVars, lockVars
    <3> QED BY <1>0, <1>2, <3>1, LeafIdle
  <2> QED BY <2>1, <2>2, <2>3, <2>4 DEF Next
<1> QED
  BY <1>1, <1>2

(* What createDagParallel has returned is what createDag returns.            *)
DagInv == dag # NoRet => dag = SequentialDag(failing)

\* SequentialDag, its LET and its recursive function spelled out.
LEMMA SequentialDagIs ==
    ASSUME NEW bad
    PROVE  SequentialDag(bad) =
             IF Result(bad, Root).ok
             THEN [ok |-> TRUE,
                   root |-> BuildRootLeaf(Result(bad, Root).leaf,
                              [LeafCount |-> Cardinality(Added(bad, Root)),
                               ContentSize |-> ContentTotal(Added(bad, Root))]),
                   leafs |-> Added(bad, Root)]
             ELSE Result(bad, Root)
BY SequentialIs DEF SequentialDag, Result, Added

LEMMA DagStep ==
    DagInv /\ LeafInv /\ RunInv /\ LinkInv /\ StatsExact /\ TypeOK /\ JobInv /\ [Next]_vars
        => DagInv'
<1> SUFFICES ASSUME DagInv, LeafInv, RunInv, LinkInv, StatsExact, TypeOK, JobInv, [Next]_vars
             PROVE  DagInv'
  OBVIOUS
<1>0. failing' = failing
  BY KeptStep DEF Kept
<1>1. ASSUME UNCHANGED dag PROVE DagInv'
  BY <1>0, <1>1 DEF DagInv
<1>2. CASE FinishDag
  <2> DEFINE r == Result(failing, Root)
             A == Added(failing, Root)
  <2>1. Root \in Entry /\ pc[Root] = "returned"
    BY <1>2, TreeAssumption DEF FinishDag
  <2>2. ret[Root] = r
    BY <2>1 DEF RunInv, Expected
  <2>3. dag' = IF r.ok THEN [ok |-> TRUE, root |-> BuildRootLeaf(r.leaf, stats), leafs |-> leafs]
               ELSE r
    BY <1>2, <2>2 DEF FinishDag
  <2>4. ASSUME r.ok PROVE /\ leafs = A
                          /\ stats.LeafCount = Cardinality(A)
                          /\ stats.ContentSize = ContentTotal(A)
    <3>1. leafs = A
      BY <2>1, <2>4 DEF LeafInv, Expected, Whole
    <3> QED BY <3>1 DEF StatsExact, LeafCountExact
  <2>5. ASSUME r.ok PROVE BuildRootLeaf(r.leaf, stats)
                            = BuildRootLeaf(r.leaf, [LeafCount |-> Cardinality(A),
                                                     ContentSize |-> ContentTotal(A)])
    BY <2>4, <2>5 DEF BuildRootLeaf
  <2>6. dag' = SequentialDag(failing)
    BY <2>3, <2>4, <2>5, SequentialDagIs
  <2> QED BY <2>6, <1>0 DEF DagInv
<1>3. CASE Finished \/ UNCHANGED vars
  BY <1>1, <1>3 DEF Finished, vars
<1>4. ASSUME NEW d \in Dirs, DirStep(d) PROVE UNCHANGED dag
  BY <1>4 DEF DirStep, FailOpen, OpenSingle, OpenPool, JoinSingle, CloseResults, SortResults,
              ApplyResult, BuildDir, TakeJob, SendResult, ExitWorker
<1>5. ASSUME NEW f \in Files, FileStep(f) PROVE UNCHANGED dag
  BY <1>5 DEF FileStep, ReadChunk, FailRead, BuildFile
<1>6. ASSUME NEW e \in Entry, LockStep(e) PROVE UNCHANGED dag
  BY <1>6 DEF LockStep, Lock, LookUp, Store
<1> QED
  BY <1>1, <1>2, <1>3, <1>4, <1>5, <1>6 DEF Next

(* Whatever the tree, the workers and the reads that fail, and in whatever   *)
(* order the goroutines run, createDagParallel returns what the sequential   *)
(* createDag returns: the same leaves under the same root with the same      *)
(* totals, or the error of the same entry.                                   *)
THEOREM ParallelIsSequential == Spec => []MatchesSequential
<1>1. Init => FileInv /\ RunInv /\ PoolInv /\ LeafInv /\ DagInv
  <2>1. Init => DagInv
    BY DEF Init, DagInv
  <2> QED BY <2>1, FileInit, RunInit, PoolInvInit, LeafInit
<1>2. FileInv /\ RunInv /\ PoolInv /\ LeafInv /\ DagInv
      /\ LinkInv /\ StatsExact /\ TypeOK /\ JobInv /\ [Next]_vars
      => (FileInv /\ RunInv /\ PoolInv /\ LeafInv /\ DagInv)'
  BY FileStepKeeps, RunStep, PoolInvStep, LeafStep, DagStep
<1>3. DagInv => MatchesSequential
  BY DEF DagInv, MatchesSequential
<1>4. Spec => []LinkInv
  BY LinkInvariant
<1> QED
  BY <1>1, <1>2, <1>3, <1>4, StatsAreExact, TypeCorrect, JobInvariant, PTL DEF Spec

=============================================================================
