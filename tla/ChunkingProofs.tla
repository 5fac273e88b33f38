--------------------------- MODULE ChunkingProofs ---------------------------
(***************************************************************************)
(* Proofs about Chunking, for any file, any sizes and gear, and any reader.*)
(***************************************************************************)
EXTENDS Chunking, SequenceTheorems, FiniteSetTheorems, WellFoundedInduction, TLAPS

Data == Seq(DOMAIN Gear)

-----------------------------------------------------------------------------
(* The cutter *)

LEMMA HasLowest ==
    ASSUME NEW T, T \subseteq Nat, T # {}
    PROVE  Min(T) \in T /\ \A k \in T : Min(T) <= k
<1>1. PICK R : IsWellFoundedOn(R, Nat) /\ \A k, m \in Nat : k < m => <<k, m>> \in R
  BY NatLessThanWellFounded DEF OpToRel
<1>2. IsWellFoundedOn(R, T)
  BY <1>1, IsWellFoundedOnSubset
<1>3. PICK low \in T : \A k \in T : ~(<<k, low>> \in R)
  BY <1>2, WFMin
<1>4. \A k \in T : low <= k
  <2>1. \A k \in T : ~(k < low)
    BY <1>1, <1>3
  <2> QED
    BY <2>1
<1> QED
  BY <1>4 DEF Min

\* A chunk is not empty and not longer than the ceiling, and longer than the
\* floor wherever there is more than that to cut.
LEMMA CutBounds ==
    ASSUME NEW data \in Data, data # <<>>, chunkingFastCDC, Len(data) <= MaxSize
    PROVE  /\ NextCut(data) \in 1..Len(data)
           /\ Len(data) > MinSize => NextCut(data) > MinSize
           /\ Len(data) <= MinSize => NextCut(data) = Len(data)
<1>1. MinSize \in Nat /\ MaxSize \in Nat /\ Len(data) \in Nat \ {0}
  BY SizeAssumption DEF Data
<1>2. NextCut(data) = fastCDCBoundary(data)
  BY DEF NextCut
<1>3. CASE Len(data) <= MinSize
  BY <1>1, <1>2, <1>3 DEF fastCDCBoundary
<1>4. CASE Len(data) > MinSize
  <2> DEFINE limit == Smaller(Len(data), MaxSize)
             match == {i \in MinSize..(limit - 1) :
                          RollingHash(data, i) < IF i < TargetSize THEN StrictLimit
                                                 ELSE LooseLimit}
  <2>1. limit = Len(data)
    BY <1>1 DEF Smaller
  <2>2. fastCDCBoundary(data) = IF match = {} THEN limit ELSE Min(match) + 1
    BY <1>1, <1>4 DEF fastCDCBoundary
  <2>3. match \subseteq MinSize..(Len(data) - 1) /\ match \subseteq Nat
    BY <1>1, <2>1
  <2> HIDE DEF match, limit
  <2>4. match # {} => Min(match) \in MinSize..(Len(data) - 1)
    BY <2>3, HasLowest
  <2> QED
    BY <1>1, <1>2, <1>4, <2>1, <2>2, <2>4
<1> QED
  BY <1>1, <1>3, <1>4

\* What is taken of a sequence.
LEMMA PieceOfData ==
    ASSUME NEW data \in Data, NEW m \in Nat, NEW n \in Nat, m + n <= Len(data)
    PROVE  /\ SubSeq(data, m + 1, m + n) \in Data
           /\ Len(SubSeq(data, m + 1, m + n)) = n
<1>1. \A i \in m + 1..m + n : data[i] \in DOMAIN Gear
  BY DEF Data
<1>2. m + 1 \in Int /\ m + n \in Int
  OBVIOUS
<1> DEFINE piece == SubSeq(data, m + 1, m + n)
<1>3. piece \in Seq(DOMAIN Gear) /\ Len(piece) = IF m + 1 <= m + n THEN (m + n) - (m + 1) + 1 ELSE 0
  BY <1>1, <1>2, SubSeqProperties
<1> HIDE DEF piece
<1>4. piece \in Data /\ Len(piece) = n
  BY <1>3 DEF Data
<1> QED
  BY <1>4 DEF piece

-----------------------------------------------------------------------------
(* The inductive invariant *)

\* The window is full or filled to the end of the file when it is cut.
WindowInv ==
    /\ content \in Data /\ consumed \in 0..Len(content)
    /\ window \in Data /\ Len(window) <= MaxSize
    /\ eof => consumed = Len(content)
    /\ pc # "slice"
    /\ pc = "cut" => Judgeable

Remains == window # <<>> \/ consumed < Len(content)

IInv ==
    chunkingFastCDC =>
        /\ WindowInv
        /\ chunks \in Seq(Data)
        /\ ChunkSizes

LEMMA InitEstablishes == Init => IInv
<1> SUFFICES ASSUME Init, chunkingFastCDC PROVE IInv
  BY DEF IInv
<1>1. content \in Data
  BY GearAssumption DEF Init, Data
<1>2. MaxSize \in Nat /\ Len(content) \in Nat
  BY <1>1, SizeAssumption DEF Data
<1>3. window = <<>> /\ window \in Data /\ Len(window) = 0 /\ chunks = <<>> /\ chunks \in Seq(Data)
      /\ DOMAIN chunks = {}
  BY DEF Init, Data
<1>4. WindowInv
  BY <1>1, <1>2, <1>3 DEF Init, WindowInv
<1> QED
  BY <1>3, <1>4 DEF IInv, ChunkSizes

\* A read takes from what remains of the file.
LEMMA ReadPreserves == ASSUME IInv, chunkingFastCDC, Read PROVE IInv'
<1>1. WindowInv /\ chunks \in Seq(Data) /\ ChunkSizes
  BY DEF IInv
<1>2. MaxSize \in Nat /\ Len(content) \in Nat /\ Len(window) \in Nat
  BY <1>1, SizeAssumption DEF WindowInv, Data
<1>3. PICK n \in 0..Smaller(MaxSize - Len(window), Len(content) - consumed) :
          /\ consumed' = consumed + n
          /\ window' = window \o SubSeq(content, consumed + 1, consumed + n)
          /\ eof' \in (IF consumed' = Len(content) THEN BOOLEAN ELSE {FALSE})
  BY DEF Read
<1>4. /\ n \in Nat /\ consumed + n \in 0..Len(content) /\ consumed \in Nat
      /\ Len(window) + n <= MaxSize
  BY <1>1, <1>2, <1>3 DEF Smaller, WindowInv, Read
<1>5. window' \in Data /\ Len(window') = Len(window) + n
  <2> DEFINE more == SubSeq(content, consumed + 1, consumed + n)
  <2>1. more \in Data /\ Len(more) = n
    BY <1>1, <1>2, <1>4, PieceOfData DEF WindowInv
  <2>2. window' = window \o more
    BY <1>3
  <2> HIDE DEF more
  <2> QED
    BY <1>1, <2>1, <2>2, ConcatProperties DEF WindowInv, Data
<1>6. UNCHANGED <<content, chunks, pc, chunkingFastCDC>> /\ pc = "fill"
  BY DEF Read, modeVars
<1>7. WindowInv'
  BY <1>1, <1>2, <1>3, <1>4, <1>5, <1>6 DEF WindowInv
<1>8. Remains' => Remains
  <2>1. window = <<>> /\ n = 0 => window' = <<>>
    BY <1>2, <1>5 DEF Data
  <2> QED
    BY <1>2, <1>3, <1>4, <1>6, <2>1 DEF Remains
<1>9. ChunkSizes'
  BY <1>1, <1>6, <1>8 DEF ChunkSizes, Remains
<1> QED
  BY <1>1, <1>6, <1>7, <1>9 DEF IInv

\* A chunk is cut while something remained, and only the last is short: it is
\* all of a window that was filled to the end of the file.
LEMMA CutPreserves == ASSUME IInv, chunkingFastCDC, Cut PROVE IInv'
<1> DEFINE cut == NextCut(window)
<1>1. WindowInv /\ chunks \in Seq(Data) /\ ChunkSizes
  BY DEF IInv
<1>2. MinSize \in Nat /\ MaxSize \in Nat /\ MinSize < MaxSize /\ Len(content) \in Nat /\ Len(window) \in Nat
  BY <1>1, SizeAssumption DEF WindowInv, Data
<1>3. /\ pc = "cut" /\ UNCHANGED <<content, consumed, eof, chunkingFastCDC>>
      /\ pc' = IF eof /\ window' # <<>> THEN "cut" ELSE "fill"
      /\ chunks' = Append(chunks, SubSeq(window, 1, cut))
      /\ window' = SubSeq(window, cut + 1, Len(window))
  BY DEF Cut, modeVars
<1>4. window # <<>> /\ (Len(window) = MaxSize \/ eof)
  <2>1. Len(<<>>) = 0
    OBVIOUS
  <2> QED
    BY <1>1, <1>2, <1>3, <2>1 DEF WindowInv, Judgeable
<1>5. /\ cut \in 1..Len(window)
      /\ Len(window) > MinSize => cut > MinSize
      /\ Len(window) <= MinSize => cut = Len(window)
  BY <1>1, <1>4, CutBounds DEF WindowInv
<1> HIDE DEF cut
<1>6. /\ SubSeq(window, 1, cut) \in Data /\ Len(SubSeq(window, 1, cut)) = cut
      /\ window' \in Data /\ Len(window') = Len(window) - cut
  <2>1. window \in Data /\ cut \in Nat /\ Len(window) - cut \in Nat
        /\ 0 + cut <= Len(window) /\ cut + (Len(window) - cut) = Len(window)
    BY <1>1, <1>2, <1>5 DEF WindowInv
  <2>2. SubSeq(window, 1, cut) = SubSeq(window, 0 + 1, 0 + cut)
    BY <2>1
  <2>3. SubSeq(window, 0 + 1, 0 + cut) \in Data /\ Len(SubSeq(window, 0 + 1, 0 + cut)) = cut
    BY <2>1, PieceOfData
  <2>4. cut + (Len(window) - cut) <= Len(window)
    BY <1>2, <2>1
  <2>5. /\ SubSeq(window, cut + 1, cut + (Len(window) - cut)) \in Data
        /\ Len(SubSeq(window, cut + 1, cut + (Len(window) - cut))) = Len(window) - cut
    BY <2>1, <2>4, PieceOfData
  <2>6. window' = SubSeq(window, cut + 1, cut + (Len(window) - cut))
    BY <1>3, <2>1
  <2> QED
    BY <2>2, <2>3, <2>5, <2>6
<1>7. WindowInv'
  BY <1>1, <1>2, <1>3, <1>5, <1>6 DEF WindowInv, Judgeable
<1>8. /\ chunks' \in Seq(Data) /\ DOMAIN chunks' = DOMAIN chunks \cup {Len(chunks) + 1}
      /\ Len(chunks') = Len(chunks) + 1 /\ Len(chunks) \in Nat
      /\ DOMAIN chunks = 1..Len(chunks)
      /\ \A i \in DOMAIN chunks : chunks'[i] = chunks[i]
      /\ Len(chunks'[Len(chunks) + 1]) = cut
  <2> DEFINE new == SubSeq(window, 1, cut)
  <2>1. new \in Data /\ chunks' = Append(chunks, new) /\ Len(new) = cut
    BY <1>3, <1>6
  <2> HIDE DEF new
  <2> QED
    BY <1>1, <2>1, AppendProperties
<1>9. Remains' => cut > MinSize
  <2> SUFFICES ASSUME Remains', Len(window) <= MinSize PROVE FALSE
    BY <1>2, <1>5
  <2>1. eof /\ consumed' = Len(content')
    BY <1>1, <1>2, <1>3, <1>4 DEF WindowInv
  <2>2. Len(window') = 0
    BY <1>2, <1>5, <1>6
  <2>3. window' = <<>>
    BY <1>6, <2>2 DEF Data
  <2> QED
    BY <1>2, <1>3, <2>1, <2>3 DEF Remains
<1>10. ChunkSizes'
  <2>1. \A i \in DOMAIN chunks : Len(chunks[i]) \in 1..MaxSize /\ Len(chunks[i]) > MinSize
    BY <1>1, <1>4 DEF ChunkSizes
  <2>2. cut \in 1..MaxSize
    BY <1>1, <1>2, <1>5 DEF WindowInv
  <2>3. SUFFICES ASSUME NEW i \in DOMAIN chunks'
                 PROVE  /\ Len(chunks'[i]) \in 1..MaxSize
                        /\ (i < Len(chunks') \/ Remains') => Len(chunks'[i]) > MinSize
    BY DEF ChunkSizes, Remains
  <2>4. CASE i \in DOMAIN chunks
    BY <1>8, <2>1, <2>4
  <2>5. CASE i = Len(chunks) + 1
    BY <1>8, <1>9, <2>2, <2>5
  <2> QED
    BY <1>8, <2>4, <2>5
<1> QED
  BY <1>3, <1>7, <1>8, <1>10 DEF IInv

LEMMA StepPreserves == IInv /\ [Next]_vars => IInv'
<1> SUFFICES ASSUME IInv, [Next]_vars, chunkingFastCDC' PROVE IInv'
  BY DEF IInv
<1>1. chunkingFastCDC
  BY DEF Next, Read, FailRead, Filled, Cut, Finish, Slice, vars, modeVars
<1>2. CASE FailRead \/ Filled \/ Finish \/ UNCHANGED vars
  <2>1. UNCHANGED <<chunkingFastCDC, content, consumed, window, eof, chunks>>
    BY <1>2 DEF FailRead, Filled, Finish, vars, modeVars
  <2>2. pc' # "slice" /\ (pc' = "cut" => Judgeable)
    BY <1>1, <1>2 DEF FailRead, Filled, Finish, vars, IInv, WindowInv
  <2> QED
    BY <1>1, <2>1, <2>2 DEF IInv, WindowInv, Judgeable, ChunkSizes
<1>3. ~Slice
  BY <1>1 DEF Slice, IInv, WindowInv
<1> QED
  BY <1>1, <1>2, <1>3, ReadPreserves, CutPreserves DEF Next

-----------------------------------------------------------------------------
\* However few bytes each Read returns, every chunk that streamChunksFromFile
\* cuts by content is within the ceiling, none is empty, and all but the last
\* of the file are longer than the floor, for any file, sizes and gear.
THEOREM SizesAreBounded == Spec => []ChunkSizes
<1>1. Init => IInv
  BY InitEstablishes
<1>2. IInv /\ [Next]_vars => IInv'
  BY StepPreserves
<1>3. IInv => ChunkSizes
  BY DEF IInv, ChunkSizes
<1> QED
  BY <1>1, <1>2, <1>3, PTL DEF Spec

-----------------------------------------------------------------------------
(* CutChunks, unfolded.  The prover has no induction over data: each lemma   *)
(* takes the least counterexample instead.                                   *)

\* A list given by its elements and where each continues.
IsList(f, n, piece, next) ==
    f = [o \in 0..n |-> IF o = n THEN <<>> ELSE <<piece[o]>> \o f[next[o]]]

LEMMA ListExists ==
    ASSUME NEW n \in Nat, NEW piece, NEW next, \A o \in 0..n - 1 : next[o] \in o + 1..n
    PROVE  \E f : IsList(f, n, piece, next)
<1> DEFINE From(k) == \E f : f = [o \in n - k..n |-> IF o = n THEN <<>>
                                                     ELSE <<piece[o]>> \o f[next[o]]]
           bad == {k \in 0..n : ~From(k)}
<1>1. From(0)
  <2> DEFINE f == [o \in n..n |-> <<>>]
  <2>1. f = [o \in n - 0..n |-> IF o = n THEN <<>> ELSE <<piece[o]>> \o f[next[o]]]
    OBVIOUS
  <2> QED
    BY <2>1
<1>2. ASSUME NEW k \in 0..n - 1, From(k) PROVE From(k + 1)
  <2>1. PICK f : f = [o \in n - k..n |-> IF o = n THEN <<>> ELSE <<piece[o]>> \o f[next[o]]]
    BY <1>2
  <2> DEFINE first == n - (k + 1)
             h == [o \in first..n |-> IF o = first THEN <<piece[o]>> \o f[next[o]] ELSE f[o]]
  <2>2. first \in 0..n - 1 /\ first..n = {first} \cup (n - k..n) /\ first \notin n - k..n
    OBVIOUS
  <2>3. \A o \in first..n - 1 : next[o] \in n - k..n /\ next[o] # first /\ next[o] \in first..n
    BY <2>2
  <2>4. \A o \in first..n - 1 : h[next[o]] = f[next[o]]
    BY <2>3
  <2>5. ASSUME NEW o \in first..n
        PROVE  h[o] = IF o = n THEN <<>> ELSE <<piece[o]>> \o h[next[o]]
    <3>1. CASE o = first
      BY <2>2, <2>4, <3>1
    <3>2. CASE o # first
      <4>1. h[o] = f[o] /\ o \in n - k..n
        BY <2>2, <3>2
      <4>2. f[o] = IF o = n THEN <<>> ELSE <<piece[o]>> \o f[next[o]]
        BY <2>1, <4>1
      <4>3. o # n => o \in first..n - 1
        OBVIOUS
      <4> QED
        BY <2>4, <4>1, <4>2, <4>3
    <3> QED
      BY <3>1, <3>2
  <2>6. h = [o \in first..n |-> h[o]]
    OBVIOUS
  <2>7. h = [o \in first..n |-> IF o = n THEN <<>> ELSE <<piece[o]>> \o h[next[o]]]
    <3> HIDE DEF h, first
    <3> QED
      BY <2>5, <2>6
  <2> HIDE DEF h
  <2> QED
    BY <2>7
<1>3. From(n)
  <2> HIDE DEF From
  <2> SUFFICES ASSUME bad # {} PROVE FALSE
    OBVIOUS
  <2>1. bad \subseteq Nat
    OBVIOUS
  <2> DEFINE low == Min(bad)
  <2>2. low \in bad /\ \A k \in bad : low <= k
    BY <2>1, HasLowest
  <2> HIDE DEF low
  <2>3. low # 0
    BY <1>1, <2>2
  <2>4. low - 1 \in 0..n - 1 /\ low - 1 \notin bad /\ (low - 1) + 1 = low
    BY <2>2, <2>3
  <2>5. From(low - 1)
    BY <2>4
  <2>6. From((low - 1) + 1)
    BY <1>2, <2>4, <2>5
  <2> QED
    BY <2>2, <2>4, <2>6
<1>4. n - n = 0
  OBVIOUS
<1> QED
  BY <1>3, <1>4 DEF IsList

\* Any cutter takes something of what it is given.
LEMMA CutAdvances ==
    ASSUME NEW data \in Data, data # <<>>, ChunkSize \in Int
    PROVE  NextCut(data) \in 1..Len(data)
<1>1. MinSize \in Nat /\ MaxSize \in Nat \ {0} /\ Len(data) \in Nat \ {0}
  BY SizeAssumption DEF Data
<1>2. CASE ~chunkingFastCDC
  BY <1>1, <1>2 DEF NextCut, Smaller
<1>3. CASE chunkingFastCDC /\ Len(data) <= MinSize
  BY <1>1, <1>3 DEF NextCut, fastCDCBoundary
<1>4. CASE chunkingFastCDC /\ Len(data) > MinSize
  <2> DEFINE limit == Smaller(Len(data), MaxSize)
             match == {i \in MinSize..(limit - 1) :
                          RollingHash(data, i) < IF i < TargetSize THEN StrictLimit
                                                 ELSE LooseLimit}
  <2>1. limit \in 1..Len(data)
    BY <1>1 DEF Smaller
  <2>2. NextCut(data) = IF match = {} THEN limit ELSE Min(match) + 1
    BY <1>1, <1>4 DEF fastCDCBoundary, NextCut
  <2>3. match \subseteq MinSize..(limit - 1) /\ match \subseteq Nat
    BY <1>1, <2>1
  <2> HIDE DEF match, limit
  <2>4. match # {} => Min(match) \in MinSize..(limit - 1)
    BY <2>3, HasLowest
  <2> QED
    BY <1>1, <2>1, <2>2, <2>4
<1> QED
  BY <1>1, <1>2, <1>3, <1>4

Rest(data, o) == SubSeq(data, o + 1, Len(data))

LEMMA RestFacts ==
    ASSUME NEW data \in Data, NEW k \in 0..Len(data)
    PROVE  /\ Rest(data, k) \in Data /\ Len(Rest(data, k)) = Len(data) - k
           /\ k # Len(data) => Rest(data, k) # <<>>
<1>1. /\ k \in Nat /\ Len(data) \in Nat /\ Len(data) - k \in Nat
      /\ k + (Len(data) - k) = Len(data) /\ k + (Len(data) - k) <= Len(data)
  BY DEF Data
<1>2. Rest(data, k) \in Data /\ Len(Rest(data, k)) = Len(data) - k
  <2> DEFINE n == Len(data) - k
  <2>1. n \in Nat /\ k + n = Len(data) /\ k + n <= Len(data)
    BY <1>1
  <2>2. Rest(data, k) = SubSeq(data, k + 1, k + n)
    BY <2>1 DEF Rest
  <2> HIDE DEF n
  <2>3. SubSeq(data, k + 1, k + n) \in Data /\ Len(SubSeq(data, k + 1, k + n)) = n
    BY <1>1, <2>1, PieceOfData
  <2>4. Rest(data, k) \in Data /\ Len(Rest(data, k)) = n
    BY <2>2, <2>3
  <2> QED
    BY <2>4 DEF n
<1>3. ASSUME Rest(data, k) = <<>> PROVE k = Len(data)
  <2>1. Len(Rest(data, k)) = 0
    BY <1>3
  <2>2. Len(data) - k = 0
    BY <1>2, <2>1
  <2>3. \A a, b \in Nat : a - b = 0 => b = a
    OBVIOUS
  <2>4. Len(data) \in Nat /\ k \in Nat
    BY <1>1
  <2> QED
    BY <2>2, <2>3, <2>4
<1> QED
  BY <1>2, <1>3

LEMMA CutsUnfold ==
    ASSUME NEW data \in Data, ChunkSize \in Int
    PROVE  CutsFrom(data) =
              [o \in 0..Len(data) |->
                  IF o = Len(data) THEN <<>>
                  ELSE <<SubSeq(Rest(data, o), 1, NextCut(Rest(data, o)))>>
                         \o CutsFrom(data)[o + NextCut(Rest(data, o))]]
<1> DEFINE n == Len(data)
           piece == [o \in 0..n - 1 |-> SubSeq(Rest(data, o), 1, NextCut(Rest(data, o)))]
           next == [o \in 0..n - 1 |-> o + NextCut(Rest(data, o))]
           Is(f) == f = [o \in 0..n |->
                  IF o = n THEN <<>>
                  ELSE <<SubSeq(Rest(data, o), 1, NextCut(Rest(data, o)))>>
                         \o f[o + NextCut(Rest(data, o))]]
<1>1. n \in Nat
  BY DEF Data
<1>2. \A o \in 0..n - 1 : next[o] \in o + 1..n
  <2> SUFFICES ASSUME NEW o \in 0..n - 1 PROVE o + NextCut(Rest(data, o)) \in o + 1..n
    OBVIOUS
  <2>1. o \in 0..Len(data) /\ o # Len(data)
    BY <1>1
  <2>2. NextCut(Rest(data, o)) \in 1..n - o
    BY <2>1, RestFacts, CutAdvances
  <2> QED
    BY <1>1, <2>2
<1>3. PICK f : IsList(f, n, piece, next)
  <2> HIDE DEF piece, next, n
  <2> QED
    BY <1>1, <1>2, ListExists
<1>4. \A o \in 0..n : o # n => o \in 0..n - 1
  BY <1>1
<1>5. Is(f)
  <2>1. \A o \in 0..n : o # n =>
            /\ piece[o] = SubSeq(Rest(data, o), 1, NextCut(Rest(data, o)))
            /\ next[o] = o + NextCut(Rest(data, o))
    BY <1>4
  <2> HIDE DEF piece, next
  <2> QED
    BY <1>3, <2>1 DEF IsList
<1>6. CutsFrom(data) = CHOOSE c : Is(c)
  BY DEF CutsFrom, Rest
<1> HIDE DEF Is
<1>7. Is(CutsFrom(data))
  BY <1>5, <1>6
<1> QED
  BY <1>7 DEF Is

\* So each offset's chunks are one and those of the offset after it.
LEMMA CutsStep ==
    ASSUME NEW data \in Data, ChunkSize \in Int, NEW k \in 0..Len(data)
    PROVE  /\ k = Len(data) => CutsFrom(data)[k] = <<>>
           /\ k # Len(data) =>
                 /\ NextCut(Rest(data, k)) \in 1..Len(data) - k
                 /\ CutsFrom(data)[k] =
                       <<SubSeq(Rest(data, k), 1, NextCut(Rest(data, k)))>>
                         \o CutsFrom(data)[k + NextCut(Rest(data, k))]
<1>1. k # Len(data) => NextCut(Rest(data, k)) \in 1..Len(data) - k
  BY RestFacts, CutAdvances
<1> QED
  BY <1>1, CutsUnfold

LEMMA CutsType ==
    ASSUME NEW data \in Data, ChunkSize \in Int
    PROVE  \A k \in 0..Len(data) : CutsFrom(data)[k] \in Seq(Data)
<1> DEFINE n == Len(data)
           Good(k) == CutsFrom(data)[n - k] \in Seq(Data)
           bad == {k \in 0..n : ~Good(k)}
<1>1. n \in Nat
  BY DEF Data
<1>2. Good(0)
  <2>1. n \in 0..Len(data) /\ n - 0 = n
    BY <1>1
  <2>2. CutsFrom(data)[n] = <<>>
    BY <2>1, CutsStep
  <2>3. <<>> \in Seq(Data)
    OBVIOUS
  <2> QED
    BY <2>1, <2>2, <2>3
<1>3. ASSUME NEW k \in 1..n, \A j \in 0..k - 1 : Good(j) PROVE Good(k)
  <2> DEFINE from == n - k
             rest == Rest(data, from)
             cut == NextCut(rest)
             first == SubSeq(rest, 1, cut)
  <2>1. from \in 0..Len(data) /\ from # Len(data)
    BY <1>1
  <2>2. cut \in 1..Len(data) - from /\ CutsFrom(data)[from] = <<first>> \o CutsFrom(data)[from + cut]
    BY <2>1, CutsStep
  <2>3. k - cut \in 0..k - 1 /\ n - (k - cut) = from + cut
    BY <1>1, <2>1, <2>2
  <2>4. CutsFrom(data)[from + cut] \in Seq(Data)
    BY <1>3, <2>3
  <2>5. first \in Data
    <3>1. rest \in Data /\ Len(rest) = Len(data) - from
      BY <2>1, RestFacts
    <3>2. cut \in Nat /\ 0 + cut <= Len(rest) /\ first = SubSeq(rest, 0 + 1, 0 + cut)
      BY <2>2, <3>1
    <3> HIDE DEF rest, cut, first
    <3> QED
      BY <3>1, <3>2, PieceOfData
  <2> HIDE DEF from, first, cut
  <2>6. <<first>> \o CutsFrom(data)[from + cut] \in Seq(Data)
    BY <2>4, <2>5
  <2> QED
    BY <2>2, <2>6 DEF from
<1>4. bad = {}
  <2> HIDE DEF Good
  <2> SUFFICES ASSUME bad # {} PROVE FALSE
    OBVIOUS
  <2>1. bad \subseteq Nat
    BY <1>1
  <2> DEFINE low == Min(bad)
  <2>2. low \in bad /\ \A k \in bad : low <= k
    BY <2>1, HasLowest
  <2> HIDE DEF low
  <2>3. low \in 1..n
    BY <1>1, <1>2, <2>2
  <2>4. \A j \in 0..low - 1 : Good(j)
    BY <1>1, <2>2, <2>3
  <2>5. Good(low)
    BY <1>3, <2>3, <2>4
  <2> QED
    BY <2>2, <2>5
<1> SUFFICES ASSUME NEW k \in 0..Len(data) PROVE CutsFrom(data)[k] \in Seq(Data)
  OBVIOUS
<1>5. n - k \in 0..n /\ n - (n - k) = k
  BY <1>1
<1>6. Good(n - k)
  <2> HIDE DEF Good
  <2> QED
    BY <1>4, <1>5
<1> QED
  BY <1>5, <1>6

-----------------------------------------------------------------------------
(* A window is cut as the rest of the file would be *)

LEMMA PieceOfPiece ==
    ASSUME NEW data \in Data, NEW a \in Nat, NEW c \in a..Len(data),
           NEW i \in Nat, NEW j \in i..(c - a)
    PROVE  SubSeq(SubSeq(data, a + 1, c), i + 1, j) = SubSeq(data, a + i + 1, a + j)
<1> DEFINE piece == SubSeq(data, a + 1, c)
           left == SubSeq(piece, i + 1, j)
           right == SubSeq(data, a + i + 1, a + j)
<1>1. /\ Len(data) \in Nat /\ DOMAIN data = 1..Len(data)
      /\ \A k \in 1..Len(data) : data[k] \in DOMAIN Gear
  BY DEF Data
<1>2. /\ piece \in Data /\ Len(piece) = c - a
      /\ \A k \in 1..c - a : piece[k] = data[a + k] /\ piece[k] \in DOMAIN Gear
  <2>1. \A k \in a + 1..c : data[k] \in DOMAIN Gear
    BY <1>1
  <2>2. a + 1 \in Int /\ c \in Int /\ c - (a + 1) + 1 = c - a /\ (a + 1 <= c <=> c - a # 0)
        /\ c - a \in Nat
    BY <1>1
  <2>3. /\ piece \in Seq(DOMAIN Gear) /\ Len(piece) = IF a + 1 <= c THEN c - (a + 1) + 1 ELSE 0
        /\ \A k \in 1..c - (a + 1) + 1 : piece[k] = data[a + 1 + k - 1]
    BY <2>1, <2>2, SubSeqProperties
  <2>4. Len(piece) = c - a
    BY <2>2, <2>3
  <2>5. \A k \in 1..c - a : a + 1 + k - 1 = a + k
    BY <1>1
  <2>6. \A k \in 1..c - a : piece[k] = data[a + k]
    BY <2>2, <2>3, <2>5
  <2>7. \A k \in 1..c - a : a + k \in a + 1..c
    BY <1>1
  <2> QED
    BY <2>1, <2>3, <2>4, <2>6, <2>7 DEF Data
<1>3. /\ left \in Data /\ Len(left) = j - i
      /\ \A k \in 1..j - i : left[k] = piece[i + k]
  <2>1. \A k \in i + 1..j : piece[k] \in DOMAIN Gear
    BY <1>1, <1>2
  <2>2. i + 1 \in Int /\ j \in Int /\ j - (i + 1) + 1 = j - i /\ (i + 1 <= j <=> j - i # 0)
    BY <1>1
  <2> HIDE DEF piece
  <2>3. /\ left \in Seq(DOMAIN Gear) /\ Len(left) = IF i + 1 <= j THEN j - (i + 1) + 1 ELSE 0
        /\ \A k \in 1..j - (i + 1) + 1 : left[k] = piece[i + 1 + k - 1]
    BY <2>1, <2>2, SubSeqProperties
  <2>4. \A k \in 1..j - i : i + 1 + k - 1 = i + k
    OBVIOUS
  <2> QED
    BY <2>2, <2>3, <2>4 DEF Data
<1>4. /\ right \in Data /\ Len(right) = j - i
      /\ \A k \in 1..j - i : right[k] = data[a + i + k]
  <2>1. \A k \in a + i + 1..a + j : data[k] \in DOMAIN Gear
    BY <1>1
  <2>2. /\ a + i + 1 \in Int /\ a + j \in Int /\ (a + j) - (a + i + 1) + 1 = j - i
        /\ (a + i + 1 <= a + j <=> j - i # 0)
    BY <1>1
  <2>3. /\ right \in Seq(DOMAIN Gear)
        /\ Len(right) = IF a + i + 1 <= a + j THEN (a + j) - (a + i + 1) + 1 ELSE 0
        /\ \A k \in 1..(a + j) - (a + i + 1) + 1 : right[k] = data[a + i + 1 + k - 1]
    BY <2>1, <2>2, SubSeqProperties
  <2>4. \A k \in 1..j - i : a + i + 1 + k - 1 = a + i + k
    OBVIOUS
  <2> QED
    BY <2>2, <2>3, <2>4 DEF Data
<1>5. \A k \in 1..j - i : left[k] = right[k]
  <2> SUFFICES ASSUME NEW k \in 1..j - i PROVE left[k] = right[k]
    OBVIOUS
  <2>1. i + k \in 1..c - a /\ a + (i + k) = a + i + k
    BY <1>1
  <2>2. left[k] = piece[i + k] /\ piece[i + k] = data[a + (i + k)]
    BY <1>2, <1>3, <2>1
  <2> QED
    BY <1>4, <2>1, <2>2
<1> HIDE DEF piece, left, right
<1>6. left = right
  BY <1>3, <1>4, <1>5, SeqEqual DEF Data
<1> QED
  BY <1>6 DEF left, right, piece

\* Whatever lies behind a window that is full does not change its first cut.
LEMMA WindowCut ==
    ASSUME NEW data \in Data, NEW a \in Nat, NEW c \in a + 1..Len(data), chunkingFastCDC,
           c - a = MaxSize \/ c = Len(data)
    PROVE  NextCut(SubSeq(data, a + 1, c)) = NextCut(Rest(data, a))
<1> DEFINE piece == SubSeq(data, a + 1, c)
           rest == Rest(data, a)
<1>1. CASE c = Len(data)
  BY <1>1 DEF Rest
<1>2. CASE c - a = MaxSize
  <2>1. /\ MinSize \in Nat /\ MaxSize \in Nat /\ MinSize < MaxSize /\ Len(data) \in Nat
        /\ c \in Nat /\ Len(data) \in a..Len(data) /\ c \in a..Len(data)
        /\ MaxSize <= Len(data) - a
    BY <1>2, SizeAssumption DEF Data
  <2>2. Len(piece) = MaxSize
    <3>1. MaxSize \in Nat /\ a + MaxSize = c /\ a + MaxSize <= Len(data)
      BY <1>2, <2>1
    <3> QED
      BY <3>1, PieceOfData
  <2>3. rest \in Data /\ Len(rest) = Len(data) - a
    <3>1. a \in 0..Len(data)
      BY <2>1
    <3> QED
      BY <3>1, RestFacts
  <2>4. \A i \in MinSize..MaxSize - 1 : RollingHash(piece, i) = RollingHash(rest, i)
    <3> SUFFICES ASSUME NEW i \in MinSize..MaxSize - 1
                 PROVE  SubSeq(piece, MinSize + 1, i + 1) = SubSeq(rest, MinSize + 1, i + 1)
      BY DEF RollingHash
    <3>1. i + 1 \in MinSize..c - a /\ i + 1 \in MinSize..Len(data) - a
      BY <1>2, <2>1
    <3>2. SubSeq(piece, MinSize + 1, i + 1) = SubSeq(data, a + MinSize + 1, a + (i + 1))
      BY <2>1, <3>1, PieceOfPiece
    <3>3. SubSeq(rest, MinSize + 1, i + 1) = SubSeq(data, a + MinSize + 1, a + (i + 1))
      BY <2>1, <3>1, PieceOfPiece DEF Rest
    <3> QED
      BY <3>2, <3>3
  <2> HIDE DEF piece, rest
  <2> DEFINE ends(d) == {i \in MinSize..(MaxSize - 1) :
                            RollingHash(d, i) < IF i < TargetSize THEN StrictLimit ELSE LooseLimit}
  <2>5. ends(piece) = ends(rest)
    BY <2>4
  <2>6. Smaller(Len(piece), MaxSize) = MaxSize /\ Smaller(Len(rest), MaxSize) = MaxSize
    BY <2>1, <2>2, <2>3 DEF Smaller
  <2>7. ~(Len(piece) <= MinSize) /\ ~(Len(rest) <= MinSize)
    BY <2>1, <2>2, <2>3
  <2>8. \A d : (d = piece \/ d = rest) =>
           fastCDCBoundary(d) = IF ends(d) = {} THEN MaxSize ELSE Min(ends(d)) + 1
    BY <2>6, <2>7 DEF fastCDCBoundary
  <2> HIDE DEF ends
  <2> QED
    BY <2>5, <2>8 DEF NextCut, piece, rest
<1> QED
  BY <1>1, <1>2

-----------------------------------------------------------------------------
(* The stream is cut as CutChunks cuts the file *)

Offset == consumed - Len(window)

\* What was cut is the beginning of what CutChunks cuts, up to the window.
CutsInv ==
    (content # <<>> \/ ChunkSize > 0) => CutChunks(content) = chunks \o CutsFrom(content)[Offset]

StreamInv ==
    /\ content \in Data /\ window \in Data /\ chunks \in Seq(Data) /\ ChunkSize \in Int
    /\ consumed \in 0..Len(content) /\ Len(window) <= consumed
    /\ window = SubSeq(content, Offset + 1, consumed)
    /\ chunkingFastCDC => WindowInv /\ ChunkSize > 0
    /\ ~chunkingFastCDC =>
          /\ window = <<>> /\ pc \in {"slice", "done", "failed"}
          /\ ChunkSize <= 0 /\ pc = "slice" => consumed = 0 /\ chunks = <<>>
    /\ pc = "done" => Offset = Len(content)
    /\ CutsInv

\* PieceOfData, by the indexes of its first and its last byte.
LEMMA PieceBetween ==
    ASSUME NEW data \in Data, NEW lo \in Nat \ {0}, NEW hi \in Nat, lo <= hi + 1, hi <= Len(data)
    PROVE  SubSeq(data, lo, hi) \in Data /\ Len(SubSeq(data, lo, hi)) = hi + 1 - lo
<1> DEFINE m == lo - 1
           n == hi + 1 - lo
<1>1. m \in Nat /\ n \in Nat /\ m + 1 = lo /\ m + n = hi
  OBVIOUS
<1> HIDE DEF m, n
<1>2. SubSeq(data, m + 1, m + n) \in Data /\ Len(SubSeq(data, m + 1, m + n)) = n
  BY <1>1, PieceOfData
<1> QED
  BY <1>1, <1>2 DEF n

LEMMA ModeStays ==
    ASSUME UNCHANGED modeVars, NEW data
    PROVE  CutsFrom(data)' = CutsFrom(data) /\ CutChunks(data)' = CutChunks(data)
<1>1. \A d : NextCut(d)' = NextCut(d)
  BY DEF NextCut, modeVars
<1>2. CutsFrom(data)' = CutsFrom(data)
  BY <1>1 DEF CutsFrom
<1> QED
  BY <1>2 DEF CutChunks

\* One chunk further.
LEMMA NextChunk ==
    ASSUME NEW data \in Data, ChunkSize \in Int, NEW cs \in Seq(Data), NEW k \in 0..Len(data) - 1,
           CutChunks(data) = cs \o CutsFrom(data)[k],
           NEW cut, cut = NextCut(Rest(data, k)),
           NEW chunk, chunk = SubSeq(data, k + 1, k + cut)
    PROVE  CutChunks(data) = Append(cs, chunk) \o CutsFrom(data)[k + cut]
<1>1. k \in 0..Len(data) /\ k # Len(data) /\ Len(data) \in Nat
  BY DEF Data
<1>2. cut \in 1..Len(data) - k
  BY <1>1, CutsStep
<1>3. cut \in Nat /\ cut \in 0..Len(data) - k /\ k + cut \in 0..Len(data) /\ k + cut <= Len(data)
  <2> DEFINE n == Len(data)
  <2>1. n \in Nat /\ k \in 0..n /\ cut \in 1..n - k
    BY <1>1, <1>2
  <2> HIDE DEF n
  <2>2. cut \in Nat /\ cut \in 0..n - k /\ k + cut \in 0..n /\ k + cut <= n
    BY <2>1
  <2> QED
    BY <2>2 DEF n
<1>4. chunk = SubSeq(Rest(data, k), 1, cut)
  <2>1. k \in Nat /\ Len(data) \in k..Len(data)
    BY <1>1
  <2> DEFINE zero == 0
  <2>2. zero \in Nat /\ cut \in zero..Len(data) - k
    BY <1>3
  <2> HIDE DEF zero
  <2>3. SubSeq(SubSeq(data, k + 1, Len(data)), zero + 1, cut)
          = SubSeq(data, k + zero + 1, k + cut)
    BY <2>1, <2>2, PieceOfPiece
  <2>4. zero + 1 = 1 /\ k + zero + 1 = k + 1
    BY <2>1 DEF zero
  <2> QED
    BY <2>3, <2>4 DEF Rest
<1>5. chunk \in Data
  <2> DEFINE lo == k + 1
             hi == k + cut
  <2>1. lo \in Nat \ {0} /\ hi \in Nat /\ lo <= hi + 1 /\ hi <= Len(data) /\ chunk = SubSeq(data, lo, hi)
    BY <1>1, <1>3
  <2> HIDE DEF lo, hi
  <2> QED
    BY <2>1, PieceBetween
<1>6. CutsFrom(data)[k] = <<chunk>> \o CutsFrom(data)[k + cut]
  <2>1. CutsFrom(data)[k] = <<SubSeq(Rest(data, k), 1, NextCut(Rest(data, k)))>>
                              \o CutsFrom(data)[k + NextCut(Rest(data, k))]
    BY <1>1, CutsStep
  <2> QED
    BY <1>4, <2>1
<1> DEFINE tail == CutsFrom(data)[k + cut]
<1>7. tail \in Seq(Data) /\ <<chunk>> \in Seq(Data)
  <2> DEFINE j == k + cut
  <2>1. j \in 0..Len(data)
    BY <1>3
  <2> HIDE DEF j
  <2>2. CutsFrom(data)[j] \in Seq(Data)
    BY <2>1, CutsType
  <2> QED
    BY <1>5, <2>2 DEF j
<1> HIDE DEF tail
<1>8. cs \o (<<chunk>> \o tail) = (cs \o <<chunk>>) \o tail
  BY <1>7, ConcatAssociative
<1>9. cs \o <<chunk>> = Append(cs, chunk)
  BY <1>5, AppendIsConcat
<1> QED
  BY <1>6, <1>8, <1>9 DEF tail

\* What a step does to the chunks: it gives the callback the next piece of the
\* file, or none.
Takes ==
    /\ content' = content
    /\ \E cut \in 0..Len(content) - Offset :
          /\ chunks' = Append(chunks, SubSeq(content, Offset + 1, Offset + cut))
          /\ Offset' = Offset + cut
Keeps == content' = content /\ chunks' = chunks /\ Offset' = Offset

LEMMA StreamInit == Init => StreamInv
<1> SUFFICES ASSUME Init PROVE StreamInv
  OBVIOUS
<1>1. content \in Data /\ ChunkSize \in Int /\ Len(content) \in Nat
      /\ (chunkingFastCDC => ChunkSize > 0)
  BY GearAssumption, SizeAssumption DEF Init, Data
<1>2. /\ consumed = 0 /\ window = <<>> /\ chunks = <<>> /\ Len(window) = 0
      /\ window \in Data /\ chunks \in Seq(Data) /\ pc \in {"fill", "slice"}
      /\ Offset = 0
  <2>1. /\ consumed = 0 /\ window = <<>> /\ chunks = <<>>
        /\ window \in Data /\ chunks \in Seq(Data) /\ pc \in {"fill", "slice"}
    BY DEF Init, Data
  <2>2. Len(window) = 0
    BY <2>1
  <2>3. Offset = 0 - 0
    BY <2>1, <2>2 DEF Offset
  <2> QED
    BY <2>1, <2>2, <2>3
<1>3. window = SubSeq(content, Offset + 1, consumed)
  BY <1>2, SubSeqEmpty
<1>4. CutsInv
  <2>1. 0 \in 0..Len(content)
    BY <1>1
  <2>2. CutsFrom(content)[0] \in Seq(Data)
    BY <1>1, <2>1, CutsType
  <2>3. <<>> \o CutsFrom(content)[0] = CutsFrom(content)[0]
    BY <2>2, ConcatEmptySeq
  <2> QED
    BY <1>2, <2>3 DEF CutsInv, CutChunks
<1>5. chunkingFastCDC => WindowInv
  BY <1>1, <1>2, SizeAssumption DEF Init, WindowInv
<1> QED
  BY <1>1, <1>2, <1>3, <1>4, <1>5 DEF Init, StreamInv

LEMMA StreamRead == ASSUME StreamInv, IInv, Read PROVE StreamInv' /\ Keeps
<1>1. /\ content \in Data /\ window \in Data /\ chunks \in Seq(Data) /\ ChunkSize \in Int
      /\ consumed \in 0..Len(content) /\ Len(window) <= consumed
      /\ chunkingFastCDC /\ pc = "fill" /\ Len(content) \in Nat /\ Len(window) \in Nat
  BY DEF StreamInv, Read, Data
<1>0. window = SubSeq(content, Offset + 1, consumed)
  BY DEF StreamInv
<1>2. PICK n \in 0..Smaller(MaxSize - Len(window), Len(content) - consumed) :
          /\ consumed' = consumed + n
          /\ window' = window \o SubSeq(content, consumed + 1, consumed + n)
  BY DEF Read
<1>3. UNCHANGED <<chunkingFastCDC, ChunkSize, modeVars, content, chunks, pc>>
  BY DEF Read, modeVars
<1>4. n \in Nat /\ consumed + n \in 0..Len(content)
  <2>1. \A room \in Int, size \in Nat : \A have \in 0..size :
           \A m \in 0..Smaller(room, size - have) : m \in Nat /\ have + m \in 0..size
    BY DEF Smaller
  <2>2. MaxSize - Len(window) \in Int
    BY <1>1, SizeAssumption
  <2> QED
    BY <1>1, <2>1, <2>2
<1>5. WindowInv'
  BY <1>1, <1>3, ReadPreserves DEF IInv
<1>6. window' \in Data /\ Len(window') = Len(window) + n
  <2> DEFINE more == SubSeq(content, consumed + 1, consumed + n)
  <2>1. more \in Data /\ Len(more) = n
    <3>1. consumed \in Nat /\ consumed + n <= Len(content)
      BY <1>1, <1>4
    <3> QED
      BY <1>1, <1>4, <3>1, PieceOfData
  <2>2. window' = window \o more
    BY <1>2
  <2> HIDE DEF more
  <2> QED
    BY <1>1, <2>1, <2>2, ConcatProperties DEF Data
<1>7. Offset' = Offset /\ Offset \in 0..consumed
  BY <1>1, <1>2, <1>4, <1>6 DEF Offset
<1>8. window' = SubSeq(content, Offset + 1, consumed + n)
  <2>1. Offset + 1 \in 1..Len(content) + 1 /\ consumed \in (Offset + 1) - 1..Len(content)
        /\ consumed + n \in consumed..Len(content)
    BY <1>1, <1>4, <1>7
  <2>2. SubSeq(content, Offset + 1, consumed) \o SubSeq(content, consumed + 1, consumed + n)
          = SubSeq(content, Offset + 1, consumed + n)
    BY <1>1, <2>1, ConcatAdjacentSubSeq DEF Data
  <2> QED
    BY <1>0, <1>2, <2>2
<1>9. CutsInv'
  BY <1>3, <1>7, ModeStays DEF StreamInv, CutsInv
<1> QED
  <2>1. Len(window') <= consumed'
    <3>1. \A c, w, m \in Nat : w <= c => w + m <= c + m
      OBVIOUS
    <3>2. consumed \in Nat
      BY <1>1
    <3>3. Len(window) + n <= consumed + n
      BY <1>1, <1>4, <3>1, <3>2
    <3> QED
      BY <1>2, <1>6, <3>3
  <2>2. consumed' \in 0..Len(content') /\ window' = SubSeq(content', Offset' + 1, consumed')
    BY <1>2, <1>3, <1>4, <1>7, <1>8
  <2>3. ChunkSize' > 0
    BY <1>1, <1>3 DEF StreamInv
  <2> QED
    BY <1>1, <1>3, <1>5, <1>6, <1>7, <1>9, <2>1, <2>2, <2>3 DEF StreamInv, Keeps

LEMMA StreamCut == ASSUME StreamInv, IInv, Cut PROVE StreamInv' /\ Takes
<1> DEFINE cut == NextCut(window)
<1>1. /\ content \in Data /\ window \in Data /\ chunks \in Seq(Data) /\ ChunkSize \in Int
      /\ consumed \in 0..Len(content) /\ Len(window) <= consumed
      /\ chunkingFastCDC /\ ChunkSize > 0 /\ Len(content) \in Nat /\ Len(window) \in Nat
      /\ WindowInv
  BY DEF StreamInv, Cut, Data
<1>0. window = SubSeq(content, Offset + 1, consumed)
  BY DEF StreamInv
<1>2. /\ pc = "cut" /\ pc' \in {"cut", "fill"}
      /\ chunks' = Append(chunks, SubSeq(window, 1, cut))
      /\ window' = SubSeq(window, cut + 1, Len(window))
      /\ UNCHANGED <<chunkingFastCDC, ChunkSize, modeVars, content, consumed>>
  BY DEF Cut, modeVars
<1>3. WindowInv' /\ chunks' \in Seq(Data)
  BY <1>1, <1>2, CutPreserves DEF IInv
<1>4. window # <<>> /\ (Len(window) = MaxSize \/ consumed = Len(content))
  <2>1. Len(<<>>) = 0 /\ MaxSize # 0
    BY SizeAssumption
  <2> QED
    BY <1>1, <1>2, <2>1 DEF WindowInv, Judgeable
<1>5. /\ Offset \in Nat /\ consumed = Offset + Len(window) /\ consumed - Offset = Len(window)
      /\ Len(window) # 0 /\ consumed \in Offset + 1..Len(content) /\ consumed \in Offset..Len(content)
      /\ Offset \in 0..Len(content) - 1
  <2>1. Len(window) # 0
    BY <1>1, <1>4, EmptySeq DEF Data
  <2> QED
    BY <1>1, <2>1 DEF Offset
<1>6. cut = NextCut(Rest(content, Offset)) /\ cut \in 1..Len(window)
  <2>1. cut \in 1..Len(window)
    BY <1>1, <1>4, CutAdvances
  <2>2. consumed - Offset = MaxSize \/ consumed = Len(content)
    BY <1>4, <1>5
  <2>3. NextCut(SubSeq(content, Offset + 1, consumed)) = NextCut(Rest(content, Offset))
    BY <1>1, <1>5, <2>2, WindowCut
  <2> QED
    BY <1>0, <2>1, <2>3
<1> HIDE DEF cut
<1>7. /\ SubSeq(window, 1, cut) = SubSeq(content, Offset + 1, Offset + cut)
      /\ window' = SubSeq(content, Offset + cut + 1, consumed)
  <2>1. cut \in Nat /\ 0 \in Nat /\ cut \in 0..(consumed - Offset)
        /\ Len(window) \in cut..(consumed - Offset)
    BY <1>5, <1>6
  <2>2. SubSeq(window, 0 + 1, cut) = SubSeq(content, Offset + 0 + 1, Offset + cut)
    BY <1>0, <1>1, <1>5, <2>1, PieceOfPiece
  <2>3. SubSeq(window, cut + 1, Len(window)) = SubSeq(content, Offset + cut + 1, Offset + Len(window))
    BY <1>0, <1>1, <1>5, <2>1, PieceOfPiece
  <2>4. 0 + 1 = 1 /\ Offset + 0 + 1 = Offset + 1
    BY <1>5
  <2> QED
    BY <1>2, <1>5, <2>2, <2>3, <2>4
<1>8. window' \in Data /\ Len(window') = Len(window) - cut
  <2> DEFINE lo == cut + 1
             hi == Len(window)
  <2>0. hi \in Nat /\ cut \in 1..hi /\ hi = Len(window)
    BY <1>1, <1>6
  <2> HIDE DEF hi
  <2>1. lo \in Nat \ {0} /\ hi \in Nat /\ lo <= hi + 1 /\ hi <= Len(window)
    BY <2>0
  <2>2. hi + 1 - lo = Len(window) - cut
    BY <2>0
  <2>3. window' = SubSeq(window, lo, hi)
    BY <1>2, <2>0
  <2> HIDE DEF lo, hi
  <2> QED
    BY <1>1, <2>1, <2>2, <2>3, PieceBetween
<1>9. Offset' = Offset + cut /\ Len(window') <= consumed'
  <2>1. \A c, w, k \in Int : c - (w - k) = (c - w) + k
    OBVIOUS
  <2>2. \A c, w \in Nat : \A k \in 1..w : w <= c => w - k <= c
    OBVIOUS
  <2>3. consumed \in Nat /\ cut \in Int
    BY <1>1, <1>6
  <2>4. consumed - (Len(window) - cut) = (consumed - Len(window)) + cut
    BY <1>1, <2>1, <2>3
  <2>5. Len(window) - cut <= consumed
    BY <1>1, <1>6, <2>2, <2>3
  <2> QED
    BY <1>2, <1>8, <2>4, <2>5 DEF Offset
<1>10. CutsInv'
  <2>1. CutChunks(content) = chunks \o CutsFrom(content)[Offset]
    BY <1>1 DEF StreamInv, CutsInv
  <2>2. CutChunks(content) = Append(chunks, SubSeq(content, Offset + 1, Offset + cut))
                               \o CutsFrom(content)[Offset + cut]
    <3> DEFINE k == Offset
               chunk == SubSeq(content, Offset + 1, Offset + cut)
    <3>1. k \in 0..Len(content) - 1
      BY <1>5
    <3>2. CutChunks(content) = chunks \o CutsFrom(content)[k]
          /\ cut = NextCut(Rest(content, k)) /\ chunk = SubSeq(content, k + 1, k + cut)
      BY <1>6, <2>1
    <3> HIDE DEF k, chunk
    <3>3. content \in Data /\ chunks \in Seq(Data) /\ ChunkSize \in Int
      BY <1>1
    <3>4. CutChunks(content) = Append(chunks, chunk) \o CutsFrom(content)[k + cut]
      BY <3>1, <3>2, <3>3, NextChunk
    <3> QED
      BY <3>4 DEF k, chunk
  <2>3. CutChunks(content) = chunks' \o CutsFrom(content)[Offset']
    BY <1>2, <1>7, <1>9, <2>2
  <2> QED
    BY <1>2, <2>3, ModeStays DEF CutsInv
<1>11. Takes
  <2>1. \A n, k, w \in Nat : \A c \in 1..w : k + w <= n => c \in 0..n - k
    OBVIOUS
  <2>2. Offset + Len(window) <= Len(content)
    BY <1>1, <1>5
  <2>3. cut \in 0..Len(content) - Offset
    BY <1>1, <1>5, <1>6, <2>1, <2>2
  <2>4. chunks' = Append(chunks, SubSeq(content, Offset + 1, Offset + cut))
    BY <1>2, <1>7
  <2> QED
    BY <1>2, <1>9, <2>3, <2>4 DEF Takes
<1>12. StreamInv'
  BY <1>1, <1>2, <1>3, <1>7, <1>8, <1>9, <1>10 DEF StreamInv
<1> QED
  BY <1>11, <1>12

LEMMA StreamSlice == ASSUME StreamInv, IInv, Slice PROVE StreamInv' /\ (Takes \/ Keeps)
<1>1. /\ content \in Data /\ chunks \in Seq(Data) /\ ChunkSize \in Int
      /\ ~chunkingFastCDC /\ window = <<>> /\ pc = "slice" /\ consumed \in 0..Len(content)
      /\ (ChunkSize <= 0 => consumed = 0 /\ chunks = <<>>)
  <2>1. pc = "slice"
    BY DEF Slice
  <2>2. ~chunkingFastCDC
    BY <2>1 DEF IInv, WindowInv
  <2> QED
    BY <2>1, <2>2 DEF StreamInv
<1>2. UNCHANGED <<chunkingFastCDC, ChunkSize, modeVars, content, window>>
  BY DEF Slice, modeVars
<1>3. Len(content) \in Nat /\ consumed \in Nat /\ Len(window) = 0 /\ window \in Data
  <2>1. Len(<<>>) = 0 /\ <<>> \in Data
    BY DEF Data
  <2> QED
    BY <1>1, <2>1 DEF Data
<1>4. Offset = consumed /\ (consumed' \in Nat => Offset' = consumed')
  BY <1>2, <1>3 DEF Offset
\* What has to be shown of a step, with an empty window.
<1>5. ASSUME consumed' \in 0..Len(content), chunks' \in Seq(Data), CutsInv',
             pc' = "done" => consumed' = Len(content),
             pc' \in {"slice", "done"}, ChunkSize <= 0 => pc' = "done"
      PROVE  StreamInv'
  <2>1. consumed' \in Nat /\ 0 <= consumed'
    BY <1>3, <1>5
  <2>2. consumed' \in Int /\ Offset' + 1 \in Int /\ consumed' < Offset' + 1
    <3>1. Offset' = consumed'
      BY <1>4, <2>1
    <3>2. \A c \in Nat : c \in Int /\ c + 1 \in Int /\ c < c + 1
      OBVIOUS
    <3>3. consumed' \in Int /\ consumed' + 1 \in Int /\ consumed' < consumed' + 1
      BY <2>1, <3>2
    <3> QED
      BY <3>1, <3>3
  <2>3. SubSeq(content, Offset' + 1, consumed') = <<>>
    BY <2>2, SubSeqEmpty
  <2>4. Len(window') <= consumed'
    BY <1>2, <1>3, <2>1
  <2>5. pc' = "done" => Offset' = Len(content')
    BY <1>2, <1>4, <1>5, <2>1
  <2>6. window' = SubSeq(content', Offset' + 1, consumed')
    BY <1>1, <1>2, <2>3
  <2>7. ~chunkingFastCDC' /\ window' = <<>> /\ pc' \in {"slice", "done"} /\ ChunkSize' \in Int
        /\ (ChunkSize' <= 0 => pc' # "slice")
    BY <1>1, <1>2, <1>5
  <2>8. content' \in Data /\ window' \in Data /\ consumed' \in 0..Len(content')
    BY <1>1, <1>2, <1>3, <1>5
  <2> QED
    BY <1>5, <2>4, <2>5, <2>6, <2>7, <2>8 DEF StreamInv
<1>6. CASE ChunkSize <= 0
  <2>1. chunks' = <<content>> /\ consumed' = Len(content) /\ pc' = "done"
    BY <1>6 DEF Slice
  <2>2. chunks' \in Seq(Data) /\ consumed' \in 0..Len(content)
    BY <1>1, <1>3, <2>1
  <2>3. ASSUME content # <<>> PROVE CutChunks(content) = chunks' \o CutsFrom(content)[Len(content)]
    <3> DEFINE zero == 0
               cut == Len(content)
    <3>1. zero \in 0..Len(content) - 1 /\ zero \in 0..Len(content) /\ Len(content) - zero = cut
          /\ cut \in Nat
      <4>1. Len(content) # 0
        BY <1>1, <2>3, EmptySeq DEF Data
      <4> QED
        BY <1>3, <4>1
    <3>2. CutChunks(content) = <<>> \o CutsFrom(content)[zero]
      <4>1. CutsInv
        BY DEF StreamInv
      <4>2. chunks = <<>> /\ Offset = zero
        BY <1>1, <1>4, <1>6
      <4> HIDE DEF zero
      <4> QED
        BY <2>3, <4>1, <4>2 DEF CutsInv
    <3>3. zero + cut = cut /\ zero + 1 = 1
      BY <3>1
    <3> HIDE DEF zero, cut
    <3>4. cut = NextCut(Rest(content, zero))
      BY <1>1, <1>6, <3>1, RestFacts DEF NextCut
    <3>5. content = SubSeq(content, zero + 1, zero + cut)
      BY <1>1, <3>3, SubSeqFull DEF Data, cut
    <3>6. <<>> \in Seq(Data)
      OBVIOUS
    <3>7. CutChunks(content) = Append(<<>>, content) \o CutsFrom(content)[zero + cut]
      BY <1>1, <3>1, <3>2, <3>4, <3>5, <3>6, NextChunk
    <3>8. Append(<<>>, content) = <<content>>
      OBVIOUS
    <3> QED
      BY <2>1, <3>3, <3>7, <3>8 DEF cut
  <2>4. CutsInv'
    <3>1. Offset' = Len(content)
      BY <1>3, <1>4, <2>1
    <3>2. ~(ChunkSize' > 0)
      BY <1>1, <1>2, <1>6
    <3> QED
      BY <1>2, <2>3, <3>1, <3>2, ModeStays DEF CutsInv
  <2>5. Takes
    <3> DEFINE offset == Offset
               cut == Len(content)
    <3>1. offset = 0 /\ cut \in Nat
      BY <1>1, <1>3, <1>4, <1>6
    <3>2. Offset' = cut
      BY <1>3, <1>4, <2>1
    <3>3. content = SubSeq(content, 1, cut)
      BY <1>1, SubSeqFull DEF Data
    <3>4. chunks' = Append(chunks, content)
      BY <1>1, <1>6, <2>1
    <3> HIDE DEF offset, cut
    <3>5. offset + 1 = 1 /\ offset + cut = cut /\ cut \in 0..cut - offset
      BY <3>1
    <3>6. chunks' = Append(chunks, SubSeq(content, offset + 1, offset + cut)) /\ Offset' = offset + cut
      BY <3>2, <3>3, <3>4, <3>5
    <3> QED
      BY <1>2, <3>5, <3>6 DEF Takes, offset, cut
  <2> QED
    BY <1>5, <2>1, <2>2, <2>4, <2>5
<1>7. CASE ChunkSize > 0 /\ consumed = Len(content)
  <2>1. pc' = "done" /\ UNCHANGED <<chunks, consumed>>
    BY <1>1, <1>7 DEF Slice
  <2>2. CutsInv'
    <3>1. Offset' = Offset
      BY <1>2, <2>1 DEF Offset
    <3>2. CutChunks(content) = chunks \o CutsFrom(content)[Offset]
      BY <1>7 DEF StreamInv, CutsInv
    <3>3. CutChunks(content) = chunks' \o CutsFrom(content)[Offset']
      BY <2>1, <3>1, <3>2
    <3>4. content' = content
      BY <1>2
    <3> QED
      BY <1>2, <3>3, <3>4, ModeStays DEF CutsInv
  <2>3. Keeps
    <3>1. Offset' = Offset
      BY <1>2, <2>1 DEF Offset
    <3> QED
      BY <1>2, <2>1, <3>1 DEF Keeps
  <2> QED
    BY <1>1, <1>5, <1>7, <2>1, <2>2, <2>3
<1>8. CASE ChunkSize > 0 /\ consumed # Len(content)
  <2> DEFINE size == Smaller(ChunkSize, Len(content) - consumed)
             chunk == SubSeq(content, consumed + 1, consumed + size)
  <2>1. chunks' = Append(chunks, chunk) /\ consumed' = consumed + size /\ pc' = pc
    BY <1>1, <1>8 DEF Slice
  <2>2. size \in 1..Len(content) - consumed
    <3>1. \A n \in Nat, m \in Int : \A k \in 0..n :
             m > 0 /\ k # n => Smaller(m, n - k) \in 1..n - k
      BY DEF Smaller
    <3> QED
      BY <1>1, <1>3, <1>8, <3>1
  <2>3. size = NextCut(Rest(content, consumed))
    <3>1. Len(Rest(content, consumed)) = Len(content) - consumed
      BY <1>1, RestFacts
    <3>2. ~(ChunkSize <= 0)
      BY <1>1, <1>8
    <3> QED
      BY <1>1, <3>1, <3>2 DEF NextCut
  <2> HIDE DEF size
  <2>4. /\ consumed \in 0..Len(content) - 1 /\ consumed + size \in 0..Len(content)
        /\ consumed + 1 \in Nat \ {0} /\ consumed + size \in Nat
        /\ consumed + 1 <= (consumed + size) + 1 /\ consumed + size <= Len(content)
    <3>1. \A n \in Nat : \A k \in 0..n : \A m \in 1..n - k :
             /\ k \in 0..n - 1 /\ k + m \in 0..n
             /\ k + 1 \in Nat \ {0} /\ k + m \in Nat /\ k + 1 <= (k + m) + 1 /\ k + m <= n
      OBVIOUS
    <3> QED
      BY <1>1, <1>3, <2>2, <3>1
  <2>5. chunk \in Data
    <3> DEFINE lo == consumed + 1
               hi == consumed + size
    <3>1. lo \in Nat \ {0} /\ hi \in Nat /\ lo <= hi + 1 /\ hi <= Len(content)
      BY <2>4
    <3> HIDE DEF lo, hi
    <3>2. SubSeq(content, lo, hi) \in Data
      BY <1>1, <3>1, PieceBetween
    <3> QED
      BY <3>2 DEF lo, hi
  <2> HIDE DEF chunk
  <2>6. chunks' \in Seq(Data)
    BY <1>1, <2>1, <2>5
  <2>7. CutChunks(content) = Append(chunks, chunk) \o CutsFrom(content)[consumed + size]
    <3>1. CutChunks(content) = chunks \o CutsFrom(content)[consumed]
      BY <1>4, <1>8 DEF StreamInv, CutsInv
    <3>2. chunk = SubSeq(content, consumed + 1, consumed + size)
      BY DEF chunk
    <3> QED
      BY <1>1, <2>3, <2>4, <3>1, <3>2, NextChunk
  <2>8. CutsInv'
    <3>1. Offset' = consumed + size
      BY <1>4, <2>1, <2>4
    <3> QED
      BY <1>2, <2>1, <2>7, <3>1, ModeStays DEF CutsInv
  <2>9. ~(ChunkSize <= 0) /\ pc' = "slice"
    BY <1>1, <1>8, <2>1
  <2>10. Takes
    <3>1. size \in 0..Len(content) - consumed
      BY <2>2
    <3>2. Offset' = consumed + size
      BY <1>4, <2>1, <2>4
    <3>3. chunks' = Append(chunks, SubSeq(content, consumed + 1, consumed + size))
      BY <2>1 DEF chunk
    <3> QED
      BY <1>2, <1>4, <3>1, <3>2, <3>3 DEF Takes
  <2> QED
    BY <1>5, <2>1, <2>4, <2>6, <2>8, <2>9, <2>10
<1> QED
  BY <1>1, <1>6, <1>7, <1>8

LEMMA StreamStep == StreamInv /\ IInv /\ [Next]_vars => StreamInv' /\ (Takes \/ Keeps)
<1> SUFFICES ASSUME StreamInv, IInv, [Next]_vars PROVE StreamInv' /\ (Takes \/ Keeps)
  OBVIOUS
<1>1. IInv'
  BY StepPreserves
<1>2. CASE FailRead \/ Filled \/ Finish \/ UNCHANGED vars
  <2>1. /\ UNCHANGED <<chunkingFastCDC, ChunkSize, modeVars, content, consumed, window, chunks>>
        /\ pc' = pc \/ pc' \in {"failed", "done", "cut"}
        /\ ~chunkingFastCDC => pc' = pc \/ pc' = "failed"
    BY <1>2 DEF FailRead, Filled, Finish, vars, modeVars, StreamInv
  <2>2. Offset' = Offset
    BY <2>1 DEF Offset
  <2>3. CutsInv'
    BY <2>1, <2>2, ModeStays DEF CutsInv, StreamInv
  <2>4. pc' = "done" => Offset = Len(content)
    <3>1. CASE Finish
      <4>1. chunkingFastCDC /\ window = <<>> /\ consumed = Len(content)
        BY <3>1 DEF Finish, StreamInv, IInv, WindowInv
      <4>2. Len(<<>>) = 0 /\ Len(content) \in Nat
        BY DEF StreamInv, Data
      <4> QED
        BY <4>1, <4>2 DEF Offset
    <3>2. CASE ~Finish
      BY <1>2, <3>2 DEF FailRead, Filled, vars, StreamInv
    <3> QED
      BY <3>1, <3>2
  <2>5. chunkingFastCDC => WindowInv' /\ ChunkSize > 0
    BY <1>1, <2>1 DEF IInv, StreamInv
  <2> QED
    BY <2>1, <2>2, <2>3, <2>4, <2>5 DEF StreamInv, Keeps
<1> QED
  BY <1>2, StreamRead, StreamCut, StreamSlice DEF Next

LEMMA StreamAgrees == StreamInv => StreamingAgrees
<1> SUFFICES ASSUME StreamInv, content # <<>> \/ ChunkSize > 0
             PROVE  /\ IsPrefix(chunks, CutChunks(content))
                    /\ pc = "done" => chunks = CutChunks(content)
  BY DEF StreamingAgrees
<1> DEFINE tail == CutsFrom(content)[Offset]
           offset == Offset
<1>1. content \in Data /\ chunks \in Seq(Data) /\ offset \in 0..Len(content) /\ ChunkSize \in Int
  <2>1. \A n, c, w \in Nat : c \in 0..n /\ w <= c => c - w \in 0..n
    OBVIOUS
  <2>2. consumed \in Nat /\ Len(window) \in Nat /\ Len(content) \in Nat
    BY DEF StreamInv, Data
  <2>3. consumed - Len(window) \in 0..Len(content)
    BY <2>1, <2>2 DEF StreamInv
  <2> QED
    BY <2>3 DEF StreamInv, Offset
<1> HIDE DEF offset
<1>2. tail \in Seq(Data)
  <2>1. CutsFrom(content)[offset] \in Seq(Data)
    BY <1>1, CutsType
  <2> QED
    BY <2>1 DEF offset
<1>3. CutChunks(content) = chunks \o tail
  BY DEF StreamInv, CutsInv
<1>4. ASSUME pc = "done" PROVE tail = <<>>
  <2>1. offset = Len(content)
    BY <1>4 DEF StreamInv, offset
  <2>2. CutsFrom(content)[offset] = <<>>
    BY <1>1, <2>1, CutsStep
  <2> QED
    BY <2>2 DEF offset
<1> HIDE DEF tail
<1>5. IsPrefix(chunks, chunks \o tail)
  <2>1. Len(chunks) <= Len(chunks \o tail)
    BY <1>1, <1>2, ConcatProperties
  <2>2. CASE chunks = <<>>
    BY <2>1, <2>2, SubSeqEmpty DEF IsPrefix
  <2>3. CASE chunks # <<>>
    <3>1. 1 \in 1..Len(chunks) /\ Len(chunks) \in 1..Len(chunks)
      BY <1>1, <2>3, EmptySeq
    <3>2. SubSeq(chunks \o tail, 1, Len(chunks)) = SubSeq(chunks, 1, Len(chunks))
      BY <1>1, <1>2, <3>1, SubSeqOfConcat1
    <3> QED
      BY <2>1, <3>2 DEF IsPrefix
  <2> QED
    BY <2>2, <2>3
<1>6. pc = "done" => chunks \o tail = chunks
  BY <1>1, <1>4, ConcatEmptySeq
<1> QED
  BY <1>3, <1>5, <1>6

-----------------------------------------------------------------------------
\* However few bytes each Read returns and wherever it stops, and whether it
\* cuts by content or by size, streamChunksFromFile gives the chunks that
\* CutChunks makes of the whole file, in order and none left out, for any
\* file, sizes and gear.
THEOREM StreamsCutAlike == Spec => []StreamingAgrees
<1>1. Init => IInv /\ StreamInv
  BY InitEstablishes, StreamInit
<1>2. IInv /\ StreamInv /\ [Next]_vars => (IInv /\ StreamInv)'
  BY StepPreserves, StreamStep
<1>3. StreamInv => StreamingAgrees
  BY StreamAgrees
<1> QED
  BY <1>1, <1>2, <1>3, PTL DEF Spec

-----------------------------------------------------------------------------
(* The content comes back *)

\* FlattenSeq's list of what the first elements of s join to.
Joins(f, s, n) == f = [i \in 1..n |-> IF i = 1 THEN s[i] ELSE f[i - 1] \o s[i]]

LEMMA JoinsExist ==
    ASSUME NEW s, NEW n \in Nat
    PROVE  \E f : Joins(f, s, n)
<1> DEFINE Upto(k) == \E f : Joins(f, s, k)
           bad == {k \in 0..n : ~Upto(k)}
<1>1. Upto(0)
  <2> DEFINE f == [i \in 1..0 |-> <<>>]
  <2>1. Joins(f, s, 0)
    BY DEF Joins
  <2> HIDE DEF f
  <2> QED
    BY <2>1
<1>2. ASSUME NEW k \in Nat, Upto(k) PROVE Upto(k + 1)
  <2>1. PICK f : Joins(f, s, k)
    BY <1>2
  <2> DEFINE last == k + 1
             h == [i \in 1..last |-> IF i = last THEN (IF i = 1 THEN s[i] ELSE f[i - 1] \o s[i])
                                     ELSE f[i]]
  <2>2. ASSUME NEW i \in 1..last
        PROVE  h[i] = IF i = 1 THEN s[i] ELSE h[i - 1] \o s[i]
    <3>1. i # 1 => i - 1 \in 1..last /\ i - 1 # last
      OBVIOUS
    <3>2. i # 1 => h[i - 1] = f[i - 1]
      BY <3>1
    <3>3. CASE i = last
      BY <3>2, <3>3
    <3>4. CASE i # last
      <4>1. i \in 1..k /\ h[i] = f[i]
        BY <3>4
      <4>2. f[i] = IF i = 1 THEN s[i] ELSE f[i - 1] \o s[i]
        BY <2>1, <4>1 DEF Joins
      <4> QED
        BY <3>2, <4>1, <4>2
    <3> QED
      BY <3>3, <3>4
  <2>3. h = [i \in 1..last |-> h[i]]
    OBVIOUS
  <2> HIDE DEF h
  <2>4. Joins(h, s, last)
    BY <2>2, <2>3 DEF Joins
  <2> QED
    BY <2>4
<1> HIDE DEF Upto
<1> SUFFICES ASSUME bad # {} PROVE FALSE
  BY DEF Upto
<1> DEFINE low == Min(bad)
<1>3. low \in bad /\ \A k \in bad : low <= k
  BY HasLowest
<1> HIDE DEF low
<1>4. low # 0
  BY <1>1, <1>3
<1>5. low - 1 \in 0..n /\ low - 1 \in Nat /\ low - 1 \notin bad /\ (low - 1) + 1 = low
  BY <1>3, <1>4
<1>6. Upto((low - 1) + 1)
  BY <1>2, <1>5
<1> QED
  BY <1>3, <1>5, <1>6

\* Lists with the same elements join to the same.
LEMMA JoinsAgree ==
    ASSUME NEW s, NEW t, NEW f, NEW g, NEW n \in Nat, NEW m \in n..n + 1,
           Joins(f, s, n), Joins(g, t, m), \A i \in 1..n : s[i] = t[i]
    PROVE  \A i \in 1..n : f[i] = g[i]
<1> DEFINE bad == {i \in 1..n : f[i] # g[i]}
<1> SUFFICES ASSUME bad # {} PROVE FALSE
  OBVIOUS
<1> DEFINE low == Min(bad)
<1>1. low \in bad /\ \A k \in bad : low <= k
  BY HasLowest
<1> HIDE DEF low
<1>2. low \in 1..n /\ low \in 1..m
  BY <1>1
<1>3. /\ f[low] = IF low = 1 THEN s[low] ELSE f[low - 1] \o s[low]
      /\ g[low] = IF low = 1 THEN t[low] ELSE g[low - 1] \o t[low]
  BY <1>2 DEF Joins
<1>4. low # 1 => f[low - 1] = g[low - 1]
  <2> SUFFICES ASSUME low # 1 PROVE f[low - 1] = g[low - 1]
    OBVIOUS
  <2>1. low - 1 \in 1..n /\ low - 1 \notin bad
    BY <1>1, <1>2
  <2> QED
    BY <2>1
<1>5. f[low] = g[low]
  BY <1>2, <1>3, <1>4
<1> QED
  BY <1>1, <1>5

LEMMA FlattenJoins ==
    ASSUME NEW s \in Seq(Data), NEW n \in Nat \ {0}, Len(s) = n
    PROVE  \E f : Joins(f, s, n) /\ FlattenSeq(s) = f[n]
<1> DEFINE F == CHOOSE f : f = [i \in 1..n |-> IF i = 1 THEN s[i] ELSE f[i - 1] \o s[i]]
<1>1. FlattenSeq(s) = F[n]
  BY DEF FlattenSeq
<1>2. \E f : f = [i \in 1..n |-> IF i = 1 THEN s[i] ELSE f[i - 1] \o s[i]]
  BY JoinsExist DEF Joins
<1>3. F = [i \in 1..n |-> IF i = 1 THEN s[i] ELSE F[i - 1] \o s[i]]
  BY <1>2
<1> HIDE DEF F
<1>4. Joins(F, s, n)
  BY <1>3 DEF Joins
<1> QED
  BY <1>1, <1>4

LEMMA FlattenAppend ==
    ASSUME NEW s \in Seq(Data), NEW x \in Data
    PROVE  FlattenSeq(Append(s, x)) = FlattenSeq(s) \o x
<1> DEFINE n == Len(s)
           t == Append(s, x)
<1>1. n \in Nat /\ t \in Seq(Data) /\ Len(t) = n + 1 /\ t[n + 1] = x
      /\ \A i \in 1..n : s[i] = t[i]
  BY AppendProperties
<1>2. n = 0 <=> s = <<>>
  BY EmptySeq
<1> HIDE DEF n, t
<1>3. n + 1 \in Nat \ {0} /\ n + 1 \in n..n + 1 /\ n + 1 \in 1..n + 1 /\ (n + 1) - 1 = n
      /\ (n + 1 = 1 <=> n = 0)
  BY <1>1
<1>4. PICK g : Joins(g, t, n + 1) /\ FlattenSeq(t) = g[n + 1]
  BY <1>1, <1>3, FlattenJoins
<1>5. g[n + 1] = IF n + 1 = 1 THEN x ELSE g[(n + 1) - 1] \o x
  BY <1>1, <1>3, <1>4 DEF Joins
<1>6. CASE n = 0
  <2>1. FlattenSeq(s) = <<>>
    BY <1>2, <1>6 DEF FlattenSeq
  <2>2. <<>> \o x = x
    BY ConcatEmptySeq DEF Data
  <2> QED
    BY <1>3, <1>4, <1>5, <1>6, <2>1, <2>2 DEF t
<1>7. CASE n # 0
  <2>1. n \in Nat \ {0} /\ Len(s) = n /\ n \in 1..n
    BY <1>1, <1>7 DEF n
  <2>2. PICK f : Joins(f, s, n) /\ FlattenSeq(s) = f[n]
    BY <2>1, FlattenJoins
  <2>3. f[n] = g[n]
    BY <1>1, <1>3, <1>4, <2>1, <2>2, JoinsAgree
  <2> QED
    BY <1>3, <1>4, <1>5, <1>7, <2>2, <2>3 DEF t
<1> QED
  BY <1>6, <1>7

\* The first chunk leaves of a file are as many as their names say.
LEMMA LeavesCount ==
    ASSUME NEW cs, NEW i \in Nat
    PROVE  Cardinality({[ItemName |-> j - 1, Content |-> cs[j]] : j \in 1..i}) = i
<1> DEFINE leaf(j) == [ItemName |-> j - 1, Content |-> cs[j]]
           T == {leaf(j) : j \in 1..i}
           f == [j \in 1..i |-> leaf(j)]
<1>1. f \in Bijection(1..i, T)
  <2>1. f \in [1..i -> T] /\ \A y \in T : \E j \in 1..i : f[j] = y
    OBVIOUS
  <2>2. ASSUME NEW j \in 1..i, NEW k \in 1..i, f[j] = f[k] PROVE j = k
    <3>1. f[j].ItemName = j - 1 /\ f[k].ItemName = k - 1
      OBVIOUS
    <3> QED
      BY <2>2, <3>1
  <2> HIDE DEF f, T
  <2> QED
    BY <2>1, <2>2 DEF Bijection, Injection, Surjection, IsInjective
<1>2. ExistsBijection(1..i, T)
  BY <1>1 DEF ExistsBijection
<1>3. IsFiniteSet(1..i) /\ Cardinality(1..i) = i
  BY FS_Interval
<1> HIDE DEF T
<1>4. Cardinality(T) = i
  BY <1>2, <1>3, FS_Bijection
<1> QED
  BY <1>4 DEF T

\* GetContentFromLeaf joins the chunks in the order they were cut in.
LEMMA ContentJoins ==
    ASSUME NEW cs \in Seq(Data)
    PROVE  GetContentFromLeaf(FileLeaf(cs)) = FlattenSeq(cs)
<1> DEFINE n == Len(cs)
           leaf(j) == [ItemName |-> j - 1, Content |-> cs[j]]
           Links == {leaf(j) : j \in 1..n}
<1>1. n \in Nat /\ cs = [i \in 1..n |-> cs[i]] /\ DOMAIN cs = 1..n /\ (n = 0 => cs = <<>>)
  BY EmptySeq
<1>2. CASE n = 0
  BY <1>1, <1>2 DEF GetContentFromLeaf, FileLeaf, FlattenSeq
<1>3. CASE n = 1
  <2>1. GetContentFromLeaf(FileLeaf(cs)) = cs[1]
    BY <1>3 DEF GetContentFromLeaf, FileLeaf
  <2> HIDE DEF n
  <2>2. Len(cs) = n /\ n \in Nat \ {0} /\ n \in 1..n
    BY <1>3 DEF n
  <2>3. PICK f : Joins(f, cs, n) /\ FlattenSeq(cs) = f[n]
    BY <2>2, FlattenJoins
  <2>4. f[n] = cs[1]
    BY <1>3, <2>2, <2>3 DEF Joins
  <2> QED
    BY <2>1, <2>3, <2>4
<1>4. CASE n > 1
  <2> DEFINE file == FileLeaf(cs)
             at(i) == CHOOSE x \in file.Links : Rank(file.Links, x) = i
  <2>1. file.Links = Links
    BY <1>1, <1>4 DEF FileLeaf, ChunkLeaves
  <2>2. Links # {}
    <3>1. 1 \in 1..n
      BY <1>1, <1>4
    <3> QED
      BY <3>1
  <2>3. Cardinality(Links) = n
    BY <1>1, LeavesCount
  <2>4. \A j \in 1..n : Rank(Links, leaf(j)) = j
    <3> SUFFICES ASSUME NEW j \in 1..n PROVE Rank(Links, leaf(j)) = j
      OBVIOUS
    <3>1. j \in Nat /\ Cardinality({leaf(k) : k \in 1..j}) = j
      BY LeavesCount
    <3>2. {x \in Links : x.ItemName <= leaf(j).ItemName} = {leaf(k) : k \in 1..j}
      <4>1. \A k \in 1..n : leaf(k).ItemName <= leaf(j).ItemName <=> k \in 1..j
        BY <1>1
      <4>2. 1..j \subseteq 1..n
        BY <1>1
      <4> HIDE DEF leaf
      <4> QED
        BY <4>1, <4>2
    <3> QED
      BY <3>1, <3>2 DEF Rank
  <2>5. ASSUME NEW i \in 1..n PROVE at(i).Content = cs[i]
    <3>1. leaf(i) \in Links /\ Rank(Links, leaf(i)) = i
      BY <2>4
    <3>2. at(i) \in Links /\ Rank(Links, at(i)) = i
      BY <2>1, <3>1
    <3>3. PICK j \in 1..n : at(i) = leaf(j)
      BY <3>2
    <3>4. j = i
      BY <2>4, <3>2, <3>3
    <3>5. leaf(i).Content = cs[i]
      OBVIOUS
    <3> HIDE DEF at, leaf
    <3> QED
      BY <3>3, <3>4, <3>5
  <2>6. GetContentFromLeaf(file) = FlattenSeq([i \in 1..Cardinality(file.Links) |-> at(i).Content])
    BY <2>1, <2>2 DEF GetContentFromLeaf
  <2> HIDE DEF at, file, Links
  <2>7. [i \in 1..n |-> at(i).Content] = cs
    BY <1>1, <2>5
  <2> QED
    BY <2>1, <2>3, <2>6, <2>7 DEF file
<1> QED
  BY <1>1, <1>2, <1>3, <1>4

JoinInv == FlattenSeq(chunks) = SubSeq(content, 1, Offset)

LEMMA JoinStep == ASSUME JoinInv, StreamInv, Takes \/ Keeps PROVE JoinInv'
<1>1. CASE Keeps
  BY <1>1 DEF JoinInv, Keeps
<1>2. CASE Takes
  <2> DEFINE k == Offset
  <2>1. content \in Data /\ chunks \in Seq(Data) /\ Len(content) \in Nat /\ k \in 0..Len(content)
    <3>1. \A n, c, w \in Nat : c \in 0..n /\ w <= c => c - w \in 0..n
      OBVIOUS
    <3>2. consumed \in Nat /\ Len(window) \in Nat /\ Len(content) \in Nat
      BY DEF StreamInv, Data
    <3>3. consumed - Len(window) \in 0..Len(content)
      BY <3>1, <3>2 DEF StreamInv
    <3> QED
      BY <3>2, <3>3 DEF StreamInv, Offset
  <2>2. PICK cut \in 0..Len(content) - k :
           /\ chunks' = Append(chunks, SubSeq(content, k + 1, k + cut))
           /\ Offset' = k + cut
    BY <1>2 DEF Takes
  <2> DEFINE chunk == SubSeq(content, k + 1, k + cut)
  <2>3. FlattenSeq(chunks) = SubSeq(content, 1, k)
    BY DEF JoinInv
  <2> HIDE DEF k
  <2>4. /\ k + 1 \in Nat \ {0} /\ k + cut \in Nat /\ k + 1 <= (k + cut) + 1 /\ k + cut <= Len(content)
        /\ 1 \in 1..Len(content) + 1 /\ k \in 1 - 1..Len(content) /\ k + cut \in k..Len(content)
    <3>1. \A n \in Nat : \A i \in 0..n : \A c \in 0..n - i :
             /\ i + 1 \in Nat \ {0} /\ i + c \in Nat /\ i + 1 <= (i + c) + 1 /\ i + c <= n
             /\ 1 \in 1..n + 1 /\ i \in 1 - 1..n /\ i + c \in i..n
      OBVIOUS
    <3> QED
      BY <2>1, <2>2, <3>1
  <2>5. chunk \in Data
    <3> DEFINE lo == k + 1
               hi == k + cut
    <3>1. lo \in Nat \ {0} /\ hi \in Nat /\ lo <= hi + 1 /\ hi <= Len(content)
      BY <2>4
    <3> HIDE DEF lo, hi
    <3>2. SubSeq(content, lo, hi) \in Data
      BY <2>1, <3>1, PieceBetween
    <3> QED
      BY <3>2 DEF lo, hi
  <2>6. SubSeq(content, 1, k) \o chunk = SubSeq(content, 1, k + cut)
    BY <2>1, <2>4, ConcatAdjacentSubSeq DEF Data
  <2> HIDE DEF chunk
  <2>7. FlattenSeq(Append(chunks, chunk)) = FlattenSeq(chunks) \o chunk
    BY <2>1, <2>5, FlattenAppend
  <2>8. chunks' = Append(chunks, chunk) /\ content' = content
    BY <1>2, <2>2 DEF chunk, Takes
  <2> QED
    BY <2>2, <2>3, <2>6, <2>7, <2>8 DEF JoinInv
<1> QED
  BY <1>1, <1>2

LEMMA JoinInit == Init => JoinInv
<1> SUFFICES ASSUME Init PROVE JoinInv
  OBVIOUS
<1>1. chunks = <<>> /\ consumed = 0 /\ window = <<>>
  BY DEF Init
<1>2. Len(<<>>) = 0 /\ FlattenSeq(<<>>) = <<>>
  BY DEF FlattenSeq
<1>3. Offset = 0 - 0
  BY <1>1, <1>2 DEF Offset
<1>4. SubSeq(content, 1, 0) = <<>>
  BY SubSeqEmpty
<1>5. Offset = 0
  BY <1>3
<1> QED
  BY <1>1, <1>2, <1>4, <1>5 DEF JoinInv

LEMMA JoinReassembles == StreamInv /\ JoinInv => Reassembles
<1> SUFFICES ASSUME StreamInv, JoinInv, pc = "done"
             PROVE  GetContentFromLeaf(FileLeaf(chunks)) = content
  BY DEF Reassembles
<1>1. content \in Data /\ chunks \in Seq(Data) /\ Offset = Len(content)
  BY DEF StreamInv
<1>2. SubSeq(content, 1, Len(content)) = content
  BY <1>1, SubSeqFull DEF Data
<1>3. GetContentFromLeaf(FileLeaf(chunks)) = FlattenSeq(chunks)
  BY <1>1, ContentJoins
<1> QED
  BY <1>1, <1>2, <1>3 DEF JoinInv

\* A file comes back from its leaves: what GetContentFromLeaf joins of the
\* chunk leaves that processFile makes of a finished stream is the file, for
\* any number of chunks, also when some are equal.
THEOREM FilesComeBack == Spec => []Reassembles
<1>1. Init => IInv /\ StreamInv /\ JoinInv
  BY InitEstablishes, StreamInit, JoinInit
<1>2. IInv /\ StreamInv /\ JoinInv /\ [Next]_vars => (IInv /\ StreamInv /\ JoinInv)'
  BY StepPreserves, StreamStep, JoinStep
<1>3. StreamInv /\ JoinInv => Reassembles
  BY JoinReassembles
<1> QED
  BY <1>1, <1>2, <1>3, PTL DEF Spec

=============================================================================
