------------------------------ MODULE Chunking ------------------------------
(***************************************************************************)
(* How a file becomes chunks: the cutters of src/dag/fastcdc.go, by        *)
(* content or by a fixed size, from a buffer (CutChunks) and from a reader *)
(* that returns as few bytes at a time as it likes (streamChunksFromFile); *)
(* and how the content comes back from the leaves made of the chunks       *)
(* (processFile and GetContentFromLeaf of src/dag/dag.go).                 *)
(***************************************************************************)
EXTENDS Integers, SequencesExt

CONSTANTS Contents,      \* the files
          MinSize, TargetSize, MaxSize,    \* of a chunk cut by content
          Gear,          \* [bytes -> Nat]
          Modulus,       \* 2^64: the hash wraps around
          StrictLimit, LooseLimit,   \* h & mask = 0 exactly when h < limit
          FixedSizes     \* values of ChunkSize, 0 or less for no chunks

ASSUME SizeAssumption ==
    /\ {MinSize, TargetSize, MaxSize} \subseteq Nat \ {0}
    /\ MinSize < TargetSize /\ TargetSize < MaxSize
    /\ FixedSizes \subseteq Int
ASSUME GearAssumption ==
    /\ Contents \subseteq Seq(DOMAIN Gear)
    /\ Gear \in [DOMAIN Gear -> 0..(Modulus - 1)]
    /\ {StrictLimit, LooseLimit} \subseteq 0..Modulus /\ StrictLimit <= LooseLimit

VARIABLES chunkingFastCDC,  \* the mode, which is set before any file is cut
          ChunkSize,        \* and the size for the fixed mode
          content,   \* the file
          consumed,  \* how many of its bytes were read
          window,    \* the bytes read and not yet cut
          eof,       \* the reader has reported the end
          chunks,    \* the chunks the callback was given
          pc         \* "fill", "cut", "slice", "done" or "failed"

modeVars == <<chunkingFastCDC, ChunkSize>>
vars == <<modeVars, content, consumed, window, eof, chunks, pc>>

-----------------------------------------------------------------------------
(* Cutting a buffer *)

Smaller(a, b) == IF a < b THEN a ELSE b

GearHash(bytes) == FoldLeft(LAMBDA h, byte : ((2 * h) + Gear[byte]) % Modulus, 0, bytes)

\* The rolling hash of data[MinSize..i], indexed from 0 as in the code.
RollingHash(data, i) == GearHash(SubSeq(data, MinSize + 1, i + 1))

\* Mutant: the byte before the floor is judged.
BoundaryAtFloor(data) ==
    IF Len(data) < MinSize THEN Len(data)
    ELSE LET limit == Smaller(Len(data), MaxSize)
             match == {i \in (MinSize - 1)..(limit - 1) : RollingHash(data, i) < LooseLimit}
         IN  IF match = {} THEN limit ELSE Min(match) + 1

\* The strict limit judges the bytes before TargetSize, the loose one those
\* after it; the chunk ends with the first byte that passes.
fastCDCBoundary(data) ==
    IF Len(data) <= MinSize THEN Len(data)
    ELSE LET limit == Smaller(Len(data), MaxSize)
             match == {i \in MinSize..(limit - 1) :
                          RollingHash(data, i) < IF i < TargetSize THEN StrictLimit
                                                 ELSE LooseLimit}
         IN  IF match = {} THEN limit ELSE Min(match) + 1

\* The length of the next chunk of data.
NextCut(data) ==
    IF chunkingFastCDC THEN fastCDCBoundary(data)
    ELSE IF ChunkSize <= 0 THEN Len(data) ELSE Smaller(ChunkSize, Len(data))

\* The chunks from each offset on.
CutsFrom(data) ==
    LET from[o \in 0..Len(data)] ==
            IF o = Len(data) THEN <<>>
            ELSE LET rest == SubSeq(data, o + 1, Len(data))
                     cut == NextCut(rest)
                 IN  <<SubSeq(rest, 1, cut)>> \o from[o + cut]
    IN  from
CutChunks(data) == CutsFrom(data)[0]

-----------------------------------------------------------------------------
(* Cutting a stream *)

\* SetDefaultChunkSize or SetChunkSize, and streamChunksFromFile of a file.
Init == /\ \/ chunkingFastCDC = TRUE /\ ChunkSize = TargetSize
           \/ chunkingFastCDC = FALSE /\ ChunkSize \in FixedSizes
        /\ content \in Contents
        /\ consumed = 0 /\ window = <<>> /\ eof = FALSE /\ chunks = <<>>
        /\ pc = IF chunkingFastCDC THEN "fill" ELSE "slice"

\* One call of Read: any number of bytes that fit; io.EOF with the last of them
\* or by itself.
Read ==
    /\ pc = "fill" /\ Len(window) < MaxSize /\ ~eof
    /\ \E n \in 0..Smaller(MaxSize - Len(window), Len(content) - consumed) :
          /\ consumed' = consumed + n
          /\ window' = window \o SubSeq(content, consumed + 1, consumed + n)
          /\ eof' \in (IF consumed' = Len(content) THEN BOOLEAN ELSE {FALSE})
    /\ UNCHANGED <<modeVars, content, chunks, pc>>

FailRead == /\ pc \in {"fill", "slice"} /\ ~eof
            /\ pc' = "failed"
            /\ UNCHANGED <<modeVars, content, consumed, window, eof, chunks>>

\* Mutants: a window that is not full is judged; the tail is not cut.
FilledPartly == window # <<>>
FilledFully == Len(window) = MaxSize

\* A boundary is final in a full window, or at the end of the file.
Judgeable == Len(window) = MaxSize \/ (eof /\ window # <<>>)

Filled == /\ pc = "fill" /\ Judgeable
          /\ pc' = "cut"
          /\ UNCHANGED <<modeVars, content, consumed, window, eof, chunks>>

\* The callback gets the chunk, the window keeps the rest; before the end of
\* the file it is filled again.
Cut == /\ pc = "cut"
       /\ LET cut == NextCut(window)
          IN  /\ chunks' = Append(chunks, SubSeq(window, 1, cut))
              /\ window' = SubSeq(window, cut + 1, Len(window))
       /\ pc' = IF eof /\ window' # <<>> THEN "cut" ELSE "fill"
       /\ UNCHANGED <<modeVars, content, consumed, eof>>

Finish == /\ pc = "fill" /\ eof /\ window = <<>>
          /\ pc' = "done"
          /\ UNCHANGED <<modeVars, content, consumed, window, eof, chunks>>

\* streamFileChunks: io.ReadFull of one chunk after the other; without a chunk
\* size the whole file is one, also when it is empty.
Slice ==
    /\ pc = "slice"
    /\ IF ChunkSize <= 0
       THEN /\ chunks' = <<content>> /\ consumed' = Len(content) /\ pc' = "done"
       ELSE IF consumed = Len(content)
       THEN pc' = "done" /\ UNCHANGED <<chunks, consumed>>
       ELSE LET size == Smaller(ChunkSize, Len(content) - consumed)
            IN  /\ chunks' = Append(chunks, SubSeq(content, consumed + 1, consumed + size))
                /\ consumed' = consumed + size
                /\ pc' = pc
    /\ UNCHANGED <<modeVars, content, window, eof>>

Next == Read \/ FailRead \/ Filled \/ Cut \/ Finish \/ Slice

\* A reader does not return no bytes and no error for ever.
Progress == /\ Next
            /\ pc' # "failed"
            /\ <<consumed, eof, chunks, pc>>' # <<consumed, eof, chunks, pc>>

Spec == Init /\ [][Next]_vars /\ WF_vars(Progress)

-----------------------------------------------------------------------------
(* The leaves made of the chunks *)

\* processFile: a chunk leaf is named by its index, which also keeps equal
\* chunks of a file apart.
ChunkLeaves(cs) == {[ItemName |-> i - 1, Content |-> cs[i]] : i \in DOMAIN cs}

\* A file of one chunk holds it itself.
FileLeaf(cs) == [Links   |-> IF Len(cs) > 1 THEN ChunkLeaves(cs) ELSE {},
                 Content |-> IF Len(cs) = 1 THEN cs[1] ELSE <<>>]

\* Mutant: "10" comes between "1" and "2".
LexicalRank(leaves, leaf) ==
    LET key(x) == IF x.ItemName < 10 THEN (10 * x.ItemName) - 1 ELSE x.ItemName
    IN  Cardinality({x \in leaves : key(x) <= key(leaf)})

\* compareChunkItemNames: a chunk's place among the others, by the number that
\* is its name.
Rank(leaves, leaf) == Cardinality({x \in leaves : x.ItemName <= leaf.ItemName})

\* GetContentFromLeaf: the linked chunks in that order.
GetContentFromLeaf(leaf) ==
    IF leaf.Links = {} THEN leaf.Content
    ELSE FlattenSeq([i \in 1..Cardinality(leaf.Links) |->
                        (CHOOSE x \in leaf.Links : Rank(leaf.Links, x) = i).Content])

-----------------------------------------------------------------------------
(* Properties *)

\* However few bytes each Read returns, and wherever it stops, the chunks of a
\* stream are those CutChunks makes of the whole file, so that every producer
\* shares them.  (With chunking disabled an empty file streams one empty chunk
\* and CutChunks makes none: its leaf is the same, see FileLeaf.)
StreamingAgrees ==
    (content # <<>> \/ ChunkSize > 0) =>
        /\ IsPrefix(chunks, CutChunks(content))
        /\ pc = "done" => chunks = CutChunks(content)

\* Every chunk but the last is longer than the floor and none is longer than
\* the ceiling, although the window slides under the cutter.
ChunkSizes ==
    chunkingFastCDC =>
        \A i \in DOMAIN chunks :
            /\ Len(chunks[i]) \in 1..MaxSize
            /\ (i < Len(chunks) \/ window # <<>> \/ consumed < Len(content)) =>
                  Len(chunks[i]) > MinSize

\* The file comes back from the leaves, whatever the order of their hashes and
\* however often a chunk repeats.
Reassembles == pc = "done" => GetContentFromLeaf(FileLeaf(chunks)) = content

\* A stream comes to its end, or to the reader's error: neither a window that
\* is never full nor a tail is waited on for ever.
Returns == <>(pc \in {"done", "failed"})
=============================================================================
