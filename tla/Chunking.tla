------------------------------ MODULE Chunking ------------------------------
(***************************************************************************)
(* Splitting a text into chunks: a window over its characters, and groups  *)
(* of its sentences or paragraphs.  A text is a sequence of characters, of *)
(* which Blank is the only one that strip() takes away.                    *)
(***************************************************************************)
EXTENDS Integers, SequencesExt, PythonValues

CONSTANT Blank

\* ChunkOptions are records of size, overlap, words (preserve_words),
\* separator and min, the least size of a chunk or None.
OptionsRefused(o) == o.size <= 0 \/ o.overlap < 0 \/ o.overlap >= o.size

\* What _validate() returns.
MinChunkSize(o) ==
  LET raw == IF o.min = None THEN Max({1, o.size \div 10}) ELSE o.min
  IN  Max({1, Min({raw, o.size})})

\* Python's text[from:to]: "from" characters are skipped.
Slice(text, from, to) == SubSeq(text, from + 1, to)

Ink(text) == {i \in DOMAIN text : text[i] # Blank}

Strip(text) == IF Ink(text) = {} THEN <<>> ELSE SubSeq(text, Min(Ink(text)), Max(Ink(text)))

\* rfind(): the offset of the last separator, or -1.
LastSeparator(text, separator) == Max({i - 1 : i \in {j \in DOMAIN text : text[j] = separator}} \cup {-1})

\* Where the window that begins at "from" ends: at its last separator, unless
\* that would leave too little.
WindowEnd(text, o, from) ==
  LET end == Min({from + o.size, Len(text)})
      last == LastSeparator(Slice(text, from, end), o.separator)
  IN  IF o.words /\ end < Len(text) /\ last > MinChunkSize(o) THEN from + last ELSE end

\* Mutant of NextWindow: windows begin at equal distances, wherever the one
\* before was cut.
NextWindowByStride(o, from, end) == from + o.size - o.overlap

\* The next window repeats the end of this one, unless that is no progress.
NextWindow(o, from, end) == IF end - o.overlap <= from THEN end ELSE end - o.overlap

\* What the window from "from" to "end" gives: a chunk, unless too little is left of it.
Chunk(text, o, from, end) ==
  LET trimmed == Strip(Slice(text, from, end))
  IN  IF Len(trimmed) >= MinChunkSize(o) THEN <<[text |-> trimmed, start |-> from, end |-> end]>> ELSE <<>>

\* The loop of _chunk_window() from its offset "from" on; the window that reaches the
\* end of the text is the last.
Windows(text, o) ==
  LET rest[from \in 0..Len(text)] ==
        IF from >= Len(text) THEN <<>>
        ELSE LET end == WindowEnd(text, o, from)
             IN  Chunk(text, o, from, end)
                 \o IF end >= Len(text) THEN <<>> ELSE rest[NextWindow(o, from, end)]
  IN  rest[0]

\* chunk_text_with_metadata() on options that are not refused.  A chunk's
\* index is its place in the sequence.
ChunkText(text, o) ==
  IF text = <<>> THEN <<>>
  ELSE IF Len(text) <= o.size
       THEN <<[text |-> Strip(text), start |-> 0, end |-> Len(text)]>>
       ELSE Windows(text, o)

\* chunk_by_sentences() and chunk_by_paragraphs() of a text that has n of
\* them: the groups, as sequences of their numbers.  A text that has no more
\* than max is returned as it is.  The loop comes past its first turn only
\* with an overlap that is less than a group.
Groups(n, max, overlap) ==
  LET rest[from \in IF overlap < max THEN 0..n ELSE {0}] ==
        LET end == Min({from + max, n})
            next == end - overlap
        IN  <<[i \in 1..(end - from) |-> from + i]>>
            \o IF next <= 0 \/ end >= n THEN <<>> ELSE rest[next]
  IN  IF n <= max THEN <<[i \in 1..n |-> i]>> ELSE rest[0]

-----------------------------------------------------------------------------
\* No text gets lost that is as long as a chunk must be: with a least size of
\* one, every character but blanks is in a chunk.  Chunks are as long as
\* asked for, each begins after the one before it, and shares at most the
\* overlap with it.
ChunksCover(text, o, chunks) ==
  /\ MinChunkSize(o) = 1 =>
       \A p \in Ink(text) : \E i \in DOMAIN chunks : p \in (chunks[i].start + 1)..chunks[i].end
  /\ \A i \in DOMAIN chunks :
       /\ chunks[i].end - chunks[i].start <= o.size
       /\ Len(text) > o.size => Len(chunks[i].text) >= MinChunkSize(o)
  /\ \A i \in 2..Len(chunks) :
       /\ chunks[i].start > chunks[i - 1].start
       /\ chunks[i].start >= chunks[i - 1].end - o.overlap

\* Groups whose overlap is less than their size have every sentence, in order,
\* and share the overlap.  With an overlap as large as the size there is but
\* the first group, whatever follows it.
GroupsCover(n, max, overlap, groups) ==
  IF overlap < max \/ n <= max
  THEN /\ UNION {ToSet(groups[i]) : i \in DOMAIN groups} = 1..n
       /\ \A i \in 2..Len(groups) : /\ groups[i - 1][Len(groups[i - 1])] - groups[i][1] = overlap - 1
                                    /\ Len(groups[i - 1]) = max
  ELSE groups = <<[i \in 1..max |-> i]>>
=============================================================================
