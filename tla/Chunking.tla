------------------------------ MODULE Chunking ------------------------------
(***************************************************************************)
(* How Process cuts the text of a PDF into chunks, and finds the pages of  *)
(* each (chunks and Process in src/document-processor/service.py): the     *)
(* iterations of its loops, one by one.                                    *)
(*                                                                         *)
(* Only the layout of a text matters: the lengths of its pages, and where  *)
(* its words are, of any length and any distance from each other.          *)
(***************************************************************************)
EXTENDS Integers, SequencesExt

CONSTANTS
    ChunkSize, \* TOKEN_CHUNK_SIZE
    Overlap,   \* TOKEN_CHUNK_OVERLAP
    MaxChunks  \* MAX_CHUNKS

ASSUME ChunkAssumption ==
    /\ ChunkSize \in Nat \ {0} /\ Overlap \in Nat /\ Overlap < ChunkSize
    /\ MaxChunks \in Nat \ {0}

Larger(a, b) == IF a < b THEN b ELSE a
Smaller(a, b) == IF a < b THEN a ELSE b

\* The characters of a word on its page, and the number of the last word of its
\* paragraph.
Word == [page : Nat, from : Nat, to : Nat, last : Nat]

\* Words are in order, whitespace is between them, and a paragraph is on one page,
\* since two pages are joined by an empty line.
IsText(t) ==
    /\ t \in [lengths : Seq(Nat), words : Seq(Word)]
    /\ t.words # <<>>
    /\ \A i \in DOMAIN t.words :
          LET w == t.words[i]
          IN  /\ w.page \in DOMAIN t.lengths
              /\ w.from < w.to /\ w.to <= t.lengths[w.page]
              /\ w.last \in i .. Len(t.words)
              /\ \A j \in i .. w.last : t.words[j].last = w.last /\ t.words[j].page = w.page
    /\ \A i, j \in DOMAIN t.words : i < j =>
          \/ t.words[i].page < t.words[j].page
          \/ t.words[i].page = t.words[j].page /\ t.words[i].to < t.words[j].from

-----------------------------------------------------------------------------
(* What there is of the chunks of a text: where its pages start in raw_text, *)
(* and where the next one will; its units, and the word that the next one    *)
(* starts with; how many units have been packed, and from which one on they  *)
(* are current_parts; and the result.                                        *)

Uncut ==
    [starts |-> <<>>, offset |-> 0, units |-> <<>>, next |-> 1,
     packed |-> 0, first |-> 1, tokens |-> 0, result |-> <<>>, verdict |-> "none"]

\* raw_text joins the pages, and text is what strip leaves of it.
JoinPage(text, s, t) ==
    /\ Len(s.starts) < Len(text.lengths)
    /\ t = [s EXCEPT !.starts = Append(@, s.offset),
                     !.offset = @ + text.lengths[Len(s.starts) + 1] + 2]
Joined(text, s) == Len(s.starts) = Len(text.lengths)

Leading(text, s) == s.starts[text.words[1].page] + text.words[1].from

\* Where word i starts and ends in text.
StartOf(text, s, i) ==
    s.starts[text.words[i].page] + text.words[i].from - Leading(text, s)
EndOf(text, s, i) ==
    s.starts[text.words[i].page] + text.words[i].to - Leading(text, s)

\* Mutant of PageRanges: the offsets of raw_text are not those of text.
PageRanges_raw(text, s) ==
    [p \in DOMAIN text.lengths |->
        [from |-> s.starts[p], to |-> s.starts[p] + text.lengths[p]]]
PageRanges(text, s) ==
    [p \in DOMAIN text.lengths |->
        [from |-> Larger(0, s.starts[p] - Leading(text, s)),
         to |-> Larger(0, s.starts[p] + text.lengths[p] - Leading(text, s))]]

\* The next unit: a paragraph, or, if that is too long, one of its windows, each of
\* which repeats the end of the one before, up to the first that reaches its end.
CutUnit(text, s, t) ==
    /\ Joined(text, s) /\ s.next <= Len(text.words)
    /\ LET end == text.words[s.next].last
           last == Smaller(s.next + ChunkSize - 1, end)
       IN  t = [s EXCEPT !.units = Append(@, [first |-> s.next, last |-> last]),
                         !.next = IF last = end THEN end + 1 ELSE @ + ChunkSize - Overlap]

UnitWords(u) == u.last - u.first + 1

\* The chunk of current_parts, with its offsets and the pages whose ranges it meets.
CurrentChunk(text, s) ==
    LET start == StartOf(text, s, s.units[s.first].first)
        end == EndOf(text, s, s.units[s.packed].last)
        ranges == PageRanges(text, s)
        covered == {p \in DOMAIN ranges : ranges[p].from < end /\ ranges[p].to > start}
    IN  [first |-> s.first, last |-> s.packed, start |-> start, end |-> end,
         pageStart |-> IF covered = {} THEN 1 ELSE CHOOSE p \in covered : \A q \in covered : p <= q,
         pageEnd |-> IF covered = {} THEN 1 ELSE CHOOSE p \in covered : \A q \in covered : p >= q]

AllCut(text, s) == Joined(text, s) /\ s.next > Len(text.words)

\* The next unit joins the current chunk if it fits; if not, that chunk is done,
\* and the text is refused if this was the last one it may have.
PackUnit(text, s, t) ==
    /\ AllCut(text, s) /\ s.verdict = "none" /\ s.packed < Len(s.units)
    /\ LET tokens == UnitWords(s.units[s.packed + 1])
       IN  IF s.first <= s.packed /\ s.tokens + tokens > ChunkSize
           THEN LET result == Append(s.result, CurrentChunk(text, s))
                IN  IF Len(result) >= MaxChunks
                    THEN t = [s EXCEPT !.result = result, !.verdict = "refused"]
                    ELSE t = [s EXCEPT !.result = result, !.first = s.packed + 1,
                                       !.packed = @ + 1, !.tokens = tokens]
           ELSE t = [s EXCEPT !.packed = @ + 1, !.tokens = @ + tokens]

LastChunk(text, s, t) ==
    /\ AllCut(text, s) /\ s.verdict = "none" /\ s.packed = Len(s.units)
    /\ t = [s EXCEPT !.result = IF s.first <= s.packed THEN Append(@, CurrentChunk(text, s))
                                ELSE @,
                     !.verdict = "done"]

-----------------------------------------------------------------------------
(* What the chunks of a text have to be.                                    *)

\* The next unit starts right after the one before, or repeats exactly the
\* last words of it, in a paragraph that is longer than a chunk.
Continues(words, u, v) ==
    \/ v.first = u.last + 1
    \/ v.first = u.last + 1 - Overlap /\ words[v.last].last = words[u.first].last

\* The units hold every word in order.
GoodUnits(words, units) ==
    /\ units # <<>> /\ units[1].first = 1 /\ units[Len(units)].last = Len(words)
    /\ \A i \in 1 .. Len(units) - 1 : Continues(words, units[i], units[i + 1])

\* The words of the units from a to b, one that is in two of them twice.
WordsOfUnits(units, a, b) == UNION {{i} \X (units[i].first .. units[i].last) : i \in a .. b}

\* A chunk is neither empty nor too large; its offsets and pages are those of its
\* first and its last word; and it ends only where the next unit has no room in it.
GoodChunk(text, s, c) ==
    LET first == s.units[c.first].first
        last == s.units[c.last].last
        size == Cardinality(WordsOfUnits(s.units, c.first, c.last))
    IN  /\ size \in 1 .. ChunkSize
        /\ c.start = StartOf(text, s, first) /\ c.end = EndOf(text, s, last)
        /\ c.pageStart = text.words[first].page /\ c.pageEnd = text.words[last].page
        /\ c.last < Len(s.units) => size + UnitWords(s.units[c.last + 1]) > ChunkSize

\* The chunks hold every unit in order; and a text is refused only if they are not
\* enough.
GoodChunks(text, s) ==
    LET chunks == s.result
        last == chunks[Len(chunks)].last
    IN  /\ GoodUnits(text.words, s.units)
        /\ chunks # <<>> /\ chunks[1].first = 1
        /\ \A i \in 1 .. Len(chunks) - 1 : chunks[i + 1].first = chunks[i].last + 1
        /\ \A i \in 1 .. Len(chunks) : GoodChunk(text, s, chunks[i])
        /\ s.verdict = "done" => Len(chunks) <= MaxChunks /\ last = Len(s.units)
        /\ s.verdict = "refused" => Len(chunks) = MaxChunks /\ last < Len(s.units)
=============================================================================
