------------------------------- MODULE Chunking -------------------------------
(***************************************************************************)
(* How texts are cut before they are embedded: by paragraphs               *)
(* (app.py:chunk_text), by sentences (local_doc_ingestor.py:_chunk_text)   *)
(* and where the meaning changes (semantic_chunker.py), with its two       *)
(* fallbacks. A text is a sequence of paragraphs, a paragraph one of       *)
(* sentences, and a sentence its number of characters.  A chunk is the     *)
(* sequence of its characters, each by its place in the text, and 0 for a  *)
(* separator.                                                              *)
(***************************************************************************)
EXTENDS Naturals, Sequences, SequencesExt

CONSTANTS
  Cuttable,  \* bound: the texts that are cut; every paragraph ends with a sentence
  MaxChars, MinChars, Overlap, \* of chunks, in characters
  Uncut

VARIABLES text, cutBy, chunked
chunkVars == <<text, cutBy, chunked>>

Space == <<0>>
BlankLine == <<0, 0>>
Join(parts, sep) ==
  FoldLeft(LAMBDA done, part: IF done = <<>> THEN part ELSE done \o sep \o part, <<>>, parts)
IfAny(chunk) == IF chunk = <<>> THEN <<>> ELSE <<chunk>>
Ending(chunk, n) == SubSeq(chunk, IF Len(chunk) > n THEN Len(chunk) - n + 1 ELSE 1, Len(chunk))

Before(lengths, i) == FoldLeft(LAMBDA sum, n: sum + n, 0, SubSeq(lengths, 1, i - 1))
Sentences(t) ==
  LET lengths == FlattenSeq(t)
  IN [i \in DOMAIN lengths |-> [j \in 1..lengths[i] |-> Before(lengths, i) + j]]
Paragraph(t, k) ==
  LET first == Len(FlattenSeq(SubSeq(t, 1, k - 1)))
  IN SubSeq(Sentences(t), first + 1, first + Len(t[k]))
Whole(t) == Join([k \in DOMAIN t |-> Join(Paragraph(t, k), Space)], BlankLine)

-------------------------------------------------------------------------------
\* A long paragraph is cut in windows that overlap.
Windows(chars) ==
  LET step == MaxChars - Overlap
      last == CHOOSE n \in 0..Len(chars):
                /\ n * step + MaxChars >= Len(chars)
                /\ \A m \in 0..(n - 1): m * step + MaxChars < Len(chars)
      End(i) == IF i * step + MaxChars < Len(chars) THEN i * step + MaxChars ELSE Len(chars)
  IN [i \in 1..(last + 1) |-> SubSeq(chars, (i - 1) * step + 1, End(i - 1))]

Strip(chunk) == IF chunk # <<>> /\ Head(chunk) = 0 THEN SubSeq(chunk, 2, Len(chunk)) ELSE chunk

AddParagraph(made, chars) ==
  LET longer == Join(<<made.open, chars>>, Space)
  IN IF Len(chars) > MaxChars
     THEN [done |-> made.done \o IfAny(made.open) \o Windows(chars), open |-> <<>>]
     ELSE IF made.open = <<>> \/ Len(longer) <= MaxChars
     THEN [made EXCEPT !.open = IF made.open = <<>> THEN chars ELSE longer]
     ELSE [done |-> Append(made.done, made.open),
           open |-> IF Overlap > 0 THEN Strip(Ending(made.open, Overlap) \o Space \o chars) ELSE chars]

Cut(Add(_, _), parts) ==
  LET made == FoldLeft(Add, [done |-> <<>>, open |-> <<>>], parts)
  IN made.done \o IfAny(made.open)

ByParagraphs(t) == Cut(AddParagraph, [k \in DOMAIN t |-> Join(Paragraph(t, k), Space)])

-------------------------------------------------------------------------------
\* The separators between the sentences of a chunk are not counted.
AddSentence(made, chars) ==
  IF made.size + Len(chars) > MaxChars /\ made.open # <<>>
  THEN LET tail == Ending(made.open, IF Overlap = 0 THEN Len(made.open) ELSE Overlap)
       IN [done |-> Append(made.done, made.open),
           open |-> tail \o Space \o chars, size |-> Len(tail) + Len(chars)]
  ELSE [made EXCEPT !.open = Join(<<made.open, chars>>, Space), !.size = @ + Len(chars)]

BySentences(t) ==
  IF Len(Whole(t)) <= Overlap THEN <<Whole(t)>>
  ELSE LET made == FoldLeft(AddSentence, [done |-> <<>>, open |-> <<>>, size |-> 0], Sentences(t))
       IN Append(made.done, made.open)

-------------------------------------------------------------------------------
Buffer(made, chars, sep, more) ==
  IF Len(made.open) + Len(chars) + Len(sep) <= MaxChars
  THEN [made EXCEPT !.open = Join(<<made.open, chars>>, sep)]
  ELSE more

\* Mutant of AddBuffered: what was buffered is forgotten.
AddBufferedAlone(made, chars) ==
  Buffer(made, chars, Space, [made EXCEPT !.open = chars])

AddBuffered(made, chars) ==
  Buffer(made, chars, Space, [done |-> made.done \o IfAny(made.open), open |-> chars])

\* Without vectors, or without a change of meaning.
Fallback(t) ==
  LET AddWhole(made, k) ==
        LET chars == Join(Paragraph(t, k), Space)
            flushed == [done |-> made.done \o IfAny(made.open), open |-> <<>>]
        IN Buffer(made, chars, BlankLine,
             IF Len(chars) > MaxChars THEN FoldLeft(AddBuffered, flushed, Paragraph(t, k))
                                      ELSE [flushed EXCEPT !.open = chars])
  IN Cut(AddWhole, [k \in DOMAIN t |-> k])

\* PiecesAt begin at the changes, and with the sentence before.
PiecesAt(t, changes) ==
  LET s == Sentences(t)
      ends == SetToSortSeq(changes, LAMBDA a, b: a < b) \o <<Len(s)>>
      From(i) == IF i = 1 THEN 1 ELSE ends[i - 1]
  IN [i \in DOMAIN ends |-> Join(SubSeq(s, From(i), ends[i]), Space)]

MergeSmall(pieces) ==
  LET Small(chunk) == Len(chunk) < MinChars
      Fits(a, b) == Len(a) + Len(b) <= MaxChars
      Add(done, piece) ==
        IF Small(Last(done)) /\ Fits(Last(done), piece)
        THEN Append(Front(done), Last(done) \o Space \o piece)
        ELSE Append(done, piece)
      merged == FoldLeft(Add, <<Head(pieces)>>, SubSeq(pieces, 2, Len(pieces)))
      n == Len(merged)
  IN IF n > 1 /\ Small(merged[n]) /\ Fits(merged[n - 1], merged[n])
     THEN Append(SubSeq(merged, 1, n - 2), merged[n - 1] \o Space \o merged[n])
     ELSE merged

\* changes: the sentences after which the meaning changes, none of them when the
\* embedding fails.
ByMeaning(t, changes) ==
  IF Len(Whole(t)) < MinChars \/ Len(FlattenSeq(t)) <= 2 THEN <<Whole(t)>>
  ELSE IF changes = {} THEN Fallback(t)
  ELSE MergeSmall(PiecesAt(t, changes))
Unembedded(t) == IF Len(Whole(t)) < MinChars THEN <<Whole(t)>> ELSE Fallback(t)

-------------------------------------------------------------------------------
ChunkInit == text = Uncut /\ cutBy = "nothing" /\ chunked = <<>>

CutText ==
  /\ text = Uncut /\ text' \in Cuttable
  /\ \/ cutBy' = "paragraphs" /\ chunked' = ByParagraphs(text')
     \/ cutBy' = "sentences" /\ chunked' = BySentences(text')
     \/ cutBy' = "fallback" /\ chunked' = Unembedded(text')
     \/ \E changes \in SUBSET (1..(Len(FlattenSeq(text')) - 1)):
          /\ cutBy' = IF changes = {} THEN "fallback" ELSE "meaning"
          /\ chunked' = ByMeaning(text', changes)

ChunkNext == CutText
ChunkSpec == ChunkInit /\ [][ChunkNext]_chunkVars

-------------------------------------------------------------------------------
Chars(chunk) == SelectSeq(chunk, LAMBDA c: c # 0)
Longest(set) == CHOOSE n \in set: \A m \in set: m <= n

\* The chunks of a text hold every character of it and go through it in order,
\* at most stepping back to repeat (app.py:314, local_doc_ingestor.py:252,
\* semantic_chunker.py:47).
TextKept ==
  text # Uncut =>
    LET all == FlattenSeq([i \in DOMAIN chunked |-> Chars(chunked[i])])
    IN /\ \A i \in DOMAIN all: all[i] <= IF i = 1 THEN 1 ELSE all[i - 1] + 1
       /\ \A c \in DOMAIN FlattenSeq(Sentences(text)): \E i \in DOMAIN all: all[i] = c

\* No chunk only repeats: each ends after the one before.
EachAdds ==
  \A i, j \in DOMAIN chunked: i < j => Last(Chars(chunked[i])) < Last(Chars(chunked[j]))

\* How long a chunk gets: what is asked for, and the tail of the chunk before
\* with its space; the separators, by sentences; a single sentence that is
\* longer, in the fallback; the space of a merge; or the whole of what one
\* meaning, or a text of two sentences, holds.
ChunksFit ==
  \A i \in DOMAIN chunked:
    LET n == Len(chunked[i])
    IN \/ n <= MaxChars
       \/ cutBy = "paragraphs" /\ n <= Overlap + 1 + MaxChars
       \/ /\ cutBy = "sentences" /\ Overlap > 0
          /\ \/ Len(Chars(chunked[i])) <= MaxChars
             \/ n <= Overlap + 1 + Longest({Len(s): s \in ToSet(Sentences(text))})
       \/ cutBy = "fallback" /\ chunked[i] \in ToSet(Sentences(text))
       \/ cutBy \in {"fallback", "meaning"} /\ Len(Sentences(text)) <= 2
       \/ /\ cutBy = "meaning"
          /\ \/ n = MaxChars + 1
             \/ \E changes \in SUBSET (1..(Len(Sentences(text)) - 1)):
                  chunked[i] \in ToSet(PiecesAt(text, changes))

\* A piece too small to stand alone does so only where no neighbour has room.
SmallStandsAlone ==
  cutBy = "meaning" =>
    \A i \in DOMAIN chunked:
      Len(chunked[i]) < MinChars /\ Len(chunked) > 1 =>
        LET j == IF i < Len(chunked) THEN i + 1 ELSE i - 1
        IN Len(chunked[i]) + Len(chunked[j]) > MaxChars

ChunkSafe == TextKept /\ EachAdds /\ ChunksFit /\ SmallStandsAlone
===============================================================================
