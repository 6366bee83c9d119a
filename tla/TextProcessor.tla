--------------------------- MODULE TextProcessor ---------------------------
(***************************************************************************)
(* From a text to the segments a model translates                          *)
(* (inference/src/translator/text_processor.cpp).  The sentence splitter   *)
(* (ssplit, Intl.Segmenter) and SentencePiece are outside of the           *)
(* repository: a sentence ends with "." or at an empty line, and a piece   *)
(* is a character with the white space before it.                          *)
(***************************************************************************)
EXTENDS AnnotatedText

CONSTANT MaxLengthBreak    \* max-length-break

ASSUME MaxLengthAssumption == MaxLengthBreak \in Nat /\ MaxLengthBreak > 1

\* Offsets of the characters of a range that are not white space, in order.
Solid(text, range) ==
    SelectSeq([i \in 1..Size(range) |-> range.begin + i - 1],
              LAMBDA p : text[p + 1] \notin Blank)

\* The ranges between the offsets of a sequence.
Between(offsets) ==
    [i \in 1..(Len(offsets) - 1) |-> [begin |-> offsets[i], end |-> offsets[i + 1]]]

\* The sentences of a text.  Nothing of the white space around them is looked
\* at later, so they may as well include it.
SentenceStream(text) ==
    LET IsBreak(p) == \/ text[p] = "."
                      \/ p > 1 /\ text[p - 1] = "\n" /\ text[p] = "\n"
        breaks == {p \in DOMAIN text : IsBreak(p)} \cup {Len(text)}
    IN  Between(<<0>> \o SetToSortSeq(breaks \ {0}, <))

\* encodeWithByteRanges, without EOS: the pieces of a sentence as ranges.  The
\* vocabulary "long" joins two pieces; in "lone" white space is a piece.
Tokenize(vocab, text, range) ==
    LET solid == Solid(text, range)
        Ends(i) ==
            IF i > 1 /\ vocab = "lone" /\ solid[i] > solid[i - 1] + 1
            THEN <<solid[i], solid[i] + 1>> ELSE <<solid[i] + 1>>
        Long == SelectSeq([i \in DOMAIN solid |-> i],
                          LAMBDA i : i % 2 = 0 \/ i = Len(solid))
    IN  IF solid = <<>> THEN <<>>
        ELSE Between(<<solid[1]>> \o
                     IF vocab = "long" THEN [i \in DOMAIN Long |-> solid[Long[i]] + 1]
                     ELSE FlattenSeq([i \in DOMAIN solid |-> Ends(i)]))

EndOfSentence(offset) == [begin |-> offset, end |-> offset]

\* Slip: no room for EOS.
WrapFull(source, words) ==
    LET step == MaxLengthBreak
        parts == (Len(words) + step - 1) \div step
        WrapPart(a, i) ==
            LET part == SubSeq(words, (i - 1) * step + 1, Min({i * step, Len(words)}))
            IN  RecordExistingSentence(
                    a, Append(part, EndOfSentence(Last(part).end)), part[1].begin)
    IN  FoldLeft(WrapPart, source, [i \in 1..parts |-> i])

\* wrap: sentences of at most MaxLengthBreak tokens, EOS included.
Wrap(source, words) ==
    LET step == MaxLengthBreak - 1
        parts == (Len(words) + step - 1) \div step
        WrapPart(a, i) ==
            LET part == SubSeq(words, (i - 1) * step + 1, Min({i * step, Len(words)}))
            IN  RecordExistingSentence(
                    a, Append(part, EndOfSentence(Last(part).end)), part[1].begin)
    IN  FoldLeft(WrapPart, source, [i \in 1..parts |-> i])

\* process: the text with its sentences recorded; one segment for each.
Process(vocab, text) ==
    LET Step(a, sentence) == Wrap(a, Tokenize(vocab, text, sentence))
    IN  FoldLeft(Step, Unannotated(text), SentenceStream(text))

\* processFromAnnotation: the sentences are kept, their tokens are new.
ProcessFromAnnotation(vocab, source) ==
    LET Step(a, s) ==
            LET range == Sentence(source, s)
                words == Tokenize(vocab, source.text, range)
                end == IF words = <<>> THEN range.end ELSE Last(words).end
                tokens == Append(words, EndOfSentence(end))
            IN  RecordExistingSentence(a, tokens, tokens[1].begin)
    IN  FoldLeft(Step, Unannotated(source.text), [s \in 1..NumSentences(source) |-> s])

\* The segments given to the model: the number of tokens of each, EOS included.
Segments(source) == [s \in 1..NumSentences(source) |-> NumWords(source, s)]
=============================================================================
