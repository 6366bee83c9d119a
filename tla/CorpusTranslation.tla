------------------------- MODULE CorpusTranslation -------------------------
(***************************************************************************)
(* What the scripts of pipeline/translate and pipeline/cefilter do to the  *)
(* files of a corpus: the split in chunks, the translation of a chunk with *)
(* Marian or CTranslate2, the choice of the best translation, and the      *)
(* chunks put together again.  A file is the sequence of its lines.  A text*)
(* is a sequence of words, a word the sequence of its pieces.              *)
(***************************************************************************)
EXTENDS Integers, Sequences, SequencesExt, FiniteSetsExt, TLC

CONSTANTS
    None,
    DecoderYml,       \* decoder.yml: [option -> number]
    Hypotheses,       \* [text -> its translations, as the beam search ranks them]
    RemovePercent     \* remove, in percent (ce-filter.sh)

\* What a script leaves: a file, or nothing because it exits with an error.
Written(lines) == [ok |-> TRUE, lines |-> lines]
Failed == [ok |-> FALSE, lines |-> <<>>]

\* dict.update; the values of the second win.
Update(f, g) == [x \in DOMAIN f \cup DOMAIN g |-> IF x \in DOMAIN g THEN g[x] ELSE f[x]]

\* Slip: as many lines in each part as there are at least.
SplitFileRoundedDown(lines, num_parts) ==
    LET perPart == Max({1, Len(lines) \div num_parts})
    IN  [k \in 1 .. (Len(lines) + perPart - 1) \div perPart |->
            SubSeq(lines, (k - 1) * perPart + 1, Min({k * perPart, Len(lines)}))]

\* The parts that are written; few lines fill fewer parts than were asked for.
SplitFile(lines, num_parts) ==
    LET perPart == Max({1, (Len(lines) + num_parts - 1) \div num_parts})
    IN  [k \in 1 .. (Len(lines) + perPart - 1) \div perPart |->
            SubSeq(lines, (k - 1) * perPart + 1, Min({k * perPart, Len(lines)}))]

-----------------------------------------------------------------------------
(* Translation.                                                            *)

\* The values of decoder.yml are numbers, those of the command line are strings.
CombinedConfig(args) ==
    Update([o \in DOMAIN DecoderYml |-> [type |-> "int", value |-> DecoderYml[o]]],
           [o \in DOMAIN args |-> [type |-> "str", value |-> args[o]]])

\* A hypothesis in the n-best output: the number of its line, and its text if it has any.
NbestLine(index, text) == IF text = <<>> THEN <<index>> ELSE <<index, text>>

NbestOf(index, texts) == [k \in DOMAIN texts |-> NbestLine(index, texts[k])]

\* The decoders, which differ in speed only.
Decode(lines, is_nbest, beam) ==
    IF is_nbest
    THEN FlattenSeq([i \in DOMAIN lines |-> NbestOf(i - 1, SubSeq(Hypotheses[lines[i]], 1, beam))])
    ELSE [i \in DOMAIN lines |-> Hypotheses[lines[i]][1]]

\* get_model refuses an ensemble; get_from_config turns a string into the number.
TranslateWithCTranslate2(lines, is_nbest, decoding) ==
    IF decoding.models # 1 THEN Failed
    ELSE Written(Decode(lines, is_nbest, CombinedConfig(decoding.args)["beam-size"].value))

\* The lines of an n-best output: a count times a string is not a number.
ExpectedOutput(input_count, is_nbest, beam) ==
    CASE ~is_nbest -> input_count
      [] is_nbest /\ beam.type = "int" -> input_count * beam.value
      [] is_nbest /\ beam.type = "str" -> None

TranslateWithMarian(lines, is_nbest, decoding) ==
    LET beam == CombinedConfig(decoding.args)["beam-size"]
        output == Decode(lines, is_nbest, beam.value)
    IN  IF ExpectedOutput(Len(lines), is_nbest, beam) = Len(output)
        THEN Written(output) ELSE Failed

Translate(lines, is_nbest, decoding) ==
    CASE lines = <<>> -> Written(<<>>)
      [] lines # <<>> /\ decoding.decoder = "ctranslate2" ->
            TranslateWithCTranslate2(lines, is_nbest, decoding)
      [] lines # <<>> /\ decoding.decoder = "marian" ->
            TranslateWithMarian(lines, is_nbest, decoding)

-----------------------------------------------------------------------------
(* The best translation of each line, and the chunks together.             *)

Pieces(text) == UNION {ToSet(text[w]) : w \in DOMAIN text}

\* The metric, as far as it tells translations apart: the pieces in common.
Chrf(reference, text) == Cardinality(Pieces(reference) \cap Pieces(text))

\* texts[scores.index(max(scores))]
BestText(texts, reference) ==
    LET scores == [k \in DOMAIN texts |-> Chrf(reference, texts[k])]
    IN  texts[Min({k \in DOMAIN texts : scores[k] = Max(ToSet(scores))})]

TextOf(fields) == IF Len(fields) = 1 THEN <<>> ELSE fields[2]

\* The lines of the group come first; the line after it is kept for the next turn.
TakeTexts(nbest, index) ==
    LET group == SelectInSeq(nbest, LAMBDA fields : fields[1] # index)
        n == IF group = 0 THEN Len(nbest) ELSE group - 1
    IN  [texts |-> [k \in 1 .. n |-> TextOf(nbest[k])], rest |-> SubSeq(nbest, n + 1, Len(nbest))]

\* The scores of a reference without translations have no maximum.
MarianBest(nbest, references) ==
    FoldLeft(LAMBDA sofar, reference :
                LET taken == TakeTexts(sofar.rest, Len(sofar.lines))
                IN  IF ~sofar.ok \/ taken.texts = <<>> THEN [sofar EXCEPT !.ok = FALSE]
                    ELSE [ok |-> TRUE, rest |-> taken.rest,
                          lines |-> Append(sofar.lines, BestText(taken.texts, reference))],
             [ok |-> TRUE, rest |-> nbest, lines |-> <<>>], references)

\* sort: numbers by their keys, those with equal keys as they come.
SortedBy(key) ==
    LET UpTo(a) == {b \in DOMAIN key : key[b] < key[a] \/ (key[b] = key[a] /\ b <= a)}
    IN  [n \in 1 .. Cardinality(DOMAIN key) |->
            CHOOSE a \in DOMAIN key : Cardinality(UpTo(a)) = n]

\* Slip: by the names, so that file.10 comes before file.2.
SortedByName(numbers) ==
    SortedBy([k \in numbers |-> IF k < 10 THEN 100 * k ELSE 10 * k + 1])

\* sort -t '.' -k2,2n
SortedChunks(numbers) == SortedBy([k \in numbers |-> k])

\* outs: [number of a chunk -> its lines].
Collect(outs, original) ==
    LET order == SortedChunks(DOMAIN outs)
        output == FlattenSeq([i \in DOMAIN order |-> outs[order[i]]])
    IN  IF Len(output) # Len(original) THEN Failed ELSE Written(output)

-----------------------------------------------------------------------------
(* merge-corpus.sh and the filter; a line is a record of its two sides.    *)

\* paste fills up the shorter side.
LineOf(file, i) == IF i \in DOMAIN file THEN file[i] ELSE <<>>
Paste(src, trg) ==
    [i \in 1 .. Max({Len(src), Len(trg)}) |-> [src |-> LineOf(src, i), trg |-> LineOf(trg, i)]]

\* Of equal lines the first stays.
Dedupe(lines) ==
    FoldLeft(LAMBDA kept, line : IF Contains(kept, line) THEN kept ELSE Append(kept, line),
             <<>>, lines)

\* Slip: from the best to the worst.
SortedScoresDescending(scores) == SortedBy([i \in DOMAIN scores |-> 0 - scores[i]])

\* sort -n -k1,1: the numbers of the lines, the worst first.
SortedScores(scores) == SortedBy(scores)

\* The part to remove is ".95" for 19 lines, its whole part empty, which tail refuses.
CeFilter(lines, scores) ==
    LET sorted == SortedScores(scores)
        startline == (Len(lines) * RemovePercent) \div 100
    IN  IF startline = 0 THEN Failed
        ELSE Written([i \in 1 .. Len(lines) - startline + 1 |-> lines[sorted[startline + i - 1]]])
=============================================================================
