----------------------------- MODULE Alignments -----------------------------
(***************************************************************************)
(* What align.py, tokenizer.py and generate-shortlist.sh compute: the text *)
(* of a line in tokens, the links between the tokens of two lines, those   *)
(* links between the words of the lines, and the shortlist.  The aligner,  *)
(* atools and extract_lex are external: of their results the model keeps   *)
(* which lines they belong to and which tokens they can name.              *)
(***************************************************************************)
EXTENDS CorpusTranslation

CONSTANTS
    AlnChunkLines,    \* ALN_CHUNK_LINES
    ShortlistMax,     \* 100 in generate-shortlist.sh
    Vocabulary        \* the pieces in the order of vocab.txt

SpaceToken == "_"     \* SPACE_TOKEN

Strings == STRING \cup {SpaceToken}     \* STRING; the provers do not know what is in it
Texts == Seq(Seq(Strings))

\* Tokens are separated by spaces in the file: each is a word of one piece.
AsWords(tokens) == [i \in DOMAIN tokens |-> <<tokens[i]>>]

\* Moses ignores spaces, ICU keeps them as tokens.
Tokenize(tokenization, text) ==
    CASE tokenization = "moses" -> AsWords(FlattenSeq(text))
      [] tokenization = "icu" ->
            AsWords(FlattenSeq([w \in DOMAIN text |->
                                   IF w = 1 THEN text[w] ELSE <<SpaceToken>> \o text[w]]))
      [] tokenization = "spaces" -> text

-----------------------------------------------------------------------------
(* Alignment; tokens and words are counted from 0, as in the files.        *)

\* Eflomal aligns each token of one side with a token of the other.
AlignForward(src, trg) ==
    IF trg = <<>> THEN {} ELSE {<<i, Min({i, Len(trg) - 1})>> : i \in 0 .. Len(src) - 1}
AlignReverse(src, trg) ==
    IF src = <<>> THEN {} ELSE {<<Min({j, Len(src) - 1}), j>> : j \in 0 .. Len(trg) - 1}

\* split --lines
LineParts(file) ==
    [p \in 1 .. (Len(file) + AlnChunkLines - 1) \div AlnChunkLines |->
        SubSeq(file, (p - 1) * AlnChunkLines + 1, Min({p * AlnChunkLines, Len(file)}))]

\* atools, grow-diag-final-and: links of either direction.
Symmetrize(fwd, rev) == [i \in DOMAIN fwd |-> fwd[i] \cup rev[i]]

\* Each part of the source with the part of the same suffix, and the parts in order.
Align(src, trg) ==
    LET srcParts == LineParts(src)
        trgParts == LineParts(trg)
        fwd == [p \in DOMAIN srcParts |->
                   [i \in DOMAIN srcParts[p] |-> AlignForward(srcParts[p][i], trgParts[p][i])]]
        rev == [p \in DOMAIN srcParts |->
                   [i \in DOMAIN srcParts[p] |-> AlignReverse(srcParts[p][i], trgParts[p][i])]]
    IN  Symmetrize(FlattenSeq(fwd), FlattenSeq(rev))

\* The tokens that the inner loop has gone over when it leaves the word.
WordEnd(tokens, from, word) ==
    LET ends == {e \in from .. Len(tokens) : FlattenSeq(SubSeq(tokens, from + 1, e)) = word}
    IN  IF ends = {} THEN Len(tokens) ELSE Min(ends)

\* The tokens that the inner loop goes over are mapped to the word.
MapWord(tokens, sofar, word) ==
    LET end == WordEnd(tokens, sofar.tok_idx, word)
    IN  [orig_idx |-> sofar.orig_idx + 1, tok_idx |-> end,
         map |-> Update(sofar.map, [t \in sofar.tok_idx .. end - 1 |-> sofar.orig_idx])]

\* [index of a token -> index of its word]
MapIndices(tokens, words) ==
    FoldLeft(LAMBDA sofar, word : MapWord(tokens, sofar, word),
             [orig_idx |-> 0, tok_idx |-> 0, map |-> << >>], words).map

\* KeyError: a link names a token that no word accounts for.
TokenMissing(params) ==
    \E link \in params.aln :
        \/ link[1] \notin DOMAIN MapIndices(params.tok_src, params.src)
        \/ link[2] \notin DOMAIN MapIndices(params.tok_trg, params.trg)

\* params: the two lines, the two tokenized lines, and the links between the tokens.
RemapLine(params) ==
    LET src_map == MapIndices(params.tok_src, params.src)
        trg_map == MapIndices(params.tok_trg, params.trg)
    IN  {<<src_map[link[1]], trg_map[link[2]]>> : link \in params.aln}

-----------------------------------------------------------------------------
(* The shortlist.                                                          *)

\* extract_lex: for each token the tokens it is linked to, and how often.
ExtractLex(src, trg, aln) ==
    LET pairs == UNION {{<<trg[i][link[2] + 1], src[i][link[1] + 1], i>> : link \in aln[i]} :
                           i \in DOMAIN aln}
    IN  {[trg |-> p[1], src |-> p[2],
          prob |-> Cardinality({q \in pairs : q[1] = p[1] /\ q[2] = p[2]})] : p \in pairs}

Kept(entries) == kSubset(Min({ShortlistMax, Cardinality(entries)}), entries)

\* topSrc; the order of equal ones is that of the lexicon.
Top(entries) ==
    CHOOSE top \in Kept(entries) : \A e \in top, f \in entries \ top : e.prob >= f.prob

\* Of each source token the most probable targets, and those that are frequent anyway.
PruneShortlist(lexicon) ==
    LET tops == {<<v>> : v \in ToSet(SubSeq(Vocabulary, 1, ShortlistMax + 2))}
    IN  UNION {LET d == {e \in lexicon : e.src = src}
               IN  Top(d) \cup {e \in d : e.trg \in tops} : src \in {e.src : e \in lexicon}}
=============================================================================
