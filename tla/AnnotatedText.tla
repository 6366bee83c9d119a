--------------------------- MODULE AnnotatedText ---------------------------
(***************************************************************************)
(* Annotation and AnnotatedText (inference/src/translator/annotation.h and *)
(* annotation.cpp): a text with the boundaries of its sentences and of     *)
(* their tokens.  Offsets count from 0 as in the code, so that a range is  *)
(* the characters begin+1..end of the sequence; sentences and words count  *)
(* from 1.                                                                 *)
(***************************************************************************)
EXTENDS Integers, Sequences, SequencesExt

Blank == {" ", "\n"}   \* isspace

Part(text, range) == SubSeq(text, range.begin + 1, range.end)
Size(range) == range.end - range.begin

\* An annotated text: token k is begin[k]..begin[k+1], gaps are tokens too.
\* targetLanguage_ is "none", or says whether its sentences are "spaced" or
\* "unspaced" (ja, zh).
Unannotated(t) ==
    [text |-> t, begin |-> <<0, Len(t)>>, gap |-> <<1>>, language |-> "none"]
RegisterTargetLanguage(a, language) == [a EXCEPT !.language = language]
EmptyText(language) == RegisterTargetLanguage(Unannotated(<<>>), language)

NumSentences(a) == Len(a.gap) - 1
NumWords(a, s) == a.gap[s + 1] - a.gap[s] - 1
NumTokens(a) == Len(a.begin) - 1
Token(a, k) == [begin |-> a.begin[k], end |-> a.begin[k + 1]]
Word(a, s, w) == Token(a, a.gap[s] + w)
Sentence(a, s) == [begin |-> a.begin[a.gap[s] + 1], end |-> a.begin[a.gap[s + 1]]]
Gap(a, g) == Token(a, a.gap[g])

\* maybeAppendHTMLTagsFromGap: from each "<" to the next ">", the rest is left out.
TagsOf(gap) ==
    LET Step(acc, c) ==
            CASE acc.inside /\ c = ">" ->
                    [kept |-> acc.kept \o Append(acc.tag, c), tag |-> <<>>, inside |-> FALSE]
              [] acc.inside \/ c = "<" -> [acc EXCEPT !.tag = Append(@, c), !.inside = TRUE]
              [] OTHER -> acc
    IN  FoldLeft(Step, [kept |-> <<>>, tag |-> <<>>, inside |-> FALSE], gap).kept

\* What a gap becomes in a text of the target language.
GapText(a, gap, isBetweenSentences) ==
    CASE "\n" \in ToSet(gap) -> gap
      [] "\n" \notin ToSet(gap) /\ a.language = "unspaced" -> TagsOf(gap)
      [] /\ gap = <<>> /\ isBetweenSentences
         /\ a.language = "spaced" /\ a.text # <<>> -> <<" ">>
      [] OTHER -> gap

HandleEndingWhitespace(a, gap, isBetweenSentences) ==
    LET text == a.text \o GapText(a, gap, isBetweenSentences)
    IN  [a EXCEPT !.text = text, !.begin[Len(a.begin)] = Len(text)]

\* The tokens are texts that follow each other.
AppendSentence(a, prefix, tokens) ==
    LET b == HandleEndingWhitespace(a, prefix, TRUE)
        Step(acc, token) == Append(acc, Last(acc) + Len(token))
        begin == FoldLeft(Step, b.begin, tokens)
    IN  [b EXCEPT !.text = @ \o FlattenSeq(tokens),
                  !.begin = Append(begin, Last(begin)),
                  !.gap = Append(@, Len(begin))]

\* The tokens are ranges of the text that follow each other.
RecordExistingSentence(a, tokens, sentenceBegin) ==
    LET begin == Front(a.begin) \o [i \in DOMAIN tokens |-> tokens[i].begin]
        end == IF tokens = <<>> THEN sentenceBegin ELSE Last(tokens).end
    IN  [a EXCEPT !.begin = begin \o <<end, Len(a.text)>>,
                  !.gap = Append(@, Len(begin) + 1)]

\* apply(fun), given what fun returned for each token in order.
Apply(a, results) ==
    LET Step(out, s) ==
            AppendSentence(out, results[a.gap[s]],
                           SubSeq(results, a.gap[s] + 1, a.gap[s + 1] - 1))
    IN  HandleEndingWhitespace(
            FoldLeft(Step, EmptyText(a.language), [s \in 1..NumSentences(a) |-> s]),
            Last(results), FALSE)

\* The tokens cover the text without a hole, and gaps separate the sentences.
IsAnnotation(a) ==
    /\ a.begin[1] = 0 /\ Last(a.begin) = Len(a.text)
    /\ \A k \in 1..NumTokens(a) : a.begin[k] <= a.begin[k + 1]
    /\ a.gap[1] = 1 /\ Last(a.gap) = NumTokens(a)
    /\ \A s \in 1..NumSentences(a) : a.gap[s] < a.gap[s + 1]
=============================================================================
