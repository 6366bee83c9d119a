------------------------ MODULE TranslationResponse ------------------------
(***************************************************************************)
(* What is made of the histories of a request: ResponseBuilder, the words  *)
(* and their ranges for the quality scores, and the alignments of two      *)
(* translations chained over a pivot language (response_builder.cpp,       *)
(* quality_estimator.cpp, response.cpp, service.cpp).                      *)
(*                                                                         *)
(* A history gives the tokens of the translation, EOS included, and for    *)
(* each the row p(source token | target token) in whole parts of Unit, a   *)
(* number that the lengths of all tokens of the instance divide.           *)
(***************************************************************************)
EXTENDS TextProcessor

\* buildTranslatedText
BuildTranslatedText(source, histories, options) ==
    LET Faithful(target, s) ==
            LET next == AppendSentence(target, Part(source.text, Gap(source, s)),
                                       histories[s].tokens)
            IN  IF s = Len(histories)
                THEN HandleEndingWhitespace(
                         next, Part(source.text, Gap(source, s + 1)), FALSE)
                ELSE next
        Spaced(target, s) ==
            AppendSentence(target, IF s = 1 THEN <<>> ELSE <<" ">>, histories[s].tokens)
        sentences == [s \in DOMAIN histories |-> s]
        empty == EmptyText(source.language)
    IN  IF options.concat = "faithful" THEN FoldLeft(Faithful, empty, sentences)
        ELSE FoldLeft(Spaced, empty, sentences)

\* mapWords: the subwords of each word of a sentence, without EOS.  Subwords
\* count from 0; a word starts where a subword starts with white space.
MapWords(target, s) ==
    LET subwords == NumWords(target, s) - 1
        starts == SelectSeq([i \in 1..subwords |-> i - 1],
                            LAMBDA i : target.text[Word(target, s, i + 1).begin + 1] \in Blank)
    IN  IF subwords < 1 THEN <<>> ELSE Between(<<0>> \o Append(starts, subwords))

\* ResponseBuilder::operator(): the answer to a request.  The source has the
\* target language registered before.
BuildResponse(source, histories, options) ==
    LET target == BuildTranslatedText(source, histories, options)
    IN  [source |-> source,
         target |-> target,
         wordRanges |-> IF options.quality
                        THEN [s \in DOMAIN histories |-> MapWords(target, s)] ELSE <<>>,
         alignments |-> IF options.html
                        THEN [s \in DOMAIN histories |-> histories[s].alignment] ELSE <<>>]

WordByteRanges(a, s) == [w \in 1..NumWords(a, s) |-> Word(a, s, w)]

\* Slip: spread over the characters of the other token.
TransferStepOther(sourceSide, targetSide, pivotGivenTargets, at) ==
    LET sq == at.sq
        qt == at.qt
        left == Max({sourceSide[sq].begin, targetSide[qt].begin})
        right == Min({sourceSide[sq].end, targetSide[qt].end})
        Share(t) ==
            IF sourceSide[sq] = targetSide[qt] THEN pivotGivenTargets[t][qt]
            ELSE ((right - left) * pivotGivenTargets[t][qt]) \div Size(sourceSide[sq])
    IN  [sq |-> IF sourceSide[sq].end <= targetSide[qt].end THEN sq + 1 ELSE sq,
         qt |-> IF sourceSide[sq].end >= targetSide[qt].end THEN qt + 1 ELSE qt,
         remapped |-> [t \in DOMAIN at.remapped |->
                          [at.remapped[t] EXCEPT ![sq] = @ + Share(t)]]]

\* One turn of the loop of transferThroughCharacters.  The weight of a pivot
\* token of the target side is spread over its characters.
TransferStep(sourceSide, targetSide, pivotGivenTargets, at) ==
    LET sq == at.sq
        qt == at.qt
        left == Max({sourceSide[sq].begin, targetSide[qt].begin})
        right == Min({sourceSide[sq].end, targetSide[qt].end})
        Share(t) ==
            IF sourceSide[sq] = targetSide[qt] THEN pivotGivenTargets[t][qt]
            ELSE ((right - left) * pivotGivenTargets[t][qt]) \div Size(targetSide[qt])
    IN  [sq |-> IF sourceSide[sq].end <= targetSide[qt].end THEN sq + 1 ELSE sq,
         qt |-> IF sourceSide[sq].end >= targetSide[qt].end THEN qt + 1 ELSE qt,
         remapped |-> [t \in DOMAIN at.remapped |->
                          [at.remapped[t] EXCEPT ![sq] = @ + Share(t)]]]

\* transferThroughCharacters: p(q | t) of the pivot tokens q of the source side,
\* from those of the target side.  A rest of the target side, an EOS that the
\* first model did not predict, is shared by all.
TransferThroughCharacters(sourceSide, targetSide, pivotGivenTargets) ==
    LET zero == [sq |-> 1, qt |-> 1,
                 remapped |-> [t \in DOMAIN pivotGivenTargets |->
                                  [q \in DOMAIN sourceSide |-> 0]]]
        Step(at, i) ==
            IF at.sq <= Len(sourceSide) /\ at.qt <= Len(targetSide)
            THEN TransferStep(sourceSide, targetSide, pivotGivenTargets, at) ELSE at
        end == FoldLeft(Step, zero, [i \in 1..(Len(sourceSide) + Len(targetSide)) |-> i])
        Gift(t) ==
            FoldLeft(+, 0, SubSeq(pivotGivenTargets[t], end.qt, Len(targetSide)))
                \div Len(sourceSide)
    IN  [t \in DOMAIN pivotGivenTargets |->
            [q \in DOMAIN sourceSide |-> end.remapped[t][q] + Gift(t)]]

\* remapAlignments: p(s | t), the pivot tokens summed out.
RemapAlignments(first, second) ==
    LET Remapped(s) ==
            TransferThroughCharacters(WordByteRanges(first.target, s),
                                      WordByteRanges(second.source, s), second.alignments[s])
        Output(s) ==
            LET given == first.alignments[s]
                remapped == Remapped(s)
                Sum(t, i) == FoldLeft(+, 0, [q \in DOMAIN given |->
                                                given[q][i] * remapped[t][q]])
            IN  [t \in DOMAIN remapped |-> [i \in DOMAIN given[1] |-> Sum(t, i)]]
    IN  [s \in 1..NumSentences(first.source) |-> Output(s)]

\* combine: the source of the first response, the target of the second.
Combine(first, second) ==
    [source |-> first.source,
     target |-> second.target,
     wordRanges |-> second.wordRanges,
     alignments |-> IF first.alignments = <<>> THEN <<>> ELSE RemapAlignments(first, second)]
=============================================================================
