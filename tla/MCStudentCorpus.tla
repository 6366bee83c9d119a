--------------------------- MODULE MCStudentCorpus ---------------------------
(***************************************************************************)
(* Ten different texts and their translations; corpora of up to ten lines, *)
(* in as many chunks or fewer, one of them with a line that is translated  *)
(* to nothing and one with a text that both corpora have.                  *)
(***************************************************************************)
EXTENDS StudentCorpus

Name(piece, i) == piece \o ToString(i)

Text(i) ==
    CASE i % 3 = 0 -> <<<<Name("a", i)>>>>
      [] i % 3 = 1 -> <<<<Name("a", i), ",">>, <<Name("b", i)>>>>
      [] i % 3 = 2 -> <<<<Name("a", i)>>, <<Name("b", i), "-", Name("c", i)>>, <<".">>>>

\* Two translations of each; the second has one word more, or none at all.
First(i) ==
    IF i = 5 THEN <<>>
    ELSE IF i % 2 = 0 THEN <<<<Name("u", i), "!">>>>
    ELSE <<<<Name("u", i)>>, <<Name("v", i), "?">>>>
Second(i) == IF i = 4 THEN <<>> ELSE <<<<Name("w", i)>>>> \o First(i)

MCHypotheses ==
    [text \in {Text(i) : i \in 1 .. 10} |->
        LET i == CHOOSE i \in 1 .. 10 : Text(i) = text IN <<First(i), Second(i)>>]

\* References that are close to one or the other.
Reference(i) == IF i % 4 = 0 THEN First(i) ELSE <<<<Name("w", i)>>, <<"x">>>>

\* A score for each translation, the first and the fourth text the worst.
MCScore ==
    [line \in [src : {Text(i) : i \in 1 .. 10},
               trg : UNION {{First(i), Second(i)} : i \in 1 .. 10}] |->
        LET i == CHOOSE i \in 1 .. 10 : Text(i) = line.src
        IN  IF i \in {1, 4} THEN 0 - 10 - i ELSE 0 - (i % 5)]

Corpus(from, to) ==
    [i \in 1 .. to - from + 1 |-> [src |-> Text(from + i - 1), trg |-> Reference(from + i - 1)]]
Mono(from, to) == [i \in 1 .. to - from + 1 |-> Text(from + i - 1)]
Decoding(decoder, models, args) == [decoder |-> decoder, models |-> models, args |-> args]
NoArgs == [o \in {} |-> 0]
Input(corpus, mono, chunks, decoding, tokenization) ==
    [corpus |-> corpus, mono |-> mono, split_chunks |-> chunks, decoding |-> decoding,
     tokenization |-> tokenization, output_tokenized |-> (tokenization = "icu")]

MCInputs ==
    {Input(Corpus(1, 10), Mono(1, 10), 10, Decoding("marian", 2, NoArgs), "icu"),
     Input(Corpus(1, 7), Mono(3, 10), 3, Decoding("ctranslate2", 1, NoArgs), "moses"),
     Input(Corpus(2, 8), Mono(4, 5), 2, Decoding("marian", 1, NoArgs), "icu"),
     Input(Corpus(1, 5), Mono(1, 4), 4, Decoding("marian", 1, NoArgs), "icu"),
     Input(Corpus(5, 6), Mono(5, 6), 2, Decoding("ctranslate2", 2, NoArgs), "moses")}
    \cup {Input(Corpus(4, 6), Mono(1, 3), 2, Decoding(decoder, 1, "beam-size" :> 1), "moses") :
             decoder \in {"marian", "ctranslate2"}}

MCDecoderYml == "beam-size" :> 2
MCVocabulary == <<"u1", "w2", "?", "!">>
=============================================================================
