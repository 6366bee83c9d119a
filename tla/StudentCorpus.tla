---------------------------- MODULE StudentCorpus ----------------------------
(***************************************************************************)
(* The corpus a student learns from: the parallel and the monolingual      *)
(* corpus are split in chunks, translated by the teachers in tasks of their*)
(* own, collected, merged, filtered by the score of the backward model,    *)
(* tokenized and aligned by pools of processes, and put in one TSV file.   *)
(* Tasks start when those they depend on have completed and take what those*)
(* have published; a task whose script fails stops what comes after it.    *)
(***************************************************************************)
EXTENDS Alignments

CONSTANTS
    Inputs,           \* corpora and settings, see MCStudentCorpus
    Score,            \* [line of two sides -> score of marian-scorer]
    PoolChunk,        \* lines in a chunk that a process of a pool works on
    MaxAhead          \* bound on the tasks of a kind that run before an earlier chunk's

BeamOf(decoding) == CombinedConfig(decoding.args)["beam-size"].value

\* Lines that the teachers translate, each to as many texts as the beam has places.  The
\* kinds that tokenize with ICU take the tokens as they are (alignments-student/kind.yml:79).
IsInput(in) ==
    /\ in.corpus \in Seq([src : DOMAIN Hypotheses, trg : Texts])
    /\ in.mono \in Seq(DOMAIN Hypotheses)
    /\ in.split_chunks \in Nat \ {0}
    /\ in.decoding.decoder \in {"marian", "ctranslate2"}
    /\ BeamOf(in.decoding) \in Nat \ {0}
    /\ \A text \in DOMAIN Hypotheses : BeamOf(in.decoding) <= Len(Hypotheses[text])
    /\ in.tokenization \in {"moses", "icu"} /\ in.output_tokenized \in BOOLEAN
    /\ in.tokenization = "icu" => in.output_tokenized

ASSUME CorpusAssumption ==
    /\ PoolChunk \in Nat \ {0} /\ AlnChunkLines \in Nat \ {0} /\ RemovePercent \in 0 .. 100
    /\ DOMAIN Hypotheses \subseteq Texts
    /\ \A text \in DOMAIN Hypotheses :
          /\ Hypotheses[text] \in Seq(Texts)
          /\ \A k \in DOMAIN Hypotheses[text] :
                Score[[src |-> text, trg |-> Hypotheses[text][k]]] \in Int
    /\ \A in \in Inputs : IsInput(in)

VARIABLES
    input,            \* the corpora and the settings
    completed,        \* the tasks that completed
    failed,           \* the tasks that failed
    artifacts,        \* what was published: [<<name, chunk>> -> lines]
    pool              \* the alignment under way and its pool of processes

vars == <<input, completed, failed, artifacts, pool>>

NoPool == [phase |-> "none", chunks |-> <<>>, done |-> {}, output |-> <<>>]

Published(name, lines) == [a \in {<<name, 0>>} |-> lines]
CorpusSide(side) == [i \in DOMAIN input.corpus |-> input.corpus[i][side]]

Init ==
    /\ input \in Inputs
    /\ completed = {} /\ failed = {} /\ pool = NoPool
    /\ artifacts = Update(Update(Published("corpus.src", CorpusSide("src")),
                                 Published("corpus.trg", CorpusSide("trg"))),
                          Published("mono", input.mono))

-----------------------------------------------------------------------------
(* Tasks.                                                                  *)

Task(kind) == <<kind, 0>>
Chunked(kind) == {<<kind, k>> : k \in 1 .. input.split_chunks}
File(name) == artifacts[<<name, 0>>]

MayStart(task, upstream) ==
    /\ task \notin completed \cup failed
    /\ upstream \subseteq completed
    /\ \A k \in 1 .. task[2] - 1 - MaxAhead : <<task[1], k>> \in completed \cup failed

Completes(task, files) ==
    /\ completed' = completed \cup {task}
    /\ artifacts' = Update(artifacts, files)
    /\ UNCHANGED <<input, failed, pool>>

Fails(task) ==
    /\ failed' = failed \cup {task}
    /\ UNCHANGED <<input, completed, artifacts, pool>>

\* A task that publishes one file, or fails with its script.
Ends(task, name, result) ==
    IF result.ok THEN Completes(task, [a \in {name} |-> result.lines]) ELSE Fails(task)

\* The artifacts of a split, one for each part.
Parts(name, parts) == [a \in {<<name, k>> : k \in DOMAIN parts} |-> parts[a[2]]]

SplitCorpus ==
    /\ MayStart(Task("split-corpus"), {})
    /\ Completes(Task("split-corpus"),
                 Update(Parts("file", SplitFile(File("corpus.src"), input.split_chunks)),
                        Parts("ref", SplitFile(File("corpus.trg"), input.split_chunks))))

SplitMono ==
    /\ MayStart(Task("split-mono"), {})
    /\ Completes(Task("split-mono"), Parts("mono", SplitFile(File("mono"), input.split_chunks)))

\* What a task fetches is there, or it fails at once.
TranslateCorpus(k) ==
    LET task == <<"translate-corpus", k>>
    IN  /\ MayStart(task, {Task("split-corpus")})
        /\ IF <<"file", k>> \in DOMAIN artifacts
           THEN Ends(task, <<"nbest", k>>,
                     Translate(artifacts[<<"file", k>>], TRUE, input.decoding))
           ELSE Fails(task)

TranslateMono(k) ==
    LET task == <<"translate-mono", k>>
    IN  /\ MayStart(task, {Task("split-mono")})
        /\ IF <<"mono", k>> \in DOMAIN artifacts
           THEN Ends(task, <<"out", k>>,
                     Translate(artifacts[<<"mono", k>>], FALSE, input.decoding))
           ELSE Fails(task)

ExtractBest(k) ==
    LET task == <<"extract-best", k>>
    IN  /\ MayStart(task, {<<"translate-corpus", k>>, Task("split-corpus")})
        /\ LET best == MarianBest(artifacts[<<"nbest", k>>], artifacts[<<"ref", k>>])
           IN  Ends(task, <<"nbest.out", k>>, [ok |-> best.ok, lines |-> best.lines])

Fetched(name) == [k \in 1 .. input.split_chunks |-> artifacts[<<name, k>>]]

CollectCorpus ==
    /\ MayStart(Task("collect-corpus"), Chunked("extract-best"))
    /\ Ends(Task("collect-corpus"), <<"collected.corpus", 0>>,
            Collect(Fetched("nbest.out"), File("corpus.trg")))

CollectMono ==
    /\ MayStart(Task("collect-mono"), Chunked("translate-mono"))
    /\ Ends(Task("collect-mono"), <<"collected.mono", 0>>, Collect(Fetched("out"), File("mono")))

\* shuf: one of two orders.
Shuffled(lines) == {lines, Reverse(lines)}

MergeTranslated ==
    /\ MayStart(Task("merge-translated"), {Task("collect-corpus"), Task("collect-mono")})
    /\ \E lines \in Shuffled(Paste(File("corpus.src") \o File("mono"),
                                   File("collected.corpus") \o File("collected.mono"))) :
          Completes(Task("merge-translated"), Published("merged", Dedupe(lines)))

ScoreCorpus ==
    /\ MayStart(Task("score"), {Task("merge-translated")})
    /\ Completes(Task("score"),
                 Published("scores", [i \in DOMAIN File("merged") |-> Score[File("merged")[i]]]))

FilterCorpus ==
    /\ MayStart(Task("cefilter"), {Task("score")})
    /\ Ends(Task("cefilter"), <<"filtered", 0>>, CeFilter(File("merged"), File("scores")))

\* The shortlist is made from the filtered corpus in its own pieces, without a tokenizer.
GenerateShortlist ==
    /\ MayStart(Task("shortlist"), {Task("cefilter")})
    /\ LET src == [i \in DOMAIN File("filtered") |-> Tokenize("moses", File("filtered")[i].src)]
           trg == [i \in DOMAIN File("filtered") |-> Tokenize("moses", File("filtered")[i].trg)]
       IN  Completes(Task("shortlist"), Update(
               Published("lex", ExtractLex(src, trg, Align(src, trg))),
               Published("pruned", PruneShortlist(ExtractLex(src, trg, Align(src, trg))))))

-----------------------------------------------------------------------------
(* align.py: a pool tokenizes one side, then the other; the tokens are     *)
(* aligned; without --output_tokenized a pool maps the links to words.     *)

Sides == {"src", "trg"}
Side(side) == [i \in DOMAIN File("filtered") |-> File("filtered")[i][side]]
TokenizedName == [src |-> "tokenized.src", trg |-> "tokenized.trg"]
Tokenized(side) == File(TokenizedName[side])

InChunks(file) ==
    [c \in 1 .. (Len(file) + PoolChunk - 1) \div PoolChunk |->
        SubSeq(file, (c - 1) * PoolChunk + 1, Min({c * PoolChunk, Len(file)}))]

StartPool(phase, file) ==
    pool' = [phase |-> phase, chunks |-> InChunks(file), done |-> {}, output |-> <<>>]

StartAlignment ==
    /\ MayStart(Task("alignments"), {Task("cefilter")})
    /\ pool.phase = "none"
    /\ StartPool("src", Side("src"))
    /\ UNCHANGED <<input, completed, failed, artifacts>>

\* _tokenize_lines or remap_line, in any process.
WorkOnChunk(c) ==
    /\ c \in DOMAIN pool.chunks \ pool.done
    /\ pool' = [pool EXCEPT !.done = @ \cup {c}]
    /\ UNCHANGED <<input, completed, failed, artifacts>>

Result(line) ==
    IF pool.phase = "remap" THEN RemapLine(line) ELSE Tokenize(input.tokenization, line)

\* Slip: imap_unordered.
NextResults(written) == pool.done \ written

\* imap gives the results in the order of the chunks.
NextResult(written) == (pool.done \ written) \cap {Cardinality(written) + 1}

WriteResult ==
    \E c \in NextResult(ToSet([i \in DOMAIN pool.output |-> pool.output[i].chunk])) :
        LET chunk == pool.chunks[c]
        IN  IF pool.phase = "remap" /\ \E i \in DOMAIN chunk : TokenMissing(chunk[i])
            THEN /\ failed' = failed \cup {Task("alignments")}
                 /\ pool' = NoPool
                 /\ UNCHANGED <<input, completed, artifacts>>
            ELSE /\ pool' = [pool EXCEPT !.output = Append(@,
                       [chunk |-> c, lines |-> [i \in DOMAIN chunk |-> Result(chunk[i])]])]
                 /\ UNCHANGED <<input, completed, failed, artifacts>>

PoolEnds(phase) == pool.phase = phase /\ Len(pool.output) = Len(pool.chunks)
PoolOutput == FlattenSeq([i \in DOMAIN pool.output |-> pool.output[i].lines])

TokenizeSource ==
    /\ PoolEnds("src")
    /\ StartPool("trg", Side("trg"))
    /\ artifacts' = Update(artifacts, Published("tokenized.src", PoolOutput))
    /\ UNCHANGED <<input, completed, failed>>

\* The links of the tokens, and what remap() zips.
TokenizeTarget ==
    /\ PoolEnds("trg")
    /\ LET src == Tokenized("src")
           links == Align(src, PoolOutput)
       IN  /\ artifacts' = Update(artifacts, Update(Published("tokenized.trg", PoolOutput),
                                                    Published("links", links)))
           /\ IF input.output_tokenized
              THEN pool' = [NoPool EXCEPT !.phase = "aligned"]
              ELSE StartPool("remap", [i \in DOMAIN links |->
                       [src |-> Side("src")[i], trg |-> Side("trg")[i], tok_src |-> src[i],
                        tok_trg |-> PoolOutput[i], aln |-> links[i]]])
    /\ UNCHANGED <<input, completed, failed>>

FinishAlignment ==
    /\ MayStart(Task("alignments"), {})
    /\ \/ pool.phase = "aligned"
          /\ artifacts' = Update(artifacts, Published("aln", File("links")))
       \/ PoolEnds("remap")
          /\ artifacts' = Update(artifacts, Published("aln", PoolOutput))
    /\ completed' = completed \cup {Task("alignments")}
    /\ pool' = NoPool
    /\ UNCHANGED <<input, failed>>

\* Lines with empty alignments are left out, Marian would complain.
WithLinks(rows) == SelectSeq(rows, LAMBDA row : row.aln # {})

\* build_dataset_tsv
Row(side, i) == IF input.output_tokenized THEN Tokenized(side)[i] ELSE Side(side)[i]

BuildDatasetTsv ==
    /\ MayStart(Task("train-student"), {Task("alignments")})
    /\ LET rows == [i \in DOMAIN File("aln") |->
                       [src |-> Row("src", i), trg |-> Row("trg", i), aln |-> File("aln")[i]]]
       IN  Completes(Task("train-student"),
                     Published("tsv", WithLinks(rows)))

-----------------------------------------------------------------------------
Next ==
    \/ SplitCorpus \/ SplitMono
    \/ \E k \in 1 .. input.split_chunks : TranslateCorpus(k) \/ TranslateMono(k) \/ ExtractBest(k)
    \/ CollectCorpus \/ CollectMono \/ MergeTranslated \/ ScoreCorpus \/ FilterCorpus
    \/ GenerateShortlist
    \/ StartAlignment \/ (\E c \in DOMAIN pool.chunks : WorkOnChunk(c)) \/ WriteResult
    \/ TokenizeSource \/ TokenizeTarget \/ FinishAlignment \/ BuildDatasetTsv

Spec == Init /\ [][Next]_vars

-----------------------------------------------------------------------------
\* The collected file has, at the place of each line of the corpus, one of the translations
\* of that line, and none of them is closer to the reference of that line (splitter.py,
\* extract_best.py and collect.sh, in tasks that end in any order).
BestOfItsLine ==
    Task("collect-corpus") \in completed =>
        \A i \in DOMAIN input.corpus :
            LET line == input.corpus[i]
                mine == ToSet(SubSeq(Hypotheses[line.src], 1, BeamOf(input.decoding)))
                best == File("collected.corpus")[i]
            IN  best \in mine /\ \A text \in mine : Chrf(line.trg, text) <= Chrf(line.trg, best)

\* When every chunk was translated the comparison of the numbers of lines in collect.sh
\* finds nothing: no line of a corpus was left in a part that no task takes (splitter.py:49).
NothingLeftOut == failed \cap {Task("collect-corpus"), Task("collect-mono")} = {}

\* The filter leaves out at most the percentage it is set to, and nothing that scores
\* better than what it keeps (ce-filter.sh:24-36).
WorstLeftOut ==
    Task("cefilter") \in completed =>
        LET all == ToSet(File("merged"))
            kept == ToSet(File("filtered"))
        IN  /\ kept \subseteq all
            /\ 100 * Cardinality(all \ kept) <= RemovePercent * Cardinality(all)
            /\ \A out \in all \ kept, in \in kept : Score[out] <= Score[in]

\* The place of the word that a token of a text comes from.
WordOf(text, token) ==
    Cardinality({w \in DOMAIN text : Len(FlattenSeq(SubSeq(text, 1, w))) <= token})

\* What each line of the filtered corpus should become, with its own links only.
Expected(line) ==
    LET src == Tokenize(input.tokenization, line.src)
        trg == Tokenize(input.tokenization, line.trg)
        links == AlignForward(src, trg) \cup AlignReverse(src, trg)
    IN  IF input.output_tokenized THEN [src |-> src, trg |-> trg, aln |-> links]
        ELSE [src |-> line.src, trg |-> line.trg,
              aln |-> {<<WordOf(line.src, link[1]), WordOf(line.trg, link[2])>> : link \in links}]

\* Every row of the training data is a line of the filtered corpus with the links of that
\* line, and each line with links has its row, though processes tokenize and remap chunks
\* in any order and the aligner works on parts of the corpus (align.py, tokenizer.py,
\* build_dataset_tsv in train.py).
LinksOfTheirLine ==
    Task("train-student") \in completed =>
        File("tsv") = WithLinks([i \in DOMAIN File("filtered") |->
                                    Expected(File("filtered")[i])])

=============================================================================
