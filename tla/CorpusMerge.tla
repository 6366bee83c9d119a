------------------------------ MODULE CorpusMerge ------------------------------
(***************************************************************************)
(* merge-corpus.py (job "parallel") and merge-mono.py (job "mono"): the    *)
(* datasets are read one after the other, lines that were seen are dropped,*)
(* a shuffled part of at most max_lines is written, and a sample of that.  *)
(* The lines are read by a generator that the shuffler pulls; nothing tells*)
(* that apart from reading them first, as here.  A line is the pair of its *)
(* position in the source side and in the target side; the two sides of a  *)
(* monolingual line are the same position.                                 *)
(***************************************************************************)
EXTENDS LineShuffler, FiniteSetsExt

CONSTANTS
    Jobs,         \* of {"parallel", "mono"}
    Datasets,     \* names of the datasets, numbers in the order of the names
    Contents,     \* what they may hold: for each a sequence of <<source, target>>
    ParallelTexts, \* texts of the corpus that monolingual data must not repeat
    Tabbed,       \* the texts with a tab
    Limits,       \* what max_lines may be, 0 for None
    SampleSize

ASSUME MergeAssumption ==
    /\ Jobs \subseteq {"parallel", "mono"}
    /\ Datasets \subseteq Nat \ {0} /\ IsFiniteSet(Datasets)
    /\ Limits \subseteq Nat /\ SampleSize \in Nat \ {0}

AllMono == 0   \* merge-mono.py counts its datasets together

VARIABLES
    job, content, maxLines,
    pc,           \* "list", "read", "merge", "written", "sample" or "done"
    sources,      \* datasets_src, or mono_datasets
    targets,      \* datasets_trg
    at,           \* lines read from each side
    seen,         \* strings_seen, mono_hashes
    kept,         \* the lines that the generator yielded
    stats,        \* kept and filtered: of each dataset, and of all monolingual ones
    output, sample

mergeVars == <<job, content, maxLines, pc, sources, targets, at, seen, kept, stats, output, sample>>
vars      == <<mergeVars, shuffleVars>>

Init ==
    /\ job \in Jobs /\ content \in Contents
    /\ maxLines \in (IF job = "mono" THEN Limits \ {0} ELSE Limits)
    /\ pc = "list" /\ sources = <<>> /\ targets = <<>> /\ at = 0
    /\ seen = {} /\ kept = <<>>
    /\ stats = [d \in Datasets \cup {AllMono} |-> [kept |-> 0, filtered |-> 0]]
    /\ output = <<>> /\ sample = <<>>
    /\ ShuffleInit

-----------------------------------------------------------------------------
Orders == SetToSeqs(Datasets)
Sorted == {SetToSortSeq(Datasets, <)}

\* Slip: what glob returns is not sorted.
ListingsUnsorted(j) == Orders

\* dataset_paths.sort() in merge-corpus.py; merge-mono.py takes the order of glob.
Listings(j) == IF j = "parallel" THEN Sorted ELSE Orders

GetDatasets ==
    /\ pc = "list" /\ pc' = "read"
    /\ sources' \in Listings(job)
    /\ IF job = "mono" THEN targets' = sources' ELSE targets' \in Listings(job)
    /\ UNCHANGED <<job, content, maxLines, at, seen, kept, stats, output, sample, shuffleVars>>

\* The lines of the files in turn, as positions <<dataset, line>>.
Stream(files) ==
    FlattenSeq([i \in DOMAIN files |->
        [k \in DOMAIN content[files[i]] |-> <<files[i], k>>]])

TextOf(line) ==
    LET src == line[1]
        trg == line[2]
    IN  <<content[src[1]][src[2]][1], content[trg[1]][trg[2]][2]>>

Hash(line) == IF job = "mono" THEN TextOf(line)[1] ELSE TextOf(line)

\* Slip: only what was just read is compared.
DuplicateOfLast(line) == kept # <<>> /\ Hash(kept[Len(kept)]) = Hash(line)

Duplicate(line) ==
    Hash(line) \in seen \/ (job = "mono" /\ Hash(line) \in ParallelTexts)

\* The dataset whose statistics count the line: the last that the source side entered.
CountedFor(line) == IF job = "mono" THEN AllMono ELSE line[1][1]

Count(d, what) == stats' = [stats EXCEPT ![d][what] = @ + 1]

\* zip: the shorter side ends the loop.
HasPair == at < Len(Stream(sources)) /\ at < Len(Stream(targets))

\* A line with a tab could not be told from the separator of the pair, which only the
\* shuffler needs.
Yields(line) ==
    job = "mono" \/ maxLines = 0 \/ \A i \in 1 .. 2 : TextOf(line)[i] \notin Tabbed

ReadLine ==
    /\ pc = "read" /\ HasPair
    /\ at' = at + 1
    /\ LET line == <<Stream(sources)[at + 1], Stream(targets)[at + 1]>>
       IN  IF Duplicate(line)
             THEN Count(CountedFor(line), "filtered") /\ UNCHANGED <<seen, kept>>
             ELSE /\ Count(CountedFor(line), "kept")
                  /\ seen' = seen \cup {Hash(line)}
                  /\ kept' = IF Yields(line) THEN Append(kept, line) ELSE kept
    /\ UNCHANGED <<job, content, maxLines, pc, sources, targets, output, sample, shuffleVars>>

EndRead ==
    /\ pc = "read" /\ ~HasPair
    /\ pc' = "merge"
    /\ IF maxLines = 0
         THEN UNCHANGED shuffleVars
         ELSE StartShuffle(kept, FALSE, maxLines)
    /\ UNCHANGED <<job, content, maxLines, sources, targets, at, seen, kept, stats, output, sample>>

\* The corpus is written.
WriteAll ==
    /\ pc = "merge" /\ maxLines = 0
    /\ output' = kept /\ pc' = "written"
    /\ UNCHANGED <<job, content, maxLines, sources, targets, at, seen, kept, stats, sample>>
    /\ UNCHANGED shuffleVars

WriteShuffled ==
    /\ pc = "merge" /\ maxLines > 0
    /\ Collect
    /\ output' = lines /\ pc' = "written"
    /\ UNCHANGED <<job, content, maxLines, sources, targets, at, seen, kept, stats, sample>>

\* sample_corpus reads the files again; merge-mono.py hands over the list final_lines.
StartSample ==
    /\ pc = "written" /\ pc' = "sample"
    /\ StartShuffle(output, job = "mono", SampleSize)
    /\ UNCHANGED <<job, content, maxLines, sources, targets, at, seen, kept, stats, output, sample>>

WriteSample ==
    /\ pc = "sample"
    /\ Collect
    /\ sample' = lines /\ pc' = "done"
    /\ UNCHANGED <<job, content, maxLines, sources, targets, at, seen, kept, stats, output>>

Shuffling == ShuffleStep /\ UNCHANGED mergeVars

Done == pc = "done" /\ UNCHANGED vars

Next == \/ GetDatasets \/ ReadLine \/ EndRead \/ WriteAll \/ WriteShuffled
        \/ StartSample \/ WriteSample \/ Shuffling \/ Done

Spec == Init /\ [][Next]_vars

-----------------------------------------------------------------------------

\* The two files that are written stay parallel: each line comes from the same line of the
\* same dataset on both sides, through merging, deduplication, shuffling and truncation,
\* and so do the pairs of the sample, which are pairs of these files
\* (merge-corpus.py 94-103, 118-131, 165-193 and 203-224).
PairsAligned ==
    /\ \A i \in DOMAIN output : output[i][1] = output[i][2]
    /\ \A i \in DOMAIN sample : sample[i][1] = sample[i][2]
    /\ ToSet(sample) \subseteq ToSet(output)

\* No text is written twice, from whatever datasets it comes, and monolingual data does not
\* repeat the parallel corpus (merge-corpus.py 122-131, merge-mono.py 93-107).
OutputDistinct ==
    /\ \A i, j \in DOMAIN output : Hash(output[i]) = Hash(output[j]) => i = j
    /\ job = "mono" => \A i \in DOMAIN output : Hash(output[i]) \notin ParallelTexts

=============================================================================
