-------------------------- MODULE CorpusMerge_proofs --------------------------
(***************************************************************************)
(* Proofs about CorpusMerge, for any datasets, limits and orders of glob:  *)
(* what is written stays aligned and has no text twice, in whatever way    *)
(* the shuffler samples it.                                                *)
(***************************************************************************)
EXTENDS CorpusMerge, TLAPS, SequenceTheorems

-----------------------------------------------------------------------------
(* The invariant.                                                          *)

Sequence(s) == s \in Seq(ToSet(s))
Aligned(s)  == \A i \in DOMAIN s : s[i][1] = s[i][2]
Distinct(s) == \A i, j \in DOMAIN s : Hash(s[i]) = Hash(s[j]) => i = j
Foreign(s)  == job = "mono" => \A i \in DOMAIN s : Hash(s[i]) \notin ParallelTexts

Proper(s) == Sequence(s) /\ Aligned(s) /\ Distinct(s) /\ Foreign(s)

\* The lines of the shuffler are lines of the stream, none of them ahead of its position;
\* the stream is an iterator, which the second loop does not start again.
Ring ==
    /\ stream = kept /\ ~isList /\ limit = maxLines
    /\ next \in Nat \ {0} /\ lineIndex \in Nat
    /\ Proper(lines) /\ Len(lines) <= limit
    /\ \A i \in DOMAIN lines : \E k \in DOMAIN stream : k < next /\ lines[i] = stream[k]

MergeInv ==
    /\ job \in {"parallel", "mono"} /\ maxLines \in Nat
    /\ sources = targets
    /\ Proper(kept) /\ \A i \in DOMAIN kept : Hash(kept[i]) \in seen
    /\ Proper(output)
    /\ pc = "merge" /\ maxLines > 0 => Ring

\* The lines of a sequence are lines that are written.
Drawn(s) == \A i \in DOMAIN s : \E k \in DOMAIN output : s[i] = output[k]

\* The sample, and the lines of the shuffler while it draws one.
SampleInv ==
    /\ Drawn(sample) /\ (pc # "done" => sample = <<>>)
    /\ pc = "sample" =>
          stream = output /\ next \in Nat \ {0} /\ Sequence(lines) /\ Drawn(lines)

-----------------------------------------------------------------------------
(* Sequences of lines.                                                     *)

\* A sequence is one of its own elements.
LEMMA SequenceOf == ASSUME NEW S, NEW s \in Seq(S) PROVE Sequence(s)
  BY DEF Sequence, ToSet

\* A line more is one element more.
LEMMA AppendLine ==
    ASSUME NEW s, Sequence(s), NEW e
    PROVE  /\ Sequence(Append(s, e)) /\ DOMAIN Append(s, e) = 1 .. Len(s) + 1
           /\ Len(Append(s, e)) = Len(s) + 1 /\ Len(s) \in Nat /\ DOMAIN s = 1 .. Len(s)
           /\ Append(s, e)[Len(s) + 1] = e
           /\ \A i \in 1 .. Len(s) : Append(s, e)[i] = s[i]
<1>1. PICK S : S = ToSet(s) \cup {e}
  OBVIOUS
<1>2. s \in Seq(ToSet(s))
  BY DEF Sequence
<1>3. s \in Seq(S) /\ e \in S
  BY <1>1, <1>2
<1>4. Append(s, e) \in Seq(S)
  BY <1>3
<1>5. Sequence(Append(s, e))
  BY <1>4, SequenceOf
<1> QED BY <1>3, <1>4, <1>5

\* A line that differs from all the others keeps them proper.
LEMMA AppendProper ==
    ASSUME NEW s, Proper(s), NEW e, e[1] = e[2],
           \A i \in DOMAIN s : Hash(s[i]) # Hash(e),
           job = "mono" => Hash(e) \notin ParallelTexts
    PROVE  Proper(Append(s, e))
<1>1. /\ Sequence(Append(s, e)) /\ DOMAIN Append(s, e) = 1 .. Len(s) + 1
      /\ Len(s) \in Nat /\ DOMAIN s = 1 .. Len(s)
      /\ Append(s, e)[Len(s) + 1] = e
      /\ \A i \in 1 .. Len(s) : Append(s, e)[i] = s[i]
  BY AppendLine DEF Proper
<1> QED BY <1>1 DEF Proper, Aligned, Distinct, Foreign

\* So does one that takes the place of another.
LEMMA ReplaceProper ==
    ASSUME NEW s, Proper(s), NEW e, e[1] = e[2], NEW k \in DOMAIN s,
           \A i \in DOMAIN s : Hash(s[i]) # Hash(e),
           job = "mono" => Hash(e) \notin ParallelTexts
    PROVE  LET t == [s EXCEPT ![k] = e]
           IN  Proper(t) /\ DOMAIN t = DOMAIN s /\ Len(t) = Len(s)
<1> DEFINE t == [s EXCEPT ![k] = e]
<1>1. PICK S : S = ToSet(s) \cup {e}
  OBVIOUS
<1>2. s \in Seq(ToSet(s))
  BY DEF Proper, Sequence
<1>3. s \in Seq(S) /\ e \in S
  BY <1>1, <1>2
<1>4. t \in Seq(S) /\ DOMAIN t = DOMAIN s /\ Len(t) = Len(s)
      /\ \A i \in DOMAIN s : t[i] = IF i = k THEN e ELSE s[i]
  BY <1>3
<1>5. Sequence(t)
  BY <1>4, SequenceOf
<1> HIDE DEF t
<1>6. Proper(t)
  BY <1>4, <1>5 DEF Proper, Aligned, Distinct, Foreign
<1> QED BY <1>4, <1>6 DEF t

\* Shuffling keeps the lines.
LEMMA ShuffleProper ==
    ASSUME NEW s, Proper(s), NEW t \in Shuffles(s)
    PROVE  /\ Proper(t) /\ Len(t) = Len(s)
           /\ \A i \in DOMAIN t : \E k \in DOMAIN s : t[i] = s[k]
<1>1. s \in Seq(ToSet(s)) /\ Len(s) \in Nat /\ DOMAIN s = 1 .. Len(s)
  BY DEF Proper, Sequence
<1>2. PICK p \in Bijection(1 .. Len(s), 1 .. Len(s)) : t = [i \in 1 .. Len(s) |-> s[p[i]]]
  BY <1>1 DEF Shuffles
<1>3. /\ p \in [1 .. Len(s) -> 1 .. Len(s)]
      /\ \A i, j \in 1 .. Len(s) : p[i] = p[j] => i = j
  BY DEF Bijection, Injection, IsInjective
<1>4. t \in Seq(ToSet(s)) /\ Len(t) = Len(s) /\ DOMAIN t = 1 .. Len(s)
  BY <1>1, <1>2, <1>3
<1>5. Sequence(t)
  BY <1>4, SequenceOf
<1>6. \A i \in DOMAIN t : p[i] \in DOMAIN s /\ t[i] = s[p[i]]
  BY <1>1, <1>2, <1>3, <1>4
<1>7. Proper(t)
  BY <1>3, <1>4, <1>5, <1>6 DEF Proper, Aligned, Distinct, Foreign
<1> QED BY <1>4, <1>6, <1>7

-----------------------------------------------------------------------------
(* The steps.                                                              *)

\* What a line hashes to and whether lines are proper, depends on the job and the datasets.
LEMMA SameLines ==
    ASSUME UNCHANGED <<job, content>>
    PROVE  /\ \A line : Hash(line)' = Hash(line)
           /\ \A s : Proper(s)' <=> Proper(s)
  BY DEF Hash, TextOf, Proper, Sequence, Aligned, Distinct, Foreign

\* Both sides of the corpus are listed in the same order.
LEMMA ListStep == MergeInv /\ GetDatasets => MergeInv'
<1> SUFFICES ASSUME MergeInv, GetDatasets PROVE MergeInv'
  OBVIOUS
<1>1. UNCHANGED <<job, content, maxLines, seen, kept, output>> /\ pc' = "read"
  BY DEF GetDatasets
<1>2. sources' = targets'
  BY DEF MergeInv, GetDatasets, Listings, Sorted
<1>3. \A s : Proper(s)' <=> Proper(s)
  BY <1>1, SameLines
<1> QED BY <1>1, <1>2, <1>3, SameLines DEF MergeInv

\* A line that is yielded was not seen before.
LEMMA ReadStep == MergeInv /\ ReadLine => MergeInv'
<1> SUFFICES ASSUME MergeInv, ReadLine PROVE MergeInv'
  OBVIOUS
<1>1. /\ UNCHANGED <<job, content, maxLines, sources, targets, output, pc>> /\ pc = "read"
  BY DEF ReadLine
<1>2. PICK line : line = <<Stream(sources)[at + 1], Stream(targets)[at + 1]>>
  OBVIOUS
<1>3. line[1] = line[2]
  BY <1>2 DEF MergeInv
<1>4. \/ UNCHANGED <<seen, kept>>
      \/ /\ ~Duplicate(line) /\ seen' = seen \cup {Hash(line)}
         /\ kept' = Append(kept, line) \/ kept' = kept
  BY <1>2 DEF ReadLine
<1>5. Proper(kept') /\ \A i \in DOMAIN kept' : Hash(kept'[i]) \in seen'
  <2>1. CASE UNCHANGED <<seen, kept>>
    BY <2>1 DEF MergeInv
  <2>2. CASE ~Duplicate(line) /\ seen' = seen \cup {Hash(line)} /\ kept' = kept
    BY <2>2 DEF MergeInv
  <2>3. CASE ~Duplicate(line) /\ seen' = seen \cup {Hash(line)} /\ kept' = Append(kept, line)
    <3>1. \A i \in DOMAIN kept : Hash(kept[i]) # Hash(line)
      BY <2>3 DEF Duplicate, MergeInv
    <3>2. job = "mono" => Hash(line) \notin ParallelTexts
      BY <2>3 DEF Duplicate
    <3>3. Proper(kept')
      BY <1>3, <2>3, <3>1, <3>2, AppendProper DEF MergeInv
    <3>4. \A i \in DOMAIN kept' : Hash(kept'[i]) \in seen'
      BY <2>3, AppendLine DEF MergeInv, Proper
    <3> QED BY <3>3, <3>4
  <2> QED BY <1>4, <2>1, <2>2, <2>3
<1> QED BY <1>1, <1>5, SameLines DEF MergeInv

\* The shuffler begins with no lines.
LEMMA EndReadStep == MergeInv /\ EndRead => MergeInv'
<1> SUFFICES ASSUME MergeInv, EndRead PROVE MergeInv'
  OBVIOUS
<1>1. /\ UNCHANGED <<job, content, maxLines, sources, targets, output, seen, kept>>
      /\ maxLines # 0 => StartShuffle(kept, FALSE, maxLines)
  BY DEF EndRead
<1>2. Proper(<<>>)
  BY DEF Proper, Sequence, Aligned, Distinct, Foreign
<1>3. maxLines > 0 => Ring'
  BY <1>1, <1>2, SameLines DEF StartShuffle, Ring, MergeInv
<1> QED BY <1>1, <1>3, SameLines DEF MergeInv

\* The lines that are written are those of the generator or of the shuffler.
LEMMA WriteStep ==
    MergeInv /\ (WriteAll \/ WriteShuffled \/ StartSample \/ WriteSample) => MergeInv'
<1> SUFFICES ASSUME MergeInv, WriteAll \/ WriteShuffled \/ StartSample \/ WriteSample
             PROVE  MergeInv'
  OBVIOUS
<1>1. /\ UNCHANGED <<job, content, maxLines, sources, targets, seen, kept>>
      /\ pc' # "merge"
      /\ \/ output' = kept
         \/ pc = "merge" /\ maxLines > 0 /\ output' = lines
         \/ output' = output
  BY DEF WriteAll, WriteShuffled, StartSample, WriteSample
<1>2. Proper(output')
  BY <1>1 DEF MergeInv, Ring
<1> QED BY <1>1, <1>2, SameLines DEF MergeInv

\* A line of the stream that is ahead of the position is none of the shuffler's.
LEMMA AheadIsNew ==
    ASSUME Proper(kept), Ring, next <= Len(stream)
    PROVE  /\ stream[next][1] = stream[next][2]
           /\ \A i \in DOMAIN lines : Hash(lines[i]) # Hash(stream[next])
           /\ job = "mono" => Hash(stream[next]) \notin ParallelTexts
<1>1. DOMAIN kept = 1 .. Len(kept) /\ Len(kept) \in Nat
  BY DEF Proper, Sequence
<1>2. next \in DOMAIN kept /\ stream = kept
  BY <1>1 DEF Ring
<1> QED BY <1>2 DEF Ring, Proper, Aligned, Distinct, Foreign

\* Filling, sampling and shuffling keep the lines proper.
LEMMA ShufflerStep ==
    ASSUME MergeInv, pc = "merge", maxLines > 0, ShuffleStep, UNCHANGED mergeVars
    PROVE  Ring'
<1>1. Ring /\ Proper(kept) /\ maxLines \in Nat \ {0}
  BY DEF MergeInv
<1>2. UNCHANGED <<job, content, kept, maxLines, stream, isList, limit>>
  BY DEF ShuffleStep, Fill, EndFill, Sample, EndSample, mergeVars
<1>3. \A s : Proper(s)' <=> Proper(s)
  BY <1>2, SameLines
<1>4. Sequence(lines) /\ Len(lines) \in Nat /\ DOMAIN lines = 1 .. Len(lines)
  BY <1>1 DEF Ring, Proper, Sequence
<1>5. CASE Fill \/ (Sample /\ Len(lines) # limit /\ lines' = Append(lines, stream[next]))
  <2>1. /\ lines' = Append(lines, stream[next]) /\ next <= Len(stream) /\ next' = next + 1
        /\ lineIndex' = lineIndex /\ Len(lines) # limit
    BY <1>1, <1>4, <1>5 DEF Fill, Sample, Put, Ring
  <2>2. Proper(lines')
    BY <1>1, <2>1, AheadIsNew, AppendProper DEF Ring
  <2>3. Len(lines') = Len(lines) + 1
        /\ \A i \in DOMAIN lines' :
               lines'[i] = stream[next] \/ (i \in DOMAIN lines /\ lines'[i] = lines[i])
    BY <1>4, <2>1, AppendLine
  <2>4. next \in DOMAIN stream
    BY <1>1, <2>1 DEF Ring, Proper, Sequence
  <2>5. Len(lines') <= limit
    <3>1. PICK m \in Nat : m = Len(lines)
      BY <1>4
    <3>2. limit \in Nat /\ m <= limit /\ m # limit /\ Len(lines') = m + 1
      BY <1>1, <2>1, <2>3, <3>1 DEF Ring
    <3>3. m + 1 <= limit
      BY <3>2
    <3> QED BY <3>2, <3>3
  <2>6. \A i \in DOMAIN lines' : \E k \in DOMAIN stream : k < next + 1 /\ lines'[i] = stream[k]
    BY <1>1, <2>3, <2>4 DEF Ring, Proper, Sequence
  <2> QED BY <1>1, <1>2, <1>3, <2>1, <2>2, <2>5, <2>6 DEF Ring
<1>6. CASE EndFill \/ EndSample
  <2>1. /\ lines' \in Shuffles(lines) /\ next' = next
        /\ lineIndex' \in {lineIndex, Len(lines)}
    BY <1>1, <1>6 DEF EndFill, EndSample, Ring
  <2>2. /\ Proper(lines') /\ Len(lines') = Len(lines)
        /\ \A i \in DOMAIN lines' : \E k \in DOMAIN lines : lines'[i] = lines[k]
    BY <1>1, <2>1, ShuffleProper DEF Ring
  <2> QED BY <1>1, <1>2, <1>3, <1>4, <2>1, <2>2 DEF Ring
<1>7. CASE Sample /\ UNCHANGED <<lines, lineIndex>>
  <2>1. next' = next + 1
    BY <1>7 DEF Sample
  <2> QED BY <1>1, <1>2, <1>3, <1>7, <2>1 DEF Ring
<1>8. CASE Sample /\ Len(lines) = limit /\ Put(stream[next])
  <2>1. PICK k : k = (lineIndex % limit) + 1
    OBVIOUS
  <2>2. k \in DOMAIN lines
    BY <1>1, <1>4, <1>8, <2>1 DEF Ring
  <2>3. /\ lines' = [lines EXCEPT ![k] = stream[next]] /\ next <= Len(stream)
        /\ next' = next + 1 /\ lineIndex' = lineIndex + 1
    BY <1>8, <2>1 DEF Sample, Put
  <2>4. Proper(lines') /\ DOMAIN lines' = DOMAIN lines /\ Len(lines') = Len(lines)
    BY <1>1, <2>2, <2>3, AheadIsNew, ReplaceProper DEF Ring
  <2>5. \A i \in DOMAIN lines' : lines'[i] = stream[next] \/ lines'[i] = lines[i]
    BY <2>3, <2>4
  <2>6. next \in DOMAIN stream
    BY <1>1, <2>3 DEF Ring, Proper, Sequence
  <2> QED BY <1>1, <1>2, <1>3, <2>3, <2>4, <2>5, <2>6 DEF Ring
<1> QED BY <1>5, <1>6, <1>7, <1>8 DEF ShuffleStep, Sample, Put

\* Every step keeps the invariant.
LEMMA MergeStep == MergeInv /\ [Next]_vars => MergeInv'
<1> SUFFICES ASSUME MergeInv, [Next]_vars PROVE MergeInv'
  OBVIOUS
<1>1. CASE Shuffling
  <2>1. UNCHANGED <<job, content, maxLines, sources, targets, seen, kept, output, pc>>
    BY <1>1 DEF Shuffling, mergeVars
  <2>2. pc = "merge" /\ maxLines > 0 => Ring'
    BY <1>1, ShufflerStep DEF Shuffling
  <2> QED BY <2>1, <2>2, SameLines DEF MergeInv
<1>2. CASE Done \/ UNCHANGED vars
  <2>1. UNCHANGED <<job, content, maxLines, sources, targets, seen, kept, output, pc>>
        /\ UNCHANGED shuffleVars
    BY <1>2 DEF Done, vars, mergeVars
  <2>2. Ring => Ring'
    BY <2>1, SameLines DEF Ring, shuffleVars
  <2> QED BY <2>1, <2>2, SameLines DEF MergeInv
<1> QED BY <1>1, <1>2, ListStep, ReadStep, EndReadStep, WriteStep DEF Next

\* The shuffler draws lines that are written, from the files or from a list that its
\* second loop reads again.
LEMMA DrawStep ==
    ASSUME Sequence(output), pc = "sample", SampleInv, ShuffleStep, UNCHANGED mergeVars
    PROVE  SampleInv'
<1>1. stream = output /\ next \in Nat \ {0} /\ Sequence(lines) /\ Drawn(lines)
  BY DEF SampleInv
<1>2. UNCHANGED <<output, sample, pc, stream>>
  BY DEF ShuffleStep, Fill, EndFill, Sample, EndSample, mergeVars
<1>3. next' \in Nat \ {0}
  BY <1>1 DEF ShuffleStep, Fill, EndFill, Sample, EndSample
<1>4. CASE UNCHANGED lines
  BY <1>1, <1>2, <1>3, <1>4 DEF SampleInv, Drawn, Sequence
<1>5. CASE next <= Len(stream) /\ lines' = Append(lines, stream[next])
  <2>1. next \in DOMAIN output /\ stream[next] = output[next]
    BY <1>1, <1>5 DEF Sequence
  <2>2. Sequence(lines') /\ \A i \in DOMAIN lines' :
            lines'[i] = output[next] \/ (i \in DOMAIN lines /\ lines'[i] = lines[i])
    BY <1>1, <1>5, <2>1, AppendLine
  <2> QED BY <1>1, <1>2, <1>3, <2>1, <2>2 DEF SampleInv, Drawn, Sequence
<1>6. ASSUME NEW k, next <= Len(stream), lines' = [lines EXCEPT ![k] = stream[next]]
      PROVE  SampleInv'
  <2>1. next \in DOMAIN output /\ stream[next] = output[next]
    BY <1>1, <1>6 DEF Sequence
  <2>2. /\ DOMAIN lines' = DOMAIN lines
        /\ \A i \in DOMAIN lines : lines'[i] = output[next] \/ lines'[i] = lines[i]
    BY <1>6, <2>1
  <2>3. Sequence(lines')
    <3>1. PICK t, n : t = lines' /\ n = Len(lines)
      OBVIOUS
    <3>2. n \in Nat /\ DOMAIN t = 1 .. n
      BY <1>1, <2>2, <3>1 DEF Sequence
    <3>3. \A i \in 1 .. n : t[i] \in ToSet(t)
      BY <3>2 DEF ToSet
    <3>4. t = [i \in 1 .. n |-> t[i]]
      BY <1>6, <3>1, <3>2
    <3>5. t \in Seq(ToSet(t))
      BY <3>2, <3>3, <3>4
    <3> QED BY <3>1, <3>5 DEF Sequence
  <2> QED BY <1>1, <1>2, <1>3, <2>1, <2>2, <2>3 DEF SampleInv, Drawn, Sequence
<1>7. CASE lines' \in Shuffles(lines)
  <2>1. lines \in Seq(ToSet(lines)) /\ Len(lines) \in Nat /\ DOMAIN lines = 1 .. Len(lines)
    BY <1>1 DEF Sequence
  <2>2. PICK p \in Bijection(1 .. Len(lines), 1 .. Len(lines)) :
            lines' = [i \in 1 .. Len(lines) |-> lines[p[i]]]
    BY <1>7, <2>1 DEF Shuffles
  <2>3. p \in [1 .. Len(lines) -> 1 .. Len(lines)]
    BY DEF Bijection, Injection
  <2>4. lines' \in Seq(ToSet(lines))
    BY <2>1, <2>2, <2>3
  <2>5. Sequence(lines') /\ DOMAIN lines' = 1 .. Len(lines)
    BY <2>2, <2>4, SequenceOf
  <2>6. \A i \in DOMAIN lines' : p[i] \in DOMAIN lines /\ lines'[i] = lines[p[i]]
    BY <2>1, <2>2, <2>3, <2>5
  <2>7. \A i \in DOMAIN lines' : \E k \in DOMAIN output : lines'[i] = output[k]
    BY <1>1, <2>6 DEF Drawn
  <2> QED BY <1>1, <1>2, <1>3, <2>5, <2>7 DEF SampleInv, Drawn, Sequence
<1> QED BY <1>4, <1>5, <1>6, <1>7 DEF ShuffleStep, Fill, EndFill, Sample, EndSample, Put

\* Every step keeps the sample to what is written.
LEMMA SampleStep == MergeInv /\ SampleInv /\ [Next]_vars => SampleInv'
<1> SUFFICES ASSUME MergeInv, SampleInv, [Next]_vars PROVE SampleInv'
  OBVIOUS
<1>1. Sequence(output)
  BY DEF MergeInv, Proper
<1>2. CASE GetDatasets \/ ReadLine \/ EndRead
  <2>1. UNCHANGED <<output, sample>> /\ pc # "done" /\ pc' \notin {"sample", "done"}
    BY <1>2 DEF GetDatasets, ReadLine, EndRead
  <2> QED BY <2>1 DEF SampleInv, Drawn
<1>3. CASE WriteAll \/ WriteShuffled
  <2>1. sample' = <<>> /\ pc' \notin {"sample", "done"}
    BY <1>3 DEF SampleInv, WriteAll, WriteShuffled
  <2> QED BY <2>1 DEF SampleInv, Drawn
<1>4. CASE StartSample
  <2>1. /\ UNCHANGED <<output, sample>> /\ pc # "done" /\ stream' = output
        /\ next' = 1 /\ lines' = <<>>
    BY <1>4 DEF StartSample, StartShuffle
  <2>2. Sequence(<<>>)
    BY DEF Sequence
  <2> QED BY <2>1, <2>2 DEF SampleInv, Drawn, Sequence
<1>5. CASE WriteSample
  <2>1. sample' = lines /\ UNCHANGED output /\ pc = "sample" /\ pc' = "done"
    BY <1>5 DEF WriteSample
  <2> QED BY <2>1 DEF SampleInv, Drawn
<1>6. CASE Shuffling
  <2>1. CASE pc = "sample"
    BY <1>1, <1>6, <2>1, DrawStep DEF Shuffling
  <2>2. CASE pc # "sample"
    <3>1. UNCHANGED <<output, sample, pc>>
      BY <1>6 DEF Shuffling, mergeVars
    <3> QED BY <2>2, <3>1 DEF SampleInv, Drawn
  <2> QED BY <2>1, <2>2
<1>7. CASE Done \/ UNCHANGED vars
  <2>1. UNCHANGED <<output, sample, pc, stream, next, lines>>
    BY <1>7 DEF Done, vars, mergeVars, shuffleVars
  <2> QED BY <2>1 DEF SampleInv, Drawn, Sequence
<1> QED BY <1>2, <1>3, <1>4, <1>5, <1>6, <1>7 DEF Next

\* Nothing is read at first.
LEMMA MergeStart == Init => MergeInv
<1>1. Proper(<<>>)
  BY DEF Proper, Sequence, Aligned, Distinct, Foreign
<1> QED BY <1>1, MergeAssumption DEF Init, MergeInv

\* The two files of a corpus stay parallel, whatever the datasets and however the shuffler
\* samples, and the sample is of their pairs
\* (merge-corpus.py 94-103, 118-131, 165-193 and 203-224).
THEOREM CorpusAligned == Spec => []PairsAligned
<1>1. MergeInv /\ SampleInv => PairsAligned
  BY DEF MergeInv, SampleInv, Drawn, Proper, Aligned, PairsAligned, ToSet
<1>2. Init => SampleInv
  BY DEF Init, SampleInv, Drawn
<1> QED BY <1>1, <1>2, MergeStart, MergeStep, SampleStep, PTL DEF Spec

\* No text is written twice, nor one of the parallel corpus as monolingual data
\* (merge-corpus.py 122-131, merge-mono.py 93-107).
THEOREM NoTextTwice == Spec => []OutputDistinct
<1>1. MergeInv => OutputDistinct
  BY DEF MergeInv, Proper, Distinct, Foreign, OutputDistinct
<1> QED BY <1>1, MergeStart, MergeStep, PTL DEF Spec
=============================================================================
