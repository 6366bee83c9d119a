----------------------------- MODULE LineShuffler -----------------------------
(***************************************************************************)
(* shuffle_with_max_lines (common/datasets.py): the first max_lines lines  *)
(* of a stream are kept and shuffled, later ones are sampled and roll      *)
(* through the list as through a ring.  The bytes only decide how likely a *)
(* line is to be sampled, and here any line may be.  Two loops iterate over*)
(* line_stream: the second goes on after the first when it is an iterator, *)
(* and starts again when it is a list.                                     *)
(***************************************************************************)
EXTENDS Integers, FiniteSets, Sequences, SequencesExt

VARIABLES
    stream,      \* the lines of line_stream
    isList,      \* whether line_stream is a list
    limit,       \* max_lines
    loop,        \* "idle", "fill", "sample" or "over"
    next,        \* position in stream
    lines,       \* lines
    lineIndex    \* line_index

shuffleVars == <<stream, isList, limit, loop, next, lines, lineIndex>>

Shuffles(s) == {[i \in DOMAIN s |-> s[p[i]]] : p \in Bijection(DOMAIN s, DOMAIN s)}

ShuffleInit ==
    /\ stream = <<>> /\ isList = FALSE /\ limit = 1
    /\ loop = "idle" /\ next = 1 /\ lines = <<>> /\ lineIndex = 0

StartShuffle(lineStream, list, maxLines) ==
    /\ loop = "idle"
    /\ stream' = lineStream /\ isList' = list /\ limit' = maxLines
    /\ loop' = "fill" /\ next' = 1 /\ lines' = <<>> /\ lineIndex' = 0

Fill ==
    /\ loop = "fill" /\ next <= Len(stream) /\ Len(lines) < limit
    /\ lines' = Append(lines, stream[next])
    /\ next' = next + 1
    /\ UNCHANGED <<stream, isList, limit, loop, lineIndex>>

\* The first loop is left, with max_lines lines or at the end of the stream.
EndFill ==
    /\ loop = "fill" /\ (next > Len(stream) \/ Len(lines) = limit)
    /\ lines' \in Shuffles(lines)
    /\ lineIndex' = Len(lines)
    /\ loop' = "sample"
    /\ next' = IF isList THEN 1 ELSE next
    /\ UNCHANGED <<stream, isList, limit>>

\* Slip: a sampled line is always appended.
PutAtEnd(line) == lines' = Append(lines, line) /\ UNCHANGED lineIndex

Put(line) ==
    IF Len(lines) = limit
      THEN /\ lines' = [lines EXCEPT ![(lineIndex % limit) + 1] = line]
           /\ lineIndex' = lineIndex + 1
      ELSE lines' = Append(lines, line) /\ UNCHANGED lineIndex

Sample ==
    /\ loop = "sample" /\ next <= Len(stream)
    /\ next' = next + 1
    /\ \/ Put(stream[next])
       \/ UNCHANGED <<lines, lineIndex>>
    /\ UNCHANGED <<stream, isList, limit, loop>>

EndSample ==
    /\ loop = "sample" /\ next > Len(stream)
    /\ lines' \in Shuffles(lines)
    /\ loop' = "over"
    /\ UNCHANGED <<stream, isList, limit, next, lineIndex>>

\* The caller has what is returned.
Collect ==
    /\ loop = "over" /\ loop' = "idle"
    /\ UNCHANGED <<stream, isList, limit, next, lines, lineIndex>>

ShuffleStep == Fill \/ EndFill \/ Sample \/ EndSample

=============================================================================
