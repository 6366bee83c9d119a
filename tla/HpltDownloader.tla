---------------------------- MODULE HpltDownloader ----------------------------
(***************************************************************************)
(* HpltDownloader (data/importers/mono/hplt.py): documents are streamed,   *)
(* their lines are filtered, and lines that follow each other are gathered *)
(* in paragraphs of at most max_characters until max_lines are written.    *)
(* A line is its position <<document, line>>; the text gathered so far is  *)
(* the sequence of the positions joined by a space.                        *)
(***************************************************************************)
EXTENDS Integers, FiniteSets, Sequences, SequencesExt, FiniteSetsExt

CONSTANTS
    Corpora,      \* the sequences of documents that may be streamed
    Texts,        \* the texts of a line
    Chars,        \* their lengths, 0 for the blank line only
    MaxCharacters,
    Limits        \* what max_lines may be

Document == [score : BOOLEAN,   \* whether it reaches hplt_min_doc_score
             lang  : BOOLEAN,   \* whether its language is the one wanted
             lines : Seq([lang : BOOLEAN, text : Texts])]

\* Assumed by the module that instantiates this one.
HpltAssumption ==
    /\ MaxCharacters \in Nat /\ Limits \subseteq Nat \ {0}
    /\ Chars \in [Texts -> Nat]
    /\ \A corpus \in Corpora : corpus \in Seq(Document)

VARIABLES
    documents,    \* the stream
    mergeLines,   \* merge_lines
    maxLines,     \* max_lines
    pc,           \* "document", "line" or "done"
    at,           \* <<document, line>> to be read next
    accumulated,  \* accumulated_text
    charCount,    \* cumulative_char_count
    seen,         \* strings_seen
    output,       \* the paragraphs written to outfile
    stats         \* counters of FilteringStatistics

inputs == <<documents, mergeLines, maxLines>>
vars   == <<inputs, pc, at, accumulated, charCount, seen, output, stats>>

Counters == {"documents", "visited", "kept", "final", "duplicates", "docScore", "docLocale",
             "lineLocale", "tooLong"}

LineAt(p)    == documents[p[1]].lines[p[2]]
CharsAt(p)   == Chars[LineAt(p).text]
TextOf(para) == [i \in DOMAIN para |-> LineAt(para[i]).text]

\* WeakStringSet compares what strip() leaves: blank lines at the end are not told apart.
Stripped(para) ==
    LET ends == {i \in DOMAIN para : CharsAt(para[i]) > 0}
    IN  TextOf(SubSeq(para, 1, IF ends = {} THEN 0 ELSE Max(ends)))

Init ==
    /\ documents \in Corpora /\ mergeLines \in BOOLEAN /\ maxLines \in Limits
    /\ pc = "document" /\ at = <<1, 1>>
    /\ accumulated = <<>> /\ charCount = 0 /\ seen = {} /\ output = <<>>
    /\ stats = [c \in Counters |-> 0]

-----------------------------------------------------------------------------
Count(names) == [c \in Counters |-> IF c \in names THEN stats[c] + 1 ELSE stats[c]]

\* What _maybe_write_accumulated_text does with a paragraph, and what it counts.
IsNew(para)   == para # <<>> /\ Stripped(para) \notin seen
Written(para) == IF para = <<>> THEN {} ELSE IF IsNew(para) THEN {"final"} ELSE {"duplicates"}

Write(para) ==
    /\ output' = IF IsNew(para) THEN Append(output, para) ELSE output
    /\ seen' = IF IsNew(para) THEN seen \cup {Stripped(para)} ELSE seen

\* The loop over the documents; accumulated text is written before a document is judged.
NextDocument ==
    /\ pc = "document" /\ at[1] <= Len(documents)
    /\ LET d == documents[at[1]]
           judged == IF ~d.score THEN {"docScore"} ELSE IF ~d.lang THEN {"docLocale"} ELSE {}
       IN  /\ Write(accumulated)
           /\ stats' = Count({"documents"} \cup Written(accumulated) \cup judged)
           /\ IF judged = {} THEN pc' = "line" /\ UNCHANGED at
                             ELSE pc' = pc /\ at' = <<at[1] + 1, 1>>
    /\ accumulated' = <<>> /\ charCount' = 0
    /\ UNCHANGED inputs

\* The two tests of max_lines after a line.
Go(final) == IF final = maxLines THEN pc' = "done" /\ UNCHANGED at
                                 ELSE pc' = "line" /\ at' = <<at[1], at[2] + 1>>

HasLine == pc = "line" /\ at[2] <= Len(documents[at[1]].lines)

\* Slip: the line is discarded and the paragraph goes on.
DiscardLineSilently ==
    /\ HasLine /\ (~LineAt(at).lang \/ CharsAt(at) > MaxCharacters)
    /\ stats' = Count({"visited", IF ~LineAt(at).lang THEN "lineLocale" ELSE "tooLong"})
    /\ Go(stats'["final"])
    /\ UNCHANGED <<inputs, accumulated, charCount, seen, output>>

\* A line in another language, or too long, ends the paragraph.
DiscardLine ==
    /\ HasLine /\ (~LineAt(at).lang \/ CharsAt(at) > MaxCharacters)
    /\ Write(accumulated)
    /\ stats' = Count({"visited", IF ~LineAt(at).lang THEN "lineLocale" ELSE "tooLong"}
                      \cup Written(accumulated))
    /\ accumulated' = <<>> /\ charCount' = 0
    /\ Go(stats'["final"])
    /\ UNCHANGED inputs

Accepted == HasLine /\ LineAt(at).lang /\ CharsAt(at) <= MaxCharacters

\* A blank line leaves accumulated_text the empty string.
Joined(para, p) == IF para = <<>> /\ CharsAt(p) = 0 THEN <<>> ELSE Append(para, p)

WriteLine ==
    /\ Accepted /\ ~mergeLines
    /\ Write(Joined(<<>>, at))
    /\ stats' = Count({"visited", "kept"} \cup Written(Joined(<<>>, at)))
    /\ accumulated' = <<>> /\ charCount' = 0
    /\ Go(stats'["final"])
    /\ UNCHANGED inputs

TooLong == charCount + CharsAt(at) + 1 > MaxCharacters

MergeLine ==
    /\ Accepted /\ mergeLines
    /\ LET ready  == IF TooLong THEN accumulated ELSE <<>>
           before == IF TooLong THEN <<>> ELSE accumulated
       IN  /\ Write(ready)
           /\ stats' = Count({"visited", "kept"} \cup Written(ready))
           /\ accumulated' = Joined(before, at)
           /\ charCount' = (IF TooLong THEN 0 ELSE charCount)
                           + CharsAt(at) + (IF before = <<>> THEN 0 ELSE 1)
    /\ Go(stats'["final"])
    /\ UNCHANGED inputs

\* A document that has no lines meets the limit that the end of the last one reached.
StopAtLimit ==
    /\ pc = "line" /\ ~HasLine /\ stats["final"] = maxLines
    /\ pc' = "done"
    /\ UNCHANGED <<inputs, at, accumulated, charCount, seen, output, stats>>

\* Slip: the text left at the end of a document is left to the next one.
EndDocumentKeeps ==
    /\ pc = "line" /\ ~HasLine
    /\ pc' = "document" /\ at' = <<at[1] + 1, 1>>
    /\ UNCHANGED <<inputs, accumulated, charCount, seen, output, stats>>

EndDocument ==
    /\ pc = "line" /\ ~HasLine /\ stats["final"] # maxLines
    /\ Write(accumulated)
    /\ stats' = Count(Written(accumulated))
    /\ accumulated' = <<>> /\ charCount' = 0
    /\ pc' = "document" /\ at' = <<at[1] + 1, 1>>
    /\ UNCHANGED inputs

EndStream ==
    /\ pc = "document" /\ at[1] > Len(documents)
    /\ pc' = "done"
    /\ UNCHANGED <<inputs, at, accumulated, charCount, seen, output, stats>>

Done == pc = "done" /\ UNCHANGED vars

Next == \/ NextDocument \/ DiscardLine \/ WriteLine \/ MergeLine
        \/ StopAtLimit \/ EndDocument \/ EndStream \/ Done

Spec == Init /\ [][Next]_vars

-----------------------------------------------------------------------------
Paragraphs == ToSet(output) \cup ({accumulated} \ {<<>>})

Acceptable(p) ==
    /\ documents[p[1]].score /\ documents[p[1]].lang
    /\ LineAt(p).lang /\ CharsAt(p) <= MaxCharacters

\* The lines that were read: those before the one to be read next.
Read == {p \in UNION {{d} \X DOMAIN documents[d].lines : d \in DOMAIN documents} :
            p[1] < at[1] \/ (p[1] = at[1] /\ p[2] < at[2])}

\* A paragraph is made of lines that follow each other in one document, with none that was
\* filtered among or between them (hplt.py 210, 240, 249-259 and 287-292).
ParagraphsContiguous ==
    \A para \in Paragraphs :
        /\ \A i \in DOMAIN para : Acceptable(para[i])
        /\ \A i \in 1 .. Len(para) - 1 : para[i + 1] = <<para[i][1], para[i][2] + 1>>

\* A line that passes the filters is written, alone or in a paragraph, or is a duplicate of
\* what was written, or is still being gathered; nothing is left when the stream ends before
\* the limit (hplt.py 204-240).
NothingLost ==
    /\ \A p \in Read : Acceptable(p) /\ CharsAt(p) > 0 =>
          \/ p \in ToSet(accumulated)
          \/ \E para \in ToSet(output) : LineAt(p).text \in ToSet(TextOf(para))
    /\ pc = "done" /\ Len(output) < maxLines => accumulated = <<>>

=============================================================================
