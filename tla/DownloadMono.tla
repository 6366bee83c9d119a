----------------------------- MODULE DownloadMono -----------------------------
(***************************************************************************)
(* The consumers of DownloadChunkStreamer: stream_download_to_file, which  *)
(* writes the chunks to a file; download-mono.py, which decodes lines from *)
(* it, keeps a shuffled sample of them and writes that; and any caller of  *)
(* read().  A line is the sequence of its bytes.  What a right decoder     *)
(* returns stands for the same bytes, and Chinese, which download-mono.py  *)
(* converts afterwards, is left out.                                       *)
(***************************************************************************)
EXTENDS ChunkStreamer, FiniteSets

CONSTANTS
    Uses,           \* of {"reader", "file", "mono"}
    Locations,      \* what a data set is, and what the server says of its file
    Newlines,       \* the bytes that are newlines
    BufferSizes,    \* what a decoder may ask read() for
    SentenceLimits  \* the values of max_sentences

Formats == {"gzip", "zstd", "plain"}

ASSUME ConsumersAssumption ==
    /\ Uses \subseteq {"reader", "file", "mono"}
    /\ Locations \subseteq [importer : STRING, type : STRING, extension : STRING,
                            format : Formats, sized : BOOLEAN]
    /\ Newlines \subseteq 1 .. FileSize /\ BufferSizes \subseteq ReadSizes \ {0}
    /\ SentenceLimits \subseteq Nat \ {0}

VARIABLES
    use,            \* the consumer
    location,       \* the file it asks for
    status,         \* "ready", "running", "done", "failed" or "refused"
    artifact,       \* the lines download-mono.py wrote
    stream, isList, limit, loop, place, lines, lineIndex    \* shuffle_with_max_lines

Shuffler == INSTANCE LineShuffler WITH next <- place

shuffling == <<stream, isList, limit, loop, place, lines, lineIndex>>
allVars   == <<vars, use, location, status, artifact, shuffling>>

DownloadInit ==
    /\ Init /\ Shuffler!ShuffleInit
    /\ use \in Uses /\ location \in Locations
    /\ use # "mono" => location = CHOOSE l \in Locations : TRUE
    /\ status = (IF use = "reader" THEN "running" ELSE "ready")
    /\ artifact = <<>>

Generate ==
    /\ use = "file" => buffer = <<>>
    /\ Request \/ YieldChunk \/ BodyEnds \/ AttemptFails \/ NextAttempt
    /\ UNCHANGED <<use, location, status, artifact, shuffling>>

-----------------------------------------------------------------------------
(* A caller of read().                                                     *)

Read ==
    /\ use = "reader"
    /\ CallRead \/ Close
    /\ UNCHANGED <<use, location, status, artifact, shuffling>>

EndRead ==
    /\ use = "reader" /\ Return
    /\ UNCHANGED <<use, location, status, artifact, shuffling>>

-----------------------------------------------------------------------------
(* stream_download_to_file: what it wrote to the file is returned.         *)

OpenFile ==
    /\ use = "file" /\ status = "ready"
    /\ status' = "running" /\ reader' = "reading" /\ size' = -1
    /\ UNCHANGED <<generator, chunk_iter, buffer, returned, eof>>
    /\ UNCHANGED <<use, location, artifact, shuffling>>

WriteChunk ==
    /\ use = "file" /\ reader = "reading" /\ buffer # <<>>
    /\ returned' = returned \o buffer /\ buffer' = <<>>
    /\ UNCHANGED <<generator, chunk_iter, size, reader, eof>>
    /\ UNCHANGED <<use, location, status, artifact, shuffling>>

\* Slip: the loop over the retries ends without an exception.
FileOutcomeSilent == "done"

FileOutcome == IF reader = "raised" THEN "failed" ELSE "done"

EndFile ==
    /\ use = "file" /\ status = "running" /\ buffer = <<>>
    /\ reader = "raised" \/ phase = "finished"
    /\ status' = FileOutcome
    /\ reader' = "closed" /\ chunk_iter' = FALSE
    /\ UNCHANGED <<generator, size, buffer, returned, eof>>
    /\ UNCHANGED <<use, location, artifact, shuffling>>

\* Another call finds the file, whole or not: "That file already exists".
CallAgain ==
    /\ use = "file" /\ status \in {"done", "failed"}
    /\ status' = "refused"
    /\ UNCHANGED <<vars, use, location, artifact, shuffling>>

-----------------------------------------------------------------------------
(* download-mono.py                                                        *)

\* The decoder of a remote file, by its Content-Type and else by its extension.
Decoder(l) ==
    CASE l.type = "application/gzip" -> "gzip"
      [] l.type = "application/zstd" -> "zstd"
      [] l.type = "application/zip"  -> "unsupported"
      [] l.type = "text/plain"       -> "plain"
      [] OTHER -> CASE l.extension \in {".gz", ".gzip"} -> "gzip"
                    [] l.extension = ".zst"             -> "zstd"
                    [] OTHER                            -> "plain"

Fail ==
    /\ status' = "failed" /\ reader' = "closed" /\ chunk_iter' = FALSE
    /\ UNCHANGED <<generator, size, buffer, returned, eof>>
    /\ UNCHANGED <<use, location, artifact, shuffling>>

\* The importer gives the URL; the artifact is opened, and two requests without retries
\* ask for the type of the file and for its size.
OpenLines ==
    /\ use = "mono" /\ status = "ready"
    /\ location.importer \in {"url", "news-crawl", "opus"}
    /\ Decoder(location) # "unsupported"
    /\ status' = "running"
    /\ \E limited \in SentenceLimits : Shuffler!StartShuffle(<<>>, FALSE, limited)
    /\ UNCHANGED <<vars, use, location, artifact>>

OpenFails == use = "mono" /\ status = "ready" /\ Fail

\* The decoder found what it cannot decode.
WrongFormat == returned # <<>> /\ Decoder(location) # location.format

\* shuffle_with_max_lines pulls a line that is not decoded yet.
Pulls ==
    /\ use = "mono" /\ status = "running" /\ ~WrongFormat
    /\ place > Len(stream) /\ ~eof
    /\ loop = "sample" \/ (loop = "fill" /\ Len(lines) < limit)

\* The lines of some bytes end at newlines, and the last one also where the bytes end.
LineEnds(bytes, ended) ==
    {i \in DOMAIN bytes : bytes[i] \in Newlines \/ (ended /\ i = Len(bytes))}

EndOf(ends, k) == IF k = 0 THEN 0 ELSE CHOOSE i \in ends : Cardinality(ends \cap (1 .. i)) = k

LinesOf(bytes, ended) ==
    LET ends == LineEnds(bytes, ended)
    IN  [k \in 1 .. Cardinality(ends) |->
            SubSeq(bytes, EndOf(ends, k - 1) + 1, EndOf(ends, k))]

\* An empty answer, here or in DecodeBlock, is the end of the file.
ReadBlock ==
    /\ Pulls
    /\ CallRead /\ size' \in BufferSizes
    /\ stream' = LinesOf(returned, eof')
    /\ UNCHANGED <<use, location, status, artifact>>
    /\ UNCHANGED <<isList, limit, loop, place, lines, lineIndex>>

DecodeBlock ==
    /\ use = "mono" /\ Return
    /\ stream' = LinesOf(returned', eof')
    /\ UNCHANGED <<use, location, status, artifact>>
    /\ UNCHANGED <<isList, limit, loop, place, lines, lineIndex>>

\* Without a Content-Length the estimated number of lines is 0, by which the first line
\* past max_lines divides.
DividesByZero == loop = "sample" /\ place <= Len(stream) /\ ~location.sized

LinesFail ==
    /\ use = "mono" /\ status = "running" /\ reader # "reading"
    /\ reader = "raised" \/ WrongFormat \/ DividesByZero
    /\ Fail

Shuffle ==
    /\ use = "mono" /\ status = "running" /\ reader = "between" /\ ~WrongFormat
    /\ \/ Shuffler!Fill
       \/ (eof \/ Len(lines) = limit) /\ Shuffler!EndFill
       \/ ~DividesByZero /\ Shuffler!Sample
       \/ eof /\ Shuffler!EndSample
    /\ UNCHANGED <<vars, use, location, status, artifact>>

WriteLines ==
    /\ use = "mono" /\ status = "running"
    /\ Shuffler!Collect
    /\ artifact' = lines /\ status' = "done"
    /\ reader' = "closed" /\ chunk_iter' = FALSE
    /\ UNCHANGED <<generator, size, buffer, returned, eof, use, location>>

-----------------------------------------------------------------------------
Over == reader = "closed" /\ (use = "file" => status = "refused") /\ UNCHANGED allVars

DownloadNext ==
    \/ Generate \/ Read \/ EndRead \/ OpenFile \/ WriteChunk \/ EndFile \/ CallAgain
    \/ OpenLines \/ OpenFails \/ ReadBlock \/ DecodeBlock \/ LinesFail \/ Shuffle \/ WriteLines
    \/ Over

-----------------------------------------------------------------------------
\* A download to a file that ends without an exception left the whole file, and one that
\* was given up raises, its part of the file notwithstanding (downloads.py 26-33, 328-329).
DownloadWhole ==
    use = "file" /\ status = "done" => returned = Whole

\* The artifact holds each line of the file at most once, as many as max_sentences allows
\* whatever is sampled, and nothing before the whole file was read and decoded
\* (download-mono.py 124-134, downloads.py 364-441, datasets.py 131-172).
SampleOfFile ==
    LET all == LinesOf(Whole, TRUE)
        most == IF Len(all) < limit THEN Len(all) ELSE limit
    IN  use = "mono" =>
            /\ status # "done" => artifact = <<>>
            /\ status = "done" =>
                   /\ all # <<>> => Decoder(location) = location.format
                   /\ Len(artifact) = most
                   /\ ToSet(artifact) \subseteq ToSet(all)
                   /\ Cardinality(ToSet(artifact)) = most

=============================================================================
