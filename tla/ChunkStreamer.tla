---------------------------- MODULE ChunkStreamer ----------------------------
(***************************************************************************)
(* DownloadChunkStreamer (pipeline/common/downloads.py): a generator that  *)
(* downloads a file in chunks and starts again where it was when a         *)
(* connection breaks, and read(), which serves a decoder from the chunks.  *)
(* The bytes of the file are the numbers 1 .. FileSize.                    *)
(***************************************************************************)
EXTENDS Integers, Sequences, SequencesExt

CONSTANTS
    FileSize,       \* bytes of the file
    ChunkBytes,     \* chunk_bytes
    ReadSizes,      \* the sizes a consumer asks read() for; -1 asks for everything
    TotalRetries,   \* total_retries
    HonoursRange    \* whether the server answers a Range request with the range

ASSUME SizesAssumption ==
    /\ FileSize \in Nat /\ ChunkBytes \in Nat \ {0} /\ TotalRetries \in Nat
    /\ ReadSizes \subseteq Int /\ HonoursRange \in BOOLEAN

VARIABLES
    phase,        \* the generator: "idle", "body", "sleep", "finished", "failed"
    retry,        \* the attempt of the loop
    downloaded,   \* downloaded_bytes
    next,         \* the next byte of the open response
    chunk_iter,   \* whether self.chunk_iter is set
    size,         \* the argument of the read() that is running
    reader,       \* "between" calls, "reading", "raised" or "closed"
    buffer,       \* bytes taken from chunks and not returned yet
    returned,     \* all bytes read() returned
    eof           \* whether a read() of some bytes returned none

vars == <<phase, retry, downloaded, next, chunk_iter, size, reader, buffer, returned, eof>>
generator == <<phase, retry, downloaded, next>>

File(a, b) == [i \in 1 .. b - a + 1 |-> a + i - 1]     \* the bytes from a to b
Whole      == File(1, FileSize)

Init ==
    /\ phase = "idle" /\ retry = 0 /\ downloaded = 0 /\ next = 1
    /\ chunk_iter = TRUE /\ size = 0 /\ reader = "between"
    /\ buffer = <<>> /\ returned = <<>> /\ eof = FALSE

-----------------------------------------------------------------------------
(* The generator, which runs while read() asks it for a chunk.             *)

\* read() is in its loop: it needs another chunk.
Wants == reader = "reading" /\ (size < 0 \/ Len(buffer) < size)

\* Slip: the request after a failure starts one byte late.
FirstByteLate == IF HonoursRange /\ downloaded > 0 THEN downloaded + 2 ELSE 1

\* The first byte of the answer: bytes=N- counts from 0.
FirstByte == IF HonoursRange THEN downloaded + 1 ELSE 1

\* A server has no range to give when every byte was received: status 416.
Request ==
    /\ phase = "idle" /\ Wants
    /\ ~(HonoursRange /\ downloaded > 0 /\ downloaded = FileSize)
    /\ phase' = "body" /\ next' = FirstByte
    /\ UNCHANGED <<retry, downloaded, chunk_iter, size, reader, buffer, returned, eof>>

Count(n) == downloaded' = downloaded + n

YieldChunk ==
    /\ phase = "body" /\ Wants
    /\ \E n \in 1 .. ChunkBytes :
          /\ next + n - 1 <= FileSize
          /\ Count(n)
          /\ next' = next + n
          /\ buffer' = buffer \o File(next, next + n - 1)
    /\ UNCHANGED <<phase, retry, chunk_iter, size, reader, returned, eof>>

\* The body ended: close() drops the iterator as well.
BodyEnds ==
    /\ phase = "body" /\ Wants /\ next > FileSize
    /\ phase' = "finished" /\ chunk_iter' = FALSE
    /\ UNCHANGED <<retry, downloaded, next, size, reader, buffer, returned, eof>>

\* The request or the body fails, by a timeout, an error status or a broken connection.
AttemptFails ==
    /\ phase \in {"idle", "body"} /\ Wants
    /\ phase' = "sleep"
    /\ UNCHANGED <<retry, downloaded, next, chunk_iter, size, reader, buffer, returned, eof>>

\* Slip: the loop starts over without counting.
NextAttemptUncounted ==
    /\ phase = "sleep"
    /\ phase' = "idle"
    /\ UNCHANGED <<retry, downloaded, next, chunk_iter, size, reader, buffer, returned, eof>>

\* The next turn of the loop, or "The download failed."
NextAttempt ==
    /\ phase = "sleep"
    /\ retry' = retry + 1
    /\ IF retry + 1 < TotalRetries
         THEN phase' = "idle" /\ UNCHANGED <<chunk_iter, reader>>
         ELSE phase' = "failed" /\ chunk_iter' = FALSE /\ reader' = "raised"
    /\ UNCHANGED <<downloaded, next, size, buffer, returned, eof>>

-----------------------------------------------------------------------------
(* read() and its caller.                                                  *)

CallRead ==
    /\ reader = "between" /\ ~eof
    /\ \E s \in ReadSizes : size' = s
    /\ IF chunk_iter
         THEN reader' = "reading" /\ UNCHANGED eof
         ELSE reader' = "between" /\ eof' = (size' # 0)
    /\ UNCHANGED <<generator, chunk_iter, buffer, returned>>

Rest(n) == buffer' = SubSeq(buffer, n + 1, Len(buffer))

\* The loop is over: enough is buffered, or next() had nothing more.
Return ==
    /\ reader = "reading"
    /\ ~Wants \/ phase = "finished"
    /\ LET n == IF size < 0 \/ size > Len(buffer) THEN Len(buffer) ELSE size
       IN  /\ returned' = returned \o SubSeq(buffer, 1, n)
           /\ Rest(n)
           /\ eof' = (n = 0 /\ size # 0)
    /\ reader' = "between"
    /\ UNCHANGED <<generator, chunk_iter, size>>

\* The caller is done, after the end of the file or an exception, or gives up early.
Close ==
    /\ reader \in {"between", "raised"}
    /\ reader' = "closed" /\ chunk_iter' = FALSE
    /\ UNCHANGED <<generator, size, buffer, returned, eof>>

Closed == reader = "closed" /\ UNCHANGED vars

Stream == Request \/ YieldChunk \/ BodyEnds \/ AttemptFails \/ NextAttempt \/ Return

Next == Stream \/ CallRead \/ Close \/ Closed

Spec == Init /\ [][Next]_vars

-----------------------------------------------------------------------------
\* What the consumer got is a prefix of the file, whatever broke and was resumed in
\* between: no byte twice, none left out ("Pick up the download from where it was
\* before", downloads.py 277).
BytesInOrder == IsPrefix(returned \o buffer, Whole)

\* Every read() returns or raises (the loop of downloads.py 270-329 is bounded).
ReadReturns == [](reader = "reading" => <>(reader # "reading"))

=============================================================================
