------------------------------ MODULE MonoImport ------------------------------
(***************************************************************************)
(* download-mono.py as a whole: the importer of the data set decides       *)
(* between HpltDownloader, which streams documents, and a sample of the    *)
(* lines of one file.  DownloadMono has the other consumers of a download. *)
(***************************************************************************)
EXTENDS DownloadMono

CONSTANTS Corpora, Texts, Chars, MaxCharacters, Limits    \* of HpltDownloader

VARIABLES documents, mergeLines, maxLines, pc, at, accumulated, charCount, seen, output, stats

Hplt == INSTANCE HpltDownloader

ASSUME DocumentsAssumption == Hplt!HpltAssumption

documentVars == <<documents, mergeLines, maxLines, pc, at, accumulated, charCount, seen,
                  output, stats>>
importVars == <<allVars, documentVars>>
IsHplt == use = "mono" /\ location.importer = "hplt" /\ location.type = "mono/v2.0"

\* What HpltDownloader is given when it is not used.
NoCorpus == CHOOSE corpus \in Corpora : TRUE
NoLimit  == CHOOSE limits \in Limits : TRUE

ImportInit ==
    /\ DownloadInit
    /\ \/ IsHplt
       \/ ~IsHplt /\ documents = NoCorpus /\ mergeLines = FALSE /\ maxLines = NoLimit
    /\ Hplt!Init

\* Only HPLT v2.0 is supported: what DownloadMono refuses, it refuses with OpenFails.
StartHplt ==
    /\ IsHplt /\ status = "ready"
    /\ status' = "importing"
    /\ UNCHANGED <<vars, use, location, artifact, shuffling, documentVars>>

StepHplt == IsHplt /\ status = "importing" /\ Hplt!Next /\ UNCHANGED allVars

EndHplt ==
    /\ IsHplt /\ status = "importing" /\ pc = "done"
    /\ status' = "imported" /\ reader' = "closed" /\ chunk_iter' = FALSE
    /\ UNCHANGED <<generator, size, buffer, returned, eof>>
    /\ UNCHANGED <<use, location, artifact, shuffling, documentVars>>

ImportNext ==
    \/ DownloadNext /\ UNCHANGED documentVars
    \/ StartHplt \/ StepHplt \/ EndHplt

\* Nothing holds up the generator and who waits for it; the sleep between attempts ends.
ImportSpec ==
    /\ ImportInit /\ [][ImportNext]_importVars
    /\ WF_importVars(/\ Generate \/ EndRead \/ WriteChunk \/ EndFile \/ DecodeBlock
                     /\ UNCHANGED documentVars)

-----------------------------------------------------------------------------
\* A paragraph is made of lines that follow each other in one document, with none that was
\* filtered among or between them (hplt.py 210, 240, 249-259 and 287-292).
ParagraphsContiguous == IsHplt => Hplt!ParagraphsContiguous

\* A line that passes the filters is written, alone or in a paragraph, or is a duplicate of
\* what was written, or is still being gathered; nothing is left when the stream ends before
\* the limit (hplt.py 204-240).
NothingLost == IsHplt => Hplt!NothingLost

=============================================================================
