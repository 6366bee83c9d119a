---------------------------- MODULE MCMonoImport -----------------------------
EXTENDS MonoImport

\* Reads smaller and larger than a chunk, and of everything.
MCReadSizes == {-1, 1, 2, 3}

\* Four lines, one of them blank and the last without a newline.
MCNewlines == {2, 3, 5}

Remote(importer, type, extension, format, sized) ==
    [importer |-> importer, type |-> type, extension |-> extension, format |-> format,
     sized |-> sized]

\* A file as its importer expects it, one without a size, one of which only the extension
\* tells, one that is not what its type says, two that cannot be read,
\* and HPLT in two versions.
MCLocations ==
    { Remote("news-crawl", "application/gzip", ".gz", "gzip", TRUE),
      Remote("opus", "application/gzip", ".gz", "gzip", FALSE),
      Remote("url", "binary/octet-stream", ".zst", "zstd", TRUE),
      Remote("url", "text/plain", ".gz", "gzip", TRUE),
      Remote("url", "application/zip", ".zip", "plain", TRUE),
      Remote("tatoeba", "text/plain", ".txt", "plain", TRUE),
      Remote("hplt", "mono/v2.0", ".zst", "zstd", FALSE),
      Remote("hplt", "mono/v1.2", ".zst", "zstd", FALSE) }

(* HPLT. *)
\* Two texts, one of the length of two others joined, a blank line and one too long.
MCTexts == {"a", "b", "long", "blank", "toolong"}
MCChars == [t \in MCTexts |-> CASE t = "a" -> 1 [] t = "b" -> 1 [] t = "long" -> 3
                                [] t = "blank" -> 0 [] t = "toolong" -> 4]

Lines == [lang : {TRUE}, text : MCTexts] \cup {[lang |-> FALSE, text |-> "a"]}
Doc(ls) == [score |-> TRUE, lang |-> TRUE, lines |-> ls]
First  == {Doc(ls) : ls \in UNION {[1 .. n -> Lines] : n \in 0 .. 3}}
Filtered == {[score |-> s, lang |-> ~s, lines |-> <<[lang |-> TRUE, text |-> "b"]>>] :
                s \in BOOLEAN}
Short  == {l \in Lines : l.text # "long"}
Second == {Doc(ls) : ls \in UNION {[1 .. n -> Short] : n \in 0 .. 2}}
MCCorpora ==
    {<<d, e>> : d \in First, e \in Second} \cup {<<d, f, d>> : d \in First, f \in Filtered}
=============================================================================
