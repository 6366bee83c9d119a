----------------------------- MODULE EngineText -----------------------------
(***************************************************************************)
(* One translation of a document with markup, from the text the client     *)
(* gives to the response it gets (Service::translate and ::pivot without   *)
(* the threads, which are in AsyncService): the markup is taken out, the   *)
(* text is cut in segments, each is translated, perhaps twice, and the     *)
(* markup is put back in the source and in the translation.                *)
(*                                                                         *)
(* What the models answer is any choice of a few sequences of tokens and   *)
(* of alignments for each segment.                                         *)
(***************************************************************************)
EXTENDS HtmlMarkup

CONSTANTS
    Requests,        \* [doc, options]: the texts and with which ResponseOptions
    Outputs,         \* token sequences a model may answer, without EOS
    Alignings,       \* kinds of alignment, see Aligned
    Weights,         \* part of Unit that a row gives to its best source token
    Unit             \* 1 in the rows of an alignment

ASSUME UnitAssumption == Unit \in Nat /\ \A w \in Weights : 2 * w > Unit /\ w <= Unit

VARIABLES
    doc,             \* the text of the request
    options,         \* its ResponseOptions, and whether it goes over a pivot
    html,            \* the object HTML
    response,        \* the response so far
    translation,     \* the translation before the markup is back
    stage            \* "read", "translate", "pivot", "restore", "done", "failed"

vars == <<doc, options, html, response, translation, stage>>

NoResponse == [source |-> EmptyText("none"), target |-> EmptyText("none"),
               wordRanges |-> <<>>, alignments |-> <<>>]

Init ==
    /\ \E r \in Requests : doc = r.doc /\ options = r.options
    /\ html = Html
    /\ response = NoResponse
    /\ translation = <<>>
    /\ stage = "read"

-----------------------------------------------------------------------------
(* The constructor HTML::HTML.                                             *)

Read(h) ==
    /\ html' = h
    /\ stage' = CASE h.outcome = "reading" -> "read"
                  [] h.outcome = "read" -> "translate"
                  [] OTHER -> "failed"
    /\ UNCHANGED <<doc, options, response, translation>>

\* One case of the loop over the tokens; h has the scanner after the call.
ReadText(h) == h.scanner.token = "text" /\ Read(OnText(h))
ReadTagStart(h) == h.scanner.token = "tagStart" /\ Read(OnTagStart(doc, h))
ReadTagEnd(h) == h.scanner.token = "tagEnd" /\ Read(OnTagEnd(h))
ReadAttribute(h) == h.scanner.token = "attribute" /\ Read(OnAttribute(h))
ReadComment(h) == h.scanner.token = "commentStart" /\ Read(OnMarkupStart(h, "comment"))
ReadInstruction(h) ==
    h.scanner.token = "instructionStart" /\ Read(OnMarkupStart(h, "instruction"))
ReadMarkupEnd(h) ==
    h.scanner.token \in {"commentEnd", "instructionEnd"} /\ Read([h EXCEPT !.tag = 0])
ReadData(h) == h.scanner.token = "data" /\ Read(OnData(h))
ReadEof(h) == h.scanner.token = "eof" /\ Read(OnEof(h))
ReadError(h) == h.scanner.token \in {"error", "endless"} /\ Read(Abort(h))

\* HTML::HTML, one turn of the loop.
ReadToken ==
    /\ stage = "read"
    /\ options.html
    /\ \E h \in {[html EXCEPT !.scanner = NextToken(doc, html.scanner)]} :
           \/ ReadText(h) \/ ReadTagStart(h) \/ ReadTagEnd(h) \/ ReadAttribute(h)
           \/ ReadComment(h) \/ ReadInstruction(h) \/ ReadMarkupEnd(h)
           \/ ReadData(h) \/ ReadEof(h) \/ ReadError(h)

\* Without HTML in the options the text is taken as it is.
ReadPlain ==
    /\ stage = "read"
    /\ ~options.html
    /\ html' = [html EXCEPT !.source = doc, !.spans = <<>>, !.outcome = "read"]
    /\ stage' = "translate"
    /\ UNCHANGED <<doc, options, response, translation>>

-----------------------------------------------------------------------------
(* The models.                                                             *)

\* The source token that token t of k is aligned with, of n before EOS.
Aligned(kind, t, k, n) ==
    CASE kind = "first" -> 1
      [] kind = "last" -> n
      [] kind = "same" -> Min({t, n})
      [] kind = "reversed" -> Max({1, n + 1 - t})

Row(n, best, weight) ==
    [s \in 1..n |-> CASE s = best -> weight [] s = n /\ s # best -> Unit - weight [] OTHER -> 0]

\* What a model may answer to a segment of n tokens.
History(n, words, kind, weight) ==
    [tokens |-> Append(words, <<>>),
     alignment |-> Append([t \in DOMAIN words |->
                               Row(n, Aligned(kind, t, Len(words), n - 1), weight)],
                          Row(n, n, Unit))]

\* What it may answer to all the segments of a text.
Answers(source) ==
    LET lengths == Segments(source)
    IN  {[s \in DOMAIN lengths |-> History(lengths[s], words[s], kind, weight)] :
            words \in [DOMAIN lengths -> Outputs], kind \in Alignings, weight \in Weights}

\* makeRequest, translateBatch and ResponseBuilder.  In front of a pivot stands
\* a model into a language with spaces.
Translate ==
    /\ stage = "translate"
    /\ LET language == IF options.pivot /\ options.language # "none" THEN "spaced"
                       ELSE options.language
           source == RegisterTargetLanguage(Process(options.vocab, html.source), language)
       IN  \E histories \in Answers(source) :
               response' = BuildResponse(source, histories, options)
    /\ translation' = response'.target.text
    /\ stage' = IF options.pivot THEN "pivot" ELSE "restore"
    /\ UNCHANGED <<doc, options, html>>

\* makePivotRequest with the translation as its source, then combine.
TranslatePivot ==
    /\ stage = "pivot"
    /\ LET source == RegisterTargetLanguage(ProcessFromAnnotation("long", response.target),
                                            options.language)
       IN  \E histories \in Answers(source) :
               response' = Combine(response, BuildResponse(source, histories, options))
    /\ translation' = response'.target.text
    /\ stage' = "restore"
    /\ UNCHANGED <<doc, options, html>>

\* HTML::restore, then the client's callback.
Deliver ==
    /\ stage = "restore"
    /\ response' = IF html.spans = <<>> THEN response ELSE Restore(html, response)
    /\ stage' = "done"
    /\ UNCHANGED <<doc, options, html, translation>>

Next ==
    \/ ReadToken \/ ReadPlain \/ Translate \/ TranslatePivot \/ Deliver

Spec == Init /\ [][Next]_vars

-----------------------------------------------------------------------------
(* Properties.  They read the restored texts with the scanner again.       *)

\* The tokens of a text that are markup, in order; a closing void tag is none.
RECURSIVE MarkupFrom(_, _)
MarkupFrom(text, s) ==
    LET Skipped(next) == \/ next.token \in {"text", "commentEnd", "instructionEnd"}
                         \/ next.token = "tagEnd" /\ LowerCase(next.tag) \in VoidTags
        Item(next) ==
            [token |-> next.token,
             name |-> IF next.token \in {"tagStart", "tagEnd"} THEN LowerCase(next.tag) ELSE <<>>,
             attribute |-> IF next.token = "attribute" THEN next.attribute ELSE <<>>,
             value |-> IF next.token \in {"attribute", "data"} THEN next.value ELSE <<>>]
        From(next) ==
            IF next.token \in Stops THEN <<>>
            ELSE (IF Skipped(next) THEN <<>> ELSE <<Item(next)>>) \o MarkupFrom(text, next)
    IN  From(NextToken(text, s))

Markup(text) == MarkupFrom(text, Scanner)

\* What the constructor makes of a whole text.
RECURSIVE Reread(_, _)
Reread(text, h) ==
    LET On(token, next) ==
            CASE token = "text" -> OnText(next)
              [] token = "tagStart" -> OnTagStart(text, next)
              [] token = "tagEnd" -> OnTagEnd(next)
              [] token = "attribute" -> OnAttribute(next)
              [] token = "data" -> OnData(next)
              [] token \in {"commentStart", "instructionStart"} -> OnMarkupStart(next, "comment")
              [] token = "eof" -> OnEof(next)
              [] token \in {"error", "endless"} -> Abort(next)
              [] OTHER -> next
        With(scanner) == Reread(text, On(scanner.token, [h EXCEPT !.scanner = scanner]))
    IN  IF h.outcome # "reading" THEN h ELSE With(NextToken(text, h.scanner))

Ink(text) == SelectSeq(text, LAMBDA c : c \notin Blank)
Occurrences(text, part) ==
    Cardinality({p \in 1..(Len(text) - Len(part) + 1) : SubSeq(text, p, p + Len(part) - 1) = part})

Delivered == stage = "done" /\ options.html
\* The document does not end inside of a comment or of a tag.
Closed == html.scanner.fun = "body"
\* The source of a response has the markup of the document, tag by tag with its
\* attributes and data (html.cpp:510, restoreSource): what the constructor took
\* apart can be put together from the spans.
SourceMarkup == Delivered /\ Closed => Markup(response.source.text) = Markup(doc)

\* The translation is markup that the constructor accepts: whatever the
\* alignments, its tags are nested and closed (html.cpp:553, restoreTarget).
TranslationIsMarkup ==
    Delivered => Reread(response.target.text, Html).outcome = "read"

\* Every tag of the document is in the translation, aligned or not, in a word or
\* between two (html.cpp:560, the stragglers).
NothingLost ==
    Delivered =>
        \A t \in DOMAIN html.pool :
            LET text == OpenText(html.pool[t])
            IN  text # <<>> =>
                    Occurrences(response.target.text, text) >=
                        Cardinality({u \in DOMAIN html.pool : OpenText(html.pool[u]) = text})

\* Between the tags stands the translation, every character of it in its place
\* (html.cpp:180, TokenFormatter: tags go in at offsets that move with them),
\* but with such a token a word may end up inside of an element that is copied.
TextKept ==
    Delivered /\ options.vocab # "lone" =>
        Ink(Reread(response.target.text, Html).source) = Ink(translation)

\* The texts of a response and of the step before it are annotated without holes,
\* with as many sentences on both sides, each of which fits in a batch row
\* (text_processor.cpp:225, wrap; annotation.h:201, apply).
AnnotationsHold ==
    /\ IsAnnotation(response.source) /\ IsAnnotation(response.target)
    /\ NumSentences(response.source) = NumSentences(response.target)
    /\ \A n \in ToSet(Segments(response.source)) : n <= MaxLengthBreak
    /\ stage = "restore" => Ink(response.source.text) =
           FlattenSeq([s \in 1..NumSentences(response.source) |->
               Ink(Part(response.source.text, Sentence(response.source, s)))])

\* An alignment over a pivot gives each target token all its probability, though
\* the two models cut the pivot text in different tokens (response.cpp:13).
MassKept ==
    stage = "restore" /\ options.pivot =>
        \A s \in DOMAIN response.alignments :
            \A t \in DOMAIN response.alignments[s] :
                FoldLeft(+, 0, response.alignments[s][t]) = Unit * Unit
=============================================================================
