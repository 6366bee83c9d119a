----------------------------- MODULE HtmlMarkup -----------------------------
(***************************************************************************)
(* class HTML (inference/src/translator/html.cpp).  The constructor takes  *)
(* the markup out of a text and remembers, span by span, which tags were   *)
(* open; restore() puts the markup back in the source and, along the       *)
(* alignments, in the translation.  A tag is its index in pool.            *)
(***************************************************************************)
EXTENDS MarkupScanner, TranslationResponse

CONSTANTS
    VoidTags, InlineTags, InWordTags, IgnoredTags,   \* Options: sets of names
    Delimiters,                     \* continuationDelimiters
    SubstituteInlineTagsWithSpaces

-----------------------------------------------------------------------------
(* The constructor: its local variables and members as a record, and one   *)
(* operator for each case of the loop over the scanner's tokens.           *)

Html ==
    [scanner |-> Scanner, source |-> <<>>, stack |-> <<>>, pool |-> <<>>, tag |-> 0,
     spans |-> <<[begin |-> 0, end |-> 0, tags |-> <<>>]>>,
     sentenceBreak |-> FALSE, wordBreak |-> FALSE, outcome |-> "reading"]

Abort(h) == [h EXCEPT !.outcome = "aborted"]

\* isContinuation
IsContinuation(prev, str) ==
    /\ prev # <<>> /\ str # <<>> /\ Delimiters # {}
    /\ str[1] \notin Delimiters /\ Last(prev) \notin Delimiters

MakeTag(h, type, name) ==
    [h EXCEPT !.pool = Append(@, [type |-> type, name |-> name,
                                  attributes |-> <<>>, data |-> <<>>])]

\* An empty span under the tags that are open, with those of more on top.
EmptySpan(h, more) ==
    [h EXCEPT !.spans = Append(@, [begin |-> Len(h.source), end |-> Len(h.source),
                                   tags |-> h.stack \o more])]

\* Breaks after a tag: the text that follows is a sentence, or a word, of its own.
SetBreaks(h, name) ==
    [h EXCEPT !.sentenceBreak = @ \/ name \notin InlineTags,
              !.wordBreak = @ \/ (name \in InlineTags /\ name \notin InWordTags)]

ParagraphBreak == <<"\n", "\n">>
EndsWith(text, tail) ==
    Len(text) >= Len(tail) /\ SubSeq(text, Len(text) - Len(tail) + 1, Len(text)) = tail

\* TT_TEXT
OnText(h) ==
    LET value == h.scanner.value
        broken == MakeTag(h, "whitespace", <<>>)
        h1 == IF /\ h.sentenceBreak
                 /\ Len(h.source) >= 2 /\ ~EndsWith(h.source, ParagraphBreak)
              THEN [EmptySpan(broken, <<Len(broken.pool)>>) EXCEPT
                        !.source = @ \o ParagraphBreak]
              ELSE h
        space == IF /\ h.wordBreak /\ SubstituteInlineTagsWithSpaces
                    /\ IsContinuation(h1.source, value)
                 THEN <<" ">> ELSE <<>>
        begin == Len(h1.source \o space)
    IN  [h1 EXCEPT !.source = @ \o space \o value,
                   !.spans = Append(@, [begin |-> begin, end |-> begin + Len(value),
                                        tags |-> h.stack]),
                   !.sentenceBreak = FALSE, !.wordBreak = FALSE]

FormatAttribute(s) ==
    <<" ">> \o s.attribute \o <<"=", "\"">> \o s.value \o <<"\"">>

\* consumeIgnoredTag, its first loop: the attributes of the tag's head.
RECURSIVE ConsumeHead(_, _, _)
ConsumeHead(in, s, attributes) ==
    LET Consume(next) ==
            IF next.token = "attribute"
            THEN ConsumeHead(in, next, attributes \o FormatAttribute(next))
            ELSE [scanner |-> next, attributes |-> attributes]
    IN  Consume(NextToken(in, s))

\* consumeIgnoredTag, its second loop: up to the closing tag that matches.
RECURSIVE ConsumeInside(_, _, _, _)
ConsumeInside(in, s, name, inside) ==
    LET depth == CASE s.token = "tagStart" /\ LowerCase(s.tag) = name -> inside + 1
                   [] s.token = "tagEnd" /\ LowerCase(s.tag) = name -> inside - 1
                   [] OTHER -> inside
    IN  IF depth = 0 \/ s.token \in Stops THEN s
        ELSE ConsumeInside(in, NextToken(in, s), name, depth)

ConsumeIgnoredTag(doc, h, name) ==
    LET t == h.tag
        Consumed(head, last) ==
            IF last.token \in Stops THEN [Abort(h) EXCEPT !.scanner = last]
            ELSE [h EXCEPT !.scanner = last, !.pool[t].attributes = head.attributes,
                           !.pool[t].data = SubSeq(doc, head.scanner.start, last.start - 1)]
        After(head) == Consumed(head, ConsumeInside(doc, head.scanner, name, 1))
    IN  After(ConsumeHead(doc, h.scanner, <<>>))

\* TT_TAG_START
OnTagStart(doc, h) ==
    LET name == LowerCase(h.scanner.tag)
        void == name \in VoidTags
        made == [MakeTag(h, IF void THEN "void" ELSE "element", h.scanner.tag) EXCEPT
                    !.tag = Len(h.pool) + 1]
        t == made.tag
        next == IF void THEN EmptySpan(made, <<t>>)
                ELSE IF name \in IgnoredTags
                THEN EmptySpan(ConsumeIgnoredTag(doc, made, name), <<t>>)
                ELSE [made EXCEPT !.stack = Append(@, t)]
    IN  SetBreaks(next, name)

\* TT_TAG_END
OnTagEnd(h) ==
    LET name == LowerCase(h.scanner.tag)
        top == Last(h.stack)
        seen == top \in ToSet(Last(h.spans).tags)
        closed == [(IF seen THEN h ELSE EmptySpan(h, <<>>)) EXCEPT !.stack = Front(@)]
    IN  IF name \in VoidTags THEN h
        ELSE IF h.stack = <<>> THEN Abort(h)
        ELSE IF LowerCase(h.pool[top].name) # name THEN Abort(h)
        ELSE SetBreaks(closed, name)

\* TT_ATTRIBUTE
OnAttribute(h) ==
    LET t == h.tag IN [h EXCEPT !.pool[t].attributes = @ \o FormatAttribute(h.scanner)]

\* TT_COMMENT_START, TT_PROCESSING_INSTRUCTION_START
OnMarkupStart(h, type) ==
    LET made == MakeTag(h, type, <<>>)
    IN  EmptySpan([made EXCEPT !.tag = Len(made.pool)], <<Len(made.pool)>>)

\* TT_DATA
OnData(h) == LET t == h.tag IN [h EXCEPT !.pool[t].data = h.scanner.value]

\* TT_EOF, and what follows the loop.
OnEof(h) ==
    IF h.stack # <<>> THEN Abort(h) ELSE [EmptySpan(h, <<>>) EXCEPT !.outcome = "read"]

-----------------------------------------------------------------------------
(* restore(): one piece of text for every token of the source, then of the *)
(* target, gaps included.                                                  *)

\* encodeEntities, of three of the entities that the scanner knows.
EncodeEntities(text) ==
    FlattenSeq([i \in DOMAIN text |->
        LET which == {e \in {"lt", "gt", "amp"} : Entity[e] = text[i]}
        IN  IF which = {} THEN <<text[i]>> ELSE Encoded(CHOOSE e \in which : TRUE)])

\* countPrefixWhitespaces
CountPrefixWhitespaces(token) == SkipWhitespace(token, 1) - 1

\* Slip: the text is put in as it is.
TokenFormatterRaw(token) ==
    [html |-> token, offset |-> 0, spaceOffset |-> 0,
     spaceSize |-> CountPrefixWhitespaces(token), closeLeft |-> TRUE]

\* TokenFormatter: its html with room for tags before and behind the white
\* space at its start.
TokenFormatter(token) ==
    [html |-> EncodeEntities(token), offset |-> 0, spaceOffset |-> 0,
     spaceSize |-> CountPrefixWhitespaces(token), closeLeft |-> TRUE]

Insert(html, p, text) == SubSeq(html, 1, p) \o text \o SubSeq(html, p + 1, Len(html))

\* TokenFormatter::append, a closing tag
CloseTag(f, tag) ==
    LET text == <<"<", "/">> \o tag.name \o <<">">>
    IN  [f EXCEPT
            !.html = Insert(@, f.offset + (IF f.closeLeft THEN 0 ELSE f.spaceSize), text),
            !.offset = @ + Len(text),
            !.spaceOffset = IF f.closeLeft THEN @ + Len(text) ELSE @]

\* The text of an opening tag.
OpenText(tag) ==
    CASE tag.type \in {"element", "void"} ->
            <<"<">> \o tag.name \o tag.attributes \o <<">">> \o tag.data
      [] tag.type = "comment" -> <<"<", "!", "-", "-">> \o tag.data \o <<"-", "-", ">">>
      [] tag.type = "instruction" -> <<"<", "?">> \o tag.data \o <<"?", ">">>
      [] tag.type = "whitespace" -> <<>>

\* TokenFormatter::append, an opening tag.  A paragraph break that was put in
\* has no text: it takes two line ends out of the white space instead.
OpenTag(f, tag) ==
    LET at == FindText(f.html, f.spaceOffset + 1, ParagraphBreak)
        eats == tag.type = "whitespace" /\ at # 0 /\ at <= f.spaceOffset + f.spaceSize
        g == IF eats
             THEN [f EXCEPT !.html = SubSeq(@, 1, at - 1) \o SubSeq(@, at + 2, Len(@)),
                            !.spaceSize = @ - 2]
             ELSE f
        text == OpenText(tag)
    IN  [g EXCEPT !.html = Insert(@, g.offset + g.spaceSize, text),
                  !.offset = @ + Len(text),
                  !.closeLeft = @ /\ text = <<>>]

\* Slip: closed in the order in which they were opened.
ClosingFirstToLast(prev, curr, pool) ==
    SelectSeq(SubSeq(prev, Len(LongestCommonPrefix({prev, curr})) + 1, Len(prev)),
              LAMBDA t : pool[t].type = "element")

\* diffTags: what to close, the last first, and what to open.
Closing(prev, curr, pool) ==
    SelectSeq(Reverse(SubSeq(prev, Len(LongestCommonPrefix({prev, curr})) + 1, Len(prev))),
              LAMBDA t : pool[t].type = "element")
Opening(prev, curr) ==
    SubSeq(curr, Len(LongestCommonPrefix({prev, curr})) + 1, Len(curr))

\* TokenFormatter::append
AppendMarkup(f, prev, curr, pool) ==
    LET Close(g, t) == CloseTag(g, pool[t])
        Open(g, t) == OpenTag(g, pool[t])
    IN  FoldLeft(Open, FoldLeft(Close, f, Closing(prev, curr, pool)), Opening(prev, curr))

\* The markup of a sequence of stacks, each from the one before it.
AppendStacks(f, prev, stacks, pool) ==
    LET Step(acc, stack) == [f |-> AppendMarkup(acc.f, acc.prev, stack, pool), prev |-> stack]
    IN  FoldLeft(Step, [f |-> f, prev |-> prev], stacks).f

\* Slip: no special case for the last token.
SourceTokenSpansToText(h, source) ==
    LET Reached(k) == {i \in DOMAIN h.spans : h.spans[i].begin < Token(source, k).end}
        Step(spans, k) == Append(spans, Max(Reached(k) \cup {Last(<<1>> \o spans)}))
    IN  FoldLeft(Step, <<>>, [k \in 1..NumTokens(source) |-> k])

\* sourceTokenSpans: the last span that begins before the end of the token, and
\* for the last token the last span.
SourceTokenSpans(h, source) ==
    LET Reached(k) == {i \in DOMAIN h.spans : h.spans[i].begin < Token(source, k).end}
        Step(spans, k) ==
            Append(spans, IF k = NumTokens(source) THEN Len(h.spans)
                          ELSE Max(Reached(k) \cup {Last(<<1>> \o spans)}))
    IN  FoldLeft(Step, <<>>, [k \in 1..NumTokens(source) |-> k])

\* restoreSource
RestoreSource(h, source) ==
    LET spans == SourceTokenSpans(h, source)
        From(k) == IF k = 1 THEN 1 ELSE spans[k - 1]
        Piece(k) ==
            AppendStacks(TokenFormatter(Part(source.text, Token(source, k))),
                         h.spans[From(k)].tags,
                         [i \in 1..(spans[k] - From(k)) |-> h.spans[From(k) + i].tags],
                         h.pool).html
    IN  Apply(source, [k \in DOMAIN spans |-> Piece(k)])

\* The first of the largest entries of a row.
ArgMax(row) == CHOOSE s \in DOMAIN row :
    \A r \in DOMAIN row : row[r] < row[s] \/ (row[r] = row[s] /\ s <= r)

\* hardAlignments, of one sentence, before EOS: the source token of each target
\* token.  A token that continues a word and its word share one.
AlignToken(response, spans, offset, s, best, t) ==
    LET text(w) == Part(response.target.text, Word(response.target, s, w))
        Continues(w) == w > 1 /\ IsContinuation(text(w - 1), text(w))
        start == Max({w \in 1..t : ~Continues(w) /\ \A v \in (w + 1)..t : Continues(v)})
        curr == best[t]
        prev == best[t - 1]
        Extends == IsPrefix(spans[offset + prev].tags, spans[offset + curr].tags)
    IN  IF ~Continues(t) THEN best
        ELSE IF Extends \/ response.alignments[s][t][curr] >= response.alignments[s][t - 1][prev]
        THEN [w \in DOMAIN best |-> IF w \in start..t THEN curr ELSE best[w]]
        ELSE [best EXCEPT ![t] = prev]

\* hardAlignments
HardAlignments(response, tokenSpans) ==
    LET Of(s) ==
            LET words == NumWords(response.target, s)
                best == [t \in 1..(words - 1) |-> ArgMax(response.alignments[s][t])]
                Step(acc, t) == AlignToken(response, tokenSpans, response.source.gap[s], s, acc, t)
            IN  Append(FoldLeft(Step, best, [t \in 1..(words - 1) |-> t]),
                       NumWords(response.source, s))
    IN  [s \in 1..NumSentences(response.target) |-> Of(s)]

\* copyTagStack: the span of every target token; a gap has that of its gap.
TargetTokenSpans(response, hard, sourceSpans) ==
    LET gap == response.source.gap
        Of(s) == <<sourceSpans[gap[s]]>> \o
                 [t \in DOMAIN hard[s] |-> sourceSpans[gap[s] + hard[s][t]]]
    IN  Append(FlattenSeq([s \in DOMAIN hard |-> Of(s)]), sourceSpans[Last(gap)])

\* annotateTagStack: with quality scores, an element around each sentence and
\* one around each of its words.
Annotate(h, response, tokenSpans) ==
    LET Step(acc, s) ==
            LET sentence == Len(acc.pool) + 1
                words == response.wordRanges[s]
                Of(t) == <<sentence>> \o
                         [w \in 1..Len(SelectSeq(words, LAMBDA r : r.begin < t /\ t <= r.end))
                            |-> sentence + CHOOSE i \in DOMAIN words :
                                    words[i].begin < t /\ t <= words[i].end]
                made == [i \in 1..(Len(words) + 1) |->
                            [type |-> "element", name |-> <<"f">>,
                             attributes |-> <<>>, data |-> <<>>]]
            IN  [pool |-> acc.pool \o made,
                 more |-> acc.more \o <<<<>>>> \o
                          [t \in 1..NumWords(response.target, s) |-> Of(t)]]
        none == [pool |-> h.pool, more |-> <<>>]
        end == FoldLeft(Step, none, [s \in 1..NumSentences(response.target) |-> s])
        Tags(k) == h.spans[tokenSpans[k]].tags
    IN  IF response.wordRanges = <<>>
        THEN [pool |-> h.pool, tags |-> [k \in DOMAIN tokenSpans |-> Tags(k)]]
        ELSE [pool |-> end.pool,
              tags |-> [k \in DOMAIN tokenSpans |->
                           Tags(k) \o (IF k \in DOMAIN end.more THEN end.more[k] ELSE <<>>)]]

\* Slip: a span of text that no token is aligned with is left out.
RestoreTargetWithoutUnaligned(h, target, tokenSpans, annotated) ==
    LET last == Len(tokenSpans)
        straggler == [k \in 1..last |-> Max({1} \cup {tokenSpans[j] : j \in 1..(k - 1)})]
        IsStray(i) == Size(h.spans[i]) = 0
        Stray(k) == SelectSeq([i \in 1..Max({0, tokenSpans[k] - straggler[k]}) |->
                                  straggler[k] + i - 1], IsStray)
        Stacks(k) == [i \in DOMAIN Stray(k) |-> h.spans[Stray(k)[i]].tags]
                     \o <<annotated.tags[k]>> \o (IF k = last THEN <<<<>>>> ELSE <<>>)
        Piece(k) == AppendStacks(TokenFormatter(Part(target.text, Token(target, k))),
                                 IF k = 1 THEN <<>> ELSE annotated.tags[k - 1],
                                 Stacks(k), annotated.pool).html
    IN  Apply(target, [k \in 1..last |-> Piece(k)])

\* restoreTarget: before the tags of a token come the spans up to its own that
\* are empty, or that no token has.
RestoreTarget(h, target, tokenSpans, annotated) ==
    LET last == Len(tokenSpans)
        straggler == [k \in 1..last |-> Max({1} \cup {tokenSpans[j] : j \in 1..(k - 1)})]
        IsStray(i) == \/ Size(h.spans[i]) = 0
                      \/ i \notin ToSet(tokenSpans)
        Stray(k) == SelectSeq([i \in 1..Max({0, tokenSpans[k] - straggler[k]}) |->
                                  straggler[k] + i - 1], IsStray)
        Stacks(k) == [i \in DOMAIN Stray(k) |-> h.spans[Stray(k)[i]].tags]
                     \o <<annotated.tags[k]>> \o (IF k = last THEN <<<<>>>> ELSE <<>>)
        Piece(k) == AppendStacks(TokenFormatter(Part(target.text, Token(target, k))),
                                 IF k = 1 THEN <<>> ELSE annotated.tags[k - 1],
                                 Stacks(k), annotated.pool).html
    IN  Apply(target, [k \in 1..last |-> Piece(k)])

\* restore(), of a response that has alignments
Restore(h, response) ==
    LET sourceSpans == SourceTokenSpans(h, response.source)
        spansOf == [k \in DOMAIN sourceSpans |-> h.spans[sourceSpans[k]]]
        hard == HardAlignments(response, spansOf)
        targetSpans == TargetTokenSpans(response, hard, sourceSpans)
    IN  [response EXCEPT
            !.source = RestoreSource(h, response.source),
            !.target = RestoreTarget(h, response.target, targetSpans,
                                     Annotate(h, response, targetSpans))]
=============================================================================
