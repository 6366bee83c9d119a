--------------------------- MODULE MarkupScanner ---------------------------
(***************************************************************************)
(* The scanner of HTML (inference/src/translator/xh_scanner.cpp).  A text  *)
(* is a sequence of characters.  The state of a scanner is a record: the   *)
(* position of the next character, the reader scanFun_, what the last call *)
(* of next() left in tagName_, attributeName_ and value_, and the token it *)
(* returned.  Positions count from 1, as sequences do.                     *)
(***************************************************************************)
EXTENDS Integers, Sequences, FiniteSetsExt

CONSTANTS
    Letters,         \* characters for which isalpha holds
    Lower,           \* tolower, of the characters that it changes
    OpaqueTags       \* elements whose content is not markup, e.g. script

Spaces == {" ", "\n"}
End == "eof"         \* what peek() returns behind the last character

Peek(in, p) == IF p <= Len(in) THEN in[p] ELSE End

\* The first position from p on with a character of S, or the end.
Find(in, p, S) ==
    LET found == {q \in p..Len(in) : in[q] \in S}
    IN  IF found = {} THEN Len(in) + 1 ELSE Min(found)

\* The first position from p on that is not white space.
SkipWhitespace(in, p) ==
    LET found == {q \in p..Len(in) : in[q] \notin Spaces}
    IN  IF found = {} THEN Len(in) + 1 ELSE Min(found)

\* The first position from p on where the text tail starts, or 0.
FindText(in, p, tail) ==
    LET found == {q \in p..(Len(in) - Len(tail) + 1) :
                      SubSeq(in, q, q + Len(tail) - 1) = tail}
    IN  IF found = {} THEN 0 ELSE Min(found)

\* equalsCaseInsensitive and toLowerCase
LowerCase(s) == [i \in DOMAIN s |-> IF s[i] \in DOMAIN Lower THEN Lower[s[i]] ELSE s[i]]

Scanner ==
    [pos |-> 1, fun |-> "body", gotTail |-> FALSE, start |-> 1, value |-> <<>>,
     tag |-> <<>>, attribute |-> <<>>, token |-> "none"]

\* next() returns token with the input at position p.
Return(s, token, p) == [s EXCEPT !.token = token, !.pos = p]

Entity == [lt |-> "<", gt |-> ">", amp |-> "&", quot |-> "\"", apos |-> "'", nbsp |-> " "]
EntityName(e) ==
    CASE e = "lt" -> <<"l", "t">> [] e = "gt" -> <<"g", "t">> [] e = "amp" -> <<"a", "m", "p">>
      [] e = "quot" -> <<"q", "u", "o", "t">> [] e = "apos" -> <<"a", "p", "o", "s">>
      [] e = "nbsp" -> <<"n", "b", "s", "p">>
Encoded(e) == <<"&">> \o EntityName(e) \o <<";">>

\* resolveEntity: the character an entity stands for, else its own text.
ResolveEntity(text) ==
    LET which == {e \in DOMAIN Entity : Encoded(e) = text}
    IN  IF which = {} THEN text ELSE <<Entity[CHOOSE e \in which : TRUE]>>

\* scanEntity: up to and with the ";", or up to the first character that is not
\* a letter, which leaves the text as it is.
ScanEntity(in, s) ==
    LET others == {q \in (s.pos + 1)..Len(in) : in[q] \notin Letters}
        stop == IF others = {} THEN Len(in) + 1 ELSE Min(others)
        next == IF Peek(in, stop) = ";" THEN stop + 1 ELSE stop
    IN  [Return(s, "text", next) EXCEPT
            !.start = s.pos, !.value = ResolveEntity(SubSeq(in, s.pos, next - 1))]

\* scanComment, scanProcessingInstruction and scanSpecial: the data up to tail,
\* then, on the call that follows, the token of the tail itself.
ScanData(in, s, tail, token) ==
    LET at == FindText(LowerCase(in), s.pos, tail)
    IN  IF s.gotTail
        THEN [Return(s, token, s.pos) EXCEPT
                 !.start = s.pos - Len(tail), !.fun = "body", !.gotTail = FALSE]
        ELSE IF at = 0
        THEN [Return(s, "eof", Len(in) + 1) EXCEPT
                 !.start = s.pos, !.value = SubSeq(in, s.pos, Len(in))]
        ELSE [Return(s, "data", at + Len(tail)) EXCEPT
                 !.start = s.pos, !.value = SubSeq(in, s.pos, at - 1), !.gotTail = TRUE]

ScanComment(in, s) == ScanData(in, s, <<"-", "-", ">">>, "commentEnd")
ScanProcessingInstruction(in, s) == ScanData(in, s, <<"?", ">">>, "instructionEnd")
ScanSpecial(in, s) == ScanData(in, s, <<"<", "/">> \o LowerCase(s.tag) \o <<">">>, "tagEnd")

\* scanTag: the head of an opening tag, a whole closing tag, or the start of a
\* comment or of a processing instruction.  The name is tested at every
\* character, so "<?x" starts an instruction.
ScanTag(in, s) ==
    LET tail == Peek(in, s.pos + 1) = "/"
        first == IF tail THEN s.pos + 2 ELSE s.pos + 1
        name == SubSeq(in, first, Find(in, first, Spaces \cup {"/", ">"}) - 1)
        after == SkipWhitespace(in, first + Len(name))
        at == [s EXCEPT !.start = s.pos, !.tag = name]
    IN  CASE Len(name) > 2 /\ SubSeq(name, 1, 3) = <<"!", "-", "-">>
               -> [Return(at, "commentStart", first + 3) EXCEPT
                      !.fun = "comment", !.tag = SubSeq(name, 1, 3)]
          [] Len(name) > 0 /\ name[1] = "?"
               -> [Return(at, "instructionStart", first + 1) EXCEPT
                      !.fun = "instruction", !.tag = <<"?">>]
          [] OTHER
               -> IF Peek(in, after) = End THEN Return(at, "eof", after)
                  ELSE IF tail
                  THEN Return(at, IF in[after] = ">" THEN "tagEnd" ELSE "error", after + 1)
                  ELSE [Return(at, "tagStart", after) EXCEPT !.fun = "attribute"]

\* scanBody: an entity, a tag, or the text up to the next of them.
ScanBody(in, s) ==
    LET at == [s EXCEPT !.start = s.pos, !.value = <<>>]
        next == Find(in, s.pos, {"<", "&"})
    IN  CASE Peek(in, s.pos) = End -> Return(at, "eof", s.pos)
          [] Peek(in, s.pos) = "<" -> ScanTag(in, at)
          [] Peek(in, s.pos) = "&" -> ScanEntity(in, at)
          [] OTHER -> [Return(at, "text", next) EXCEPT !.value = SubSeq(in, s.pos, next - 1)]

\* scanAttribute, from the value on: quoted, or up to white space or ">".  The
\* loop over a value without quotes has no exit at the end of the input.
ScanValue(in, s, p) ==
    LET quote == Peek(in, p)
        close == Find(in, p + 1, {quote})
        stop == Find(in, p, Spaces \cup {">"})
    IN  IF quote \in {"'", "\""}
        THEN IF close > Len(in) THEN Return(s, "error", close)
             ELSE [Return(s, "attribute", close + 1) EXCEPT !.value = SubSeq(in, p + 1, close - 1)]
        ELSE IF stop > Len(in) THEN Return(s, "endless", stop)
             ELSE [Return(s, "attribute", stop) EXCEPT !.value = SubSeq(in, p, stop - 1)]

\* scanAttribute: the end of the tag's head, and what follows it, or one of its
\* attributes.
ScanAttribute(in, s) ==
    LET p == SkipWhitespace(in, s.pos)
        stop == Find(in, p, Spaces \cup {"=", ">", "<"})
        next == SkipWhitespace(in, stop)
        at == [s EXCEPT !.attribute = SubSeq(in, p, stop - 1), !.value = <<>>]
    IN  CASE Peek(in, p) = ">"
               -> LET body == [s EXCEPT !.pos = p + 1]
                  IN  IF LowerCase(s.tag) \in OpaqueTags
                      THEN ScanSpecial(in, [body EXCEPT !.fun = "special"])
                      ELSE ScanBody(in, [body EXCEPT !.fun = "body"])
          [] Peek(in, p) = "/"
               -> IF Peek(in, p + 1) = ">"
                  THEN [Return(s, "tagEnd", p + 2) EXCEPT !.fun = "body"]
                  ELSE Return(s, "error", p + 1)
          [] OTHER
               -> CASE Peek(in, stop) = End -> Return(at, "eof", stop)
                    [] Peek(in, stop) = "<" -> Return(at, "error", stop)
                    [] Peek(in, stop) \in Spaces /\ Peek(in, next) # "="
                         -> Return(at, "attribute", next)
                    [] Peek(in, stop) = ">" -> Return(at, "attribute", stop)
                    [] OTHER -> ScanValue(in, at, SkipWhitespace(in, next + 1))

\* One call of next().
NextToken(in, s) ==
    CASE s.fun = "body" -> ScanBody(in, s)
      [] s.fun = "attribute" -> ScanAttribute(in, s)
      [] s.fun = "comment" -> ScanComment(in, s)
      [] s.fun = "instruction" -> ScanProcessingInstruction(in, s)
      [] s.fun = "special" -> ScanSpecial(in, s)

Stops == {"eof", "error", "endless"}
=============================================================================
