---------------------------- MODULE MCEngineText ----------------------------
(***************************************************************************)
(* Documents of a text, some markup and a text, also inside an element.    *)
(* The names of the tags stand for: b and i inline elements, p a block, v  *)
(* an image, h a line break, w a word break, k and c elements that are     *)
(* copied (kbd, code), s a script.                                         *)
(***************************************************************************)
EXTENDS EngineText

Head1(name) == <<"<", name, ">">>
Tail1(name) == <<"<", "/", name, ">">>
In(name, text) == Head1(name) \o text \o Tail1(name)

Before == {<<>>, <<"x">>, <<"x", ".">>, <<"x", " ">>}
After == {<<>>, <<"x">>, <<" ", "x">>}
Things ==
    {Head1("v"), Head1("h"), Head1("w"), <<"<", "v", "/", ">">>,
     <<"<", "!", "-", "-", "x", "-", "-", ">">>, <<"<", "?", "x", "?", ">">>,
     In("k", <<"x">>), In("c", In("c", <<"x">>)), In("s", <<"<", "x">>),
     In("b", <<>>), In("b", <<"y">>), In("p", <<"y">>), In("p", In("i", <<"y">>)),
     <<"<", "b", "/", ">">>}
Simple == {a \o m \o b : a \in Before, m \in Things, b \in After}
Nested == {In(name, <<"x">> \o m \o b) \o c :
              name \in {"b", "p"}, m \in Things, b \in {<<>>, <<"y">>}, c \in {<<"z">>}}
Odd ==
    {<<"<", "B", " ", "x", "=", "y", " ", "y", ">", "x">> \o Tail1("b"),
     <<"<", "b", " ", "x", "=", "\"", " ", ">", "\"", ">", "x">> \o Tail1("b"),
     <<"<", "v", " ", "x", "=", " ", "'", "y", "'", "/", ">">>,
     <<"x", "&", "l", "t", ";", "y">>, <<"x", "&", "l", " ">>,
     <<"<", "k", " ", "x", ">", "&", "g", "t", ";">> \o Tail1("K"),
     <<"<", "b", ">">>, Tail1("b"), <<"<", "b">>, <<"<", "b", " ", "x">>,
     <<"<", "b", " ", "<">>, <<"<", "b", " ", "x", "=", "y">>,
     <<"<", "b", " ", "x", "=", "'">>, <<"<", "!", "-", "-", "x">>, <<"<", "k", ">", "x">>,
     In("b", Head1("i")), <<"<", "b", "/", "x">>, <<"<", "/", "b", " ">>,
     <<"<", "s", ">", "x">>, <<"<", "/", "b", "/", ">">>}

Chained == {In("b", <<"x">> \o m \o <<"y", "z", ".">>) \o <<"x">> :
               m \in {Head1("v"), Head1("h"), In("i", <<"y">>)}}
Bare == {Head1("v"), <<"<", "?", "x", "?", ">">>, In("b", <<>>), In("i", <<"y">>)}
Sentences == {a \o m \o b \o m \o c : a \in {<<"x", ".">>}, m \in Bare,
                 b \in {<<>>, <<" ">>}, c \in {<<"x">>, <<" ", "x">>}}

Base == [html |-> TRUE, pivot |-> FALSE, quality |-> FALSE, concat |-> "faithful",
         vocab |-> "pieces", language |-> "none"]
MCRequests ==
    [doc : Simple \cup Nested \cup Odd, options : {Base}]
    \cup
    [doc : Nested, options : {[Base EXCEPT !.quality = TRUE, !.concat = "space"],
                              [Base EXCEPT !.vocab = "lone"]}]
    \cup
    [doc : Sentences, options : {[Base EXCEPT !.language = "spaced"],
                                 [Base EXCEPT !.language = "unspaced"]}]
    \cup
    [doc : Chained, options : {[Base EXCEPT !.pivot = TRUE, !.quality = TRUE,
                                            !.language = "unspaced"]}]
    \cup
    [doc : {<<"x", "y", " ", "z", ".", "x">>},
     options : {[Base EXCEPT !.html = FALSE, !.pivot = TRUE, !.vocab = "long"]}]
MCOutputs == {<<<<"y">>>>, <<<<"y">>, <<" ", "y">>>>, <<<<"y">>, <<"<">>>>}
MCNames(names) == {<<n>> : n \in names}
MCVoidTags == MCNames({"v", "h", "w"})
MCInlineTags == MCNames({"b", "i", "v", "w", "k"})
MCInWordTags == MCNames({"w"})
MCIgnoredTags == MCNames({"k", "c"})
MCOpaqueTags == MCNames({"s"})
MCDelimiters == {"\n", " ", "."}
MCLower == [B |-> "b", K |-> "k"]
=============================================================================
