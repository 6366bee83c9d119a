---------------------------- MODULE MCCorpusMerge ----------------------------
EXTENDS CorpusMerge

\* Two or three short datasets, with a line that one repeats from another, a line with a
\* source that was seen with another target, and a line with a tab.
A == <<"a", "A">>
B == <<"b", "B">>
C == <<"c", "C">>
X == <<"a", "X">>
T == <<"tab", "C">>
Lines == {A, B, C, X, T}
MCContents ==
    {<<u, v, <<C>> >> : u \in {<<>>, <<A, X>>, <<B, A, T>>},
                        v \in {<<p, q>> : p \in Lines, q \in Lines}}
=============================================================================
