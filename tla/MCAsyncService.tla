--------------------------- MODULE MCAsyncService ---------------------------
(***************************************************************************)
(* Small instances of AsyncService for TLC: two workers, two models, a     *)
(* short segment of one token and a long one of two.                       *)
(***************************************************************************)
EXTENDS AsyncService, FiniteSetsExt, SequencesExt

CONSTANTS m1, m2, short, long

\* An address for every request.
RequestsTwo == 1..2
RequestsThree == 1..3

MCTokens == [s \in Segments |-> IF s = short THEN 1 ELSE IF s = long THEN 2 ELSE 3]

\* The second model sees a segment of the other length than the first did.
MCRetokenize == [h \in Histories |-> IF h[2] = long THEN short ELSE long]

\* What a client asks to translate; the empty text has no segment.
ShortTexts == {<<short>>, <<short, long>>}
SomeTexts == {<<>>, <<short, long>>}

OnePivot == {<<m1, m2>>}

\* An injection of the histories in the positive numbers.
MCHash == LET all == SetToSeq(Histories)
          IN  [h \in Histories |-> CHOOSE i \in 1..Len(all) : all[i] = h]

ThreadSymmetry == Permutations(Workers) \cup Permutations(Clients)
=============================================================================
