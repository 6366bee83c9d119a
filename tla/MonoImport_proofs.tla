-------------------------- MODULE MonoImport_proofs --------------------------
(***************************************************************************)
(* Proofs about the import of monolingual data, for files, retries, chunks *)
(* and buffers of any size, and for any documents, limits and lengths of   *)
(* lines: what HpltDownloader writes are runs of accepted lines, none of   *)
(* which is lost, and a file that was downloaded is whole.                 *)
(***************************************************************************)
EXTENDS MonoImport, TLAPS, SequenceTheorems, FiniteSetTheorems,
        NaturalsInduction, WellFoundedInduction

-----------------------------------------------------------------------------
(* Counting the positions of a set.                                        *)

\* The smallest of some numbers.
LEMMA Smallest ==
    ASSUME NEW S \in SUBSET Nat, S # {}
    PROVE  \E m \in S : \A k \in S : m <= k
<1>1. PICK m \in S : \A k \in S : ~(<<k, m>> \in OpToRel(<, Nat))
  BY NatLessThanWellFounded, WFMin
<1>2. \A k \in S : ~(k < m)
  BY <1>1 DEF OpToRel
<1>3. \A k \in S : k \in Nat
  OBVIOUS
<1> QED BY <1>2, <1>3

\* The lines of a kind among the first n are finitely many.
LEMMA CountIsNat ==
    ASSUME NEW n \in Nat, NEW S
    PROVE  IsFiniteSet(S \cap (1 .. n)) /\ Cardinality(S \cap (1 .. n)) \in Nat
<1>1. IsFiniteSet(1 .. n)
  BY FS_Interval
<1>2. S \cap (1 .. n) \in SUBSET (1 .. n)
  OBVIOUS
<1>3. IsFiniteSet(S \cap (1 .. n))
  BY <1>1, <1>2, FS_Subset
<1> QED BY <1>3, FS_CardinalityType

\* One line more is counted if it is of the kind.
LEMMA CountNext ==
    ASSUME NEW n \in Nat, NEW S
    PROVE  Cardinality(S \cap (1 .. n + 1)) =
               IF n + 1 \in S THEN Cardinality(S \cap (1 .. n)) + 1
                              ELSE Cardinality(S \cap (1 .. n))
<1>1. IsFiniteSet(S \cap (1 .. n))
  BY CountIsNat
<1>2. CASE n + 1 \in S
  <2>1. S \cap (1 .. n + 1) = (S \cap (1 .. n)) \cup {n + 1} /\ n + 1 \notin S \cap (1 .. n)
    BY <1>2
  <2> QED BY <1>1, <1>2, <2>1, FS_AddElement
<1>3. CASE n + 1 \notin S
  <2>1. S \cap (1 .. n + 1) = S \cap (1 .. n)
    BY <1>3
  <2> QED BY <1>3, <2>1
<1> QED BY <1>2, <1>3

\* Nothing is counted before the first line.
LEMMA CountNone == ASSUME NEW S PROVE Cardinality(S \cap (1 .. 0)) = 0
<1>1. S \cap (1 .. 0) = {}
  OBVIOUS
<1> QED BY <1>1, FS_EmptySet

\* The lines counted up to a line are no more than those up to a later line.
LEMMA CountGrows ==
    ASSUME NEW S, NEW i \in Nat, NEW j \in Nat, i <= j
    PROVE  Cardinality(S \cap (1 .. i)) <= Cardinality(S \cap (1 .. j))
<1>1. S \cap (1 .. i) \in SUBSET (S \cap (1 .. j))
  OBVIOUS
<1> QED BY <1>1, CountIsNat, FS_Subset

\* For every number up to the count there is the line that makes it.
LEMMA CountReaches ==
    ASSUME NEW n \in Nat, NEW S \in SUBSET (1 .. n), NEW i \in 1 .. Cardinality(S)
    PROVE  \E l \in S : Cardinality(S \cap (1 .. l)) = i
<1>1. PICK reached : reached = {m \in Nat : Cardinality(S \cap (1 .. m)) >= i}
  OBVIOUS
<1>2. S \cap (1 .. n) = S
  OBVIOUS
<1>3. n \in reached /\ reached \in SUBSET Nat
  BY <1>1, <1>2, CountIsNat
<1>4. PICK m \in reached : \A k \in reached : m <= k
  BY <1>3, Smallest
<1>5. m \in Nat /\ Cardinality(S \cap (1 .. m)) >= i
  BY <1>1
<1>6. m # 0
  <2>1. Cardinality(S \cap (1 .. 0)) = 0
    BY CountNone
  <2> QED BY <1>5, <2>1
<1>7. PICK k \in Nat : k + 1 = m
  BY <1>5, <1>6
<1>8. Cardinality(S \cap (1 .. k)) \in Nat /\ ~(Cardinality(S \cap (1 .. k)) >= i)
  <2>1. Cardinality(S \cap (1 .. k)) \in Nat /\ ~(m <= k)
    BY <1>5, <1>7, CountIsNat
  <2>2. k \notin reached
    BY <1>4, <2>1
  <2> QED BY <1>1, <2>1, <2>2
<1>9. Cardinality(S \cap (1 .. k + 1)) =
          IF k + 1 \in S THEN Cardinality(S \cap (1 .. k)) + 1 ELSE Cardinality(S \cap (1 .. k))
  BY CountNext
<1>10. m \in S /\ Cardinality(S \cap (1 .. m)) = i
  BY <1>5, <1>7, <1>8, <1>9
<1> QED BY <1>10

\* The count goes up at every position of the set, so that it is another one at each.
LEMMA CountRises ==
    ASSUME NEW S, NEW i \in Nat, NEW j \in Nat, i < j, j \in S
    PROVE  Cardinality(S \cap (1 .. i)) < Cardinality(S \cap (1 .. j))
<1>1. PICK k \in Nat : j = k + 1 /\ i <= k
  <2>1. j - 1 \in Nat /\ j = (j - 1) + 1 /\ i <= j - 1
    OBVIOUS
  <2> QED BY <2>1
<1>2. Cardinality(S \cap (1 .. i)) <= Cardinality(S \cap (1 .. k))
  BY <1>1, CountGrows
<1>3. Cardinality(S \cap (1 .. k + 1)) = Cardinality(S \cap (1 .. k)) + 1
  BY <1>1, CountNext
<1>4. /\ Cardinality(S \cap (1 .. i)) \in Nat /\ Cardinality(S \cap (1 .. k)) \in Nat
      /\ Cardinality(S \cap (1 .. j)) = Cardinality(S \cap (1 .. k)) + 1
  BY <1>1, <1>3, CountIsNat
<1> QED BY <1>2, <1>4

-----------------------------------------------------------------------------
(* The stream: its consumer gets the bytes of the file in order.           *)

\* The bytes from a to b are a sequence of numbers.
LEMMA FileIsSeq ==
    ASSUME NEW a \in Nat, NEW b \in Nat, a <= b + 1
    PROVE  File(a, b) \in Seq(Nat) /\ Len(File(a, b)) = b - a + 1
<1> DEFINE n == b - a + 1
<1>1. n \in Nat /\ File(a, b) \in [1 .. n -> Nat] BY DEF File
<1> QED BY <1>1 DEF File

\* A chunk continues the file where the bytes before it end.
LEMMA FileContinues ==
    ASSUME NEW d \in Nat, NEW n \in Nat
    PROVE  File(1, d) \o File(d + 1, d + n) = File(1, d + n)
<1> DEFINE s == File(1, d)  t == File(d + 1, d + n)  u == File(1, d + n)
<1>1. s \in Seq(Nat) /\ Len(s) = d /\ \A i \in 1 .. d : s[i] = i BY FileIsSeq DEF File
<1>2. t \in Seq(Nat) /\ Len(t) = n /\ \A i \in 1 .. n : t[i] = d + i
  <2>1. d + 1 \in Nat /\ d + n \in Nat /\ d + 1 <= (d + n) + 1 OBVIOUS
  <2>2. t \in Seq(Nat) /\ Len(t) = (d + n) - (d + 1) + 1 BY <2>1, FileIsSeq
  <2>3. \A i \in 1 .. n : t[i] = d + i BY DEF File
  <2> QED BY <2>2, <2>3
<1>3. u \in Seq(Nat) /\ Len(u) = d + n /\ \A i \in 1 .. d + n : u[i] = i BY FileIsSeq DEF File
<1> HIDE DEF s, t, u
<1>4. /\ s \o t \in Seq(Nat) /\ Len(s \o t) = d + n
      /\ \A i \in 1 .. d + n : i <= d => (s \o t)[i] = s[i]
      /\ \A i \in 1 .. d + n : ~(i <= d) => (s \o t)[i] = t[i - d]
  BY <1>1, <1>2, ConcatProperties
<1>5. ASSUME NEW i \in 1 .. d + n PROVE (s \o t)[i] = u[i]
  <2>1. CASE i <= d BY <1>1, <1>3, <1>4, <2>1
  <2>2. CASE ~(i <= d)
    <3>1. i - d \in 1 .. n /\ d + (i - d) = i BY <2>2
    <3>2. t[i - d] = d + (i - d) BY <1>2, <3>1
    <3>3. (s \o t)[i] = t[i - d] BY <1>4, <2>2
    <3> QED BY <1>3, <3>1, <3>2, <3>3
  <2> QED BY <2>1, <2>2
<1>6. s \o t = u BY <1>3, <1>4, <1>5, SeqEqual
<1> QED BY <1>6 DEF s, t, u

\* What a read takes from the buffer and what it leaves there are the buffer.
LEMMA ReadSplits ==
    ASSUME NEW r \in Seq(Nat), NEW b \in Seq(Nat), NEW n \in 0 .. Len(b)
    PROVE  /\ SubSeq(b, 1, n) \in Seq(Nat) /\ SubSeq(b, n + 1, Len(b)) \in Seq(Nat)
           /\ (r \o SubSeq(b, 1, n)) \o SubSeq(b, n + 1, Len(b)) = r \o b
<1> DEFINE s == SubSeq(b, 1, n)  t == SubSeq(b, n + 1, Len(b))
<1>1. s \in Seq(Nat) /\ t \in Seq(Nat) BY SubSeqProperties
<1>2. s \o t = b
  <2>1. /\ 1 \in 1 .. Len(b) + 1 /\ n \in 1 - 1 .. Len(b) /\ Len(b) \in n .. Len(b)
    OBVIOUS
  <2>2. s \o t = SubSeq(b, 1, Len(b)) BY <2>1, ConcatAdjacentSubSeq
  <2> QED BY <2>2, SubSeqFull
<1> HIDE DEF s, t
<1>3. (r \o s) \o t = r \o (s \o t)
  BY <1>1, ConcatAssociative, SMTT(60)
<1> QED BY <1>1, <1>2, <1>3 DEF s, t

\* A chunk at the end of the buffer is one at the end of all that was yielded.
LEMMA ChunkAppends ==
    ASSUME NEW r \in Seq(Nat), NEW b \in Seq(Nat), NEW c \in Seq(Nat)
    PROVE  r \o (b \o c) = (r \o b) \o c
  BY ConcatAssociative, SMTT(60)

-----------------------------------------------------------------------------
\* All that was yielded is the file up to the byte that is counted, and the open response
\* goes on there.
StreamInv ==
    /\ downloaded \in 0 .. FileSize /\ next \in Nat /\ size \in Int
    /\ buffer \in Seq(Nat) /\ returned \in Seq(Nat)
    /\ phase = "body" => next = downloaded + 1
    /\ returned \o buffer = File(1, downloaded)

\* Nothing is yielded at the start.
LEMMA InitStream == Init => StreamInv
<1> SUFFICES ASSUME Init PROVE StreamInv OBVIOUS
<1>1. File(1, 0) = <<>> BY DEF File
<1>2. <<>> \o <<>> = <<>> OBVIOUS
<1> QED BY <1>1, <1>2, SizesAssumption DEF Init, StreamInv

\* Each action keeps the bytes and their count together.
LEMMA StepStream ==
    ASSUME HonoursRange, StreamInv, [Next]_vars
    PROVE  StreamInv'
<1> USE DEF StreamInv, generator
<1>1. CASE Request BY <1>1 DEF Request, FirstByte
<1>2. CASE YieldChunk
  <2> PICK n \in 1 .. ChunkBytes :
           /\ next + n - 1 <= FileSize
           /\ Count(n)
           /\ next' = next + n
           /\ buffer' = buffer \o File(next, next + n - 1)
    BY <1>2 DEF YieldChunk
  <2>1. n \in Nat /\ downloaded \in Nat BY SizesAssumption
  <2>2. next = downloaded + 1 BY <1>2 DEF YieldChunk
  <2>3. downloaded' = downloaded + n /\ downloaded' \in 0 .. FileSize
    BY <2>1, <2>2, SizesAssumption DEF Count
  <2>4. /\ next' = downloaded' + 1 /\ next' \in Nat /\ size' \in Int
        /\ returned' = returned /\ returned \in Seq(Nat)
    BY <1>2, <2>1, <2>2, <2>3 DEF YieldChunk
  <2> DEFINE chunk == File(next, next + n - 1)
  <2>5. chunk \in Seq(Nat) BY <2>1, <2>2, FileIsSeq
  <2>6. buffer' \in Seq(Nat) /\ buffer' = buffer \o chunk BY <2>5
  <2>7. chunk = File(downloaded + 1, downloaded + n) BY <2>1, <2>2 DEF File
  <2>8. File(1, downloaded) \o chunk = File(1, downloaded')
    BY <2>1, <2>3, <2>7, FileContinues
  <2> HIDE DEF chunk
  <2>9. returned \o (buffer \o chunk) = (returned \o buffer) \o chunk
    BY <2>5, ChunkAppends
  <2> QED BY <2>3, <2>4, <2>6, <2>8, <2>9
<1>3. CASE BodyEnds BY <1>3 DEF BodyEnds
<1>4. CASE AttemptFails BY <1>4 DEF AttemptFails
<1>5. CASE NextAttempt BY <1>5 DEF NextAttempt
<1>6. CASE CallRead BY <1>6, SizesAssumption DEF CallRead
<1>7. CASE Return
  <2> DEFINE n == IF size < 0 \/ size > Len(buffer) THEN Len(buffer) ELSE size
  <2>1. n \in 0 .. Len(buffer) OBVIOUS
  <2> HIDE DEF n
  <2>2. /\ returned' = returned \o SubSeq(buffer, 1, n)
        /\ buffer' = SubSeq(buffer, n + 1, Len(buffer))
        /\ UNCHANGED <<phase, downloaded, next, size>>
    BY <1>7 DEF Return, Rest, n
  <2>3. returned' \in Seq(Nat) /\ buffer' \in Seq(Nat)
    <3>1. SubSeq(buffer, 1, n) \in Seq(Nat) /\ SubSeq(buffer, n + 1, Len(buffer)) \in Seq(Nat)
      BY <2>1, ReadSplits
    <3>2. returned \o SubSeq(buffer, 1, n) \in Seq(Nat)
      BY <3>1
    <3> QED BY <2>2, <3>1, <3>2
  <2>4. returned' \o buffer' = returned \o buffer BY <2>1, <2>2, ReadSplits
  <2> QED BY <2>2, <2>3, <2>4 DEF File
<1>8. CASE Close BY <1>8 DEF Close
<1>9. CASE UNCHANGED vars BY <1>9 DEF vars
<1> QED BY <1>1, <1>2, <1>3, <1>4, <1>5, <1>6, <1>7, <1>8, <1>9 DEF Next, Stream, Closed

\* The bytes up to the one that is counted begin the file.
LEMMA InvInOrder == StreamInv => BytesInOrder
<1> SUFFICES ASSUME StreamInv PROVE BytesInOrder OBVIOUS
<1> DEFINE s == File(1, downloaded)
<1>1. downloaded \in Nat /\ FileSize \in Nat /\ downloaded <= FileSize
  BY SizesAssumption DEF StreamInv
<1>2. s \in Seq(Nat) /\ Len(s) = downloaded BY <1>1, FileIsSeq
<1>3. Whole \in Seq(Nat) /\ Len(Whole) = FileSize BY <1>1, FileIsSeq DEF Whole
<1>4. \A i \in 1 .. downloaded : s[i] = Whole[i] BY <1>1 DEF Whole, File
<1> HIDE DEF s
<1>5. SubSeq(s, 1, Len(s)) = SubSeq(Whole, 1, Len(s)) BY <1>1, <1>2, <1>3, <1>4
<1> QED BY <1>1, <1>2, <1>3, <1>5 DEF BytesInOrder, IsPrefix, StreamInv, s

\* With a server that honours Range requests, what read() has returned and what is buffered
\* for it begin the file, however often the connection breaks (downloads.py 161-329).
THEOREM StreamInOrder ==
    ASSUME HonoursRange
    PROVE  Spec => []BytesInOrder
<1>1. StreamInv /\ [Next]_vars => StreamInv' BY StepStream
<1> QED BY <1>1, InitStream, InvInOrder, PTL DEF Spec

-----------------------------------------------------------------------------
(* The import.                                                             *)

Position == Nat \X Nat

-----------------------------------------------------------------------------
(* What strip() leaves of a paragraph has the texts of its lines.          *)

\* A set of positions in a sequence has a last one.
LEMMA LastOf ==
    ASSUME NEW n \in Nat, NEW S \in SUBSET (1 .. n), S # {}
    PROVE  Hplt!Max(S) \in S /\ \A i \in S : i <= Hplt!Max(S)
<1> DEFINE distances == {n - i : i \in S}
<1>0. \A i \in S : i \in Nat /\ n - i \in Nat
  OBVIOUS
<1>1. distances \in SUBSET Nat /\ distances # {}
  BY <1>0
<1> HIDE DEF distances
<1>2. PICK d \in distances : \A e \in distances : ~(<<e, d>> \in OpToRel(<, Nat))
  BY <1>1, NatLessThanWellFounded, WFMin
<1>3. \A e \in distances : ~(e < d)
  BY <1>1, <1>2 DEF OpToRel
<1> USE DEF distances
<1>4. PICK k \in S : d = n - k
  BY <1>2
<1>5. \A i \in S : k >= i
  <2> TAKE i \in S
  <2>1. ~(n - i < n - k)
    BY <1>3, <1>4
  <2> QED BY <2>1, <1>0
<1>6. PICK m : m = Hplt!Max(S)
  OBVIOUS
<1>7. m \in S /\ \A i \in S : m >= i
  BY <1>4, <1>5, <1>6 DEF Hplt!Max
<1> QED BY <1>0, <1>6, <1>7

\* strip() keeps every line that is not blank.
LEMMA StrippedHolds ==
    ASSUME NEW para \in Seq(Position), NEW i \in DOMAIN para, Hplt!CharsAt(para[i]) > 0
    PROVE  \E j \in DOMAIN Hplt!Stripped(para) :
               Hplt!Stripped(para)[j] = Hplt!LineAt(para[i]).text
<1> DEFINE ends == {k \in DOMAIN para : Hplt!CharsAt(para[k]) > 0}
           m == Hplt!Max(ends)
<1>1. ends \in SUBSET (1 .. Len(para)) /\ i \in ends
  OBVIOUS
<1>2. m \in ends /\ i <= m
  <2> HIDE DEF ends
  <2> QED BY <1>1, LastOf
<1>3. m \in 1 .. Len(para)
  BY <1>1, <1>2
<1>4. Hplt!Stripped(para) = Hplt!TextOf(SubSeq(para, 1, m))
  BY <1>1 DEF Hplt!Stripped
<1> HIDE DEF m
<1> DEFINE s == SubSeq(para, 1, m)
<1>5. s \in Seq(Position) /\ Len(s) = m /\ i \in DOMAIN s /\ s[i] = para[i]
  BY <1>1, <1>2, <1>3
<1> HIDE DEF s
<1>6. i \in DOMAIN Hplt!TextOf(s) /\ Hplt!TextOf(s)[i] = Hplt!LineAt(para[i]).text
  BY <1>5 DEF Hplt!TextOf
<1> QED BY <1>4, <1>6 DEF s

\* What strip() leaves has no line that the paragraph does not have.
LEMMA StrippedWithin ==
    ASSUME NEW para \in Seq(Position), NEW j \in DOMAIN Hplt!Stripped(para)
    PROVE  \E i \in DOMAIN para : Hplt!Stripped(para)[j] = Hplt!LineAt(para[i]).text
<1> DEFINE ends == {k \in DOMAIN para : Hplt!CharsAt(para[k]) > 0}
<1>1. PICK m : m = IF ends = {} THEN 0 ELSE Hplt!Max(ends)
  OBVIOUS
<1>2. ends \in SUBSET (1 .. Len(para)) /\ Len(para) \in Nat
  OBVIOUS
<1>3. Hplt!Stripped(para) = Hplt!TextOf(SubSeq(para, 1, m))
  BY <1>1 DEF Hplt!Stripped
<1> HIDE DEF ends
<1>4. m \in 0 .. Len(para)
  <2>1. ends # {} => Hplt!Max(ends) \in ends
    BY <1>2, LastOf
  <2> QED BY <1>1, <1>2, <2>1
<1> DEFINE s == SubSeq(para, 1, m)
<1>5. s \in Seq(Position) /\ Len(s) = m /\ \A i \in 1 .. m : s[i] = para[i]
  BY <1>4
<1> HIDE DEF s
<1>6. j \in 1 .. m /\ Hplt!TextOf(s)[j] = Hplt!LineAt(para[j]).text
  BY <1>3, <1>5 DEF Hplt!TextOf, s
<1> QED BY <1>3, <1>4, <1>6 DEF s

-----------------------------------------------------------------------------
(* The invariant of HpltDownloader.                                        *)

\* Lines that follow each other, accepted all of them.
Run(para) ==
    /\ \A i \in DOMAIN para : Hplt!Acceptable(para[i])
    /\ \A i \in 1 .. Len(para) - 1 : para[i + 1] = <<para[i][1], para[i][2] + 1>>

HpltShape ==
    /\ documents \in Seq(Hplt!Document)
    /\ pc \in {"document", "line", "done"}
    /\ at \in (Nat \ {0}) \X (Nat \ {0})
    /\ accumulated \in Seq(Position) /\ output \in Seq(Seq(Position))
    /\ stats \in [Hplt!Counters -> Nat] /\ stats["final"] = Len(output)
    /\ maxLines \in Nat

\* Where text may be left over: inside a document, and only when lines are merged.
LeftOver ==
    /\ pc = "document" \/ ~mergeLines => accumulated = <<>>
    /\ pc = "line" => /\ at[1] \in DOMAIN documents
                      /\ documents[at[1]].score /\ documents[at[1]].lang
    /\ pc = "done" => Len(output) = maxLines \/ accumulated = <<>>

\* The text gathered so far ends with the line before the one to be read next.
Gathered ==
    /\ Run(accumulated)
    /\ pc = "line" /\ accumulated # <<>> =>
           accumulated[Len(accumulated)] = <<at[1], at[2] - 1>>

\* Of the paragraphs, each is a run, and strings_seen knows no others.
Outputs ==
    /\ \A k \in DOMAIN output : Run(output[k])
    /\ \A s \in seen : \E k \in DOMAIN output : s = Hplt!Stripped(output[k])

\* A line is being gathered, or its text has been written.
Kept(p) ==
    \/ \E i \in DOMAIN accumulated : p = accumulated[i]
    \/ \E k \in DOMAIN output : \E i \in DOMAIN output[k] :
           Hplt!LineAt(p).text = Hplt!LineAt(output[k][i]).text

AllKept == \A p \in Hplt!Read : Hplt!Acceptable(p) /\ Hplt!CharsAt(p) > 0 => Kept(p)

HpltInv == HpltShape /\ LeftOver /\ Gathered /\ Outputs /\ AllKept

-----------------------------------------------------------------------------
(* Writing a paragraph.                                                    *)

\* A paragraph that is written is the last of the output and is known from then on.
LEMMA WriteAppends ==
    ASSUME HpltShape, Outputs, UNCHANGED documents,
           NEW para \in Seq(Position), Run(para), Hplt!Write(para)
    PROVE  /\ output' \in Seq(Seq(Position)) /\ Outputs'
           /\ Len(output') = Len(output) + (IF Hplt!IsNew(para) THEN 1 ELSE 0)
           /\ \A k \in DOMAIN output : k \in DOMAIN output' /\ output'[k] = output[k]
<1>1. \A p \in Seq(Position) : Run(p)' <=> Run(p)
  BY DEF Run, Hplt!Acceptable, Hplt!LineAt, Hplt!CharsAt
<1>2. \A p \in Seq(Position) : Hplt!Stripped(p)' = Hplt!Stripped(p)
  BY DEF Hplt!Stripped, Hplt!TextOf, Hplt!LineAt, Hplt!CharsAt
<1>3. CASE Hplt!IsNew(para)
  <2>1. output' = Append(output, para) /\ seen' = seen \cup {Hplt!Stripped(para)}
    BY <1>3 DEF Hplt!Write
  <2>2. /\ output' \in Seq(Seq(Position)) /\ Len(output') = Len(output) + 1
        /\ output'[Len(output) + 1] = para
        /\ \A k \in DOMAIN output : k \in DOMAIN output' /\ output'[k] = output[k]
    BY <2>1 DEF HpltShape
  <2>3. ASSUME NEW k \in DOMAIN output' PROVE Run(output[k])'
    <3>1. CASE k = Len(output) + 1
      BY <2>2, <3>1, <1>1
    <3>2. CASE k # Len(output) + 1
      <4>1. k \in DOMAIN output /\ output[k] \in Seq(Position)
        <5>1. output \in Seq(Seq(Position)) /\ DOMAIN output' = 1 .. Len(output) + 1
          BY <2>2 DEF HpltShape
        <5>2. k \in 1 .. Len(output)
          BY <3>2, <5>1
        <5> QED BY <5>1, <5>2
      <4> QED BY <2>2, <4>1, <1>1 DEF Outputs
    <3> QED BY <3>1, <3>2
  <2>4. ASSUME NEW s \in seen' PROVE \E k \in DOMAIN output' : s = Hplt!Stripped(output[k])'
    <3>1. CASE s = Hplt!Stripped(para)
      <4>1. PICK k : k = Len(output) + 1
        OBVIOUS
      <4>2. k \in DOMAIN output' /\ output'[k] = para
        BY <2>2, <4>1
      <4>3. Hplt!Stripped(output[k])' = Hplt!Stripped(para)
        BY <1>2, <4>2
      <4> QED BY <3>1, <4>2, <4>3
    <3>2. CASE s \in seen
      <4>1. PICK k \in DOMAIN output : s = Hplt!Stripped(output[k])
        BY <3>2 DEF Outputs
      <4>2. output[k] \in Seq(Position)
        BY DEF HpltShape
      <4> QED BY <2>2, <4>1, <4>2, <1>2
    <3> QED BY <2>1, <3>1, <3>2
  <2> QED BY <1>3, <2>2, <2>3, <2>4 DEF Outputs
<1>4. CASE ~Hplt!IsNew(para)
  <2>1. output' = output /\ seen' = seen
    BY <1>4 DEF Hplt!Write
  <2>2. \A k \in DOMAIN output : output[k] \in Seq(Position)
    BY DEF HpltShape
  <2> QED BY <1>1, <1>2, <1>4, <2>1, <2>2 DEF Outputs, HpltShape
<1> QED BY <1>3, <1>4

\* The text of a line of a paragraph that is written, or is known, is in the output.
LEMMA WriteCovers ==
    ASSUME HpltShape, Outputs, NEW para \in Seq(Position), Hplt!Write(para),
           NEW i \in DOMAIN para, Hplt!CharsAt(para[i]) > 0
    PROVE  \E k \in DOMAIN output' : \E j \in DOMAIN output'[k] :
               Hplt!LineAt(para[i]).text = Hplt!LineAt(output'[k][j]).text
<1>1. CASE Hplt!IsNew(para)
  <2>1. output' = Append(output, para)
    BY <1>1 DEF Hplt!Write
  <2>2. Len(output) + 1 \in DOMAIN output' /\ output'[Len(output) + 1] = para
    BY <2>1 DEF HpltShape
  <2> QED BY <2>2
<1>2. CASE ~Hplt!IsNew(para)
  <2>1. output' = output /\ Hplt!Stripped(para) \in seen
    BY <1>2 DEF Hplt!Write, Hplt!IsNew
  <2>2. PICK k \in DOMAIN output : Hplt!Stripped(para) = Hplt!Stripped(output[k])
    BY <2>1 DEF Outputs
  <2>3. output[k] \in Seq(Position)
    BY DEF HpltShape
  <2>4. PICK j \in DOMAIN Hplt!Stripped(para) :
            Hplt!Stripped(para)[j] = Hplt!LineAt(para[i]).text
    BY StrippedHolds
  <2>5. \E l \in DOMAIN output[k] :
            Hplt!Stripped(output[k])[j] = Hplt!LineAt(output[k][l]).text
    BY <2>2, <2>3, <2>4, StrippedWithin
  <2> QED BY <2>1, <2>2, <2>4, <2>5
<1> QED BY <1>1, <1>2

\* What was kept stays, when what was gathered is written or goes on being gathered.
LEMMA KeptStays ==
    ASSUME HpltShape, Outputs, UNCHANGED documents,
           NEW para \in Seq(Position), Run(para), Hplt!Write(para),
           \A i \in DOMAIN accumulated :
               \/ \E j \in DOMAIN para : accumulated[i] = para[j]
               \/ \E j \in DOMAIN accumulated' : accumulated[i] = accumulated'[j],
           NEW p, Kept(p), Hplt!CharsAt(p) > 0
    PROVE  Kept(p)'
<1>1. \A q : Hplt!LineAt(q)' = Hplt!LineAt(q)
  BY DEF Hplt!LineAt
<1>2. CASE \E j \in DOMAIN para : p = para[j]
  BY <1>1, <1>2, WriteCovers DEF Kept
<1>3. CASE \E k \in DOMAIN output : \E i \in DOMAIN output[k] :
               Hplt!LineAt(p).text = Hplt!LineAt(output[k][i]).text
  BY <1>1, <1>3, WriteAppends DEF Kept
<1>4. CASE \E j \in DOMAIN accumulated' : p = accumulated'[j]
  BY <1>4 DEF Kept
<1> QED BY <1>2, <1>3, <1>4 DEF Kept

-----------------------------------------------------------------------------
(* The lines that were read.                                               *)

\* Those before the next one, and all the lines of the documents before.
LEMMA ReadAre ==
    ASSUME HpltShape, NEW p
    PROVE  p \in Hplt!Read <=>
               /\ p = <<p[1], p[2]>> /\ p[1] \in DOMAIN documents
               /\ p[2] \in DOMAIN documents[p[1]].lines
               /\ p[1] < at[1] \/ (p[1] = at[1] /\ p[2] < at[2])
  BY DEF Hplt!Read

\* The next line of a document is one that is read by going on to the one after it.
LEMMA ReadLine ==
    ASSUME HpltShape, HpltShape', UNCHANGED documents, at' = <<at[1], at[2] + 1>>,
           NEW p \in Hplt!Read'
    PROVE  p \in Hplt!Read \/ p = at
<1>1. /\ p = <<p[1], p[2]>> /\ p[1] \in DOMAIN documents
      /\ p[2] \in DOMAIN documents[p[1]].lines
      /\ p[1] < at'[1] \/ (p[1] = at'[1] /\ p[2] < at'[2])
  BY ReadAre DEF Hplt!Read
<1>2. documents[p[1]] \in Hplt!Document
  BY <1>1 DEF HpltShape
<1>3. p[2] \in Nat /\ at = <<at[1], at[2]>> /\ at[2] \in Nat
  <2>1. PICK ls \in Seq([lang : BOOLEAN, text : Texts]) : ls = documents[p[1]].lines
    BY <1>2 DEF Hplt!Document
  <2>2. p[2] \in Nat
    BY <1>1, <2>1
  <2> QED BY <2>2 DEF HpltShape
<1> QED BY <1>1, <1>3, ReadAre

\* Going on to the next document leaves out what was not read of this one.
LEMMA ReadDocument ==
    ASSUME HpltShape, HpltShape', UNCHANGED documents, at' = <<at[1] + 1, 1>>,
           NEW p \in Hplt!Read'
    PROVE  \/ p \in Hplt!Read
           \/ p[1] = at[1] /\ p[2] >= at[2] /\ p[2] \in DOMAIN documents[at[1]].lines
<1>1. /\ p = <<p[1], p[2]>> /\ p[1] \in DOMAIN documents
      /\ p[2] \in DOMAIN documents[p[1]].lines
      /\ p[1] < at'[1] \/ (p[1] = at'[1] /\ p[2] < at'[2])
  BY DEF Hplt!Read
<1>2. documents[p[1]] \in Hplt!Document
  BY <1>1 DEF HpltShape
<1>3. p[2] \in Nat \ {0} /\ p[1] \in Nat /\ at[1] \in Nat /\ at[2] \in Nat
  <2>1. PICK ls : ls = documents[p[1]].lines
    OBVIOUS
  <2>2. ls \in Seq([lang : BOOLEAN, text : Texts])
    BY <1>2, <2>1 DEF Hplt!Document
  <2>3. p[2] \in 1 .. Len(ls) /\ Len(ls) \in Nat
    BY <1>1, <2>1, <2>2
  <2>4. at[1] \in Nat /\ at[2] \in Nat
    BY DEF HpltShape
  <2>5. documents \in Seq(Hplt!Document) /\ p[1] \in DOMAIN documents
    BY <1>1 DEF HpltShape
  <2>6. p[1] \in Nat
    BY <2>5
  <2> QED BY <2>3, <2>4, <2>6
<1> QED BY <1>1, <1>3, ReadAre

-----------------------------------------------------------------------------
(* The steps of HpltDownloader.                                            *)

\* The empty paragraph, one line, and one more line at the end of a run, are runs.
LEMMA JoinedIsRun ==
    ASSUME NEW before \in Seq(Position), Run(before),
           at \in (Nat \ {0}) \X (Nat \ {0}), Hplt!Acceptable(at),
           before # <<>> => before[Len(before)] = <<at[1], at[2] - 1>>
    PROVE  LET joined == Hplt!Joined(before, at)
           IN  /\ joined \in Seq(Position) /\ Run(joined)
               /\ joined # <<>> => joined[Len(joined)] = at
               /\ \A i \in DOMAIN before : \E j \in DOMAIN joined : before[i] = joined[j]
               /\ Hplt!CharsAt(at) > 0 => \E j \in DOMAIN joined : at = joined[j]
<1>1. CASE before = <<>> /\ Hplt!CharsAt(at) = 0
  BY <1>1 DEF Hplt!Joined, Run
<1>2. CASE ~(before = <<>> /\ Hplt!CharsAt(at) = 0)
  <2> DEFINE joined == Append(before, at)
  <2>1. at \in Position /\ at = <<at[1], at[2]>> /\ at[2] \in Nat
    BY DEF Position
  <2>2. /\ joined \in Seq(Position) /\ Len(joined) = Len(before) + 1
        /\ joined[Len(before) + 1] = at
        /\ \A i \in 1 .. Len(before) : joined[i] = before[i]
    BY <2>1
  <2> HIDE DEF joined
  <2>3. Len(before) \in Nat /\ DOMAIN joined = 1 .. Len(before) + 1
        /\ DOMAIN before = 1 .. Len(before)
    BY <2>2
  <2>4. \A i \in DOMAIN joined : Hplt!Acceptable(joined[i])
    BY <2>2, <2>3 DEF Run
  <2>5. ASSUME NEW i \in 1 .. Len(joined) - 1
        PROVE  joined[i + 1] = <<joined[i][1], joined[i][2] + 1>>
    <3>1. CASE i = Len(before)
      <4>1. joined[i + 1] = at /\ joined[i] = <<at[1], at[2] - 1>>
        BY <2>2, <2>3, <3>1
      <4> QED BY <2>1, <4>1
    <3>2. CASE i # Len(before)
      <4>1. i \in 1 .. Len(before) - 1 /\ i + 1 \in 1 .. Len(before)
            /\ i \in 1 .. Len(before)
        <5>1. PICK n \in Nat : n = Len(before)
          BY <2>3
        <5>2. Len(joined) - 1 = n
          BY <2>2, <5>1
        <5>3. i \in 1 .. n /\ i # n
          BY <3>2, <5>1, <5>2
        <5>4. i \in 1 .. n - 1 /\ i + 1 \in 1 .. n
          BY <5>3
        <5> QED BY <5>1, <5>3, <5>4
      <4> QED BY <2>2, <4>1 DEF Run
    <3> QED BY <3>1, <3>2
  <2>6. Hplt!Joined(before, at) = joined
    BY <1>2 DEF Hplt!Joined, joined
  <2>7. Run(joined)
    BY <2>4, <2>5 DEF Run
  <2>8. \A i \in DOMAIN before : \E j \in DOMAIN joined : before[i] = joined[j]
    BY <2>2, <2>3
  <2>9. \E j \in DOMAIN joined : at = joined[j]
    BY <2>2, <2>3
  <2> QED BY <2>2, <2>3, <2>6, <2>7, <2>8, <2>9
<1> QED BY <1>1, <1>2

\* The counter of the lines written is the number of paragraphs.
LEMMA FinalCounts ==
    ASSUME HpltShape, NEW para, NEW names \in SUBSET (Hplt!Counters \ {"final"}),
           stats' = Hplt!Count(names \cup Hplt!Written(para))
    PROVE  /\ stats' \in [Hplt!Counters -> Nat]
           /\ stats'["final"] = Len(output) + (IF Hplt!IsNew(para) THEN 1 ELSE 0)
<1>1. "final" \in Hplt!Counters /\ (para = <<>> => ~Hplt!IsNew(para))
  BY DEF Hplt!Counters, Hplt!IsNew
<1>2. "final" \in (names \cup Hplt!Written(para)) <=> Hplt!IsNew(para)
  BY <1>1 DEF Hplt!Written
<1>3. stats'["final"] = IF Hplt!IsNew(para) THEN stats["final"] + 1 ELSE stats["final"]
  BY <1>1, <1>2 DEF Hplt!Count
<1>4. \A c \in Hplt!Counters : stats[c] \in Nat /\ stats[c] + 1 \in Nat
  BY DEF HpltShape
<1>5. stats' \in [Hplt!Counters -> Nat]
  BY <1>4 DEF Hplt!Count
<1>6. stats["final"] = Len(output) /\ Len(output) \in Nat
  BY DEF HpltShape
<1>7. CASE Hplt!IsNew(para)
  BY <1>3, <1>5, <1>6, <1>7
<1>8. CASE ~Hplt!IsNew(para)
  <2>1. stats'["final"] = Len(output)
    BY <1>3, <1>6, <1>8
  <2>2. Len(output) + 0 = Len(output)
    BY <1>6
  <2> QED BY <1>5, <1>8, <2>1, <2>2
<1> QED BY <1>7, <1>8

\* What every step that writes a paragraph keeps, and what is left to show of it.
LEMMA WritingStep ==
    ASSUME HpltInv, UNCHANGED <<documents, mergeLines, maxLines>>,
           NEW para \in Seq(Position), Run(para), Hplt!Write(para),
           NEW names \in SUBSET (Hplt!Counters \ {"final"}),
           stats' = Hplt!Count(names \cup Hplt!Written(para)),
           accumulated' \in Seq(Position), Run(accumulated'),
           pc' \in {"document", "line", "done"},
           at' \in (Nat \ {0}) \X (Nat \ {0}),
           LeftOver',
           pc' = "line" /\ accumulated' # <<>> =>
               accumulated'[Len(accumulated')] = <<at'[1], at'[2] - 1>>,
           \A i \in DOMAIN accumulated :
               \/ \E j \in DOMAIN para : accumulated[i] = para[j]
               \/ \E j \in DOMAIN accumulated' : accumulated[i] = accumulated'[j],
           HpltShape' =>
             \A p \in Hplt!Read' : Hplt!Acceptable(p) /\ Hplt!CharsAt(p) > 0 =>
               \/ p \in Hplt!Read
               \/ \E j \in DOMAIN para : p = para[j]
               \/ \E j \in DOMAIN accumulated' : p = accumulated'[j]
    PROVE  HpltInv'
<1>1. HpltShape /\ Outputs /\ AllKept
  BY DEF HpltInv
<1>2. HpltShape'
  BY <1>1, WriteAppends, FinalCounts DEF HpltShape
<1>3. Outputs'
  BY <1>1, WriteAppends
<1>4. Gathered'
  BY DEF Gathered, Run, Hplt!Acceptable, Hplt!LineAt, Hplt!CharsAt
<1>5. \A p : /\ Hplt!LineAt(p)' = Hplt!LineAt(p) /\ Hplt!CharsAt(p)' = Hplt!CharsAt(p)
             /\ Hplt!Acceptable(p)' <=> Hplt!Acceptable(p)
  BY DEF Hplt!LineAt, Hplt!CharsAt, Hplt!Acceptable
<1>6. ASSUME NEW p \in Hplt!Read', Hplt!Acceptable(p), Hplt!CharsAt(p) > 0
      PROVE  Kept(p)'
  <2>1. CASE p \in Hplt!Read
    <3>1. Kept(p)
      BY <1>1, <1>6, <2>1 DEF AllKept
    <3> QED BY <1>1, <1>6, <3>1, KeptStays
  <2>2. CASE \E j \in DOMAIN para : p = para[j]
    BY <1>1, <1>5, <1>6, <2>2, WriteCovers DEF Kept
  <2>3. CASE \E j \in DOMAIN accumulated' : p = accumulated'[j]
    BY <2>3 DEF Kept
  <2> QED BY <1>2, <1>6, <2>1, <2>2, <2>3
<1>7. AllKept'
  BY <1>5, <1>6 DEF AllKept
<1> QED BY <1>2, <1>3, <1>4, <1>7 DEF HpltInv

\* Nothing is gathered, written or read at first.
LEMMA HpltStart == Hplt!Init => HpltInv
<1> SUFFICES ASSUME Hplt!Init PROVE HpltInv
  OBVIOUS
<1>1. /\ documents \in Seq(Hplt!Document) /\ maxLines \in Nat
      /\ at = <<1, 1>> /\ accumulated = <<>> /\ output = <<>> /\ seen = {} /\ pc = "document"
      /\ stats = [c \in Hplt!Counters |-> 0]
  BY DocumentsAssumption DEF Hplt!Init, Hplt!HpltAssumption
<1>2. HpltShape
  BY <1>1 DEF HpltShape, Hplt!Counters
<1>3. LeftOver /\ Gathered /\ Outputs
  BY <1>1 DEF LeftOver, Gathered, Outputs, Run
<1>4. AllKept
  <2>1. ASSUME NEW p \in Hplt!Read
        PROVE  FALSE
    <3>1. PICK d : d = documents[p[1]] /\ d \in Hplt!Document
      BY <1>2, ReadAre DEF HpltShape
    <3>2. d.lines \in Seq([lang : BOOLEAN, text : Texts])
      BY <3>1 DEF Hplt!Document
    <3>3. p[1] \in Nat \ {0} /\ p[2] \in Nat \ {0}
      BY <1>2, <3>1, <3>2, ReadAre DEF HpltShape
    <3> QED BY <1>1, <1>2, <3>3, ReadAre
  <2> QED BY <2>1 DEF AllKept
<1> QED BY <1>2, <1>3, <1>4 DEF HpltInv

\* A document is judged after what was left over of the one before was written.
LEMMA NextDocumentStep == HpltInv /\ Hplt!NextDocument => HpltInv'
<1> SUFFICES ASSUME HpltInv, Hplt!NextDocument PROVE HpltInv'
  OBVIOUS
<1>1. HpltShape /\ accumulated = <<>> /\ at[1] \in DOMAIN documents
  BY DEF HpltInv, LeftOver, Hplt!NextDocument, HpltShape
<1>2. PICK d : d = documents[at[1]]
  OBVIOUS
<1> DEFINE judged == IF ~d.score THEN {"docScore"} ELSE IF ~d.lang THEN {"docLocale"} ELSE {}
           names == {"documents"} \cup judged
<1>3. /\ Hplt!Write(accumulated) /\ accumulated' = <<>>
      /\ stats' = Hplt!Count({"documents"} \cup Hplt!Written(accumulated) \cup judged)
      /\ IF judged = {} THEN pc' = "line" /\ at' = at
                        ELSE pc' = pc /\ pc = "document" /\ at' = <<at[1] + 1, 1>>
      /\ UNCHANGED <<documents, mergeLines, maxLines>>
  BY <1>2 DEF Hplt!NextDocument, Hplt!inputs
<1>4. names \in SUBSET (Hplt!Counters \ {"final"})
  BY DEF Hplt!Counters
<1>5. stats' = Hplt!Count(names \cup Hplt!Written(accumulated))
  <2>1. {"documents"} \cup Hplt!Written(accumulated) \cup judged
            = names \cup Hplt!Written(accumulated)
    OBVIOUS
  <2> QED BY <1>3, <2>1
<1>6. LeftOver' /\ at' \in (Nat \ {0}) \X (Nat \ {0})
  <2>1. CASE judged = {}
    <3>1. pc' = "line" /\ at' = at /\ d.score /\ d.lang
      BY <1>3, <2>1
    <3> QED BY <1>1, <1>2, <1>3, <3>1 DEF LeftOver, HpltShape
  <2>2. CASE judged # {}
    <3>1. pc' = "document" /\ at' = <<at[1] + 1, 1>>
      BY <1>3, <2>2
    <3> QED BY <1>1, <1>3, <3>1 DEF LeftOver, HpltShape
  <2> QED BY <2>1, <2>2
<1>7. ASSUME HpltShape', NEW p \in Hplt!Read', Hplt!Acceptable(p)
      PROVE  p \in Hplt!Read
  <2>1. CASE judged = {}
    BY <1>3, <1>7, <2>1 DEF Hplt!Read
  <2>2. CASE judged # {}
    <3>1. p[1] # at[1]
      BY <1>2, <1>7, <2>2 DEF Hplt!Acceptable
    <3> QED BY <1>1, <1>3, <1>7, <2>2, <3>1, ReadDocument
  <2> QED BY <2>1, <2>2
<1>8. Run(accumulated) /\ Run(<<>>) /\ <<>> \in Seq(Position)
  BY <1>1 DEF Run
<1> HIDE DEF names, judged
<1> QED BY <1>1, <1>3, <1>4, <1>5, <1>6, <1>7, <1>8, WritingStep

\* The length of the next line is a number.
LEMMA LineHasChars ==
    ASSUME HpltShape, LeftOver, Hplt!HasLine
    PROVE  Hplt!CharsAt(at) \in Nat /\ MaxCharacters \in Nat
<1>1. PICK d \in Hplt!Document : d = documents[at[1]]
  BY DEF HpltShape, LeftOver, Hplt!HasLine
<1>2. PICK ls \in Seq([lang : BOOLEAN, text : Texts]) : ls = d.lines
  BY DEF Hplt!Document
<1>3. at[2] \in 1 .. Len(ls)
  BY <1>1, <1>2 DEF HpltShape, Hplt!HasLine
<1>4. ls[at[2]].text \in Texts
  <2>1. ls[at[2]] \in [lang : BOOLEAN, text : Texts]
    BY <1>3, ElementOfSeq
  <2> QED BY <2>1
<1> QED BY <1>1, <1>2, <1>4, DocumentsAssumption
        DEF Hplt!CharsAt, Hplt!LineAt, Hplt!HpltAssumption

\* A line that is discarded ends the paragraph.
LEMMA DiscardLineStep == HpltInv /\ Hplt!DiscardLine => HpltInv'
<1> SUFFICES ASSUME HpltInv, Hplt!DiscardLine PROVE HpltInv'
  OBVIOUS
<1>1. /\ HpltShape /\ Run(accumulated) /\ accumulated \in Seq(Position)
      /\ LeftOver /\ pc = "line" /\ Hplt!HasLine
  BY DEF HpltInv, HpltShape, Gathered, Hplt!DiscardLine, Hplt!HasLine
<1>8. PICK names :
          names = {"visited", IF ~Hplt!LineAt(at).lang THEN "lineLocale" ELSE "tooLong"}
  OBVIOUS
<1>2. /\ Hplt!Write(accumulated) /\ accumulated' = <<>>
      /\ stats' = Hplt!Count(names \cup Hplt!Written(accumulated))
      /\ Hplt!Go(stats'["final"]) /\ UNCHANGED <<documents, mergeLines, maxLines>>
  BY <1>8 DEF Hplt!DiscardLine, Hplt!inputs
<1>7. ~Hplt!Acceptable(at)
  BY <1>1, LineHasChars DEF Hplt!DiscardLine, Hplt!Acceptable
<1>3. names \in SUBSET (Hplt!Counters \ {"final"})
  BY <1>8 DEF Hplt!Counters
<1>4. LeftOver' /\ at' \in (Nat \ {0}) \X (Nat \ {0}) /\ pc' \in {"document", "line", "done"}
  BY <1>1, <1>2 DEF LeftOver, HpltShape, Hplt!Go
<1>5. ASSUME HpltShape', NEW p \in Hplt!Read', Hplt!Acceptable(p)
      PROVE  p \in Hplt!Read
  <2>1. CASE at' = at
    BY <1>2, <1>5, <2>1 DEF Hplt!Read
  <2>2. CASE at' = <<at[1], at[2] + 1>>
    BY <1>1, <1>2, <1>5, <1>7, <2>2, ReadLine
  <2> QED BY <1>2, <2>1, <2>2 DEF Hplt!Go
<1>6. Run(<<>>) /\ <<>> \in Seq(Position)
  BY DEF Run
<1> QED BY <1>1, <1>2, <1>3, <1>4, <1>5, <1>6, WritingStep

\* Without merging, a line is a paragraph.
LEMMA WriteLineStep == HpltInv /\ Hplt!WriteLine => HpltInv'
<1> SUFFICES ASSUME HpltInv, Hplt!WriteLine PROVE HpltInv'
  OBVIOUS
<1>1. /\ HpltShape /\ LeftOver /\ accumulated = <<>> /\ pc = "line" /\ Hplt!HasLine
  BY DEF HpltInv, LeftOver, Hplt!WriteLine, Hplt!Accepted, Hplt!HasLine
<1>2. Hplt!Acceptable(at) /\ at \in (Nat \ {0}) \X (Nat \ {0})
  BY <1>1 DEF Hplt!WriteLine, Hplt!Accepted, Hplt!Acceptable, LeftOver, HpltShape
<1>3. Run(<<>>) /\ <<>> \in Seq(Position)
  BY DEF Run
<1>4. PICK para : para = Hplt!Joined(<<>>, at)
  OBVIOUS
<1>5. /\ para \in Seq(Position) /\ Run(para)
      /\ Hplt!CharsAt(at) > 0 => \E j \in DOMAIN para : at = para[j]
  BY <1>2, <1>3, <1>4, JoinedIsRun
<1>6. PICK names : names = {"visited", "kept"}
  OBVIOUS
<1>7. /\ Hplt!Write(para) /\ accumulated' = <<>>
      /\ stats' = Hplt!Count(names \cup Hplt!Written(para))
      /\ Hplt!Go(stats'["final"]) /\ UNCHANGED <<documents, mergeLines, maxLines>>
  BY <1>4, <1>6 DEF Hplt!WriteLine, Hplt!inputs
<1>8. names \in SUBSET (Hplt!Counters \ {"final"})
  BY <1>6 DEF Hplt!Counters
<1>9. LeftOver' /\ at' \in (Nat \ {0}) \X (Nat \ {0}) /\ pc' \in {"document", "line", "done"}
  BY <1>1, <1>7 DEF LeftOver, HpltShape, Hplt!Go
<1>10. ASSUME HpltShape', NEW p \in Hplt!Read', Hplt!CharsAt(p) > 0
       PROVE  p \in Hplt!Read \/ \E j \in DOMAIN para : p = para[j]
  <2>1. CASE at' = at
    BY <1>7, <1>10, <2>1 DEF Hplt!Read
  <2>2. CASE at' = <<at[1], at[2] + 1>>
    BY <1>1, <1>5, <1>7, <1>10, <2>2, ReadLine
  <2> QED BY <1>7, <2>1, <2>2 DEF Hplt!Go
<1> QED BY <1>1, <1>3, <1>5, <1>7, <1>8, <1>9, <1>10, WritingStep

\* A line goes on with the paragraph, or begins one when it would be too long.
LEMMA MergeLineStep == HpltInv /\ Hplt!MergeLine => HpltInv'
<1> SUFFICES ASSUME HpltInv, Hplt!MergeLine PROVE HpltInv'
  OBVIOUS
<1>1. /\ HpltShape /\ LeftOver /\ Gathered /\ pc = "line" /\ Hplt!HasLine /\ mergeLines
      /\ accumulated \in Seq(Position) /\ Run(accumulated)
  BY DEF HpltInv, HpltShape, Gathered, Hplt!MergeLine, Hplt!Accepted, Hplt!HasLine
<1>2. Hplt!Acceptable(at) /\ at \in (Nat \ {0}) \X (Nat \ {0})
  BY <1>1 DEF Hplt!MergeLine, Hplt!Accepted, Hplt!Acceptable, LeftOver, HpltShape
<1>3. Run(<<>>) /\ <<>> \in Seq(Position)
  BY DEF Run
<1>4. PICK ready, before : /\ ready = IF Hplt!TooLong THEN accumulated ELSE <<>>
                           /\ before = IF Hplt!TooLong THEN <<>> ELSE accumulated
  OBVIOUS
<1>5. /\ ready \in Seq(Position) /\ Run(ready) /\ before \in Seq(Position) /\ Run(before)
      /\ before # <<>> => before[Len(before)] = <<at[1], at[2] - 1>>
      /\ accumulated = ready \/ accumulated = before
  BY <1>1, <1>3, <1>4 DEF Gathered
<1>6. PICK joined : joined = Hplt!Joined(before, at)
  OBVIOUS
<1>7. /\ joined \in Seq(Position) /\ Run(joined)
      /\ joined # <<>> => joined[Len(joined)] = at
      /\ \A i \in DOMAIN before : \E j \in DOMAIN joined : before[i] = joined[j]
      /\ Hplt!CharsAt(at) > 0 => \E j \in DOMAIN joined : at = joined[j]
  BY <1>2, <1>5, <1>6, JoinedIsRun
<1>8. PICK names : names = {"visited", "kept"}
  OBVIOUS
<1>9. /\ Hplt!Write(ready) /\ accumulated' = joined
      /\ stats' = Hplt!Count(names \cup Hplt!Written(ready))
      /\ Hplt!Go(stats'["final"]) /\ UNCHANGED <<documents, mergeLines, maxLines>>
  BY <1>4, <1>6, <1>8 DEF Hplt!MergeLine, Hplt!inputs
<1>10. names \in SUBSET (Hplt!Counters \ {"final"})
  BY <1>8 DEF Hplt!Counters
<1>11. stats'["final"] = Len(output')
  BY <1>1, <1>5, <1>9, <1>10, FinalCounts, WriteAppends DEF HpltInv
<1>12. LeftOver' /\ at' \in (Nat \ {0}) \X (Nat \ {0}) /\ pc' \in {"document", "line", "done"}
  BY <1>1, <1>9, <1>11 DEF LeftOver, HpltShape, Hplt!Go
<1>13. pc' = "line" /\ joined # <<>> => joined[Len(joined)] = <<at'[1], at'[2] - 1>>
  BY <1>2, <1>7, <1>9 DEF Hplt!Go
<1>14. ASSUME HpltShape', NEW p \in Hplt!Read', Hplt!CharsAt(p) > 0
       PROVE  p \in Hplt!Read \/ \E j \in DOMAIN joined : p = joined[j]
  <2>1. CASE at' = at
    BY <1>9, <1>14, <2>1 DEF Hplt!Read
  <2>2. CASE at' = <<at[1], at[2] + 1>>
    BY <1>1, <1>7, <1>9, <1>14, <2>2, ReadLine
  <2> QED BY <1>9, <2>1, <2>2 DEF Hplt!Go
<1>15. \A i \in DOMAIN accumulated : \/ \E j \in DOMAIN ready : accumulated[i] = ready[j]
                                     \/ \E j \in DOMAIN joined : accumulated[i] = joined[j]
  BY <1>5, <1>7
<1> QED BY <1>5, <1>7, <1>9, <1>10, <1>12, <1>13, <1>14, <1>15, WritingStep, ZenonT(60)

\* The document is over: what is left is written.
LEMMA EndDocumentStep == HpltInv /\ Hplt!EndDocument => HpltInv'
<1> SUFFICES ASSUME HpltInv, Hplt!EndDocument PROVE HpltInv'
  OBVIOUS
<1>1. /\ HpltShape /\ Run(accumulated) /\ accumulated \in Seq(Position)
      /\ LeftOver /\ pc = "line" /\ ~Hplt!HasLine
  BY DEF HpltInv, HpltShape, Gathered, Hplt!EndDocument
<1>2. /\ Hplt!Write(accumulated) /\ accumulated' = <<>> /\ pc' = "document"
      /\ at' = <<at[1] + 1, 1>>
      /\ stats' = Hplt!Count({} \cup Hplt!Written(accumulated))
      /\ UNCHANGED <<documents, mergeLines, maxLines>>
  <2>1. {} \cup Hplt!Written(accumulated) = Hplt!Written(accumulated)
    OBVIOUS
  <2> QED BY <2>1 DEF Hplt!EndDocument, Hplt!inputs
<1>3. LeftOver' /\ at' \in (Nat \ {0}) \X (Nat \ {0})
  BY <1>1, <1>2 DEF LeftOver, HpltShape
<1>4. ASSUME HpltShape', NEW p \in Hplt!Read'
      PROVE  p \in Hplt!Read
  <2>1. PICK d \in Hplt!Document : d = documents[at[1]]
    BY <1>1 DEF HpltShape, LeftOver
  <2>2. PICK ls \in Seq([lang : BOOLEAN, text : Texts]) : ls = d.lines
    BY DEF Hplt!Document
  <2>3. ~(at[2] <= Len(ls)) /\ at[2] \in Nat
    BY <1>1, <2>1, <2>2 DEF Hplt!HasLine, HpltShape
  <2>4. \A i \in DOMAIN ls : ~(i >= at[2])
    BY <2>3
  <2> QED BY <1>1, <1>2, <1>4, <2>1, <2>2, <2>4, ReadDocument
<1>5. Run(<<>>) /\ <<>> \in Seq(Position) /\ {} \in SUBSET (Hplt!Counters \ {"final"})
  BY DEF Run
<1> QED BY <1>1, <1>2, <1>3, <1>4, <1>5, WritingStep

\* What was written stays what it is.
LEMMA OutputsStay ==
    ASSUME HpltShape, Outputs, UNCHANGED <<documents, output, seen>>
    PROVE  Outputs'
<1>1. \A p \in Seq(Position) : Run(p)' <=> Run(p)
  BY DEF Run, Hplt!Acceptable, Hplt!LineAt, Hplt!CharsAt
<1>2. \A p \in Seq(Position) : Hplt!Stripped(p)' = Hplt!Stripped(p)
  BY DEF Hplt!Stripped, Hplt!TextOf, Hplt!LineAt, Hplt!CharsAt
<1>3. \A k \in DOMAIN output : output[k] \in Seq(Position)
  BY DEF HpltShape
<1> QED BY <1>1, <1>2, <1>3 DEF Outputs

\* The last steps write nothing.
LEMMA EndStep == HpltInv /\ (Hplt!StopAtLimit \/ Hplt!EndStream) => HpltInv'
<1> SUFFICES ASSUME HpltInv, Hplt!StopAtLimit \/ Hplt!EndStream PROVE HpltInv'
  OBVIOUS
<1>1. /\ UNCHANGED <<documents, mergeLines, maxLines, at, accumulated, seen, output, stats>>
      /\ pc' = "done"
      /\ pc = "document" \/ stats["final"] = maxLines
  BY DEF Hplt!StopAtLimit, Hplt!EndStream, Hplt!inputs
<1>2. HpltShape' /\ LeftOver'
  BY <1>1 DEF HpltInv, HpltShape, LeftOver
<1>3. Gathered'
  BY <1>1 DEF HpltInv, Gathered, Run, Hplt!Acceptable, Hplt!LineAt, Hplt!CharsAt
<1>5. Outputs'
  BY <1>1, OutputsStay DEF HpltInv
<1>4. AllKept'
  BY <1>1 DEF HpltInv, AllKept, Kept, Hplt!Read, Hplt!Acceptable, Hplt!LineAt, Hplt!CharsAt
<1> QED BY <1>2, <1>3, <1>4, <1>5 DEF HpltInv

\* A step of something else changes nothing of it.
LEMMA HpltIdle == HpltInv /\ UNCHANGED documentVars => HpltInv'
<1> SUFFICES ASSUME HpltInv, UNCHANGED documentVars PROVE HpltInv'
  OBVIOUS
<1>1. UNCHANGED <<documents, mergeLines, maxLines, pc, at, accumulated, seen, output, stats>>
  BY DEF documentVars
<1>2. HpltShape' /\ LeftOver'
  BY <1>1 DEF HpltInv, HpltShape, LeftOver
<1>3. Gathered'
  BY <1>1 DEF HpltInv, Gathered, Run, Hplt!Acceptable, Hplt!LineAt, Hplt!CharsAt
<1>4. Outputs'
  BY <1>1, OutputsStay DEF HpltInv
<1>5. AllKept'
  BY <1>1 DEF HpltInv, AllKept, Kept, Hplt!Read, Hplt!Acceptable, Hplt!LineAt, Hplt!CharsAt
<1> QED BY <1>2, <1>3, <1>4, <1>5 DEF HpltInv

\* Every step of an import keeps it.
LEMMA HpltStep == HpltInv /\ [ImportNext]_importVars => HpltInv'
<1>1. UNCHANGED Hplt!vars => UNCHANGED documentVars
  BY DEF Hplt!vars, Hplt!inputs, documentVars
<1>2. HpltInv /\ Hplt!Next => HpltInv'
  BY <1>1, NextDocumentStep, DiscardLineStep, WriteLineStep, MergeLineStep, EndDocumentStep,
     EndStep, HpltIdle DEF Hplt!Next, Hplt!Done
<1>3. UNCHANGED importVars => UNCHANGED documentVars
  BY DEF importVars
<1> QED BY <1>2, <1>3, HpltIdle DEF ImportNext, StartHplt, StepHplt, EndHplt

\* A paragraph of the output, or the one that is gathered, is a run.
LEMMA RunsAreContiguous == HpltInv => ParagraphsContiguous
<1> SUFFICES ASSUME HpltInv, NEW para \in Hplt!Paragraphs PROVE Run(para)
  BY DEF ParagraphsContiguous, Hplt!ParagraphsContiguous, Run
<1>1. para = accumulated \/ \E k \in DOMAIN output : para = output[k]
  BY DEF Hplt!Paragraphs, Hplt!ToSet
<1> QED BY <1>1 DEF HpltInv, Gathered, Outputs

\* A line that is kept is not lost.
LEMMA KeptIsNotLost == HpltInv => NothingLost
<1> SUFFICES ASSUME HpltInv PROVE Hplt!NothingLost
  BY DEF NothingLost
<1>1. ASSUME NEW p \in Hplt!Read, Hplt!Acceptable(p), Hplt!CharsAt(p) > 0
      PROVE  \/ p \in Hplt!ToSet(accumulated)
             \/ \E para \in Hplt!ToSet(output) :
                    Hplt!LineAt(p).text \in Hplt!ToSet(Hplt!TextOf(para))
  <2>1. Kept(p)
    BY <1>1 DEF HpltInv, AllKept
  <2>2. CASE \E i \in DOMAIN accumulated : p = accumulated[i]
    BY <2>2 DEF Hplt!ToSet
  <2>3. ASSUME NEW k \in DOMAIN output, NEW i \in DOMAIN output[k],
               Hplt!LineAt(p).text = Hplt!LineAt(output[k][i]).text
        PROVE  /\ output[k] \in Hplt!ToSet(output)
               /\ Hplt!LineAt(p).text \in Hplt!ToSet(Hplt!TextOf(output[k]))
    BY <2>3 DEF Hplt!ToSet, Hplt!TextOf
  <2> QED BY <2>1, <2>2, <2>3 DEF Kept
<1>2. pc = "done" /\ Len(output) < maxLines => accumulated = <<>>
  BY DEF HpltInv, LeftOver, HpltShape
<1> QED BY <1>1, <1>2 DEF Hplt!NothingLost

-----------------------------------------------------------------------------
(* The download of a file.                                                 *)

\* The stream is over when every byte was yielded, and a file is done when it has them all.
FileInv ==
    /\ StreamInv
    /\ phase = "finished" => downloaded = FileSize
    /\ use = "file" /\ status = "done" =>
           phase = "finished" /\ reader = "closed" /\ buffer = <<>>

\* Nothing is downloaded at first.
LEMMA FileStart == ImportInit => FileInv
  BY InitStream DEF ImportInit, DownloadInit, Init, FileInv

\* Each consumer takes the bytes as read() does, or all that is buffered.
LEMMA FileStep == HonoursRange /\ FileInv /\ [ImportNext]_importVars => FileInv'
<1> SUFFICES ASSUME HonoursRange, FileInv, [ImportNext]_importVars PROVE FileInv'
  OBVIOUS
<1> USE DEF generator
<1>1. StreamInv /\ downloaded \in Nat /\ FileSize \in Nat
  BY SizesAssumption DEF FileInv, StreamInv
<1>2. ASSUME UNCHANGED <<generator, buffer, returned>>, size' \in Int
      PROVE  StreamInv'
  BY <1>1, <1>2 DEF StreamInv, File
<1>3. ASSUME Request \/ YieldChunk \/ BodyEnds \/ AttemptFails \/ NextAttempt \/ CallRead
                \/ Return \/ Close
      PROVE  StreamInv'
  BY <1>1, <1>3, StepStream DEF Next, Stream
<1>4. CASE Generate
  <2>1. phase \notin {"finished", "failed"} /\ UNCHANGED <<use, status>>
    BY <1>4 DEF Generate, Request, YieldChunk, BodyEnds, AttemptFails, NextAttempt
  <2>2. phase' = "finished" => downloaded' = FileSize
    <3>1. CASE BodyEnds
      BY <1>1, <3>1 DEF BodyEnds, StreamInv
    <3>2. CASE ~BodyEnds
      BY <1>4, <2>1, <3>2
         DEF Generate, Request, YieldChunk, AttemptFails, NextAttempt
    <3> QED BY <3>1, <3>2
  <2> QED BY <1>3, <1>4, <2>1, <2>2 DEF Generate, FileInv
<1>5. CASE Read \/ EndRead \/ ReadBlock \/ DecodeBlock
  <2>1. use # "file" /\ UNCHANGED <<use, phase, downloaded>> /\ StreamInv'
    BY <1>3, <1>5 DEF Read, EndRead, ReadBlock, DecodeBlock, Pulls, CallRead, Close, Return
  <2> QED BY <2>1 DEF FileInv
<1>6. CASE WriteChunk
  <2>1. /\ returned' = returned \o buffer /\ buffer' = <<>> /\ reader = "reading"
        /\ UNCHANGED <<phase, downloaded, next, size, reader, use, status>>
    BY <1>6 DEF WriteChunk
  <2>2. returned \o buffer \in Seq(Nat) /\ (returned \o buffer) \o <<>> = returned \o buffer
    <3>1. returned \in Seq(Nat) /\ buffer \in Seq(Nat)
      BY <1>1 DEF StreamInv
    <3> QED BY <3>1, ConcatProperties, ConcatEmptySeq
  <2>3. StreamInv'
    BY <1>1, <2>1, <2>2 DEF StreamInv, File
  <2> QED BY <2>1, <2>3 DEF FileInv
<1>7. CASE OpenFile \/ EndFile \/ CallAgain \/ OpenLines \/ OpenFails \/ LinesFail
           \/ WriteLines
  <2>1. UNCHANGED <<generator, buffer, returned, use>> /\ size' \in Int
    <3>1. size \in Int
      BY <1>1 DEF StreamInv
    <3>2. CASE OpenFile \/ EndFile
      BY <3>1, <3>2 DEF OpenFile, EndFile
    <3>3. CASE CallAgain \/ OpenLines
      BY <3>1, <3>3 DEF CallAgain, OpenLines, vars
    <3>4. CASE OpenFails \/ LinesFail \/ WriteLines
      BY <3>1, <3>4 DEF OpenFails, LinesFail, WriteLines, Fail
    <3> QED BY <1>7, <3>2, <3>3, <3>4
  <2>2. use = "file" /\ status' = "done" => phase = "finished" /\ reader' = "closed"
                                            /\ buffer = <<>>
    BY <1>7 DEF OpenFile, EndFile, FileOutcome, CallAgain, OpenLines, OpenFails, LinesFail,
                WriteLines, Fail, FileInv
  <2> QED BY <1>2, <2>1, <2>2 DEF FileInv
<1>8. CASE Shuffle \/ Over \/ UNCHANGED importVars
  <2>1. UNCHANGED <<generator, buffer, returned, size, reader, use, status>>
    BY <1>8 DEF Shuffle, Over, importVars, allVars, vars
  <2> QED BY <1>1, <1>2, <2>1 DEF FileInv, StreamInv
<1>9. CASE StartHplt \/ StepHplt \/ EndHplt
  <2>1. /\ use # "file" /\ UNCHANGED <<generator, buffer, returned, size, use>>
    BY <1>9 DEF StartHplt, StepHplt, EndHplt, IsHplt, allVars, vars
  <2> QED BY <1>1, <1>2, <2>1 DEF FileInv, StreamInv
<1> QED BY <1>4, <1>5, <1>6, <1>7, <1>8, <1>9 DEF ImportNext, DownloadNext

\* A file that has all the bytes is the whole file.
LEMMA DoneIsWhole == FileInv => DownloadWhole
<1> SUFFICES ASSUME FileInv, use = "file", status = "done" PROVE returned = Whole
  BY DEF DownloadWhole
<1>1. returned \in Seq(Nat) /\ returned \o <<>> = File(1, FileSize)
  BY DEF FileInv, StreamInv
<1> QED BY <1>1 DEF Whole

-----------------------------------------------------------------------------
(* The lines of a file.                                                    *)

\* Lines end at the bytes that are newlines, for bytes are known by their positions.
LEMMA EndsOfFile ==
    ASSUME NEW d \in Nat, NEW ended \in BOOLEAN
    PROVE  LineEnds(File(1, d), ended) =
               {i \in 1 .. d : i \in Newlines \/ (ended /\ i = d)}
<1>1. /\ DOMAIN File(1, d) = 1 .. d /\ Len(File(1, d)) = d
      /\ \A i \in 1 .. d : File(1, d)[i] = i
  BY FileIsSeq DEF File
<1> QED BY <1>1 DEF LineEnds

\* The k-th end is the one up to which there are k.
LEMMA EndOfIs ==
    ASSUME NEW n \in Nat, NEW S \in SUBSET (1 .. n), NEW k \in 1 .. Cardinality(S)
    PROVE  EndOf(S, k) \in S /\ Cardinality(S \cap (1 .. EndOf(S, k))) = k
<1>1. \E l \in S : Cardinality(S \cap (1 .. l)) = k
  BY CountReaches
<1>2. k # 0
  OBVIOUS
<1> QED BY <1>1, <1>2 DEF EndOf

\* A line ends after the one before it.
LEMMA EndsRise ==
    ASSUME NEW n \in Nat, NEW S \in SUBSET (1 .. n),
           NEW j \in Nat, NEW k \in 1 .. Cardinality(S), j < k
    PROVE  EndOf(S, j) \in Nat /\ EndOf(S, k) \in 1 .. n /\ EndOf(S, j) < EndOf(S, k)
<1>1. EndOf(S, k) \in 1 .. n /\ Cardinality(S \cap (1 .. EndOf(S, k))) = k
  BY EndOfIs
<1>2. CASE j = 0
  BY <1>1, <1>2 DEF EndOf
<1>3. CASE j # 0
  <2>1. Cardinality(S) \in Nat
    <3>1. S \cap (1 .. n) = S
      OBVIOUS
    <3> QED BY <3>1, CountIsNat
  <2>2. j \in 1 .. Cardinality(S)
    BY <1>3, <2>1
  <2>3. EndOf(S, j) \in 1 .. n /\ Cardinality(S \cap (1 .. EndOf(S, j))) = j
    BY <2>2, EndOfIs
  <2>4. PICK a \in Nat, b \in Nat : a = EndOf(S, j) /\ b = EndOf(S, k)
    BY <1>1, <2>3
  <2>5. ASSUME b <= a PROVE FALSE
    <3>1. Cardinality(S \cap (1 .. b)) <= Cardinality(S \cap (1 .. a))
      BY <2>5, CountGrows
    <3> QED BY <1>1, <2>3, <2>4, <3>1
  <2> QED BY <1>1, <2>3, <2>4, <2>5
<1> QED BY <1>2, <1>3

\* Ends that come after all the others change none of them.
LEMMA EndsAgree ==
    ASSUME NEW n \in Nat, NEW T \in SUBSET (1 .. n), NEW S \in SUBSET T,
           \A a \in S : \A b \in T \ S : a < b,
           NEW k \in 0 .. Cardinality(S)
    PROVE  /\ Cardinality(S) <= Cardinality(T)
           /\ EndOf(S, k) = EndOf(T, k)
<1>1. /\ IsFiniteSet(T) /\ Cardinality(T) \in Nat /\ Cardinality(S) \in Nat
      /\ S \in SUBSET (1 .. n)
  <2>1. T \cap (1 .. n) = T /\ S \cap (1 .. n) = S
    OBVIOUS
  <2> QED BY <2>1, CountIsNat
<1>2. Cardinality(S) <= Cardinality(T)
  BY <1>1, FS_Subset
<1>3. CASE k = 0
  BY <1>2, <1>3 DEF EndOf
<1>4. CASE k # 0
  <2>1. k \in 1 .. Cardinality(S) /\ k \in 1 .. Cardinality(T)
    BY <1>1, <1>2, <1>4
  <2>2. EndOf(S, k) \in S /\ Cardinality(S \cap (1 .. EndOf(S, k))) = k
    BY <1>1, <2>1, EndOfIs
  <2>3. EndOf(T, k) \in T /\ Cardinality(T \cap (1 .. EndOf(T, k))) = k
    BY <2>1, EndOfIs
  <2>4. PICK a \in S, b \in T : a = EndOf(S, k) /\ b = EndOf(T, k)
    BY <2>2, <2>3
  <2>5. a \in Nat /\ b \in Nat /\ a \in T
    OBVIOUS
  <2>6. T \cap (1 .. a) = S \cap (1 .. a)
    <3>1. ASSUME NEW i \in T, i \in 1 .. a PROVE i \in S
      BY <3>1, <2>5
    <3> QED BY <3>1
  <2>7. Cardinality(T \cap (1 .. a)) = k /\ Cardinality(T \cap (1 .. b)) = k
    BY <2>2, <2>3, <2>4, <2>6
  <2>8. ~(a < b) /\ ~(b < a)
    <3>1. a < b => Cardinality(T \cap (1 .. a)) < Cardinality(T \cap (1 .. b))
      BY <2>5, CountRises
    <3>2. b < a => Cardinality(T \cap (1 .. b)) < Cardinality(T \cap (1 .. a))
      BY <2>5, CountRises
    <3> QED BY <2>7, <3>1, <3>2
  <2> QED BY <1>2, <2>4, <2>5, <2>8
<1> QED BY <1>3, <1>4

\* No bytes make no lines.
LEMMA NoLines == ASSUME NEW ended PROVE LinesOf(<<>>, ended) = <<>>
<1>1. PICK ends : ends = LineEnds(<<>>, ended)
  OBVIOUS
<1>2. Cardinality(ends) = 0
  <2>1. ends = {}
    BY <1>1 DEF LineEnds
  <2> QED BY <2>1, FS_EmptySet
<1>3. PICK s : s = LinesOf(<<>>, ended)
  OBVIOUS
<1>4. s = [k \in 1 .. 0 |-> SubSeq(<<>>, EndOf(ends, k - 1) + 1, EndOf(ends, k))]
  BY <1>1, <1>2, <1>3 DEF LinesOf
<1>5. DOMAIN s = 1 .. 0 /\ s = [k \in DOMAIN s |-> s[k]]
  BY <1>4
<1>6. s \in [1 .. 0 -> Nat]
  BY <1>5
<1>7. s \in Seq(Nat) /\ Len(s) = 0
  BY <1>6
<1> QED BY <1>3, <1>7, EmptySeq

\* Each line is a part of the file, and not an empty one.
LEMMA LineIsPart ==
    ASSUME NEW d \in Nat, NEW ended \in BOOLEAN
    PROVE  LET ends == LineEnds(File(1, d), ended)
           IN  /\ ends \in SUBSET (1 .. d) /\ Cardinality(ends) \in Nat
               /\ LinesOf(File(1, d), ended) =
                      [k \in 1 .. Cardinality(ends) |->
                          File(EndOf(ends, k - 1) + 1, EndOf(ends, k))]
               /\ \A k \in 1 .. Cardinality(ends) :
                      /\ EndOf(ends, k - 1) \in Nat /\ EndOf(ends, k) \in 1 .. d
                      /\ EndOf(ends, k - 1) < EndOf(ends, k)
<1> DEFINE ends == LineEnds(File(1, d), ended)
<1>1. ends \in SUBSET (1 .. d)
  BY EndsOfFile
<1>2. Cardinality(ends) \in Nat
  <2>1. ends \cap (1 .. d) = ends
    BY <1>1
  <2> QED BY <2>1, CountIsNat
<1>3. ASSUME NEW k \in 1 .. Cardinality(ends)
      PROVE  /\ EndOf(ends, k - 1) \in Nat /\ EndOf(ends, k) \in 1 .. d
             /\ EndOf(ends, k - 1) < EndOf(ends, k)
  <2> HIDE DEF ends
  <2>1. k - 1 \in Nat /\ k - 1 < k
    BY <1>2
  <2> QED BY <1>1, <2>1, EndsRise
<1>4. ASSUME NEW a \in Nat, NEW b \in 1 .. d
      PROVE  SubSeq(File(1, d), a + 1, b) = File(a + 1, b)
  BY DEF File
<1>5. LinesOf(File(1, d), ended) =
          [k \in 1 .. Cardinality(ends) |->
              SubSeq(File(1, d), EndOf(ends, k - 1) + 1, EndOf(ends, k))]
  BY DEF LinesOf
<1> HIDE DEF ends
<1>6. LinesOf(File(1, d), ended) =
          [k \in 1 .. Cardinality(ends) |-> File(EndOf(ends, k - 1) + 1, EndOf(ends, k))]
  BY <1>3, <1>4, <1>5
<1> QED BY <1>1, <1>2, <1>3, <1>6 DEF ends

\* Some lines are those that others begin with.
Begins(s, t) ==
    /\ Len(s) \in Nat /\ Len(t) \in Nat /\ Len(s) <= Len(t)
    /\ DOMAIN s = 1 .. Len(s) /\ DOMAIN t = 1 .. Len(t)
    /\ \A k \in 1 .. Len(s) : s[k] = t[k]

\* As more of the file comes in, whole lines stay what they are.
LEMMA LinesAgree ==
    ASSUME NEW d \in Nat, NEW e \in Nat, d <= e, NEW ended \in BOOLEAN
    PROVE  Begins(LinesOf(File(1, d), FALSE), LinesOf(File(1, e), ended))
<1>1. PICK S : S = LineEnds(File(1, d), FALSE)
  OBVIOUS
<1>2. PICK T : T = LineEnds(File(1, e), ended)
  OBVIOUS
<1>3. PICK s : s = LinesOf(File(1, d), FALSE)
  OBVIOUS
<1>4. PICK t : t = LinesOf(File(1, e), ended)
  OBVIOUS
<1>5. /\ S \in SUBSET (1 .. d) /\ Cardinality(S) \in Nat
      /\ s = [k \in 1 .. Cardinality(S) |-> File(EndOf(S, k - 1) + 1, EndOf(S, k))]
  BY <1>1, <1>3, LineIsPart
<1>6. /\ T \in SUBSET (1 .. e) /\ Cardinality(T) \in Nat
      /\ t = [k \in 1 .. Cardinality(T) |-> File(EndOf(T, k - 1) + 1, EndOf(T, k))]
  BY <1>2, <1>4, LineIsPart
<1>7. S \in SUBSET T /\ \A a \in S : \A b \in T \ S : a < b
  <2>1. S = {i \in 1 .. d : i \in Newlines}
    BY <1>1, EndsOfFile
  <2>2. T = {i \in 1 .. e : i \in Newlines \/ (ended /\ i = e)}
    BY <1>2, EndsOfFile
  <2> QED BY <2>1, <2>2
<1>8. \A k \in 0 .. Cardinality(S) : Cardinality(S) <= Cardinality(T)
                                     /\ EndOf(S, k) = EndOf(T, k)
  BY <1>6, <1>7, EndsAgree
<1>9. Cardinality(S) <= Cardinality(T)
  BY <1>5, <1>8
<1>10. \A k \in 1 .. Cardinality(S) : EndOf(S, k - 1) = EndOf(T, k - 1)
                                      /\ EndOf(S, k) = EndOf(T, k) /\ k \in 1 .. Cardinality(T)
  <2> TAKE k \in 1 .. Cardinality(S)
  <2>1. k - 1 \in 0 .. Cardinality(S) /\ k \in 0 .. Cardinality(S)
    BY <1>5
  <2> QED BY <1>5, <1>6, <1>8, <1>9, <2>1
<1>11. DOMAIN s = 1 .. Cardinality(S) /\ DOMAIN t = 1 .. Cardinality(T)
  BY <1>5, <1>6
<1>12. Len(s) = Cardinality(S)
  <2>1. PICK c \in Nat : c = Cardinality(S)
    BY <1>5
  <2>2. s = [k \in 1 .. c |-> File(EndOf(S, k - 1) + 1, EndOf(S, k))]
    BY <1>5, <2>1
  <2>3. Len([k \in 1 .. c |-> File(EndOf(S, k - 1) + 1, EndOf(S, k))]) = c
    OBVIOUS
  <2> QED BY <2>1, <2>2, <2>3
<1>13. Len(t) = Cardinality(T)
  BY <1>6
<1>14. \A k \in 1 .. Cardinality(S) : s[k] = t[k]
  BY <1>5, <1>6, <1>10
<1> QED BY <1>3, <1>4, <1>5, <1>6, <1>9, <1>11, <1>12, <1>13, <1>14 DEF Begins

\* No two lines are the same part of the file.
LEMMA LinesDiffer ==
    ASSUME NEW d \in Nat, NEW ended \in BOOLEAN
    PROVE  LET s == LinesOf(File(1, d), ended)
           IN  /\ Len(s) \in Nat /\ DOMAIN s = 1 .. Len(s)
               /\ \A j, k \in 1 .. Len(s) : s[j] = s[k] => j = k
<1>1. PICK S : S = LineEnds(File(1, d), ended)
  OBVIOUS
<1>2. PICK s : s = LinesOf(File(1, d), ended)
  OBVIOUS
<1>3. /\ S \in SUBSET (1 .. d) /\ Cardinality(S) \in Nat
      /\ s = [k \in 1 .. Cardinality(S) |-> File(EndOf(S, k - 1) + 1, EndOf(S, k))]
      /\ \A k \in 1 .. Cardinality(S) :
             /\ EndOf(S, k - 1) \in Nat /\ EndOf(S, k) \in 1 .. d
             /\ EndOf(S, k - 1) < EndOf(S, k)
  BY <1>1, <1>2, LineIsPart
<1>7. \A k \in 1 .. Cardinality(S) :
          EndOf(S, k - 1) \in Nat /\ EndOf(S, k) \in Nat /\ EndOf(S, k - 1) < EndOf(S, k)
  BY <1>3
<1>4. ASSUME NEW a \in Nat, NEW b \in Nat, a < b
      PROVE  /\ File(a + 1, b) \in Seq(Nat)
             /\ Len(File(a + 1, b)) \in Nat
             /\ File(a + 1, b)[Len(File(a + 1, b))] = b
  <2>1. a + 1 \in Nat /\ a + 1 <= b + 1
    BY <1>4
  <2>2. File(a + 1, b) \in Seq(Nat) /\ Len(File(a + 1, b)) = b - (a + 1) + 1
    BY <2>1, FileIsSeq
  <2>3. b - (a + 1) + 1 \in 1 .. b - (a + 1) + 1
    BY <1>4
  <2>4. File(a + 1, b)[b - (a + 1) + 1] = b
    <3>1. PICK l \in Nat : l = b - (a + 1) + 1 /\ a + l = b
      BY <1>4
    <3>2. File(a + 1, b)[l] = a + 1 + l - 1
      BY <2>3, <3>1 DEF File
    <3> QED BY <3>1, <3>2
  <2> QED BY <2>2, <2>3, <2>4
<1>5. ASSUME NEW j \in 1 .. Cardinality(S), NEW k \in 1 .. Cardinality(S), s[j] = s[k]
      PROVE  j = k
  <2>1. \A i \in 1 .. Cardinality(S) : s[i][Len(s[i])] = EndOf(S, i)
    <3> TAKE i \in 1 .. Cardinality(S)
    <3>3. PICK a \in Nat : a = EndOf(S, i - 1)
      BY <1>7
    <3>4. PICK b \in Nat : b = EndOf(S, i)
      BY <1>7
    <3>1. a = EndOf(S, i - 1) /\ b = EndOf(S, i) /\ a < b
      BY <1>7, <3>3, <3>4
    <3>2. s[i] = File(a + 1, b)
      BY <1>3, <3>1
    <3> QED BY <1>4, <3>1, <3>2
  <2>2. EndOf(S, j) = EndOf(S, k)
    BY <1>5, <2>1
  <2>3. ~(j < k) /\ ~(k < j)
    <3>1. EndOf(S, j) \in Nat
      BY <1>3
    <3>2. S \in SUBSET (1 .. d) /\ j \in Nat /\ k \in Nat
      BY <1>3
    <3>3. j < k => EndOf(S, j) < EndOf(S, k)
      BY <3>2, EndsRise
    <3>4. k < j => EndOf(S, k) < EndOf(S, j)
      BY <3>2, EndsRise
    <3> QED BY <2>2, <3>1, <3>3, <3>4
  <2> QED BY <2>3
<1>6. Len(s) = Cardinality(S) /\ DOMAIN s = 1 .. Cardinality(S)
  BY <1>3
<1> QED BY <1>2, <1>3, <1>5, <1>6

-----------------------------------------------------------------------------
(* The sample of a file.                                                   *)

All == LinesOf(Whole, TRUE)

\* How the generator, read() and the decoder stand to each other.  A read() that finds the
\* generator gone returns nothing, and then the buffer is empty and the file over.
Reading ==
    /\ eof \in BOOLEAN
    /\ phase = "finished" => ~chunk_iter
    /\ ~chunk_iter /\ reader \in {"between", "reading"} => phase = "finished"
    /\ phase = "finished" /\ reader = "between" => buffer = <<>>
    /\ phase = "finished" /\ reader = "reading" => size < 0 \/ Len(buffer) < size
    /\ eof => phase = "finished" /\ buffer = <<>> /\ reader # "reading"
    /\ status = "ready" => returned = <<>> /\ ~eof /\ reader # "reading"

\* The shuffler holds different lines of the file, none of which it has yet to come to;
\* it does not leave its first loop before it has its fill or the file is over.
SampleRing ==
    /\ ~isList /\ limit \in Nat \ {0} /\ lineIndex \in Nat
    /\ place \in Nat \ {0} /\ place <= Len(stream) + 1
    /\ lines \in Seq(ToSet(All)) /\ Len(lines) <= limit /\ Len(lines) < place
    /\ \A i \in DOMAIN lines : \E k \in DOMAIN All : k < place /\ lines[i] = All[k]
    /\ \A i, j \in DOMAIN lines : lines[i] = lines[j] => i = j
    /\ loop = "fill" => Len(lines) = place - 1
    /\ loop \in {"sample", "over"} =>
           Len(lines) = limit \/ (eof /\ Len(lines) = Len(All) /\ place = Len(All) + 1)
    /\ loop = "over" => eof /\ ~WrongFormat

Decoded  == stream = LinesOf(returned, eof)
Sampling == loop \in {"fill", "sample", "over"} => SampleRing

SampleInv ==
    /\ FileInv
    /\ use = "mono" => Reading /\ Decoded /\ Sampling
    /\ SampleOfFile

\* What begins a part of the file from its first byte is such a part itself.
LEMMA FileBegins ==
    ASSUME NEW r \in Seq(Nat), NEW b \in Seq(Nat), NEW d \in Nat, r \o b = File(1, d)
    PROVE  Len(r) \in Nat /\ Len(r) <= d /\ r = File(1, Len(r))
<1>2. PICK n \in Nat : n = Len(r)
  OBVIOUS
<1>3. /\ Len(r \o b) = n + Len(b) /\ Len(b) \in Nat
      /\ \A i \in 1 .. n : (r \o b)[i] = r[i]
  BY <1>2, ConcatProperties
<1>4. Len(File(1, d)) = d /\ \A i \in 1 .. d : File(1, d)[i] = i
  BY FileIsSeq DEF File
<1>5. n <= d /\ \A i \in 1 .. n : r[i] = i
  <2>1. n <= d
    BY <1>3, <1>4
  <2>2. \A i \in 1 .. n : i \in 1 .. d
    BY <2>1
  <2>3. \A i \in 1 .. n : r[i] = (r \o b)[i] /\ (r \o b)[i] = i
    BY <1>3, <1>4, <2>2
  <2> QED BY <2>1, <2>3
<1>6. r = File(1, n)
  <2>1. File(1, n) \in Seq(Nat) /\ Len(File(1, n)) = n /\ \A i \in 1 .. n : File(1, n)[i] = i
    BY FileIsSeq DEF File
  <2> QED BY <1>2, <1>5, <2>1, SeqEqual
<1> QED BY <1>2, <1>5, <1>6

\* What was returned is a part of the file, and all of it at the end.
LEMMA ReturnedIsFile ==
    ASSUME FileInv
    PROVE  /\ returned \in Seq(Nat) /\ Len(returned) \in Nat /\ FileSize \in Nat
           /\ Len(returned) <= FileSize
           /\ returned = File(1, Len(returned))
           /\ phase = "finished" /\ buffer = <<>> => returned = Whole
<1>1. /\ returned \in Seq(Nat) /\ buffer \in Seq(Nat) /\ FileSize \in Nat
      /\ downloaded \in 0 .. FileSize /\ returned \o buffer = File(1, downloaded)
  BY SizesAssumption DEF FileInv, StreamInv
<1>2. /\ Len(returned) \in Nat /\ Len(returned) <= downloaded
      /\ returned = File(1, Len(returned))
  <2>1. downloaded \in Nat
    BY <1>1
  <2> QED BY <1>1, <2>1, FileBegins
<1>7. phase = "finished" /\ buffer = <<>> => returned = Whole
  <2> SUFFICES ASSUME phase = "finished", buffer = <<>> PROVE returned = Whole
    OBVIOUS
  <2>1. downloaded = FileSize
    BY DEF FileInv
  <2>2. returned \o <<>> = returned
    BY <1>1
  <2> QED BY <1>1, <2>1, <2>2 DEF Whole
<1> QED BY <1>1, <1>2, <1>7

\* The lines that were decoded begin those of the file, and are all of them at its end.
LEMMA StreamBeginsAll ==
    ASSUME FileInv, Reading, Decoded
    PROVE  /\ Len(stream) \in Nat /\ Len(All) \in Nat /\ Len(stream) <= Len(All)
           /\ DOMAIN stream = 1 .. Len(stream) /\ DOMAIN All = 1 .. Len(All)
           /\ \A k \in 1 .. Len(stream) : stream[k] = All[k]
           /\ \A j, k \in DOMAIN All : All[j] = All[k] => j = k
           /\ eof => stream = All /\ returned = Whole
<1>1. PICK n \in Nat : n = Len(returned) /\ n <= FileSize /\ returned = File(1, n)
  BY ReturnedIsFile
<1>2. FileSize \in Nat /\ Whole = File(1, FileSize)
  BY SizesAssumption DEF Whole
<1>3. /\ Len(All) \in Nat /\ DOMAIN All = 1 .. Len(All)
      /\ \A j, k \in DOMAIN All : All[j] = All[k] => j = k
  BY <1>2, LinesDiffer DEF All
<1>4. CASE eof
  <2>1. returned = Whole
    BY <1>4, ReturnedIsFile DEF Reading
  <2>2. stream = All
    BY <1>4, <2>1 DEF All, Decoded
  <2>3. \A k \in 1 .. Len(stream) : stream[k] = All[k]
    BY <2>2
  <2> QED BY <1>3, <2>1, <2>2, <2>3
<1>5. CASE ~eof
  <2>0. eof = FALSE
    BY <1>5 DEF Reading
  <2>1. PICK ended \in BOOLEAN : ended = TRUE
    OBVIOUS
  <2>2. stream = LinesOf(File(1, n), FALSE) /\ All = LinesOf(File(1, FileSize), ended)
    BY <1>1, <1>2, <2>0, <2>1 DEF All, Decoded
  <2>3. Begins(stream, All)
    <3>1. n \in Nat /\ FileSize \in Nat /\ n <= FileSize
      BY <1>1, <1>2
    <3>2. Begins(LinesOf(File(1, n), FALSE), LinesOf(File(1, FileSize), ended))
      BY <3>1, LinesAgree
    <3> QED BY <2>2, <3>2
  <2> QED BY <1>3, <1>5, <2>3 DEF Begins
<1> QED BY <1>4, <1>5 DEF Reading

\* The file has the lines it has.
LEMMA SameFile == All' = All
  BY DEF All, Whole, File, LinesOf, LineEnds, EndOf

\* What is decoded grows at its end.
LEMMA StreamGrows ==
    ASSUME FileInv, FileInv', Decoded, Decoded', eof = FALSE, eof' \in BOOLEAN,
           Len(returned) <= Len(returned')
    PROVE  Begins(stream, stream')
<1>1. PICK n \in Nat : n = Len(returned) /\ returned = File(1, n)
  BY ReturnedIsFile
<1>2. PICK m \in Nat : m = Len(returned') /\ returned' = File(1, m)
  <2>1. PICK r \in Seq(Nat), b \in Seq(Nat), d \in Nat :
            r = returned' /\ b = buffer' /\ d = downloaded'
    BY SizesAssumption DEF FileInv, StreamInv
  <2>2. r \o b = File(1, d)
    BY <2>1 DEF FileInv, StreamInv, File
  <2>3. Len(r) \in Nat /\ r = File(1, Len(r))
    BY <2>2, FileBegins
  <2> QED BY <2>1, <2>3
<1>3. PICK ended \in BOOLEAN : ended = eof'
  OBVIOUS
<1>4. Begins(LinesOf(File(1, n), FALSE), LinesOf(File(1, m), ended))
  BY <1>1, <1>2, LinesAgree
<1>5. stream = LinesOf(File(1, n), FALSE)
  BY <1>1 DEF Decoded
<1>6. stream' = LinesOf(File(1, m), ended)
  <2>1. stream' = LinesOf(returned', eof')
    BY DEF Decoded, LinesOf, LineEnds, EndOf
  <2> QED BY <1>2, <1>3, <2>1
<1> QED BY <1>4, <1>5, <1>6

\* The shuffler does not notice that more is decoded.
LEMMA RingGrows ==
    ASSUME Sampling, ~eof, Begins(stream, stream'),
           UNCHANGED <<isList, limit, loop, place, lines, lineIndex>>
    PROVE  Sampling'
<1>1. All' = All
  BY SameFile
<1>2. Len(stream) \in Nat /\ Len(stream') \in Nat /\ Len(stream) <= Len(stream')
  BY DEF Begins
<1> QED BY <1>1, <1>2 DEF Sampling, SampleRing

-----------------------------------------------------------------------------
(* The steps of download-mono.py.                                          *)

\* The generator moves only while read() waits for it.
LEMMA GenerateSample ==
    ASSUME Reading, Generate
    PROVE  Reading'
<1> USE DEF Reading
<1>1. UNCHANGED <<size, returned, eof, status>>
  BY DEF Generate, Request, YieldChunk, BodyEnds, AttemptFails, NextAttempt
<1>2. CASE Request
  BY <1>1, <1>2 DEF Request, Wants
<1>3. CASE YieldChunk
  BY <1>1, <1>3 DEF YieldChunk, Wants
<1>4. CASE BodyEnds
  BY <1>1, <1>4 DEF BodyEnds, Wants
<1>5. CASE AttemptFails
  BY <1>1, <1>5 DEF AttemptFails, Wants
<1>6. CASE NextAttempt
  BY <1>1, <1>6 DEF NextAttempt
<1> QED BY <1>2, <1>3, <1>4, <1>5, <1>6 DEF Generate

\* A read() that begins finds the generator at work, or gone with all of the file.
LEMMA CallSample ==
    ASSUME Reading, CallRead, status = "running", UNCHANGED status
    PROVE  Reading' /\ eof = FALSE /\ returned' = returned
<1>1. /\ reader = "between" /\ eof = FALSE
      /\ UNCHANGED <<phase, chunk_iter, buffer, returned>>
      /\ \/ chunk_iter /\ reader' = "reading" /\ UNCHANGED eof
         \/ ~chunk_iter /\ reader' = "between" /\ eof' \in BOOLEAN
  BY DEF CallRead, generator, Reading
<1> QED BY <1>1 DEF Reading

\* A read() that ends returned nothing only when the file is over.
LEMMA ReturnSample ==
    ASSUME FileInv, Reading, Return, UNCHANGED status
    PROVE  Reading' /\ eof = FALSE /\ Len(returned) <= Len(returned')
<1>1. /\ reader = "reading" /\ reader' = "between" /\ eof = FALSE
      /\ UNCHANGED <<phase, chunk_iter, size>> /\ status # "ready"
  BY DEF Return, Reading, generator
<1>2. /\ buffer \in Seq(Nat) /\ returned \in Seq(Nat) /\ size \in Int
      /\ Len(buffer) \in Nat /\ Len(returned) \in Nat
  BY DEF FileInv, StreamInv
<1>3. PICK n : n = IF size < 0 \/ size > Len(buffer) THEN Len(buffer) ELSE size
  OBVIOUS
<1>4. n \in 0 .. Len(buffer)
  BY <1>2, <1>3
<1>5. /\ returned' = returned \o SubSeq(buffer, 1, n)
      /\ buffer' = SubSeq(buffer, n + 1, Len(buffer)) /\ eof' = (n = 0 /\ size # 0)
      /\ ~Wants \/ phase = "finished"
  BY <1>3 DEF Return, Rest
<1>6. Len(returned) <= Len(returned')
  <2>1. SubSeq(buffer, 1, n) \in Seq(Nat)
    BY <1>2, <1>4, ReadSplits
  <2>2. Len(returned \o SubSeq(buffer, 1, n)) = Len(returned) + Len(SubSeq(buffer, 1, n))
        /\ Len(SubSeq(buffer, 1, n)) \in Nat
    BY <1>2, <2>1, ConcatProperties
  <2>3. PICK m \in Nat : m = Len(returned)
    BY <1>2
  <2>4. PICK l \in Nat : l = Len(SubSeq(buffer, 1, n))
    BY <2>2
  <2>5. Len(returned') = m + l
    BY <1>5, <2>2, <2>3, <2>4
  <2>6. m <= m + l
    OBVIOUS
  <2> QED BY <2>3, <2>5, <2>6
<1>7. phase = "finished" => n = Len(buffer)
  BY <1>1, <1>2, <1>3 DEF Reading
<1>8. n = Len(buffer) => buffer' = <<>>
  BY <1>2, <1>5, SubSeqEmpty
<1>9. eof' => phase = "finished"
  BY <1>1, <1>2, <1>3, <1>5 DEF Wants
<1>10. eof' \in BOOLEAN /\ chunk_iter' = chunk_iter
  BY <1>1, <1>5
<1> QED BY <1>1, <1>6, <1>7, <1>8, <1>9, <1>10 DEF Reading

\* More lines are decoded, and nothing of the sample changes.
LEMMA DecodeStep ==
    ASSUME FileInv, FileInv', Reading, Decoded, Sampling, use = "mono",
           ReadBlock \/ DecodeBlock
    PROVE  Reading' /\ Decoded' /\ Sampling'
<1>1. /\ UNCHANGED <<status, isList, limit, loop, place, lines, lineIndex>>
      /\ stream' = LinesOf(returned', eof')
  BY DEF ReadBlock, DecodeBlock, CallRead
<1>2. Reading' /\ eof = FALSE /\ Len(returned) <= Len(returned')
  <2>1. CASE ReadBlock
    <3>1. CallRead /\ status = "running"
      BY <2>1 DEF ReadBlock, Pulls
    <3>2. Len(returned) \in Nat
      BY ReturnedIsFile
    <3> QED BY <1>1, <3>1, <3>2, CallSample
  <2>2. CASE DecodeBlock
    BY <1>1, <2>2, ReturnSample DEF DecodeBlock
  <2> QED BY <2>1, <2>2
<1>3. Decoded'
  BY <1>1 DEF Decoded, LinesOf, LineEnds, EndOf
<1>4. eof' \in BOOLEAN
  BY <1>2 DEF Reading
<1>5. Begins(stream, stream')
  BY <1>2, <1>3, <1>4, StreamGrows
<1> QED BY <1>1, <1>2, <1>3, <1>5, RingGrows

\* The shuffler begins with nothing before the first read().
LEMMA OpenStep ==
    ASSUME Reading, OpenLines
    PROVE  Reading' /\ Decoded' /\ Sampling'
<1>1. PICK limited \in SentenceLimits : Shuffler!StartShuffle(<<>>, FALSE, limited)
  BY DEF OpenLines
<1>2. limited \in Nat \ {0}
  BY ConsumersAssumption
<1>3. /\ UNCHANGED vars /\ status' = "running" /\ returned = <<>> /\ eof = FALSE
  BY DEF OpenLines, Reading
<1>4. /\ stream' = <<>> /\ isList' = FALSE /\ limit' = limited /\ loop' = "fill"
      /\ place' = 1 /\ lines' = <<>> /\ lineIndex' = 0
  BY <1>1 DEF Shuffler!StartShuffle
<1>5. LinesOf(<<>>, FALSE) = <<>>
  BY NoLines
<1>6. Decoded'
  <2>1. returned' = <<>> /\ eof' = FALSE
    BY <1>3 DEF vars
  <2>2. LinesOf(returned', eof') = <<>>
    BY <1>5, <2>1
  <2> QED BY <1>4, <2>2 DEF Decoded, LinesOf, LineEnds, EndOf
<1>7. Reading'
  BY <1>3 DEF Reading, vars
<1>8. SampleRing'
  BY <1>2, <1>4 DEF SampleRing
<1> QED BY <1>6, <1>7, <1>8 DEF Sampling

\* Shuffled lines are the same lines in other places.
LEMMA ShuffledLines ==
    ASSUME NEW S, NEW s \in Seq(S), NEW t \in Shuffler!Shuffles(s)
    PROVE  /\ t \in Seq(S) /\ Len(t) = Len(s) /\ DOMAIN t = DOMAIN s
           /\ \A i \in DOMAIN t : \E k \in DOMAIN s : t[i] = s[k]
           /\ (\A i, j \in DOMAIN s : s[i] = s[j] => i = j)
                  => \A i, j \in DOMAIN t : t[i] = t[j] => i = j
<1>1. Len(s) \in Nat /\ DOMAIN s = 1 .. Len(s)
  OBVIOUS
<1>2. PICK p \in Shuffler!Bijection(1 .. Len(s), 1 .. Len(s)) : t = [i \in 1 .. Len(s) |-> s[p[i]]]
  <2>1. PICK p \in Shuffler!Bijection(DOMAIN s, DOMAIN s) : t = [i \in DOMAIN s |-> s[p[i]]]
    BY DEF Shuffler!Shuffles
  <2> QED BY <1>1, <2>1
<1>3. /\ p \in [1 .. Len(s) -> 1 .. Len(s)]
      /\ \A i, j \in 1 .. Len(s) : p[i] = p[j] => i = j
  BY DEF Shuffler!Bijection, Shuffler!Injection, Shuffler!IsInjective, Shuffler!Surjection
<1>4. t \in Seq(S) /\ Len(t) = Len(s) /\ DOMAIN t = 1 .. Len(s)
  BY <1>1, <1>2, <1>3
<1>5. \A i \in DOMAIN t : p[i] \in DOMAIN s /\ t[i] = s[p[i]]
  BY <1>1, <1>2, <1>3, <1>4
<1> QED BY <1>1, <1>3, <1>4, <1>5

\* A line that is put into the sample is one more that it did not hold.
LEMMA PutStep ==
    ASSUME FileInv, Reading, Decoded, SampleRing, place <= Len(stream),
           UNCHANGED <<stream, isList, limit, eof, returned, location>>, place' = place + 1,
           \/ /\ lines' = Append(lines, stream[place]) /\ lineIndex' = lineIndex
              /\ Len(lines) # limit /\ loop = "fill" /\ loop' = "fill"
           \/ /\ Len(lines) = limit /\ loop = "sample" /\ loop' = "sample"
              /\ lineIndex' = lineIndex + 1
              /\ lines' = [lines EXCEPT ![(lineIndex % limit) + 1] = stream[place]]
           \/ loop = "sample" /\ loop' = "sample" /\ UNCHANGED <<lines, lineIndex>>
    PROVE  SampleRing'
<1>0. All' = All
  BY SameFile
<1>1. /\ Len(stream) \in Nat /\ Len(All) \in Nat /\ Len(stream) <= Len(All)
      /\ DOMAIN All = 1 .. Len(All)
      /\ \A k \in 1 .. Len(stream) : stream[k] = All[k]
      /\ \A j, k \in DOMAIN All : All[j] = All[k] => j = k
      /\ eof => stream = All
  BY StreamBeginsAll
<1>2. /\ ~isList /\ limit \in Nat \ {0} /\ lineIndex \in Nat /\ place \in Nat \ {0}
      /\ lines \in Seq(ToSet(All)) /\ Len(lines) <= limit /\ Len(lines) < place
      /\ \A i \in DOMAIN lines : \E k \in DOMAIN All : k < place /\ lines[i] = All[k]
      /\ \A i, j \in DOMAIN lines : lines[i] = lines[j] => i = j
      /\ loop = "fill" => Len(lines) = place - 1
      /\ loop = "sample" => Len(lines) = limit \/ (eof /\ place = Len(All) + 1)
  BY DEF SampleRing
<1>3. PICK line : line = stream[place]
  OBVIOUS
<1>4. /\ place \in DOMAIN All /\ line = All[place] /\ line \in ToSet(All)
      /\ \A i \in DOMAIN lines : lines[i] # line
  <2>1. place \in DOMAIN All /\ line = All[place]
    BY <1>1, <1>2, <1>3
  <2>2. line \in ToSet(All)
    BY <2>1 DEF ToSet
  <2>3. ASSUME NEW i \in DOMAIN lines, lines[i] = line PROVE FALSE
    <3>1. PICK k \in DOMAIN All : k < place /\ lines[i] = All[k]
      BY <1>2
    <3>2. k = place
      BY <1>1, <2>1, <2>3, <3>1
    <3> QED BY <1>2, <3>1, <3>2
  <2> QED BY <2>1, <2>2, <2>3
<1>5. loop = "sample" => Len(lines) = limit
  BY <1>1, <1>2
<1>6. PICK m \in Nat : m = Len(lines) /\ DOMAIN lines = 1 .. m
  BY <1>2
<1>7. /\ UNCHANGED <<isList, limit, loop>> /\ loop \in {"fill", "sample"}
      /\ place' \in Nat \ {0} /\ place' <= Len(stream') + 1 /\ lineIndex' \in Nat
  BY <1>1, <1>2
<1>9. /\ place < place'
      /\ \A i \in DOMAIN lines : \E k \in DOMAIN All : k < place' /\ lines[i] = All[k]
  <2>1. place < place'
    BY <1>2
  <2>2. \A k \in DOMAIN All : k < place => k < place'
    BY <1>1, <1>2
  <2> QED BY <1>2, <2>1, <2>2
<1>8. CASE lines' = Append(lines, line) /\ Len(lines) # limit /\ loop = "fill"
  <2>1. /\ lines' \in Seq(ToSet(All)) /\ Len(lines') = m + 1 /\ DOMAIN lines' = 1 .. m + 1
        /\ lines'[m + 1] = line /\ \A i \in 1 .. m : lines'[i] = lines[i]
    BY <1>2, <1>4, <1>6, <1>8
  <2>2. Len(lines') <= limit' /\ Len(lines') < place' /\ Len(lines') = place' - 1
    BY <1>2, <1>6, <1>7, <1>8, <2>1
  <2>3. ASSUME NEW i \in DOMAIN lines'
        PROVE  \E k \in DOMAIN All : k < place' /\ lines'[i] = All[k]
    <3>1. CASE i = m + 1
      BY <1>4, <1>9, <2>1, <3>1
    <3>2. CASE i \in 1 .. m
      BY <1>6, <1>9, <2>1, <3>2
    <3> QED BY <2>1, <3>1, <3>2
  <2>4. \A i, j \in DOMAIN lines' : lines'[i] = lines'[j] => i = j
    BY <1>2, <1>4, <1>6, <2>1
  <2> QED BY <1>0, <1>2, <1>7, <1>8, <2>1, <2>2, <2>3, <2>4 DEF SampleRing
<1>10. CASE /\ lines' = [lines EXCEPT ![(lineIndex % limit) + 1] = line]
           /\ loop = "sample"
  <2>1. PICK p : p = (lineIndex % limit) + 1
    OBVIOUS
  <2>2. p \in 1 .. m
    BY <1>2, <1>5, <1>6, <1>10, <2>1
  <2>3. lines' = [lines EXCEPT ![p] = line]
    BY <1>10, <2>1
  <2>4. /\ lines' \in Seq(ToSet(All)) /\ Len(lines') = m /\ DOMAIN lines' = 1 .. m
        /\ \A i \in 1 .. m : lines'[i] = IF i = p THEN line ELSE lines[i]
    BY <1>2, <1>4, <1>6, <2>2, <2>3
  <2>5. Len(lines') = limit' /\ Len(lines') < place'
    BY <1>2, <1>5, <1>6, <1>7, <1>10, <2>4
  <2>6. \A i \in DOMAIN lines' : \E k \in DOMAIN All : k < place' /\ lines'[i] = All[k]
    BY <1>4, <1>6, <1>9, <2>4
  <2>7. \A i, j \in DOMAIN lines' : lines'[i] = lines'[j] => i = j
    BY <1>2, <1>4, <1>6, <2>4
  <2> QED BY <1>0, <1>2, <1>7, <1>10, <2>4, <2>5, <2>6, <2>7 DEF SampleRing
<1>11. CASE loop = "sample" /\ UNCHANGED lines
  <2>1. Len(lines') = limit' /\ Len(lines') < place'
    BY <1>2, <1>5, <1>6, <1>7, <1>11
  <2>2. \A i \in DOMAIN lines' : \E k \in DOMAIN All : k < place' /\ lines'[i] = All[k]
    BY <1>9, <1>11
  <2> QED BY <1>0, <1>2, <1>7, <1>11, <2>1, <2>2 DEF SampleRing
<1> QED BY <1>3, <1>8, <1>10, <1>11

\* The shuffler leaves its first loop with its fill, or with the whole file.
LEMMA LoopEnds ==
    ASSUME FileInv, Reading, Decoded, SampleRing, lines' \in Shuffler!Shuffles(lines),
           UNCHANGED <<stream, isList, limit, eof, returned, location, place>>,
           lineIndex' \in {lineIndex, Len(lines)},
           \/ /\ loop = "fill" /\ loop' = "sample"
              /\ place > Len(stream) \/ Len(lines) = limit
              /\ eof \/ Len(lines) = limit
           \/ /\ loop = "sample" /\ loop' = "over"
              /\ eof /\ ~WrongFormat
    PROVE  SampleRing'
<1>0. All' = All
  BY SameFile
<1>1. Len(stream) \in Nat /\ Len(All) \in Nat /\ (eof => stream = All)
  BY StreamBeginsAll
<1>2. /\ ~isList /\ limit \in Nat \ {0} /\ lineIndex \in Nat /\ place \in Nat \ {0}
      /\ place <= Len(stream) + 1
      /\ lines \in Seq(ToSet(All)) /\ Len(lines) <= limit /\ Len(lines) < place
      /\ \A i \in DOMAIN lines : \E k \in DOMAIN All : k < place /\ lines[i] = All[k]
      /\ \A i, j \in DOMAIN lines : lines[i] = lines[j] => i = j
      /\ loop = "fill" => Len(lines) = place - 1
      /\ loop = "sample" =>
             Len(lines) = limit \/ (eof /\ Len(lines) = Len(All) /\ place = Len(All) + 1)
  BY DEF SampleRing
<1>3. Len(lines) \in Nat
  BY <1>2
<1>4. /\ lines' \in Seq(ToSet(All)) /\ Len(lines') = Len(lines) /\ DOMAIN lines' = DOMAIN lines
      /\ \A i \in DOMAIN lines' : \E k \in DOMAIN lines : lines'[i] = lines[k]
      /\ \A i, j \in DOMAIN lines' : lines'[i] = lines'[j] => i = j
  BY <1>2, ShuffledLines, ZenonT(60)
<1>5. Len(lines) = limit \/ (eof /\ Len(lines) = Len(All) /\ place = Len(All) + 1)
  <2>1. CASE loop = "fill" /\ Len(lines) # limit
    <3>1. eof /\ place > Len(stream) /\ stream = All /\ Len(lines) = place - 1
      BY <1>1, <1>2, <2>1
    <3>2. place = Len(All) + 1
      BY <1>1, <1>2, <3>1
    <3> QED BY <1>1, <3>1, <3>2
  <2> QED BY <1>2, <2>1
<1>6. ASSUME NEW i \in DOMAIN lines'
      PROVE  \E k \in DOMAIN All : k < place /\ lines'[i] = All[k]
  <2>1. PICK j \in DOMAIN lines : lines'[i] = lines[j]
    BY <1>4
  <2> QED BY <1>2, <2>1
<1>7. lineIndex' \in Nat /\ loop' # "fill" /\ (loop' = "over" => eof /\ ~WrongFormat)
  BY <1>2, <1>3
<1>8. WrongFormat' <=> WrongFormat
  BY DEF WrongFormat, Decoder
<1> QED BY <1>0, <1>2, <1>4, <1>5, <1>6, <1>7, <1>8 DEF SampleRing

\* Each step of the shuffler is one of these.
LEMMA ShuffleKeeps ==
    ASSUME FileInv, Reading, Decoded, Sampling, Shuffle
    PROVE  Reading' /\ Decoded' /\ Sampling'
<1>1. UNCHANGED <<vars, use, location, status, artifact>> /\ UNCHANGED stream
  BY DEF Shuffle, Shuffler!Fill, Shuffler!EndFill, Shuffler!Sample, Shuffler!EndSample
<1>2. Reading' /\ Decoded'
  BY <1>1 DEF Reading, Decoded, vars, LinesOf, LineEnds, EndOf
<1>3. UNCHANGED <<stream, eof, returned, location>>
  BY <1>1 DEF vars
<1>4. CASE Shuffler!Fill
  <2>1. /\ loop = "fill" /\ place <= Len(stream) /\ Len(lines) < limit
        /\ lines' = Append(lines, stream[place]) /\ place' = place + 1
        /\ UNCHANGED <<isList, limit, loop, lineIndex>> /\ SampleRing
    BY <1>4 DEF Shuffler!Fill, Sampling
  <2>2. Len(lines) # limit
    BY <2>1 DEF SampleRing
  <2>3. SampleRing'
    BY <1>3, <2>1, <2>2, PutStep
  <2> QED BY <1>2, <2>3 DEF Sampling
<1>5. CASE Shuffler!Sample
  <2>1. /\ loop = "sample" /\ place <= Len(stream) /\ place' = place + 1
        /\ UNCHANGED <<isList, limit, loop>> /\ SampleRing
        /\ Shuffler!Put(stream[place]) \/ UNCHANGED <<lines, lineIndex>>
    BY <1>5 DEF Shuffler!Sample, Sampling
  <2>2. Len(lines) = limit
    <3>1. Len(stream) \in Nat /\ (eof => stream = All)
      BY StreamBeginsAll
    <3>2. place # Len(stream) + 1
      BY <2>1, <3>1 DEF SampleRing
    <3> QED BY <2>1, <3>1, <3>2 DEF SampleRing
  <2>3. SampleRing'
    <3>1. CASE UNCHANGED <<lines, lineIndex>>
      BY <1>3, <2>1, <3>1, PutStep
    <3>2. CASE Shuffler!Put(stream[place])
      <4>1. /\ lines' = [lines EXCEPT ![(lineIndex % limit) + 1] = stream[place]]
            /\ lineIndex' = lineIndex + 1
        BY <2>2, <3>2 DEF Shuffler!Put
      <4> QED BY <1>3, <2>1, <2>2, <4>1, PutStep
    <3> QED BY <2>1, <3>1, <3>2
  <2> QED BY <1>2, <2>3 DEF Sampling
<1>6. CASE Shuffler!EndFill /\ (eof \/ Len(lines) = limit)
  <2>1. /\ loop = "fill" /\ loop' = "sample" /\ SampleRing
        /\ place > Len(stream) \/ Len(lines) = limit
        /\ lines' \in Shuffler!Shuffles(lines) /\ lineIndex' = Len(lines)
        /\ UNCHANGED <<isList, limit>> /\ place' = IF isList THEN 1 ELSE place
    BY <1>6 DEF Shuffler!EndFill, Sampling
  <2>2. place' = place
    BY <2>1 DEF SampleRing
  <2>3. SampleRing'
    BY <1>3, <1>6, <2>1, <2>2, LoopEnds
  <2> QED BY <1>2, <2>3 DEF Sampling
<1>7. CASE Shuffler!EndSample /\ eof
  <2>1. /\ loop = "sample" /\ loop' = "over" /\ SampleRing /\ ~WrongFormat
        /\ lines' \in Shuffler!Shuffles(lines)
        /\ UNCHANGED <<isList, limit, place, lineIndex>>
    BY <1>7 DEF Shuffler!EndSample, Sampling, Shuffle
  <2>2. SampleRing'
    BY <1>3, <1>7, <2>1, LoopEnds
  <2> QED BY <1>2, <2>2 DEF Sampling
<1> QED BY <1>4, <1>5, <1>6, <1>7 DEF Shuffle

\* What is kept together when the shuffler and what it reads stay as they are.
LEMMA SampleStays ==
    ASSUME Decoded, Sampling, UNCHANGED <<returned, eof, location, shuffling>>
    PROVE  Decoded' /\ Sampling'
<1>1. UNCHANGED <<returned, eof, location, stream, isList, limit, loop, place, lines,
                  lineIndex>>
  BY DEF shuffling
<1>2. Decoded'
  BY <1>1 DEF Decoded, LinesOf, LineEnds, EndOf
<1>3. All' = All /\ (WrongFormat' <=> WrongFormat)
  BY <1>1, SameFile DEF WrongFormat, Decoder
<1> QED BY <1>1, <1>2, <1>3 DEF Sampling, SampleRing

\* The artifact is a sample of the lines when it is written.
LEMMA WriteStep ==
    ASSUME FileInv, Reading, Decoded, Sampling, use = "mono", WriteLines
    PROVE  Reading' /\ Decoded' /\ Sampling' /\ SampleOfFile'
<1>1. /\ loop = "over" /\ SampleRing /\ loop' = "idle"
      /\ artifact' = lines /\ status' = "done" /\ reader' = "closed" /\ chunk_iter' = FALSE
      /\ UNCHANGED <<phase, size, buffer, returned, eof, use, location>>
      /\ UNCHANGED <<stream, isList, limit, place, lines, lineIndex>>
  BY DEF WriteLines, Shuffler!Collect, Sampling, generator
<1>2. Reading' /\ Decoded' /\ Sampling'
  <2>1. Reading'
    BY <1>1 DEF Reading
  <2>2. Decoded'
    BY <1>1 DEF Decoded, LinesOf, LineEnds, EndOf
  <2> QED BY <1>1, <2>1, <2>2 DEF Sampling
<1>3. /\ Len(All) \in Nat /\ DOMAIN All = 1 .. Len(All) /\ eof /\ returned = Whole
      /\ ~WrongFormat
  BY <1>1, StreamBeginsAll DEF SampleRing
<1>4. /\ lines \in Seq(ToSet(All)) /\ Len(lines) <= limit /\ limit \in Nat
      /\ \A i, j \in DOMAIN lines : lines[i] = lines[j] => i = j
      /\ Len(lines) = limit \/ Len(lines) = Len(All)
  BY <1>1 DEF SampleRing
<1>5. PICK m \in Nat : m = Len(lines) /\ DOMAIN lines = 1 .. m
  BY <1>4
<1>6. ToSet(lines) \subseteq ToSet(All)
  BY <1>4, <1>5 DEF ToSet
<1>7. IsFiniteSet(1 .. m) /\ Cardinality(1 .. m) = m
  BY FS_Interval
<1>8. IsFiniteSet(ToSet(lines)) /\ Cardinality(ToSet(lines)) = m
  <2>1. lines \in [1 .. m -> ToSet(lines)]
    BY <1>4, <1>5 DEF ToSet
  <2>2. /\ lines \in Injection(1 .. m, ToSet(lines))
        /\ lines \in Surjection(1 .. m, ToSet(lines))
    BY <1>4, <1>5, <2>1 DEF Injection, Surjection, IsInjective, ToSet
  <2>3. IsFiniteSet(ToSet(lines)) /\ Cardinality(ToSet(lines)) = Cardinality(1 .. m)
    BY <1>7, <2>2, FS_Surjection
  <2> QED BY <1>7, <2>3
<1>9. IsFiniteSet(ToSet(All)) /\ Cardinality(ToSet(All)) <= Len(All)
  <2>1. IsFiniteSet(1 .. Len(All)) /\ Cardinality(1 .. Len(All)) = Len(All)
    <3>1. PICK n \in Nat : n = Len(All)
      BY <1>3
    <3>2. IsFiniteSet(1 .. n) /\ Cardinality(1 .. n) = n
      BY FS_Interval
    <3> QED BY <3>1, <3>2
  <2>2. All \in Surjection(1 .. Len(All), ToSet(All))
    <3>1. All = [k \in 1 .. Len(All) |-> All[k]]
      BY <1>3 DEF All, LinesOf
    <3> QED BY <1>3, <3>1 DEF Surjection, ToSet
  <2> QED BY <2>1, <2>2, FS_Surjection
<1>10. m <= Len(All)
  <2>1. Cardinality(ToSet(lines)) <= Cardinality(ToSet(All))
    BY <1>6, <1>9, FS_Subset
  <2>2. Cardinality(ToSet(All)) \in Nat
    BY <1>9, FS_CardinalityType
  <2> QED BY <1>3, <1>8, <1>9, <2>1, <2>2
<1>11. m = IF Len(All) < limit THEN Len(All) ELSE limit
  <2>1. PICK n \in Nat : n = Len(All)
    BY <1>3
  <2>2. m <= limit /\ m <= n /\ limit \in Nat /\ (m = limit \/ m = n)
    BY <1>4, <1>5, <1>10, <2>1
  <2>3. m = IF n < limit THEN n ELSE limit
    BY <2>2
  <2> QED BY <2>1, <2>3
<1>12. All # <<>> => Decoder(location) = location.format
  <2> SUFFICES ASSUME returned = <<>> PROVE All = <<>>
    BY <1>3 DEF WrongFormat
  <2>1. LinesOf(<<>>, TRUE) = <<>>
    BY NoLines
  <2> QED BY <1>3, <2>1 DEF All
<1>13. SampleOfFile'
  <2>1. /\ artifact' = lines /\ status' = "done" /\ limit' = limit
        /\ Decoder(location)' = Decoder(location) /\ location' = location
    BY <1>1 DEF Decoder
  <2>2. /\ LinesOf(Whole, TRUE)' = All /\ Len(artifact') = m
        /\ ToSet(artifact)' = ToSet(lines)
    <3>1. LinesOf(Whole, TRUE)' = LinesOf(Whole, TRUE)
      BY DEF Whole, File, LinesOf, LineEnds, EndOf
    <3> QED BY <1>5, <2>1, <3>1 DEF All, ToSet
  <2> QED BY <1>6, <1>8, <1>11, <1>12, <2>1, <2>2 DEF SampleOfFile
<1> QED BY <1>2, <1>13

\* The artifact stays, and there is none before it is written.
LEMMA ArtifactStays ==
    ASSUME SampleOfFile, UNCHANGED <<artifact, use>>,
           \/ status' # "done" /\ status # "done"
           \/ UNCHANGED <<status, limit, location>>
    PROVE  SampleOfFile'
<1>1. LinesOf(Whole, TRUE)' = LinesOf(Whole, TRUE)
  BY DEF Whole, File, LinesOf, LineEnds, EndOf
<1>2. CASE status' # "done" /\ status # "done"
  BY <1>2 DEF SampleOfFile
<1>3. CASE UNCHANGED <<status, limit, location>>
  BY <1>1, <1>3 DEF SampleOfFile, Decoder, ToSet
<1> QED BY <1>2, <1>3

\* There is no sample at first.
LEMMA SampleStart == ImportInit => SampleInv
<1> SUFFICES ASSUME ImportInit PROVE SampleInv
  OBVIOUS
<1>1. /\ phase = "idle" /\ chunk_iter = TRUE /\ reader = "between" /\ returned = <<>>
      /\ eof = FALSE /\ stream = <<>> /\ loop = "idle" /\ artifact = <<>>
      /\ status \in {"running", "ready"}
  BY DEF ImportInit, DownloadInit, Init, Shuffler!ShuffleInit
<1>2. Decoded
  <2>1. LinesOf(<<>>, FALSE) = <<>>
    BY NoLines
  <2> QED BY <1>1, <2>1 DEF Decoded
<1>3. Reading /\ Sampling /\ SampleOfFile
  BY <1>1 DEF Reading, Sampling, SampleOfFile
<1> QED BY <1>2, <1>3, FileStart DEF SampleInv

\* Every step of an import keeps the sample what it is.
LEMMA SampleStep == HonoursRange /\ SampleInv /\ [ImportNext]_importVars => SampleInv'
<1> SUFFICES ASSUME HonoursRange, SampleInv, [ImportNext]_importVars PROVE SampleInv'
  OBVIOUS
<1>1. FileInv /\ FileInv' /\ SampleOfFile
  BY FileStep DEF SampleInv
<1>2. use' = use
  BY DEF ImportNext, DownloadNext, Generate, Read, EndRead, OpenFile, WriteChunk, EndFile,
         CallAgain, OpenLines, OpenFails, Fail, ReadBlock, DecodeBlock, LinesFail, Shuffle,
         WriteLines, Over, StartHplt, StepHplt, EndHplt, importVars, allVars
<1>3. CASE use # "mono"
  <2>1. SampleOfFile'
    BY <1>2, <1>3 DEF SampleOfFile
  <2> QED BY <1>1, <1>2, <1>3, <2>1 DEF SampleInv
<1>4. CASE use = "mono"
  <2> SUFFICES Reading' /\ Decoded' /\ Sampling' /\ SampleOfFile'
    BY <1>1 DEF SampleInv
  <2>1. Reading /\ Decoded /\ Sampling
    BY <1>4 DEF SampleInv
  <2>2. CASE Generate
    <3>1. UNCHANGED <<returned, eof, location, shuffling, status, artifact, use>>
      BY <2>2 DEF Generate, Request, YieldChunk, BodyEnds, AttemptFails, NextAttempt
    <3>2. UNCHANGED limit
      BY <3>1 DEF shuffling
    <3> QED BY <1>1, <2>1, <2>2, <3>1, <3>2, GenerateSample, SampleStays, ArtifactStays
  <2>3. CASE ReadBlock \/ DecodeBlock
    <3>1. UNCHANGED <<location, limit, status, artifact, use>>
      BY <2>3 DEF ReadBlock, DecodeBlock
    <3> QED BY <1>1, <1>4, <2>1, <2>3, <3>1, DecodeStep, ArtifactStays
  <2>4. CASE OpenLines
    <3>1. status' = "running" /\ status = "ready" /\ UNCHANGED <<artifact, use>>
      BY <2>4 DEF OpenLines
    <3> QED BY <1>1, <2>1, <2>4, <3>1, OpenStep, ArtifactStays
  <2>5. CASE OpenFails \/ LinesFail \/ EndHplt
    <3>1. /\ status' \in {"failed", "imported"} /\ reader' = "closed" /\ chunk_iter' = FALSE
          /\ status # "done"
          /\ UNCHANGED <<phase, size, buffer, returned, eof, location, shuffling, artifact>>
      BY <2>5 DEF OpenFails, LinesFail, Fail, EndHplt, generator
    <3>2. Reading'
      BY <2>1, <3>1 DEF Reading
    <3> QED BY <1>1, <1>2, <2>1, <3>1, <3>2, SampleStays, ArtifactStays
  <2>6. CASE Shuffle
    <3>1. UNCHANGED <<location, limit, status, artifact, use>>
      BY <2>6 DEF Shuffle, Shuffler!Fill, Shuffler!EndFill, Shuffler!Sample,
                  Shuffler!EndSample
    <3> QED BY <1>1, <2>1, <2>6, <3>1, ShuffleKeeps, ArtifactStays
  <2>7. CASE WriteLines
    BY <1>1, <1>4, <2>1, <2>7, WriteStep
  <2>8. CASE StartHplt
    <3>1. /\ status' = "importing" /\ status = "ready"
          /\ UNCHANGED <<vars, location, shuffling, artifact>>
      BY <2>8 DEF StartHplt
    <3>2. Reading' /\ UNCHANGED <<returned, eof>>
      BY <2>1, <3>1 DEF Reading, vars
    <3> QED BY <1>1, <1>2, <2>1, <3>1, <3>2, SampleStays, ArtifactStays
  <2>9. CASE StepHplt \/ Over \/ UNCHANGED importVars
    <3>1. UNCHANGED <<phase, chunk_iter, size, reader, buffer, returned, eof, location, status,
                      artifact, limit, shuffling>>
      BY <2>9 DEF StepHplt, Over, importVars, allVars, vars, shuffling
    <3>2. Reading'
      BY <2>1, <3>1 DEF Reading
    <3> QED BY <1>1, <1>2, <2>1, <3>1, <3>2, SampleStays, ArtifactStays
  <2>10. ~(Read \/ EndRead \/ OpenFile \/ WriteChunk \/ EndFile \/ CallAgain)
    BY <1>4 DEF Read, EndRead, OpenFile, WriteChunk, EndFile, CallAgain
  <2> QED BY <2>2, <2>3, <2>4, <2>5, <2>6, <2>7, <2>8, <2>9, <2>10
          DEF ImportNext, DownloadNext
<1> QED BY <1>3, <1>4

-----------------------------------------------------------------------------
\* What is left of the specification when its fairness is not needed.
LEMMA ImportSafety == ImportSpec => ImportInit /\ [][ImportNext]_importVars
  BY PTL DEF ImportSpec

\* The paragraphs of HPLT are runs of lines that passed the filters, whatever the documents
\* (hplt.py 210, 240, 249-259 and 287-292).
THEOREM RunsOnly == ImportSpec => []ParagraphsContiguous
<1>1. ImportInit => HpltInv
  BY HpltStart DEF ImportInit
<1> QED BY <1>1, HpltStep, RunsAreContiguous, ImportSafety, PTL

\* No line that passed the filters is lost on the way to the file (hplt.py 204-240).
THEOREM NoLineLost == ImportSpec => []NothingLost
<1>1. ImportInit => HpltInv
  BY HpltStart DEF ImportInit
<1> QED BY <1>1, HpltStep, KeptIsNotLost, ImportSafety, PTL

\* A download to a file that is not given up left the whole file, when the server honours
\* Range requests (downloads.py 26-33 and 161-329).
THEOREM FileIsWhole ==
    ASSUME HonoursRange
    PROVE  ImportSpec => []DownloadWhole
<1>1. FileInv /\ [ImportNext]_importVars => FileInv'
  BY FileStep
<1> QED BY <1>1, FileStart, DoneIsWhole, ImportSafety, PTL

\* All consumers of a download get the bytes in order (downloads.py 161-329).
THEOREM ImportInOrder ==
    ASSUME HonoursRange
    PROVE  ImportSpec => []BytesInOrder
<1>1. FileInv /\ [ImportNext]_importVars => FileInv'
  BY FileStep
<1>2. FileInv => BytesInOrder
  BY InvInOrder DEF FileInv
<1> QED BY <1>1, <1>2, FileStart, ImportSafety, PTL

\* The sample that download-mono.py writes has max_sentences different lines of the file, or
\* all of them when it has fewer, whatever it samples (download-mono.py 124-134,
\* datasets.py 131-172).
THEOREM SampleIsOfFile ==
    ASSUME HonoursRange
    PROVE  ImportSpec => []SampleOfFile
<1>1. SampleInv /\ [ImportNext]_importVars => SampleInv'
  BY SampleStep
<1>2. SampleInv => SampleOfFile
  BY DEF SampleInv
<1> QED BY <1>1, <1>2, SampleStart, ImportSafety, PTL
=============================================================================
