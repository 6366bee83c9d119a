------------------------- MODULE StudentCorpus_proofs -------------------------
(***************************************************************************)
(* The corpus of the student, for corpora of any size in any number of     *)
(* chunks: each of its lines has the best of its own translations and the  *)
(* links of its own words.  First what the folds, the cuts and the sorts of*)
(* the scripts return, then what is published when a task has completed.   *)
(***************************************************************************)
EXTENDS StudentCorpus, TLAPS, SequenceTheorems, FunctionTheorems, FiniteSetTheorems,
        NaturalsInduction, WellFoundedInduction

-----------------------------------------------------------------------------
\* The smallest of some numbers.
LEMMA Smallest ==
    ASSUME NEW S \in SUBSET Nat, S # {}
    PROVE  \E m \in S : \A k \in S : m <= k
<1>1. PICK m \in S : \A k \in S : ~(<<k, m>> \in OpToRel(<, Nat))
  BY NatLessThanWellFounded, WFMin
<1>2. \A k \in S : ~(k < m)
  BY <1>1 DEF OpToRel
<1>3. \A k \in S : k \in Nat
  OBVIOUS
<1> QED BY <1>2, <1>3

-----------------------------------------------------------------------------
(* Files put together from parts.                                          *)

\* The equation of the recursive function in FlattenSeq.
FlattensTo(f, seqs, n) ==
    f = [i \in 1 .. n |-> IF i = 1 THEN seqs[i] ELSE f[i - 1] \o seqs[i]]

\* It has a solution up to each place.
LEMMA FlattenExists ==
    ASSUME NEW seqs, NEW n \in Nat
    PROVE  \E f : FlattensTo(f, seqs, n)
<1> DEFINE Without == {m \in Nat : ~ \E f : FlattensTo(f, seqs, m)}
<1> SUFFICES ASSUME Without # {} PROVE FALSE
  OBVIOUS
<1>1. PICK m \in Without : \A k \in Without : m <= k
  BY Smallest
<1>2. \E f : FlattensTo(f, seqs, 0)
  <2>1. FlattensTo([i \in 1 .. 0 |-> 0], seqs, 0)
    BY DEF FlattensTo
  <2> QED BY <2>1
<1>3. m # 0 /\ m \in Nat
  BY <1>1, <1>2
<1>4. m - 1 \in Nat /\ m - 1 \notin Without
  BY <1>1, <1>3
<1>5. PICK f : FlattensTo(f, seqs, m - 1)
  BY <1>4
<1>6. PICK g : g = [i \in 1 .. m |-> IF i < m THEN f[i]
                                     ELSE IF i = 1 THEN seqs[i] ELSE f[i - 1] \o seqs[i]]
  OBVIOUS
<1>7. ASSUME NEW i \in 1 .. m
      PROVE  g[i] = IF i = 1 THEN seqs[i] ELSE g[i - 1] \o seqs[i]
  <2>1. f = [j \in 1 .. m - 1 |-> IF j = 1 THEN seqs[j] ELSE f[j - 1] \o seqs[j]]
    BY <1>5 DEF FlattensTo
  <2>2. i # 1 => g[i - 1] = f[i - 1]
    BY <1>3, <1>6
  <2>3. i < m => g[i] = f[i] /\ f[i] = IF i = 1 THEN seqs[i] ELSE f[i - 1] \o seqs[i]
    <3>1. i < m => i \in 1 .. m - 1
      BY <1>3
    <3> QED BY <1>6, <2>1, <3>1
  <2>4. ~(i < m) => g[i] = IF i = 1 THEN seqs[i] ELSE f[i - 1] \o seqs[i]
    BY <1>6
  <2> QED BY <2>2, <2>3, <2>4
<1>8. FlattensTo(g, seqs, m)
  BY <1>6, <1>7 DEF FlattensTo
<1> QED BY <1>1, <1>8

\* FlattenSeq is such a solution.
LEMMA FlattenIs ==
    ASSUME NEW seqs, Len(seqs) \in Nat \ {0}
    PROVE  \E f : /\ FlattensTo(f, seqs, Len(seqs))
                  /\ FlattenSeq(seqs) = f[Len(seqs)]
<1>1. PICK g : FlattensTo(g, seqs, Len(seqs))
  BY FlattenExists
<1>2. g = [i \in 1 .. Len(seqs) |-> IF i = 1 THEN seqs[i] ELSE g[i - 1] \o seqs[i]]
  BY <1>1 DEF FlattensTo
<1>3. \E f : /\ f = [i \in 1 .. Len(seqs) |-> IF i = 1 THEN seqs[i] ELSE f[i - 1] \o seqs[i]]
             /\ FlattenSeq(seqs) = f[Len(seqs)]
  BY <1>2 DEF FlattenSeq
<1> QED BY <1>3 DEF FlattensTo

\* The files before a place do not depend on those behind it.
LEMMA FlattenAgrees ==
    ASSUME NEW s, NEW t, NEW f, NEW g, NEW m \in Nat, NEW n \in Nat, m <= n,
           \A i \in 1 .. m : s[i] = t[i],
           FlattensTo(f, s, m), FlattensTo(g, t, n)
    PROVE  \A k \in 1 .. m : f[k] = g[k]
<1> DEFINE Differ == {i \in 1 .. m : f[i] # g[i]}
<1> SUFFICES ASSUME Differ # {} PROVE FALSE
  OBVIOUS
<1>1. PICK i \in Differ : \A j \in Differ : i <= j
  <2>1. Differ \in SUBSET Nat
    OBVIOUS
  <2> QED BY <2>1, Smallest
<1>2. /\ f[i] = IF i = 1 THEN s[i] ELSE f[i - 1] \o s[i]
      /\ g[i] = IF i = 1 THEN t[i] ELSE g[i - 1] \o t[i]
  <2>1. i \in 1 .. m /\ i \in 1 .. n
    BY <1>1
  <2> QED BY <2>1 DEF FlattensTo
<1>3. i # 1 => f[i - 1] = g[i - 1]
  BY <1>1
<1> QED BY <1>1, <1>2, <1>3

\* One file more is put at the end.
LEMMA FlattenMore ==
    ASSUME NEW s, NEW t, Len(s) \in Nat \ {0}, Len(t) = Len(s) + 1,
           \A i \in 1 .. Len(s) : s[i] = t[i]
    PROVE  FlattenSeq(t) = FlattenSeq(s) \o t[Len(t)]
<1>1. Len(t) \in Nat \ {0} /\ Len(s) \in Nat /\ Len(s) <= Len(t) /\ Len(s) \in 1 .. Len(s)
  OBVIOUS
<1>2. PICK f : FlattensTo(f, s, Len(s)) /\ FlattenSeq(s) = f[Len(s)]
  BY FlattenIs
<1>3. PICK g : FlattensTo(g, t, Len(t)) /\ FlattenSeq(t) = g[Len(t)]
  BY <1>1, FlattenIs
<1>4. \A k \in 1 .. Len(s) : f[k] = g[k]
  BY <1>1, <1>2, <1>3, FlattenAgrees
<1>5. Len(t) \in 1 .. Len(t) /\ Len(t) # 1 /\ Len(t) - 1 = Len(s)
  BY <1>1
<1>6. g[Len(t)] = g[Len(t) - 1] \o t[Len(t)]
  BY <1>3, <1>5 DEF FlattensTo
<1> QED BY <1>1, <1>2, <1>3, <1>4, <1>5, <1>6

\* The same for files of a type.
LEMMA FlattenAppend ==
    ASSUME NEW T, NEW s \in Seq(Seq(T)), NEW x \in Seq(T)
    PROVE  FlattenSeq(Append(s, x)) = FlattenSeq(s) \o x
<1>1. PICK t : t = Append(s, x)
  OBVIOUS
<1>2. /\ Len(t) = Len(s) + 1 /\ t[Len(t)] = x
      /\ \A i \in 1 .. Len(s) : s[i] = t[i]
  BY <1>1
<1>3. CASE s = <<>>
  <2>1. FlattenSeq(s) = <<>>
    BY <1>3 DEF FlattenSeq
  <2>2. Len(t) = 1 /\ Len(t) \in Nat \ {0}
    BY <1>2, <1>3
  <2>3. PICK g : FlattensTo(g, t, Len(t)) /\ FlattenSeq(t) = g[Len(t)]
    BY <2>2, FlattenIs
  <2>4. g[1] = t[1]
    BY <2>2, <2>3 DEF FlattensTo
  <2> QED BY <1>1, <1>2, <2>1, <2>2, <2>3, <2>4
<1>4. CASE s # <<>>
  <2>1. Len(s) \in Nat \ {0}
    BY <1>4
  <2> QED BY <1>1, <1>2, <2>1, FlattenMore
<1> QED BY <1>3, <1>4

\* What comes out has lines of the type.
LEMMA FlattenType ==
    ASSUME NEW T, NEW s \in Seq(Seq(T))
    PROVE  FlattenSeq(s) \in Seq(T)
<1>1. CASE s = <<>>
  BY <1>1 DEF FlattenSeq
<1>2. CASE s # <<>>
  <2>1. Len(s) \in Nat \ {0} /\ Len(s) \in 1 .. Len(s)
    BY <1>2
  <2>2. PICK f : FlattensTo(f, s, Len(s)) /\ FlattenSeq(s) = f[Len(s)]
    BY <2>1, FlattenIs
  <2>3. PICK Others : Others = {i \in 1 .. Len(s) : f[i] \notin Seq(T)}
    OBVIOUS
  <2>4. ASSUME Others # {} PROVE FALSE
    <3>1. Others \in SUBSET Nat
      BY <2>3
    <3>2. PICK i \in Others : \A j \in Others : i <= j
      BY <2>4, <3>1, Smallest
    <3>3. f[i] = IF i = 1 THEN s[i] ELSE f[i - 1] \o s[i]
      BY <2>2, <2>3, <3>2 DEF FlattensTo
    <3>4. i # 1 => f[i - 1] \in Seq(T)
      BY <2>3, <3>2
    <3>5. s[i] \in Seq(T)
      BY <2>3, <3>2
    <3>6. f[i] \in Seq(T)
      BY <3>3, <3>4, <3>5
    <3> QED BY <2>3, <3>2, <3>6
  <2> QED BY <2>1, <2>2, <2>3, <2>4
<1> QED BY <1>1, <1>2

\* A function on the numbers up to n is a sequence.
LEMMA IsSequence ==
    ASSUME NEW S, NEW n \in Nat, NEW f \in [1 .. n -> S]
    PROVE  f \in Seq(S) /\ Len(f) = n /\ DOMAIN f = 1 .. n
<1>1. f \in Seq(S)
  BY SeqDef
<1>2. DOMAIN f = 1 .. Len(f) /\ Len(f) \in Nat
  BY <1>1, LenProperties
<1>3. DOMAIN f = 1 .. n
  OBVIOUS
<1>4. Len(f) = n
  BY <1>2, <1>3
<1> QED BY <1>1, <1>3, <1>4

\* What FiniteSetsExt makes of two numbers.
LEMMA LeastOfTwo ==
    ASSUME NEW a \in Int, NEW b \in Int
    PROVE  Min({a, b}) = IF a <= b THEN a ELSE b
<1>1. PICK m : m = IF a <= b THEN a ELSE b
  OBVIOUS
<1>2. m \in {a, b} /\ \A y \in {a, b} : m <= y
  BY <1>1
<1>3. \A x \in {a, b} : (\A y \in {a, b} : x <= y) => x = m
  BY <1>1
<1> QED BY <1>1, <1>2, <1>3 DEF Min

\* The greater one.
LEMMA GreatestOfTwo ==
    ASSUME NEW a \in Int, NEW b \in Int
    PROVE  Max({a, b}) = IF a >= b THEN a ELSE b
<1>1. PICK m : m = IF a >= b THEN a ELSE b
  OBVIOUS
<1>2. m \in {a, b} /\ \A y \in {a, b} : m >= y
  BY <1>1
<1>3. \A x \in {a, b} : (\A y \in {a, b} : x >= y) => x = m
  BY <1>1
<1> QED BY <1>1, <1>2, <1>3 DEF Max

\* Products are ordered as their factors.
LEMMA TimesLeq ==
    ASSUME NEW a \in Int, NEW b \in Int, NEW c \in Nat, a <= b
    PROVE  a * c \in Int /\ b * c \in Int /\ a * c <= b * c
<1>1. PICK d \in Nat : b = a + d
  <2>1. b - a \in Nat /\ b = a + (b - a)
    OBVIOUS
  <2> QED BY <2>1
<1>2. d * c \in Nat
  OBVIOUS
<1>3. b * c = a * c + d * c
  BY <1>1
<1> QED BY <1>2, <1>3

\* How many chunks of c lines there are in a file of n lines.
LEMMA ChunkCount ==
    ASSUME NEW n \in Nat, NEW c \in Nat \ {0}, NEW k, k = (n + c - 1) \div c
    PROVE  /\ k \in Nat /\ n <= k * c
           /\ \A i \in 1 .. k : (i - 1) * c < n
<1>1. k \in Int /\ k * c <= n + c - 1 /\ n + c - 1 < k * c + c
  OBVIOUS
<1>2. k >= 0
  <2>1. ASSUME k <= -1 PROVE FALSE
    <3>1. k * c <= (-1) * c
      BY <1>1, <2>1, TimesLeq
    <3> QED BY <1>1, <3>1
  <2> QED BY <1>1, <2>1
<1>3. ASSUME NEW i \in 1 .. k PROVE (i - 1) * c < n
  <2>1. i * c <= k * c
    BY <1>1, TimesLeq
  <2>2. (i - 1) * c = i * c - c
    BY <1>1
  <2> QED BY <1>1, <2>1, <2>2
<1> QED BY <1>1, <1>2, <1>3

\* A file in chunks of c lines: the parts of a split, of a pool and of the aligner.
Cut(file, c) ==
    [k \in 1 .. (Len(file) + c - 1) \div c |->
        SubSeq(file, (k - 1) * c + 1, Min({k * c, Len(file)}))]

\* The number of the chunks, the lines in one of them, and which lines these are.
NumParts(file, c) == (Len(file) + c - 1) \div c
PartLen(file, c, k) == IF k * c <= Len(file) THEN c ELSE Len(file) - (k - 1) * c
Placed(part, file, c, k) ==
    \A j \in 1 .. Len(part) : /\ (k - 1) * c + j \in 1 .. Len(file)
                             /\ part[j] = file[(k - 1) * c + j]

\* Which lines are in a chunk.
LEMMA CutPart ==
    ASSUME NEW T, NEW file \in Seq(T), NEW c \in Nat \ {0},
           NEW k \in 1 .. NumParts(file, c), NEW part, part = Cut(file, c)[k]
    PROVE  /\ part \in Seq(T)
           /\ Len(part) = PartLen(file, c, k)
           /\ Len(part) \in Nat \ {0}
           /\ Placed(part, file, c, k)
<1>1. PICK L, n : L = Len(file) /\ n = (L + c - 1) \div c
  OBVIOUS
<1>2. L \in Nat /\ n \in Nat /\ L <= n * c /\ \A i \in 1 .. n : (i - 1) * c < L
  <2>1. L \in Nat
    BY <1>1
  <2> QED BY <1>1, <2>1, ChunkCount
<1>3. k \in 1 .. n /\ part = SubSeq(file, (k - 1) * c + 1, Min({k * c, L}))
  BY <1>1 DEF Cut, NumParts
<1>4. PICK a, b : a = (k - 1) * c + 1 /\ b = IF k * c <= L THEN k * c ELSE L
  OBVIOUS
<1>5. k * c \in Int /\ (k - 1) * c \in Nat /\ k * c = (k - 1) * c + c /\ (k - 1) * c < L
  BY <1>2, <1>3
<1>6. Min({k * c, L}) = b
  BY <1>2, <1>4, <1>5, LeastOfTwo
<1>7. a \in Int /\ b \in Int /\ a >= 1 /\ b <= L /\ a <= b
  BY <1>2, <1>4, <1>5
<1>8. \A i \in a .. b : file[i] \in T
  <2>1. \A i \in 1 .. L : file[i] \in T
    BY <1>1
  <2> QED BY <1>2, <1>7, <2>1
<1>9. PICK s : s = SubSeq(file, a, b)
  OBVIOUS
<1>10. /\ s \in Seq(T) /\ Len(s) = b - a + 1
       /\ \A i \in 1 .. b - a + 1 : s[i] = file[a + i - 1]
  BY <1>7, <1>8, <1>9, SubSeqProperties
<1>11. part = s
  BY <1>3, <1>4, <1>6, <1>9
<1>12. b - a + 1 = (IF k * c <= L THEN c ELSE L - (k - 1) * c) /\ b - a + 1 \in Nat \ {0}
  BY <1>2, <1>4, <1>5, <1>7
<1>13. ASSUME NEW j \in 1 .. b - a + 1
       PROVE  (k - 1) * c + j \in 1 .. L /\ s[j] = file[(k - 1) * c + j]
  <2>1. a + j - 1 = (k - 1) * c + j
    BY <1>4, <1>5
  <2> QED BY <1>2, <1>4, <1>5, <1>7, <1>10, <2>1
<1> QED BY <1>1, <1>10, <1>11, <1>12, <1>13 DEF Placed, PartLen

\* How many chunks there are.
LEMMA CutLines ==
    ASSUME NEW T, NEW file \in Seq(T), NEW c \in Nat \ {0}
    PROVE  /\ NumParts(file, c) \in Nat
           /\ Cut(file, c) \in Seq(Seq(T))
           /\ Len(Cut(file, c)) = NumParts(file, c)
<1>1. PICK n : n = NumParts(file, c)
  OBVIOUS
<1>2. n \in Nat
  <2>1. Len(file) \in Nat
    OBVIOUS
  <2> QED BY <1>1, <2>1, ChunkCount DEF NumParts
<1>3. DOMAIN Cut(file, c) = 1 .. n /\ Cut(file, c) = [k \in 1 .. n |-> Cut(file, c)[k]]
  BY <1>1 DEF Cut, NumParts
<1>4. ASSUME NEW k \in 1 .. n PROVE Cut(file, c)[k] \in Seq(T)
  <2>1. PICK part : part = Cut(file, c)[k]
    OBVIOUS
  <2> QED BY <1>1, <2>1, CutPart
<1>5. Cut(file, c) \in [1 .. n -> Seq(T)]
  BY <1>3, <1>4
<1>6. Cut(file, c) \in Seq(Seq(T)) /\ Len(Cut(file, c)) = n
  BY <1>2, <1>5, IsSequence
<1> QED BY <1>1, <1>2, <1>6

\* The chunks of a file, put together again, are the file.
LEMMA ChunksTogether ==
    ASSUME NEW T, NEW file \in Seq(T), NEW c \in Nat \ {0}
    PROVE  FlattenSeq(Cut(file, c)) = file
<1>0. PICK parts : parts = Cut(file, c)
  OBVIOUS
<1>1. PICK L, n : L = Len(file) /\ n = (L + c - 1) \div c
  OBVIOUS
<1>2. L \in Nat /\ n \in Nat /\ L <= n * c /\ \A i \in 1 .. n : (i - 1) * c < L
  <2>1. L \in Nat
    BY <1>1
  <2> QED BY <1>1, <2>1, ChunkCount
<1>3. ASSUME NEW k \in 1 .. n
      PROVE  /\ parts[k] = SubSeq(file, (k - 1) * c + 1, IF k * c <= L THEN k * c ELSE L)
             /\ parts[k] \in Seq(T)
  <2>1. parts[k] = SubSeq(file, (k - 1) * c + 1, Min({k * c, L}))
    BY <1>0, <1>1 DEF Cut
  <2>2. k * c \in Int /\ (k - 1) * c \in Nat /\ Min({k * c, L}) = IF k * c <= L THEN k * c ELSE L
    BY <1>2, LeastOfTwo
  <2>3. PICK a, b : a = (k - 1) * c + 1 /\ b = IF k * c <= L THEN k * c ELSE L
    OBVIOUS
  <2>4. a \in Int /\ b \in Int /\ \A i \in a .. b : file[i] \in T
    <3>1. a \in Int /\ b \in Int /\ a >= 1 /\ b <= L
      BY <1>2, <2>2, <2>3
    <3>2. \A i \in 1 .. L : file[i] \in T
      BY <1>1
    <3> QED BY <1>2, <3>1, <3>2
  <2>5. SubSeq(file, a, b) \in Seq(T)
    BY <2>4, SubSeqProperties
  <2> QED BY <2>1, <2>2, <2>3, <2>5
<1>4. parts \in Seq(Seq(T)) /\ Len(parts) = n
  <2>1. DOMAIN parts = 1 .. n /\ parts = [k \in 1 .. n |-> parts[k]]
    BY <1>0, <1>1 DEF Cut
  <2>2. parts \in [1 .. n -> Seq(T)]
    BY <1>3, <2>1
  <2> QED BY <1>2, <2>2, IsSequence
<1>5. PICK Wrong : Wrong = {k \in 0 .. n : FlattenSeq(SubSeq(parts, 1, k))
                                # SubSeq(file, 1, IF k * c <= L THEN k * c ELSE L)}
  OBVIOUS
<1>6. ASSUME Wrong # {} PROVE FALSE
  <2>1. PICK k \in Wrong : \A j \in Wrong : k <= j
    <3>1. Wrong \in SUBSET Nat
      BY <1>2, <1>5
    <3> QED BY <1>6, <3>1, Smallest
  <2>2. k \in 0 .. n
    BY <1>5, <2>1
  <2>3. k # 0
    <3>1. SubSeq(parts, 1, 0) = <<>> /\ SubSeq(file, 1, 0) = <<>>
      BY SubSeqEmpty
    <3>2. FlattenSeq(<<>>) = <<>>
      BY DEF FlattenSeq
    <3>3. 0 * c = 0 /\ 0 <= L
      BY <1>2
    <3> QED BY <1>5, <2>1, <3>1, <3>2, <3>3
  <2>4. k - 1 \in 0 .. n /\ k - 1 \notin Wrong /\ k \in 1 .. n
    BY <1>2, <2>1, <2>2, <2>3
  <2>5. PICK p, q : p = (k - 1) * c /\ q = IF k * c <= L THEN k * c ELSE L
    OBVIOUS
  <2>6. p \in Nat /\ p < L /\ q \in Nat /\ p <= q /\ q <= L
    <3>1. p \in Nat /\ p < L
      BY <1>2, <2>4, <2>5
    <3>2. k * c = p + c /\ k * c \in Nat
      BY <1>2, <2>4, <2>5
    <3> QED BY <1>2, <2>5, <3>1, <3>2
  <2>7. FlattenSeq(SubSeq(parts, 1, k - 1)) = SubSeq(file, 1, p)
    <3>1. FlattenSeq(SubSeq(parts, 1, k - 1))
              = SubSeq(file, 1, IF (k - 1) * c <= L THEN (k - 1) * c ELSE L)
      BY <1>5, <2>4
    <3>2. (k - 1) * c <= L
      BY <1>2, <2>5, <2>6
    <3> QED BY <2>5, <3>1, <3>2
  <2>8. parts[k] = SubSeq(file, p + 1, q) /\ parts[k] \in Seq(T)
    BY <1>3, <2>4, <2>5
  <2>9. /\ SubSeq(parts, 1, k - 1) \in Seq(Seq(T))
        /\ SubSeq(parts, 1, k) = Append(SubSeq(parts, 1, k - 1), parts[k])
    <3>1. 1 \in 1 .. Len(parts) /\ k \in 1 .. Len(parts)
      BY <1>2, <1>4, <2>4
    <3>2. SubSeq(parts, 1, k) = SubSeq(parts, 1, k - 1) \o <<parts[k]>>
      BY <1>4, <3>1, SubSeqRecursiveSecond
    <3>3. SubSeq(parts, 1, k - 1) \in Seq(Seq(T))
      <4>1. PICK j : j = k - 1
        OBVIOUS
      <4>2. j \in Int /\ 1 \in Int /\ j <= n
        BY <1>2, <2>4, <4>1
      <4>3. \A i \in 1 .. n : parts[i] \in Seq(T)
        BY <1>3
      <4>4. \A i \in 1 .. j : parts[i] \in Seq(T)
        <5>1. \A i \in 1 .. j : i \in 1 .. n
          BY <1>2, <4>2
        <5> QED BY <4>3, <5>1, Zenon
      <4>5. SubSeq(parts, 1, j) \in Seq(Seq(T))
        BY <4>2, <4>4, SubSeqProperties, Zenon
      <4> QED BY <4>1, <4>5
    <3> QED BY <2>8, <3>2, <3>3, AppendIsConcat
  <2>10. FlattenSeq(SubSeq(parts, 1, k)) = FlattenSeq(SubSeq(parts, 1, k - 1)) \o parts[k]
    BY <2>8, <2>9, FlattenAppend
  <2>11. SubSeq(file, 1, p) \o SubSeq(file, p + 1, q) = SubSeq(file, 1, q)
    <3>1. 1 \in 1 .. Len(file) + 1 /\ p \in 1 - 1 .. Len(file) /\ q \in p .. Len(file)
      BY <1>1, <1>2, <2>6
    <3> QED BY <3>1, ConcatAdjacentSubSeq
  <2> QED BY <1>5, <2>1, <2>5, <2>7, <2>8, <2>10, <2>11
<1>7. FlattenSeq(SubSeq(parts, 1, n)) = SubSeq(file, 1, IF n * c <= L THEN n * c ELSE L)
  <2>1. n \in 0 .. n /\ n \notin Wrong
    BY <1>2, <1>6
  <2> QED BY <1>5, <2>1
<1>8. SubSeq(parts, 1, n) = parts /\ SubSeq(file, 1, L) = file
  BY <1>1, <1>4, SubSeqFull
<1>9. (IF n * c <= L THEN n * c ELSE L) = L
  BY <1>2
<1> QED BY <1>0, <1>7, <1>8, <1>9

\* The lines for each part of a split.
PerPart(total, num_parts) == Max({1, (total + num_parts - 1) \div num_parts})

\* A split makes chunks of as many lines, and no more of them than it should.
LEMMA SplitIsCut ==
    ASSUME NEW file, Len(file) \in Nat, NEW n \in Nat \ {0}
    PROVE  /\ PerPart(Len(file), n) \in Nat \ {0}
           /\ SplitFile(file, n) = Cut(file, PerPart(Len(file), n))
           /\ (Len(file) + PerPart(Len(file), n) - 1) \div PerPart(Len(file), n) <= n
<1>1. PICK L, q, c, m : /\ L = Len(file) /\ q = (L + n - 1) \div n /\ c = PerPart(L, n)
                        /\ m = (L + c - 1) \div c
  OBVIOUS
<1>2. q \in Nat /\ L <= q * n
  BY <1>1, ChunkCount
<1>3. c \in Nat \ {0} /\ q <= c
  <2>1. c = IF 1 >= q THEN 1 ELSE q
    BY <1>1, <1>2, GreatestOfTwo DEF PerPart
  <2> QED BY <1>2, <2>1
<1>4. m \in Nat /\ \A i \in 1 .. m : (i - 1) * c < L
  BY <1>1, <1>3, ChunkCount
<1>5. L <= n * c
  <2>1. q * n <= c * n
    BY <1>2, <1>3, TimesLeq
  <2>2. c * n = n * c /\ L \in Int /\ c * n \in Int /\ q * n \in Int
    BY <1>1, <1>2, <1>3
  <2> QED BY <1>2, <2>1, <2>2
<1>6. ASSUME m > n PROVE FALSE
  <2>1. m \in 1 .. m /\ n <= m - 1
    BY <1>4, <1>6
  <2>2. n * c <= (m - 1) * c
    BY <1>3, <1>4, <2>1, TimesLeq
  <2>3. (m - 1) * c < L
    BY <1>4, <2>1
  <2>4. n * c \in Int /\ (m - 1) * c \in Int /\ L \in Int
    BY <1>1, <1>3, <1>4
  <2> QED BY <1>5, <2>2, <2>3, <2>4
<1>7. SplitFile(file, n) = Cut(file, c)
  BY <1>1 DEF SplitFile, Cut, PerPart
<1>8. m <= n
  BY <1>4, <1>6
<1> QED BY <1>1, <1>3, <1>7, <1>8

-----------------------------------------------------------------------------
(* The best translation.                                                   *)

\* A set of numbers has the least of them.
LEMMA LeastIs ==
    ASSUME NEW S \in SUBSET Nat, S # {}
    PROVE  Min(S) \in S /\ \A k \in S : Min(S) <= k
<1>1. \E m \in S : \A k \in S : m <= k
  BY Smallest
<1> QED BY <1>1 DEF Min

\* One of some scores is the greatest.
LEMMA GreatestExists ==
    ASSUME NEW n \in Nat \ {0}, NEW f \in [1 .. n -> Nat]
    PROVE  \E k \in 1 .. n : \A j \in 1 .. n : f[j] <= f[k]
<1>1. PICK Without : Without = {m \in 1 .. n : ~ \E k \in 1 .. m : \A j \in 1 .. m : f[j] <= f[k]}
  OBVIOUS
<1>2. ASSUME Without # {} PROVE FALSE
  <2>1. PICK m \in Without : \A j \in Without : m <= j
    <3>1. Without \in SUBSET Nat
      BY <1>1
    <3> QED BY <1>2, <3>1, Smallest
  <2>2. m \in 1 .. n /\ ~ \E k \in 1 .. m : \A j \in 1 .. m : f[j] <= f[k]
    BY <1>1, <2>1
  <2>3. m # 1
    BY <2>2
  <2>4. m - 1 \in 1 .. n /\ m - 1 \notin Without
    BY <2>1, <2>2, <2>3
  <2>5. PICK k \in 1 .. m - 1 : \A j \in 1 .. m - 1 : f[j] <= f[k]
    BY <1>1, <2>4
  <2>6. k \in 1 .. m /\ m \in 1 .. m /\ \A j \in 1 .. m : j \in 1 .. m - 1 \/ j = m
    BY <2>2, <2>4
  <2>7. \A j \in 1 .. m : f[j] \in Nat
    BY <2>2
  <2>8. CASE f[m] <= f[k]
    BY <2>2, <2>5, <2>6, <2>8
  <2>9. CASE ~(f[m] <= f[k])
    <3>1. ASSUME NEW j \in 1 .. m PROVE f[j] <= f[m]
      <4>1. f[j] \in Nat /\ f[k] \in Nat /\ f[m] \in Nat
        BY <2>6, <2>7
      <4>2. j = m \/ f[j] <= f[k]
        BY <2>5, <2>6
      <4> QED BY <2>9, <4>1, <4>2
    <3> QED BY <2>2, <2>6, <3>1
  <2> QED BY <2>8, <2>9
<1>3. n \in 1 .. n /\ n \notin Without
  BY <1>2
<1> QED BY <1>1, <1>3

\* Pieces in common are counted.
LEMMA ChrfIsNat ==
    ASSUME NEW reference, NEW text \in Texts
    PROVE  Chrf(reference, text) \in Nat
<1>1. ASSUME NEW w \in DOMAIN text PROVE IsFiniteSet(ToSet(text[w]))
  <2>1. text[w] \in Seq(Strings)
    BY DEF Texts
  <2>2. DOMAIN text[w] = 1 .. Len(text[w]) /\ Len(text[w]) \in Nat
    BY <2>1, LenProperties
  <2>3. IsFiniteSet(DOMAIN text[w])
    BY <2>2, FS_Interval
  <2>4. text[w] \in Surjection(DOMAIN text[w], ToSet(text[w]))
    BY <2>1 DEF Surjection, ToSet
  <2> QED BY <2>3, <2>4, FS_Surjection
<1>2. PICK sets : sets = [w \in DOMAIN text |-> ToSet(text[w])]
  OBVIOUS
<1>3. IsFiniteSet(DOMAIN text)
  <2>1. DOMAIN text = 1 .. Len(text) /\ Len(text) \in Nat
    BY DEF Texts
  <2> QED BY <2>1, FS_Interval
<1>4. sets \in Surjection(DOMAIN text, {ToSet(text[w]) : w \in DOMAIN text})
  BY <1>2 DEF Surjection
<1>5. IsFiniteSet({ToSet(text[w]) : w \in DOMAIN text})
  BY <1>3, <1>4, FS_Surjection
<1>6. IsFiniteSet(Pieces(text))
  BY <1>1, <1>5, FS_UNION DEF Pieces
<1>7. IsFiniteSet(Pieces(reference) \cap Pieces(text))
  BY <1>6, FS_Subset
<1> QED BY <1>7, FS_CardinalityType DEF Chrf

\* The text that is chosen is one of the texts, and none is closer to the reference.
LEMMA BestIsBest ==
    ASSUME NEW reference, NEW texts \in Seq(Texts), texts # <<>>
    PROVE  /\ BestText(texts, reference) \in ToSet(texts)
           /\ \A text \in ToSet(texts) :
                 Chrf(reference, text) <= Chrf(reference, BestText(texts, reference))
<1>1. PICK n, scores : n = Len(texts) /\ scores = [k \in DOMAIN texts |-> Chrf(reference, texts[k])]
  OBVIOUS
<1>2. n \in Nat \ {0} /\ DOMAIN texts = 1 .. n
  BY <1>1
<1>3. scores \in [1 .. n -> Nat]
  BY <1>1, <1>2, ChrfIsNat
<1>4. PICK k \in 1 .. n : \A j \in 1 .. n : scores[j] <= scores[k]
  BY <1>2, <1>3, GreatestExists
<1>5. ToSet(scores) = {scores[j] : j \in 1 .. n}
  BY <1>3 DEF ToSet
<1>6. Max(ToSet(scores)) = scores[k]
  <2>1. scores[k] \in ToSet(scores) /\ \A y \in ToSet(scores) : scores[k] >= y
    <3>1. \A j \in 1 .. n : scores[j] \in Nat /\ scores[k] >= scores[j]
      BY <1>3, <1>4
    <3> QED BY <1>5, <3>1
  <2>2. \A x \in ToSet(scores) : (\A y \in ToSet(scores) : x >= y) => x = scores[k]
    <3>1. \A x \in ToSet(scores) : x \in Nat
      BY <1>3, <1>5
    <3> QED BY <2>1, <3>1
  <2> QED BY <2>1, <2>2 DEF Max
<1>7. PICK ks : ks = {j \in DOMAIN texts : scores[j] = Max(ToSet(scores))}
  OBVIOUS
<1>8. ks \in SUBSET Nat /\ k \in ks
  BY <1>2, <1>6, <1>7
<1>9. Min(ks) \in ks
  BY <1>8, LeastIs
<1>10. BestText(texts, reference) = texts[Min(ks)]
  BY <1>1, <1>7 DEF BestText
<1>11. Min(ks) \in 1 .. n /\ scores[Min(ks)] = scores[k]
  BY <1>2, <1>6, <1>7, <1>9
<1>12. ASSUME NEW j \in 1 .. n PROVE Chrf(reference, texts[j]) <= Chrf(reference, texts[Min(ks)])
  BY <1>1, <1>2, <1>4, <1>11
<1> QED BY <1>2, <1>10, <1>11, <1>12 DEF ToSet

-----------------------------------------------------------------------------
(* Folds: what FoldLeft makes of the first m lines, for each m.            *)

\* The first of the first numbers.
LEMMA FirstNumbers ==
    ASSUME NEW n \in Nat, NEW m \in 1 .. n
    PROVE  1 .. m \in SUBSET (1 .. n) /\ 1 .. m # {} /\ m \in 1 .. m /\ 1 .. m \in SUBSET (1 .. m)
<1>1. m \in 1 .. m
  OBVIOUS
<1>2. \A i \in 1 .. m : i \in 1 .. n
  OBVIOUS
<1> QED BY <1>1, <1>2

\* The number that FoldLeft takes out of a set of numbers up to m that has m.
LEMMA TakenOut ==
    ASSUME NEW m \in Nat \ {0}, NEW s \in SUBSET (1 .. m)
    PROVE  m \in s => Max(s) = m /\ s \ {m} \in SUBSET (1 .. m - 1)
<1>1. ASSUME m \in s PROVE Max(s) = m
  <2>1. \A y \in s : y \in Int /\ m >= y
    OBVIOUS
  <2>2. \A x \in s : (\A y \in s : x >= y) => x = m
    BY <1>1, <2>1
  <2> QED BY <1>1, <2>1, <2>2 DEF Max
<1> QED BY <1>1

DedupeStep(kept, line) == IF Contains(kept, line) THEN kept ELSE Append(kept, line)

\* The equation of the recursive function in FoldLeft.
Dedupes(g, lines, n) ==
    g = [s \in SUBSET (1 .. n) |->
            IF s = {} THEN <<>> ELSE DedupeStep(g[s \ {Max(s)}], lines[Max(s)])]

\* It has a solution.
LEMMA DedupesExists ==
    ASSUME NEW lines, NEW n \in Nat
    PROVE  \E g : Dedupes(g, lines, n)
<1>1. PICK Without : Without = {m \in Nat : ~ \E g : Dedupes(g, lines, m)}
  OBVIOUS
<1>2. ASSUME Without # {} PROVE FALSE
  <2>1. PICK m \in Without : \A k \in Without : m <= k
    BY <1>1, <1>2, Smallest
  <2>2. m # 0
    <3>1. Dedupes([s \in SUBSET (1 .. 0) |-> <<>>], lines, 0)
      <4>1. \A s \in SUBSET (1 .. 0) : s = {}
        OBVIOUS
      <4> QED BY <4>1 DEF Dedupes
    <3> QED BY <1>1, <2>1, <3>1
  <2>3. m - 1 \in Nat /\ m - 1 \notin Without /\ m \in Nat \ {0}
    BY <1>1, <2>1, <2>2
  <2>4. PICK g : Dedupes(g, lines, m - 1)
    BY <1>1, <2>3
  <2>5. PICK h : h = [s \in SUBSET (1 .. m) |->
                        IF m \in s THEN DedupeStep(g[s \ {m}], lines[m]) ELSE g[s]]
    OBVIOUS
  <2>6. ASSUME NEW s \in SUBSET (1 .. m)
        PROVE  h[s] = IF s = {} THEN <<>> ELSE DedupeStep(h[s \ {Max(s)}], lines[Max(s)])
    <3>1. CASE m \in s
      <4>1. Max(s) = m /\ s \ {m} \in SUBSET (1 .. m) /\ m \notin s \ {m} /\ s # {}
        BY <2>3, <3>1, TakenOut
      <4>2. h[s \ {m}] = g[s \ {m}] /\ h[s] = DedupeStep(g[s \ {m}], lines[m])
        BY <2>5, <3>1, <4>1
      <4> QED BY <4>1, <4>2
    <3>2. CASE m \notin s
      <4>1. s \in SUBSET (1 .. m - 1)
        BY <2>3, <3>2
      <4>2. g[s] = IF s = {} THEN <<>> ELSE DedupeStep(g[s \ {Max(s)}], lines[Max(s)])
        BY <2>4, <4>1 DEF Dedupes
      <4>3. /\ h[s] = g[s]
            /\ h[s \ {Max(s)}] = g[s \ {Max(s)}]
        <5>1. m \notin s \ {Max(s)} /\ s \ {Max(s)} \in SUBSET (1 .. m)
          BY <3>2
        <5> QED BY <2>5, <3>2, <5>1
      <4> QED BY <4>2, <4>3
    <3> QED BY <3>1, <3>2
  <2>7. Dedupes(h, lines, m)
    BY <2>5, <2>6 DEF Dedupes
  <2> QED BY <1>1, <2>1, <2>7
<1> QED BY <1>1, <1>2

\* What is kept of the first lines, one line after the other.
LEMMA DedupeRuns ==
    ASSUME NEW lines, NEW n \in Nat, DOMAIN lines = 1 .. n
    PROVE  \E r : /\ Dedupe(lines) = r[n] /\ r[0] = <<>>
                  /\ \A m \in 1 .. n : r[m] = DedupeStep(r[m - 1], lines[m])
<1>1. PICK h : Dedupes(h, lines, n)
  BY DedupesExists
<1>2. h = [s \in SUBSET (DOMAIN lines) |->
            IF s = {} THEN <<>>
            ELSE IF Contains(h[s \ {Max(s)}], lines[Max(s)]) THEN h[s \ {Max(s)}]
                 ELSE Append(h[s \ {Max(s)}], lines[Max(s)])]
  BY <1>1 DEF Dedupes, DedupeStep
<1>3. PICK g : /\ Dedupe(lines) = g[DOMAIN lines]
               /\ g = [s \in SUBSET (DOMAIN lines) |->
                        IF s = {} THEN <<>>
                        ELSE IF Contains(g[s \ {Max(s)}], lines[Max(s)]) THEN g[s \ {Max(s)}]
                             ELSE Append(g[s \ {Max(s)}], lines[Max(s)])]
  BY <1>2, Zenon DEF Dedupe, FoldLeft, MapThenFoldSet
<1>4. Dedupes(g, lines, n)
  BY <1>3 DEF Dedupes, DedupeStep
<1>5. PICK r : r = [m \in 0 .. n |-> g[1 .. m]]
  OBVIOUS
<1>6. Dedupe(lines) = r[n]
  BY <1>3, <1>5
<1>7. r[0] = <<>>
  <2>1. 1 .. 0 = {} /\ 0 \in 0 .. n /\ {} \in SUBSET (1 .. n)
    OBVIOUS
  <2> QED BY <1>4, <1>5, <2>1 DEF Dedupes
<1>8. ASSUME NEW m \in 1 .. n PROVE r[m] = DedupeStep(r[m - 1], lines[m])
  <2>1. 1 .. m \in SUBSET (1 .. n) /\ 1 .. m # {} /\ m \in 1 .. m /\ 1 .. m \in SUBSET (1 .. m)
    BY FirstNumbers
  <2>2. Max(1 .. m) = m
    BY <2>1, TakenOut
  <2>3. (1 .. m) \ {m} = 1 .. m - 1 /\ m - 1 \in 0 .. n /\ m \in 0 .. n
    OBVIOUS
  <2>4. g[1 .. m] = DedupeStep(g[(1 .. m) \ {m}], lines[m])
    BY <1>4, <2>1, <2>2 DEF Dedupes
  <2> QED BY <1>5, <2>3, <2>4
<1> QED BY <1>6, <1>7, <1>8

\* No two of the lines that are kept are equal.
LEMMA DedupeDistinct ==
    ASSUME NEW T, NEW lines \in Seq(T)
    PROVE  /\ Dedupe(lines) \in Seq(T)
           /\ \A i, j \in 1 .. Len(Dedupe(lines)) : Dedupe(lines)[i] = Dedupe(lines)[j] => i = j
<1>1. PICK n : n = Len(lines) /\ n \in Nat /\ DOMAIN lines = 1 .. n
  OBVIOUS
<1>2. PICK r : /\ Dedupe(lines) = r[n] /\ r[0] = <<>>
               /\ \A m \in 1 .. n : r[m] = DedupeStep(r[m - 1], lines[m])
  BY <1>1, DedupeRuns
<1> DEFINE Distinct(s) == s \in Seq(T) /\ \A i, j \in 1 .. Len(s) : s[i] = s[j] => i = j
<1>3. PICK Wrong : Wrong = {m \in 0 .. n : ~Distinct(r[m])}
  OBVIOUS
<1>4. ASSUME Wrong # {} PROVE FALSE
  <2>1. PICK m \in Wrong : \A k \in Wrong : m <= k
    <3>1. Wrong \in SUBSET Nat
      BY <1>3
    <3> QED BY <1>4, <3>1, Smallest
  <2>2. m \in 0 .. n /\ ~Distinct(r[m])
    BY <1>3, <2>1
  <2>3. m # 0
    <3>1. Distinct(<<>>)
      OBVIOUS
    <3> QED BY <1>2, <2>2, <3>1
  <2>4. m \in 1 .. n /\ m - 1 \in 0 .. n /\ m - 1 \notin Wrong
    BY <1>1, <2>1, <2>2, <2>3
  <2>5. PICK s : s = r[m - 1] /\ Distinct(s)
    BY <1>3, <2>4
  <2>6. PICK x \in T : x = lines[m] /\ r[m] = DedupeStep(s, x)
    BY <1>1, <1>2, <2>4, <2>5
  <2>7. CASE Contains(s, x)
    BY <2>2, <2>5, <2>6, <2>7 DEF DedupeStep
  <2>8. CASE ~Contains(s, x)
    <3>1. s \in Seq(T) /\ \A i \in 1 .. Len(s) : s[i] # x
      BY <2>5, <2>8 DEF Contains
    <3>2. PICK t : t = Append(s, x)
      OBVIOUS
    <3>3. /\ t \in Seq(T) /\ Len(t) = Len(s) + 1 /\ t[Len(s) + 1] = x /\ Len(s) \in Nat
          /\ \A i \in 1 .. Len(s) : t[i] = s[i]
      BY <3>1, <3>2
    <3>4. Distinct(t)
      <4>1. \A i \in 1 .. Len(t) : i \in 1 .. Len(s) \/ i = Len(s) + 1
        BY <3>3
      <4>2. \A i, j \in 1 .. Len(s) : s[i] = s[j] => i = j
        BY <2>5
      <4> QED BY <3>1, <3>3, <4>1, <4>2
    <3>5. r[m] = t
      BY <2>6, <2>8, <3>2 DEF DedupeStep
    <3> QED BY <2>2, <3>4, <3>5
  <2> QED BY <2>7, <2>8
<1>5. n \in 0 .. n /\ n \notin Wrong
  BY <1>1, <1>4
<1>6. Distinct(r[n])
  BY <1>3, <1>5
<1> QED BY <1>2, <1>6

-----------------------------------------------------------------------------
(* Sorting.                                                                *)

\* Those that come no later than a number in the order of the keys.
UpToRank(key, a) == {b \in DOMAIN key : key[b] < key[a] \/ (key[b] = key[a] /\ b <= a)}

\* The ranks are the numbers from 1 on, and each is the rank of one.
LEMMA Ranks ==
    ASSUME NEW D \in SUBSET Nat, IsFiniteSet(D), NEW key \in [D -> Int]
    PROVE  /\ Cardinality(D) \in Nat
           /\ \A a \in D : Cardinality(UpToRank(key, a)) \in 1 .. Cardinality(D)
           /\ \A a, b \in D : a # b /\ (key[a] < key[b] \/ (key[a] = key[b] /\ a <= b)) =>
                 Cardinality(UpToRank(key, a)) < Cardinality(UpToRank(key, b))
           /\ \A n \in 1 .. Cardinality(D) : \E a \in D : Cardinality(UpToRank(key, a)) = n
<1>1. PICK n : n = Cardinality(D) /\ n \in Nat
  BY FS_CardinalityType
<1>2. ASSUME NEW a \in D
      PROVE  /\ UpToRank(key, a) \in SUBSET D /\ a \in UpToRank(key, a)
             /\ IsFiniteSet(UpToRank(key, a))
             /\ Cardinality(UpToRank(key, a)) \in 1 .. n
  <2>1. UpToRank(key, a) \in SUBSET D
    BY DEF UpToRank
  <2>2. a \in UpToRank(key, a)
    <3>1. a \in Int /\ key[a] \in Int /\ DOMAIN key = D
      OBVIOUS
    <3> QED BY <3>1 DEF UpToRank
  <2>3. PICK U : U = UpToRank(key, a)
    OBVIOUS
  <2>4. IsFiniteSet(U) /\ Cardinality(U) <= n
    BY <1>1, <2>1, <2>3, FS_Subset
  <2>5. Cardinality(U) \in Nat /\ Cardinality(U) # 0
    BY <2>2, <2>3, <2>4, FS_CardinalityType, FS_EmptySet
  <2> QED BY <1>1, <2>1, <2>2, <2>3, <2>4, <2>5
<1>3. ASSUME NEW a \in D, NEW b \in D, a # b,
             key[a] < key[b] \/ (key[a] = key[b] /\ a <= b)
      PROVE  Cardinality(UpToRank(key, a)) < Cardinality(UpToRank(key, b))
  <2>1. PICK U, V : U = UpToRank(key, a) /\ V = UpToRank(key, b)
    OBVIOUS
  <2>2. /\ DOMAIN key = D /\ a \in Nat /\ b \in Nat
        /\ \A c \in D : key[c] \in Int /\ c \in Nat
    OBVIOUS
  <2>3. ASSUME NEW c \in U PROVE c \in V
    <3>1. c \in D /\ (key[c] < key[a] \/ (key[c] = key[a] /\ c <= a))
      BY <2>1, <2>2 DEF UpToRank
    <3>2. key[c] < key[b] \/ (key[c] = key[b] /\ c <= b)
      BY <1>3, <2>2, <3>1
    <3> QED BY <2>1, <2>2, <3>1, <3>2 DEF UpToRank
  <2>4. b \in V /\ b \notin U
    <3>1. b \in V
      BY <1>2, <2>1
    <3>2. ASSUME b \in U PROVE FALSE
      <4>1. key[b] < key[a] \/ (key[b] = key[a] /\ b <= a)
        BY <2>1, <3>2 DEF UpToRank
      <4> QED BY <1>3, <2>2, <4>1
    <3> QED BY <3>1, <3>2
  <2>5. U \in SUBSET V /\ U # V
    BY <2>3, <2>4
  <2>6. Cardinality(U) <= Cardinality(V) /\ Cardinality(U) # Cardinality(V)
    BY <1>2, <2>1, <2>5, FS_Subset
  <2>7. Cardinality(U) \in Nat /\ Cardinality(V) \in Nat
    BY <1>1, <1>2, <2>1
  <2> QED BY <2>1, <2>6, <2>7
<1>4. PICK rank : rank = [a \in D |-> Cardinality(UpToRank(key, a))]
  OBVIOUS
<1>5. rank \in [D -> 1 .. n]
  BY <1>2, <1>4
<1>6. ASSUME NEW a \in D, NEW b \in D, rank[a] = rank[b] PROVE a = b
  <2>1. /\ a \in Nat /\ b \in Nat /\ key[a] \in Int /\ key[b] \in Int
        /\ rank[a] \in Nat /\ rank[b] \in Nat
    BY <1>1, <1>5
  <2>2. ASSUME a # b PROVE FALSE
    <3>1. (key[a] < key[b] \/ (key[a] = key[b] /\ a <= b))
              \/ (key[b] < key[a] \/ (key[b] = key[a] /\ b <= a))
      BY <2>1
    <3>2. rank[a] < rank[b] \/ rank[b] < rank[a]
      BY <1>3, <1>4, <2>2, <3>1
    <3> QED BY <1>6, <2>1, <3>2
  <2> QED BY <2>2
<1>7. rank \in Injection(D, 1 .. n)
  BY <1>5, <1>6, Fun_IsInj
<1>8. IsFiniteSet(1 .. n) /\ Cardinality(1 .. n) = n
  <2>1. n \in Int /\ 1 \in Int
    BY <1>1
  <2>2. IsFiniteSet(1 .. n) /\ Cardinality(1 .. n) = IF 1 > n THEN 0 ELSE n - 1 + 1
    BY <2>1, FS_Interval
  <2> QED BY <1>1, <2>2
<1>9. rank \in Surjection(D, 1 .. n)
  BY <1>1, <1>7, <1>8, FS_Injection
<1>10. \A i \in 1 .. n : \E a \in D : rank[a] = i
  BY <1>9, Fun_SurjectionProperties
<1> QED BY <1>1, <1>2, <1>3, <1>4, <1>10

\* Sorting gives each number its place, and the keys rise.
LEMMA SortedByOrder ==
    ASSUME NEW D \in SUBSET Nat, IsFiniteSet(D), NEW key \in [D -> Int],
           NEW sorted, sorted = SortedBy(key), NEW n, n = Cardinality(D)
    PROVE  /\ n \in Nat /\ sorted \in [1 .. n -> D]
           /\ \A i, j \in 1 .. n : i < j => /\ sorted[i] # sorted[j]
                                           /\ \/ key[sorted[i]] < key[sorted[j]]
                                              \/ /\ key[sorted[i]] = key[sorted[j]]
                                                 /\ sorted[i] <= sorted[j]
           /\ \A a \in D : \E i \in 1 .. n : sorted[i] = a
<1> DEFINE rank(a) == Cardinality(UpToRank(key, a))
<1>1. /\ n \in Nat /\ \A a \in D : rank(a) \in 1 .. n
      /\ \A a, b \in D : a # b /\ (key[a] < key[b] \/ (key[a] = key[b] /\ a <= b)) =>
            rank(a) < rank(b)
      /\ \A i \in 1 .. n : \E a \in D : rank(a) = i
  BY Ranks
<1>2. DOMAIN key = D
  OBVIOUS
<1>3. sorted = [i \in 1 .. n |-> CHOOSE a \in D : rank(a) = i]
  BY <1>2 DEF SortedBy, UpToRank
<1> HIDE DEF rank
<1>4. \A i \in 1 .. n : sorted[i] \in D /\ rank(sorted[i]) = i
  BY <1>1, <1>3
<1>5. sorted \in [1 .. n -> D]
  BY <1>3, <1>4
<1>6. \A a, b \in D : a # b => \/ key[a] < key[b] \/ (key[a] = key[b] /\ a <= b)
                              \/ rank(b) < rank(a)
  <2>1. SUFFICES ASSUME NEW a \in D, NEW b \in D, a # b
                 PROVE  \/ key[a] < key[b] \/ (key[a] = key[b] /\ a <= b)
                        \/ rank(b) < rank(a)
    OBVIOUS
  <2>2. a \in Nat /\ b \in Nat /\ key[a] \in Int /\ key[b] \in Int
    OBVIOUS
  <2> QED BY <1>1, <2>1, <2>2
<1>7. ASSUME NEW i \in 1 .. n, NEW j \in 1 .. n, i < j
      PROVE  /\ sorted[i] # sorted[j]
             /\ \/ key[sorted[i]] < key[sorted[j]]
                \/ key[sorted[i]] = key[sorted[j]] /\ sorted[i] <= sorted[j]
  <2>1. rank(sorted[i]) = i /\ rank(sorted[j]) = j /\ sorted[i] \in D /\ sorted[j] \in D
    BY <1>4
  <2>2. i # j /\ ~(j < i)
    BY <1>1, <1>7
  <2> QED BY <1>6, <2>1, <2>2
<1>8. ASSUME NEW a \in D PROVE \E i \in 1 .. n : sorted[i] = a
  <2>1. PICK i \in 1 .. n : i = rank(a)
    BY <1>1
  <2>2. ASSUME sorted[i] # a PROVE FALSE
    <3>1. sorted[i] \in D /\ rank(sorted[i]) = i
      BY <1>4
    <3>2. \A x, y \in D : x # y => rank(x) # rank(y)
      <4>1. SUFFICES ASSUME NEW x \in D, NEW y \in D, x # y PROVE rank(x) # rank(y)
        OBVIOUS
      <4>2. x \in Nat /\ y \in Nat /\ key[x] \in Int /\ key[y] \in Int
        OBVIOUS
      <4>3. rank(x) \in Nat /\ rank(y) \in Nat
        BY <1>1
      <4>4. \/ key[x] < key[y] \/ (key[x] = key[y] /\ x <= y)
            \/ key[y] < key[x] \/ (key[y] = key[x] /\ y <= x)
        BY <4>2
      <4>5. rank(x) < rank(y) \/ rank(y) < rank(x)
        BY <1>1, <4>1, <4>4
      <4> QED BY <4>3, <4>5
    <3> QED BY <2>1, <2>2, <3>1, <3>2
  <2> QED BY <2>2
<1> QED BY <1>1, <1>5, <1>7, <1>8

\* The numbers 1 to n in their order.
LEMMA SortedNumbers ==
    ASSUME NEW n \in Nat
    PROVE  SortedChunks(1 .. n) = [i \in 1 .. n |-> i]
<1>1. PICK key : key = [k \in 1 .. n |-> k]
  OBVIOUS
<1>2. PICK s : s = SortedBy(key)
  OBVIOUS
<1>3. IsFiniteSet(1 .. n) /\ Cardinality(1 .. n) = n
  <2>1. IsFiniteSet(1 .. n) /\ Cardinality(1 .. n) = IF 1 > n THEN 0 ELSE n - 1 + 1
    BY FS_Interval
  <2> QED BY <2>1
<1>4. 1 .. n \in SUBSET Nat /\ key \in [1 .. n -> Int]
  BY <1>1
<1>5. /\ s \in [1 .. n -> 1 .. n]
      /\ \A i, j \in 1 .. n : i < j => /\ s[i] # s[j]
                                      /\ \/ key[s[i]] < key[s[j]]
                                         \/ /\ key[s[i]] = key[s[j]]
                                            /\ s[i] <= s[j]
      /\ \A a \in 1 .. n : \E i \in 1 .. n : s[i] = a
  <2>1. PICK D : D = 1 .. n
    OBVIOUS
  <2>2. D \in SUBSET Nat /\ IsFiniteSet(D) /\ key \in [D -> Int] /\ n = Cardinality(D)
    BY <1>3, <1>4, <2>1
  <2>3. /\ s \in [1 .. n -> D]
        /\ \A i, j \in 1 .. n : i < j => /\ s[i] # s[j]
                                        /\ \/ key[s[i]] < key[s[j]]
                                           \/ /\ key[s[i]] = key[s[j]]
                                              /\ s[i] <= s[j]
        /\ \A a \in D : \E i \in 1 .. n : s[i] = a
    BY <1>2, <2>2, SortedByOrder
  <2> QED BY <2>1, <2>3
<1>6. ASSUME NEW i \in 1 .. n, NEW j \in 1 .. n, i < j PROVE s[i] < s[j]
  <2>1. s[i] \in 1 .. n /\ s[j] \in 1 .. n
    BY <1>5
  <2>2. key[s[i]] = s[i] /\ key[s[j]] = s[j]
    BY <1>1, <2>1
  <2>3. s[i] # s[j] /\ (key[s[i]] < key[s[j]] \/ (key[s[i]] = key[s[j]] /\ s[i] <= s[j]))
    BY <1>5, <1>6
  <2> QED BY <2>1, <2>2, <2>3
<1>7. PICK Wrong : Wrong = {i \in 1 .. n : s[i] # i}
  OBVIOUS
<1>8. ASSUME Wrong # {} PROVE FALSE
  <2>1. PICK i \in Wrong : \A j \in Wrong : i <= j
    <3>1. Wrong \in SUBSET Nat
      BY <1>7
    <3> QED BY <1>8, <3>1, Smallest
  <2>2. i \in 1 .. n /\ s[i] # i /\ s[i] \in 1 .. n /\ \A j \in 1 .. n : j < i => s[j] = j
    BY <1>5, <1>7, <2>1
  <2>3. i <= s[i]
    <3>1. ASSUME s[i] < i PROVE FALSE
      <4>1. s[s[i]] = s[i] /\ s[s[i]] < s[i]
        BY <1>6, <2>2, <3>1
      <4> QED BY <2>2, <4>1
    <3> QED BY <2>2, <3>1
  <2>4. PICK j \in 1 .. n : s[j] = i
    BY <1>5, <2>2
  <2>5. j # i /\ ~(j < i)
    BY <2>2, <2>4
  <2>6. i < j
    BY <2>2, <2>5
  <2>7. s[i] < s[j] /\ s[j] \in 1 .. n
    BY <1>5, <1>6, <2>2, <2>6
  <2> QED BY <2>2, <2>3, <2>4, <2>7
<1>9. s = [i \in 1 .. n |-> i]
  BY <1>5, <1>7, <1>8
<1> QED BY <1>1, <1>2, <1>9 DEF SortedChunks

-----------------------------------------------------------------------------
(* The filter.                                                             *)

\* There are as many elements as places when no two places have the same.
LEMMA CountDistinct ==
    ASSUME NEW S, NEW n \in Nat, NEW f \in [1 .. n -> S],
           \A i, j \in 1 .. n : f[i] = f[j] => i = j,
           \A x \in S : \E i \in 1 .. n : f[i] = x
    PROVE  IsFiniteSet(S) /\ Cardinality(S) = n
<1>1. f \in Bijection(1 .. n, S)
  BY Fun_IsBij
<1>2. ExistsBijection(1 .. n, S)
  BY <1>1 DEF ExistsBijection
<1>3. Cardinality(S) = n
  BY <1>2, FS_CountingElements
<1>4. IsFiniteSet(S)
  BY <1>2, FS_NatBijection
<1> QED BY <1>3, <1>4

\* What is left out of distinct lines is no more than the percentage, and scores no better.
LEMMA FilterLeavesWorst ==
    ASSUME NEW T, NEW lines \in Seq(T), \A i, j \in 1 .. Len(lines) : lines[i] = lines[j] => i = j,
           NEW scores \in [1 .. Len(lines) -> Int], RemovePercent \in 0 .. 100,
           NEW filtered, CeFilter(lines, scores) = Written(filtered),
           NEW all, all = ToSet(lines), NEW kept, kept = ToSet(filtered)
    PROVE  /\ filtered \in Seq(T) /\ kept \subseteq all
           /\ 100 * Cardinality(all \ kept) <= RemovePercent * Cardinality(all)
           /\ \A i, j \in 1 .. Len(lines) :
                 lines[i] \notin kept /\ lines[j] \in kept => scores[i] <= scores[j]
<1>1. PICK n, m, sorted : /\ n = Len(lines) /\ m = (n * RemovePercent) \div 100
                          /\ sorted = SortedBy(scores)
  OBVIOUS
<1>2. n \in Nat /\ DOMAIN lines = 1 .. n /\ scores \in [1 .. n -> Int]
  BY <1>1
<1>3. IsFiniteSet(1 .. n) /\ Cardinality(1 .. n) = n /\ 1 .. n \in SUBSET Nat
  <2>1. IsFiniteSet(1 .. n) /\ Cardinality(1 .. n) = IF 1 > n THEN 0 ELSE n - 1 + 1
    BY <1>2, FS_Interval
  <2> QED BY <1>2, <2>1
<1>4. /\ sorted \in [1 .. n -> 1 .. n]
      /\ \A i, j \in 1 .. n : i < j => /\ sorted[i] # sorted[j]
                                      /\ scores[sorted[i]] <= scores[sorted[j]]
      /\ \A a \in 1 .. n : \E i \in 1 .. n : sorted[i] = a
  <2>1. PICK D : D = 1 .. n
    OBVIOUS
  <2>2. D \in SUBSET Nat /\ IsFiniteSet(D) /\ scores \in [D -> Int] /\ n = Cardinality(D)
    BY <1>2, <1>3, <2>1
  <2>3. /\ sorted \in [1 .. n -> D]
        /\ \A i, j \in 1 .. n : i < j => /\ sorted[i] # sorted[j]
                                        /\ \/ scores[sorted[i]] < scores[sorted[j]]
                                           \/ /\ scores[sorted[i]] = scores[sorted[j]]
                                              /\ sorted[i] <= sorted[j]
        /\ \A a \in D : \E i \in 1 .. n : sorted[i] = a
    <3>1. PICK key : key = scores
      OBVIOUS
    <3>2. sorted = SortedBy(key) /\ key \in [D -> Int]
      BY <1>1, <2>2, <3>1
    <3>3. /\ sorted \in [1 .. n -> D]
          /\ \A i, j \in 1 .. n : i < j => /\ sorted[i] # sorted[j]
                                          /\ \/ key[sorted[i]] < key[sorted[j]]
                                             \/ /\ key[sorted[i]] = key[sorted[j]]
                                                /\ sorted[i] <= sorted[j]
          /\ \A a \in D : \E i \in 1 .. n : sorted[i] = a
      <4>1. D \in SUBSET Nat /\ IsFiniteSet(D) /\ n = Cardinality(D)
        BY <2>2
      <4>2. sorted = SortedBy(key) /\ key \in [D -> Int]
        BY <3>2
      <4> QED BY <4>1, <4>2, SortedByOrder
    <3> QED BY <3>1, <3>3
  <2>4. \A a \in D : scores[a] \in Int
    BY <2>2
  <2>5. \A i, j \in 1 .. n : i < j => scores[sorted[i]] <= scores[sorted[j]]
    BY <2>3, <2>4
  <2> QED BY <2>1, <2>3, <2>5
<1>5. m \in Nat /\ 100 * m <= RemovePercent * n /\ m <= n
  <2>1. PICK p : p = n * RemovePercent
    OBVIOUS
  <2>2. RemovePercent * n \in Int /\ 100 * n \in Int /\ RemovePercent * n <= 100 * n
    BY <1>2, TimesLeq
  <2>3. p = RemovePercent * n /\ p \in Nat
    BY <1>2, <2>1
  <2>4. m = p \div 100
    BY <1>1, <2>1
  <2> QED BY <1>2, <2>2, <2>3, <2>4
<1>6. /\ m # 0
      /\ filtered = [i \in 1 .. n - m + 1 |-> lines[sorted[m + i - 1]]]
  BY <1>1 DEF CeFilter, SortedScores, Written, Failed
<1>7. n - m + 1 \in Nat /\ \A i \in 1 .. n - m + 1 : m + i - 1 \in 1 .. n
  BY <1>2, <1>5, <1>6
<1>8. filtered \in Seq(T) /\ DOMAIN filtered = 1 .. n - m + 1
  <2>1. \A i \in 1 .. n : lines[sorted[i]] \in T
    <3>1. \A i \in 1 .. n : lines[i] \in T
      BY <1>2
    <3> QED BY <1>4, <3>1
  <2>2. filtered \in [1 .. n - m + 1 -> T]
    BY <1>6, <1>7, <2>1
  <2> QED BY <1>7, <2>2, IsSequence
<1>9. kept = {lines[sorted[i]] : i \in m .. n}
  <2>1. kept = {lines[sorted[m + i - 1]] : i \in 1 .. n - m + 1}
    BY <1>6, <1>8 DEF ToSet
  <2>2. \A i \in m .. n : i - m + 1 \in 1 .. n - m + 1 /\ m + (i - m + 1) - 1 = i
    BY <1>2, <1>5
  <2>3. \A i \in 1 .. n - m + 1 : m + i - 1 \in m .. n
    BY <1>2, <1>5
  <2>4. ASSUME NEW x \in kept PROVE x \in {lines[sorted[i]] : i \in m .. n}
    BY <2>1, <2>3
  <2>5. ASSUME NEW i \in m .. n PROVE lines[sorted[i]] \in kept
    <3>1. PICK k \in 1 .. n - m + 1 : m + k - 1 = i
      BY <2>2
    <3> QED BY <2>1, <3>1
  <2> QED BY <2>4, <2>5
<1>10. all = {lines[i] : i \in 1 .. n}
  BY <1>2 DEF ToSet
<1>11. \A i, j \in 1 .. n : sorted[i] = sorted[j] => i = j
  <2>1. SUFFICES ASSUME NEW i \in 1 .. n, NEW j \in 1 .. n, i # j PROVE sorted[i] # sorted[j]
    OBVIOUS
  <2>2. i < j \/ j < i
    BY <1>2, <2>1
  <2> QED BY <1>4, <2>2
<1>12. \A i, j \in 1 .. n : lines[sorted[i]] = lines[sorted[j]] => i = j
  <2>1. \A i, j \in 1 .. n : lines[i] = lines[j] => i = j
    BY <1>1
  <2> QED BY <1>4, <1>11, <2>1
<1>13. \A i \in m .. n : i \in 1 .. n
  BY <1>2, <1>5, <1>6
<1>14. kept \subseteq all
  BY <1>4, <1>9, <1>10, <1>13
<1>15. all \ kept = {lines[sorted[i]] : i \in 1 .. m - 1}
  <2>1. ASSUME NEW x \in all \ kept PROVE x \in {lines[sorted[i]] : i \in 1 .. m - 1}
    <3>1. PICK a \in 1 .. n : x = lines[a]
      BY <1>10, <2>1
    <3>2. PICK i \in 1 .. n : sorted[i] = a
      BY <1>4, <3>1
    <3>3. i \notin m .. n
      BY <1>9, <2>1, <3>1, <3>2
    <3>4. i \in 1 .. m - 1
      BY <1>2, <1>5, <3>2, <3>3
    <3> QED BY <3>1, <3>2, <3>4
  <2>2. ASSUME NEW i \in 1 .. m - 1 PROVE lines[sorted[i]] \in all \ kept
    <3>1. i \in 1 .. n /\ ~(i \in m .. n)
      BY <1>2, <1>5, <2>2
    <3>2. lines[sorted[i]] \in all
      BY <1>4, <1>10, <3>1
    <3>3. ASSUME NEW j \in m .. n, lines[sorted[i]] = lines[sorted[j]] PROVE FALSE
      BY <1>12, <1>13, <3>1, <3>3
    <3> QED BY <1>9, <3>2, <3>3
  <2> QED BY <2>1, <2>2
<1>16. Cardinality(all \ kept) = m - 1
  <2>1. PICK l, out : l = m - 1 /\ out = all \ kept
    OBVIOUS
  <2>2. l \in Nat /\ \A i \in 1 .. l : i \in 1 .. n
    BY <1>2, <1>5, <1>6, <2>1
  <2>3. PICK f : f = [i \in 1 .. l |-> lines[sorted[i]]]
    OBVIOUS
  <2>4. f \in [1 .. l -> out] /\ \A x \in out : \E i \in 1 .. l : f[i] = x
    BY <1>15, <2>1, <2>3
  <2>5. \A i, j \in 1 .. l : f[i] = f[j] => i = j
    BY <1>12, <2>2, <2>3
  <2>6. Cardinality(out) = l
    BY <2>2, <2>4, <2>5, CountDistinct
  <2> QED BY <2>1, <2>6
<1>17. Cardinality(all) = n
  <2>1. PICK f : f = [i \in 1 .. n |-> lines[i]]
    OBVIOUS
  <2>2. f \in [1 .. n -> all] /\ \A x \in all : \E i \in 1 .. n : f[i] = x
    BY <1>10, <2>1
  <2>3. \A i, j \in 1 .. n : f[i] = f[j] => i = j
    BY <1>1, <2>1
  <2> QED BY <1>2, <2>2, <2>3, CountDistinct
<1>18. 100 * Cardinality(all \ kept) <= RemovePercent * Cardinality(all)
  <2>1. RemovePercent * n \in Int
    BY <1>2
  <2> QED BY <1>5, <1>6, <1>16, <1>17, <2>1
<1>19. ASSUME NEW i \in 1 .. n, NEW j \in 1 .. n, lines[i] \notin kept, lines[j] \in kept
       PROVE  scores[i] <= scores[j]
  <2>1. lines[i] \in all \ kept
    BY <1>10, <1>19
  <2>2. PICK a \in 1 .. m - 1 : lines[i] = lines[sorted[a]]
    BY <1>15, <2>1
  <2>3. PICK b \in m .. n : lines[j] = lines[sorted[b]]
    BY <1>9, <1>19
  <2>4. a \in 1 .. n /\ b \in 1 .. n /\ a < b
    <3>1. m \in Nat /\ m # 0 /\ m <= n /\ n \in Nat
      BY <1>2, <1>5, <1>6
    <3>2. a \in 1 .. m - 1 /\ b \in m .. n
      BY <2>2, <2>3
    <3> QED BY <3>1, <3>2
  <2>5. i = sorted[a] /\ j = sorted[b]
    <3>1. sorted[a] \in 1 .. n /\ sorted[b] \in 1 .. n
      BY <1>4, <2>4
    <3>2. \A x, y \in 1 .. n : lines[x] = lines[y] => x = y
      BY <1>1
    <3> QED BY <2>2, <2>3, <3>1, <3>2
  <2> QED BY <1>4, <2>4, <2>5
<1> QED BY <1>1, <1>8, <1>14, <1>18, <1>19

-----------------------------------------------------------------------------
(* The references and the groups of their translations.                    *)

BestStep(sofar, reference) ==
    LET taken == TakeTexts(sofar.rest, Len(sofar.lines))
    IN  IF ~sofar.ok \/ taken.texts = <<>> THEN [sofar EXCEPT !.ok = FALSE]
        ELSE [ok |-> TRUE, rest |-> taken.rest,
              lines |-> Append(sofar.lines, BestText(taken.texts, reference))]

\* The equation of the recursive function in FoldLeft.
Bests(g, nbest, references, n) ==
    g = [s \in SUBSET (1 .. n) |->
            IF s = {} THEN [ok |-> TRUE, rest |-> nbest, lines |-> <<>>]
            ELSE BestStep(g[s \ {Max(s)}], references[Max(s)])]

\* It has a solution.
LEMMA BestsExists ==
    ASSUME NEW nbest, NEW references, NEW n \in Nat
    PROVE  \E g : Bests(g, nbest, references, n)
<1>1. PICK Without : Without = {m \in Nat : ~ \E g : Bests(g, nbest, references, m)}
  OBVIOUS
<1>2. ASSUME Without # {} PROVE FALSE
  <2>1. PICK m \in Without : \A k \in Without : m <= k
    BY <1>1, <1>2, Smallest
  <2>2. m # 0
    <3>1. Bests([s \in SUBSET (1 .. 0) |-> [ok |-> TRUE, rest |-> nbest, lines |-> <<>>]],
                nbest, references, 0)
      <4>1. \A s \in SUBSET (1 .. 0) : s = {}
        OBVIOUS
      <4> QED BY <4>1 DEF Bests
    <3> QED BY <1>1, <2>1, <3>1
  <2>3. m - 1 \in Nat /\ m - 1 \notin Without /\ m \in Nat \ {0}
    BY <1>1, <2>1, <2>2
  <2>4. PICK g : Bests(g, nbest, references, m - 1)
    BY <1>1, <2>3
  <2>5. PICK h : h = [s \in SUBSET (1 .. m) |->
                        IF m \in s THEN BestStep(g[s \ {m}], references[m]) ELSE g[s]]
    OBVIOUS
  <2>6. ASSUME NEW s \in SUBSET (1 .. m)
        PROVE  h[s] = IF s = {} THEN [ok |-> TRUE, rest |-> nbest, lines |-> <<>>]
                      ELSE BestStep(h[s \ {Max(s)}], references[Max(s)])
    <3>1. CASE m \in s
      <4>1. Max(s) = m /\ s \ {m} \in SUBSET (1 .. m) /\ m \notin s \ {m} /\ s # {}
        BY <2>3, <3>1, TakenOut
      <4>2. h[s \ {m}] = g[s \ {m}] /\ h[s] = BestStep(g[s \ {m}], references[m])
        BY <2>5, <3>1, <4>1
      <4> QED BY <4>1, <4>2
    <3>2. CASE m \notin s
      <4>1. s \in SUBSET (1 .. m - 1)
        BY <2>3, <3>2
      <4>2. g[s] = IF s = {} THEN [ok |-> TRUE, rest |-> nbest, lines |-> <<>>]
                   ELSE BestStep(g[s \ {Max(s)}], references[Max(s)])
        BY <2>4, <4>1 DEF Bests
      <4>3. /\ h[s] = g[s]
            /\ h[s \ {Max(s)}] = g[s \ {Max(s)}]
        <5>1. m \notin s \ {Max(s)} /\ s \ {Max(s)} \in SUBSET (1 .. m)
          BY <3>2
        <5> QED BY <2>5, <3>2, <5>1
      <4> QED BY <4>2, <4>3
    <3> QED BY <3>1, <3>2
  <2>7. Bests(h, nbest, references, m)
    BY <2>5, <2>6 DEF Bests
  <2> QED BY <1>1, <2>1, <2>7
<1> QED BY <1>1, <1>2

BestsOneByOne(r, nbest, references, n) ==
    /\ r[0] = [ok |-> TRUE, rest |-> nbest, lines |-> <<>>]
    /\ \A m \in 1 .. n : r[m] = BestStep(r[m - 1], references[m])

\* What is chosen for the first references, one after the other.
LEMMA BestRuns ==
    ASSUME NEW nbest, NEW references, NEW n \in Nat, DOMAIN references = 1 .. n
    PROVE  \E r : /\ MarianBest(nbest, references) = r[n]
                  /\ BestsOneByOne(r, nbest, references, n)
<1>1. PICK h : Bests(h, nbest, references, n)
  BY BestsExists
<1>2. h = [s \in SUBSET (DOMAIN references) |->
            IF s = {} THEN [ok |-> TRUE, rest |-> nbest, lines |-> <<>>]
            ELSE LET taken == TakeTexts(h[s \ {Max(s)}].rest,
                                                 Len(h[s \ {Max(s)}].lines))
                 IN  IF ~h[s \ {Max(s)}].ok \/ taken.texts = <<>>
                     THEN [h[s \ {Max(s)}] EXCEPT !.ok = FALSE]
                     ELSE [ok |-> TRUE, rest |-> taken.rest,
                           lines |-> Append(h[s \ {Max(s)}].lines,
                                            BestText(taken.texts, references[Max(s)]))]]
  BY <1>1 DEF Bests, BestStep
<1>3. PICK g : /\ MarianBest(nbest, references) = g[DOMAIN references]
               /\ g = [s \in SUBSET (DOMAIN references) |->
                        IF s = {} THEN [ok |-> TRUE, rest |-> nbest, lines |-> <<>>]
                        ELSE LET taken == TakeTexts(g[s \ {Max(s)}].rest,
                                                 Len(g[s \ {Max(s)}].lines))
                 IN  IF ~g[s \ {Max(s)}].ok \/ taken.texts = <<>>
                     THEN [g[s \ {Max(s)}] EXCEPT !.ok = FALSE]
                     ELSE [ok |-> TRUE, rest |-> taken.rest,
                           lines |-> Append(g[s \ {Max(s)}].lines,
                                            BestText(taken.texts, references[Max(s)]))]]
  BY <1>2, ZenonT(60) DEF MarianBest, FoldLeft, MapThenFoldSet
<1>4. Bests(g, nbest, references, n)
  BY <1>3 DEF Bests, BestStep
<1>5. PICK r : r = [m \in 0 .. n |-> g[1 .. m]]
  OBVIOUS
<1>6. MarianBest(nbest, references) = r[n]
  <2>1. MarianBest(nbest, references) = g[1 .. n]
    <3>1. MarianBest(nbest, references) = g[DOMAIN references]
      BY <1>3
    <3> QED BY <3>1
  <2>2. n \in 0 .. n
    OBVIOUS
  <2> QED BY <1>5, <2>1, <2>2
<1>7. r[0] = [ok |-> TRUE, rest |-> nbest, lines |-> <<>>]
  <2>1. 1 .. 0 = {} /\ 0 \in 0 .. n /\ {} \in SUBSET (1 .. n)
    OBVIOUS
  <2> QED BY <1>4, <1>5, <2>1 DEF Bests
<1>8. ASSUME NEW m \in 1 .. n PROVE r[m] = BestStep(r[m - 1], references[m])
  <2>1. 1 .. m \in SUBSET (1 .. n) /\ 1 .. m # {} /\ m \in 1 .. m /\ 1 .. m \in SUBSET (1 .. m)
    BY FirstNumbers
  <2>2. Max(1 .. m) = m
    BY <2>1, TakenOut
  <2>3. (1 .. m) \ {m} = 1 .. m - 1 /\ m - 1 \in 0 .. n /\ m \in 0 .. n
    OBVIOUS
  <2>4. g[1 .. m] = BestStep(g[(1 .. m) \ {m}], references[m])
    BY <1>4, <2>1, <2>2 DEF Bests
  <2> QED BY <1>5, <2>3, <2>4
<1> QED BY <1>6, <1>7, <1>8 DEF BestsOneByOne

-----------------------------------------------------------------------------
(* Tokens and the words they come from.                                    *)

\* The equation of the recursive function in FoldLeft.
Maps(g, tokens, words, n) ==
    g = [s \in SUBSET (1 .. n) |->
            IF s = {} THEN [orig_idx |-> 0, tok_idx |-> 0, map |-> << >>]
            ELSE MapWord(tokens, g[s \ {Max(s)}], words[Max(s)])]

\* It has a solution.
LEMMA MapsExists ==
    ASSUME NEW tokens, NEW words, NEW n \in Nat
    PROVE  \E g : Maps(g, tokens, words, n)
<1>1. PICK Without : Without = {m \in Nat : ~ \E g : Maps(g, tokens, words, m)}
  OBVIOUS
<1>2. ASSUME Without # {} PROVE FALSE
  <2>1. PICK m \in Without : \A k \in Without : m <= k
    BY <1>1, <1>2, Smallest
  <2>2. m # 0
    <3>1. Maps([s \in SUBSET (1 .. 0) |-> [orig_idx |-> 0, tok_idx |-> 0, map |-> << >>]],
               tokens, words, 0)
      <4>1. \A s \in SUBSET (1 .. 0) : s = {}
        OBVIOUS
      <4> QED BY <4>1 DEF Maps
    <3> QED BY <1>1, <2>1, <3>1
  <2>3. m - 1 \in Nat /\ m - 1 \notin Without /\ m \in Nat \ {0}
    BY <1>1, <2>1, <2>2
  <2>4. PICK g : Maps(g, tokens, words, m - 1)
    BY <1>1, <2>3
  <2>5. PICK h : h = [s \in SUBSET (1 .. m) |->
                        IF m \in s THEN MapWord(tokens, g[s \ {m}], words[m]) ELSE g[s]]
    OBVIOUS
  <2>6. ASSUME NEW s \in SUBSET (1 .. m)
        PROVE  h[s] = IF s = {} THEN [orig_idx |-> 0, tok_idx |-> 0, map |-> << >>]
                      ELSE MapWord(tokens, h[s \ {Max(s)}], words[Max(s)])
    <3>1. CASE m \in s
      <4>1. Max(s) = m /\ s \ {m} \in SUBSET (1 .. m) /\ m \notin s \ {m} /\ s # {}
        BY <2>3, <3>1, TakenOut
      <4>2. h[s \ {m}] = g[s \ {m}] /\ h[s] = MapWord(tokens, g[s \ {m}], words[m])
        BY <2>5, <3>1, <4>1
      <4> QED BY <4>1, <4>2
    <3>2. CASE m \notin s
      <4>1. s \in SUBSET (1 .. m - 1)
        BY <2>3, <3>2
      <4>2. g[s] = IF s = {} THEN [orig_idx |-> 0, tok_idx |-> 0, map |-> << >>]
                   ELSE MapWord(tokens, g[s \ {Max(s)}], words[Max(s)])
        BY <2>4, <4>1 DEF Maps
      <4>3. /\ h[s] = g[s]
            /\ h[s \ {Max(s)}] = g[s \ {Max(s)}]
        <5>1. m \notin s \ {Max(s)} /\ s \ {Max(s)} \in SUBSET (1 .. m)
          BY <3>2
        <5> QED BY <2>5, <3>2, <5>1
      <4> QED BY <4>2, <4>3
    <3> QED BY <3>1, <3>2
  <2>7. Maps(h, tokens, words, m)
    BY <2>5, <2>6 DEF Maps
  <2> QED BY <1>1, <2>1, <2>7
<1> QED BY <1>1, <1>2

MapsOneByOne(r, tokens, words, n) ==
    /\ r[0] = [orig_idx |-> 0, tok_idx |-> 0, map |-> << >>]
    /\ \A m \in 1 .. n : r[m] = MapWord(tokens, r[m - 1], words[m])

\* What is mapped of the first words, one after the other.
LEMMA MapRuns ==
    ASSUME NEW tokens, NEW words, NEW n \in Nat, DOMAIN words = 1 .. n
    PROVE  \E r : MapIndices(tokens, words) = r[n].map /\ MapsOneByOne(r, tokens, words, n)
<1>1. PICK h : Maps(h, tokens, words, n)
  BY MapsExists
<1>2. h = [s \in SUBSET (DOMAIN words) |->
            IF s = {} THEN [orig_idx |-> 0, tok_idx |-> 0, map |-> << >>]
            ELSE MapWord(tokens, h[s \ {Max(s)}], words[Max(s)])]
  BY <1>1 DEF Maps, MapWord
<1>3. PICK g : /\ MapIndices(tokens, words) = g[DOMAIN words].map
               /\ g = [s \in SUBSET (DOMAIN words) |->
                        IF s = {} THEN [orig_idx |-> 0, tok_idx |-> 0, map |-> << >>]
                        ELSE MapWord(tokens, g[s \ {Max(s)}], words[Max(s)])]
  BY <1>2, Zenon DEF MapIndices, FoldLeft, MapThenFoldSet
<1>4. Maps(g, tokens, words, n)
  BY <1>3 DEF Maps, MapWord
<1>5. PICK r : r = [m \in 0 .. n |-> g[1 .. m]]
  OBVIOUS
<1>6. MapIndices(tokens, words) = r[n].map
  <2>1. MapIndices(tokens, words) = g[1 .. n].map
    <3>1. MapIndices(tokens, words) = g[DOMAIN words].map
      BY <1>3
    <3> QED BY <3>1
  <2>2. n \in 0 .. n
    OBVIOUS
  <2> QED BY <1>5, <2>1, <2>2
<1>7. r[0] = [orig_idx |-> 0, tok_idx |-> 0, map |-> << >>]
  <2>1. 1 .. 0 = {} /\ 0 \in 0 .. n /\ {} \in SUBSET (1 .. n)
    OBVIOUS
  <2> QED BY <1>4, <1>5, <2>1 DEF Maps
<1>8. ASSUME NEW m \in 1 .. n PROVE r[m] = MapWord(tokens, r[m - 1], words[m])
  <2>1. 1 .. m \in SUBSET (1 .. n) /\ 1 .. m # {} /\ m \in 1 .. m /\ 1 .. m \in SUBSET (1 .. m)
    BY FirstNumbers
  <2>2. Max(1 .. m) = m
    BY <2>1, TakenOut
  <2>3. (1 .. m) \ {m} = 1 .. m - 1 /\ m - 1 \in 0 .. n /\ m \in 0 .. n
    OBVIOUS
  <2>4. g[1 .. m] = MapWord(tokens, g[(1 .. m) \ {m}], words[m])
    BY <1>4, <2>1, <2>2 DEF Maps
  <2> QED BY <1>5, <2>3, <2>4
<1> QED BY <1>6, <1>7, <1>8 DEF MapsOneByOne

\* The first k files put together, and one more.
LEMMA FlattenFirst ==
    ASSUME NEW T, NEW s \in Seq(Seq(T)), NEW k \in 1 .. Len(s)
    PROVE  /\ SubSeq(s, 1, k - 1) \in Seq(Seq(T)) /\ SubSeq(s, 1, k) \in Seq(Seq(T))
           /\ s[k] \in Seq(T)
           /\ FlattenSeq(SubSeq(s, 1, k)) = FlattenSeq(SubSeq(s, 1, k - 1)) \o s[k]
<1>1. s[k] \in Seq(T)
  OBVIOUS
<1>2. 1 \in 1 .. Len(s) /\ k - 1 \in Int /\ k \in Int
  OBVIOUS
<1>3. \A i \in 1 .. Len(s) : s[i] \in Seq(T)
  OBVIOUS
<1>4. SubSeq(s, 1, k - 1) \in Seq(Seq(T))
  <2>1. PICK j : j = k - 1
    OBVIOUS
  <2>2. j \in Int /\ 1 \in Int /\ \A i \in 1 .. j : i \in 1 .. Len(s)
    BY <2>1
  <2>3. \A i \in 1 .. j : s[i] \in Seq(T)
    BY <1>3, <2>2, Zenon
  <2>4. SubSeq(s, 1, j) \in Seq(Seq(T))
    BY <2>2, <2>3, SubSeqProperties, Zenon
  <2> QED BY <2>1, <2>4
<1>5. SubSeq(s, 1, k) = SubSeq(s, 1, k - 1) \o <<s[k]>>
  BY <1>2, SubSeqRecursiveSecond
<1>6. SubSeq(s, 1, k) = Append(SubSeq(s, 1, k - 1), s[k])
  BY <1>1, <1>4, <1>5, AppendIsConcat
<1>7. PICK t : t = SubSeq(s, 1, k - 1) /\ t \in Seq(Seq(T))
  BY <1>4
<1>8. FlattenSeq(Append(t, s[k])) = FlattenSeq(t) \o s[k] /\ Append(t, s[k]) \in Seq(Seq(T))
  <2>1. PICK x : x = s[k] /\ x \in Seq(T)
    BY <1>1
  <2>2. t \in Seq(Seq(T))
    BY <1>7
  <2>3. FlattenSeq(Append(t, x)) = FlattenSeq(t) \o x
    BY <2>1, <2>2, FlattenAppend
  <2>4. Append(t, x) \in Seq(Seq(T))
    BY <2>1, <2>2
  <2> QED BY <2>1, <2>3, <2>4
<1> QED BY <1>1, <1>4, <1>6, <1>7, <1>8

\* One sequence begins another.
Begins(a, b) == Len(a) <= Len(b) /\ \A i \in 1 .. Len(a) : a[i] = b[i]

\* The first k files, put together, begin the first m.
LEMMA FlattenBegins ==
    ASSUME NEW T, NEW s \in Seq(Seq(T)), NEW m \in 0 .. Len(s), NEW k \in 0 .. m
    PROVE  /\ FlattenSeq(SubSeq(s, 1, k)) \in Seq(T)
           /\ Begins(FlattenSeq(SubSeq(s, 1, k)), FlattenSeq(SubSeq(s, 1, m)))
<1>1. PICK n : n = Len(s) /\ n \in Nat
  OBVIOUS
<1>2. PICK P : P = [i \in 0 .. n |-> FlattenSeq(SubSeq(s, 1, i))]
  OBVIOUS
<1>3. ASSUME NEW i \in 0 .. n PROVE P[i] \in Seq(T)
  <2>1. SubSeq(s, 1, i) \in Seq(Seq(T))
    <3>1. \A j \in 1 .. n : s[j] \in Seq(T)
      BY <1>1
    <3>2. i \in Int /\ 1 \in Int /\ \A j \in 1 .. i : j \in 1 .. n
      BY <1>1
    <3>3. \A j \in 1 .. i : s[j] \in Seq(T)
      BY <3>1, <3>2, Zenon
    <3> QED BY <3>2, <3>3, SubSeqProperties, Zenon
  <2>2. PICK t : t = SubSeq(s, 1, i) /\ t \in Seq(Seq(T))
    BY <2>1
  <2>3. FlattenSeq(t) \in Seq(T)
    BY <2>2, FlattenType
  <2> QED BY <1>2, <2>2, <2>3
<1>4. ASSUME NEW i \in 1 .. n
      PROVE  P[i] = P[i - 1] \o s[i] /\ s[i] \in Seq(T) /\ i - 1 \in 0 .. n /\ i \in 0 .. n
  <2>1. i \in 1 .. Len(s) /\ i - 1 \in 0 .. n /\ i \in 0 .. n
    BY <1>1
  <2>2. FlattenSeq(SubSeq(s, 1, i)) = FlattenSeq(SubSeq(s, 1, i - 1)) \o s[i] /\ s[i] \in Seq(T)
    BY <2>1, FlattenFirst
  <2> QED BY <1>2, <2>1, <2>2
<1>5. PICK Wrong : Wrong = {i \in 0 .. n : \E j \in 0 .. i : ~Begins(P[j], P[i])}
  OBVIOUS
<1>6. ASSUME Wrong # {} PROVE FALSE
  <2>1. PICK i \in Wrong : \A j \in Wrong : i <= j
    <3>1. Wrong \in SUBSET Nat
      BY <1>1, <1>5
    <3> QED BY <1>6, <3>1, Smallest
  <2>2. i \in 0 .. n /\ \E j \in 0 .. i : ~Begins(P[j], P[i])
    BY <1>5, <2>1
  <2>3. PICK j \in 0 .. i : ~Begins(P[j], P[i])
    BY <2>2
  <2>4. j # i
    BY <2>3 DEF Begins
  <2>5. i \in 1 .. n /\ j \in 0 .. i - 1 /\ i - 1 \in 0 .. n /\ i - 1 \notin Wrong
    BY <1>1, <2>1, <2>2, <2>3, <2>4
  <2>6. Begins(P[j], P[i - 1])
    BY <1>5, <2>5
  <2>7. PICK a, b, c : a = P[i - 1] /\ b = s[i] /\ c = P[i]
    OBVIOUS
  <2>8. a \in Seq(T) /\ b \in Seq(T) /\ c = a \o b /\ P[j] \in Seq(T)
    <3>1. a \in Seq(T) /\ P[j] \in Seq(T)
      <4>1. j \in 0 .. n /\ i - 1 \in 0 .. n
        BY <1>1, <2>5
      <4> QED BY <1>3, <2>7, <4>1
    <3>2. b \in Seq(T) /\ c = a \o b
      BY <1>4, <2>5, <2>7
    <3> QED BY <3>1, <3>2
  <2>9. Begins(a, c)
    BY <2>8 DEF Begins
  <2>10. Begins(P[j], c)
    <3>1. PICK d : d = P[j] /\ d \in Seq(T)
      BY <2>8
    <3>2. Len(d) \in Nat /\ Len(a) \in Nat /\ Len(c) \in Nat
      BY <2>8, <3>1
    <3>3. Begins(d, a)
      BY <2>6, <2>7, <3>1
    <3>4. Begins(d, c)
      BY <2>9, <3>2, <3>3 DEF Begins
    <3> QED BY <3>1, <3>4
  <2> QED BY <2>3, <2>7, <2>10
<1>7. m \in 0 .. n /\ k \in 0 .. n /\ m \notin Wrong
  BY <1>1, <1>6
<1>8. Begins(P[k], P[m])
  BY <1>5, <1>7
<1> QED BY <1>2, <1>3, <1>7, <1>8

\* Tokens, each a word of one piece, put together.
LEMMA TokensTogether ==
    ASSUME NEW T, NEW f \in Seq(T)
    PROVE  AsWords(f) \in Seq(Seq(T)) /\ Len(AsWords(f)) = Len(f) /\ FlattenSeq(AsWords(f)) = f
<1>1. PICK n : n = Len(f) /\ n \in Nat /\ DOMAIN f = 1 .. n
  OBVIOUS
<1>2. AsWords(f) = [i \in 1 .. n |-> <<f[i]>>]
  BY <1>1 DEF AsWords
<1>3. AsWords(f) \in [1 .. n -> Seq(T)]
  <2>1. \A i \in 1 .. n : <<f[i]>> \in Seq(T)
    <3>1. \A i \in 1 .. n : f[i] \in T
      BY <1>1
    <3>2. \A x \in T : <<x>> \in Seq(T)
      OBVIOUS
    <3> QED BY <3>1, <3>2
  <2> QED BY <1>2, <2>1
<1>4. AsWords(f) \in Seq(Seq(T)) /\ Len(AsWords(f)) = n
  BY <1>1, <1>3, IsSequence
<1>5. Cut(f, 1) = AsWords(f)
  <2>1. (n + 1 - 1) \div 1 = n
    BY <1>1
  <2>2. DOMAIN Cut(f, 1) = 1 .. n /\ Cut(f, 1) = [k \in 1 .. n |-> Cut(f, 1)[k]]
    BY <1>1, <2>1 DEF Cut
  <2>3. ASSUME NEW k \in 1 .. n PROVE Cut(f, 1)[k] = <<f[k]>>
    <3>1. Cut(f, 1)[k] = SubSeq(f, (k - 1) * 1 + 1, Min({k * 1, n}))
      BY <1>1, <2>1 DEF Cut
    <3>2. (k - 1) * 1 + 1 = k /\ k * 1 = k /\ k \in Int /\ n \in Int
      BY <1>1
    <3>3. Min({k, n}) = k
      BY <1>1, <3>2, LeastOfTwo
    <3>4. SubSeq(f, k, k) = <<f[k]>>
      <4>1. k \in Int /\ \A i \in k .. k : f[i] \in T
        BY <1>1
      <4>2. PICK s : s = SubSeq(f, k, k)
        OBVIOUS
      <4>3. s \in Seq(T) /\ Len(s) = 1 /\ s[1] = f[k]
        <5>1. /\ s \in Seq(T) /\ Len(s) = IF k <= k THEN k - k + 1 ELSE 0
              /\ \A i \in 1 .. k - k + 1 : s[i] = f[k + i - 1]
          BY <4>1, <4>2, SubSeqProperties
        <5> QED BY <5>1
      <4>4. PICK x \in T : x = f[k]
        BY <4>1
      <4>5. <<x>> \in Seq(T) /\ Len(<<x>>) = 1 /\ <<x>>[1] = x
        OBVIOUS
      <4>6. s = <<x>>
        BY <4>3, <4>4, <4>5, SeqEqual
      <4> QED BY <4>2, <4>4, <4>6
    <3> QED BY <3>1, <3>2, <3>3, <3>4
  <2> QED BY <1>2, <2>2, <2>3
<1>6. FlattenSeq(Cut(f, 1)) = f
  BY ChunksTogether
<1> QED BY <1>1, <1>4, <1>5, <1>6

\* Some of the tokens put together.
LEMMA SomeTokensTogether ==
    ASSUME NEW T, NEW f \in Seq(T), NEW a \in Nat, NEW e \in a .. Len(f)
    PROVE  /\ FlattenSeq(SubSeq(AsWords(f), a + 1, e)) = SubSeq(f, a + 1, e)
           /\ SubSeq(f, a + 1, e) \in Seq(T) /\ Len(SubSeq(f, a + 1, e)) = e - a
           /\ \A i \in 1 .. e - a : SubSeq(f, a + 1, e)[i] = f[a + i]
<1>1. PICK n : n = Len(f) /\ n \in Nat /\ DOMAIN f = 1 .. n
  OBVIOUS
<1>2. AsWords(f) = [i \in 1 .. n |-> <<f[i]>>]
  BY <1>1 DEF AsWords
<1>3. PICK b : b = a + 1 /\ b \in Int
  OBVIOUS
<1>4. e \in Int /\ e <= n /\ e - b + 1 \in Nat /\ e - b + 1 = e - a /\ b <= e + 1
      /\ \A i \in b .. e : i \in 1 .. n
  BY <1>1, <1>3
<1>5. \A i \in 1 .. n : f[i] \in T
  BY <1>1
<1>6. \A i \in b .. e : f[i] \in T
  BY <1>4, <1>5
<1>7. PICK s : s = SubSeq(f, b, e)
  OBVIOUS
<1>8. s \in Seq(T) /\ Len(s) = e - a /\ \A i \in 1 .. e - a : s[i] = f[b + i - 1]
  BY <1>3, <1>4, <1>6, <1>7, SubSeqProperties
<1>9. AsWords(f) \in Seq(Seq(T))
  BY TokensTogether
<1>10. SubSeq(AsWords(f), b, e) = AsWords(s)
  <2>1. PICK t, words : words = AsWords(f) /\ t = SubSeq(words, b, e)
    OBVIOUS
  <2>2. DOMAIN s = 1 .. e - a
    BY <1>8
  <2>3. AsWords(s) = [i \in 1 .. e - a |-> <<s[i]>>]
    BY <2>2 DEF AsWords
  <2>4. ASSUME NEW i \in 1 .. e - a PROVE words[b + i - 1] = <<s[i]>>
    <3>1. b + i - 1 \in 1 .. n
      BY <1>1, <1>3, <1>4
    <3> QED BY <1>2, <1>8, <2>1, <3>1
  <2>5. words \in Seq(Seq(T)) /\ Len(words) = n
    BY <1>1, <2>1, TokensTogether
  <2>6. \A i \in 1 .. n : words[i] \in Seq(T)
    BY <2>5
  <2>7. \A i \in b .. e : words[i] \in Seq(T)
    BY <1>4, <2>6
  <2>8. t \in Seq(Seq(T)) /\ Len(t) = e - a /\ \A i \in 1 .. e - a : t[i] = words[b + i - 1]
    BY <1>3, <1>4, <2>1, <2>7, SubSeqProperties
  <2>9. t = [i \in 1 .. e - a |-> <<s[i]>>]
    <3>1. DOMAIN t = 1 .. e - a /\ t = [i \in DOMAIN t |-> t[i]]
      BY <2>8
    <3> QED BY <2>4, <2>8, <3>1
  <2> QED BY <2>1, <2>3, <2>9
<1>11. FlattenSeq(AsWords(s)) = s
  BY <1>8, TokensTogether
<1>12. \A i \in 1 .. e - a : s[i] = f[a + i]
  BY <1>3, <1>8
<1> QED BY <1>3, <1>7, <1>8, <1>10, <1>11, <1>12

\* How many tokens the first words have.
TokensUpTo(text, w) == Len(FlattenSeq(SubSeq(text, 1, w)))

\* The tokens of a word are those between the tokens of the words before it and with it.
LEMMA TokensOfWord ==
    ASSUME NEW T, NEW text \in Seq(Seq(T)), NEW f, f = FlattenSeq(text), NEW w \in 1 .. Len(text)
    PROVE  /\ f \in Seq(T)
           /\ TokensUpTo(text, w - 1) \in Nat /\ TokensUpTo(text, w) \in Nat
           /\ TokensUpTo(text, w - 1) <= TokensUpTo(text, w) /\ TokensUpTo(text, w) <= Len(f)
           /\ text[w] = SubSeq(f, TokensUpTo(text, w - 1) + 1, TokensUpTo(text, w))
           /\ Len(text[w]) = TokensUpTo(text, w) - TokensUpTo(text, w - 1)
<1>1. PICK n : n = Len(text) /\ n \in Nat /\ n \in 0 .. n /\ w \in 0 .. n /\ w - 1 \in 0 .. n
  OBVIOUS
<1>2. PICK a, b, c : /\ a = FlattenSeq(SubSeq(text, 1, w - 1)) /\ b = text[w]
                     /\ c = FlattenSeq(SubSeq(text, 1, w))
  OBVIOUS
<1>3. SubSeq(text, 1, n) = text
  BY <1>1, SubSeqFull
<1>4. f \in Seq(T)
  BY FlattenType
<1>5. c = a \o b /\ b \in Seq(T)
  BY <1>2, FlattenFirst
<1>6. a \in Seq(T) /\ c \in Seq(T) /\ Begins(c, f)
  <2>1. a \in Seq(T)
    BY <1>1, <1>2, FlattenBegins
  <2>2. c \in Seq(T) /\ Begins(c, FlattenSeq(SubSeq(text, 1, n)))
    <3>1. n \in 0 .. Len(text) /\ w \in 0 .. n
      BY <1>1
    <3> QED BY <1>2, <3>1, FlattenBegins
  <2> QED BY <1>3, <2>1, <2>2
<1>7. PICK p, q : p = Len(a) /\ q = Len(c)
  OBVIOUS
<1>8. p \in Nat /\ q \in Nat /\ p <= q /\ q <= Len(f) /\ Len(b) = q - p
      /\ \A i \in 1 .. q - p : c[p + i] = b[i]
  <2>1. q <= Len(f)
    BY <1>6, <1>7 DEF Begins
  <2>2. p \in Nat /\ q \in Nat /\ q = p + Len(b) /\ Len(b) \in Nat
    BY <1>5, <1>6, <1>7
  <2>3. \A i \in 1 .. q - p : c[p + i] = b[i]
    <3>1. \A i \in 1 .. Len(b) : (a \o b)[Len(a) + i] = b[i]
      BY <1>5, <1>6
    <3> QED BY <1>5, <1>7, <2>2, <3>1
  <2> QED BY <2>1, <2>2, <2>3
<1>9. \A i \in 1 .. q - p : f[p + i] = b[i]
  <2>1. \A i \in 1 .. q : c[i] = f[i]
    BY <1>6, <1>7 DEF Begins
  <2>2. \A i \in 1 .. q - p : p + i \in 1 .. q
    BY <1>8
  <2> QED BY <1>8, <2>1, <2>2
<1>10. b = SubSeq(f, p + 1, q)
  <2>1. PICK s : s = SubSeq(f, p + 1, q)
    OBVIOUS
  <2>2. q \in p .. Len(f)
    BY <1>4, <1>8
  <2>3. s \in Seq(T) /\ Len(s) = q - p /\ \A i \in 1 .. q - p : s[i] = f[p + i]
    BY <1>4, <1>8, <2>1, <2>2, SomeTokensTogether
  <2>4. \A i \in 1 .. Len(s) : s[i] = b[i]
    BY <1>9, <2>3
  <2>5. s = b
    BY <1>5, <1>8, <2>3, <2>4
  <2> QED BY <2>1, <2>5
<1> QED BY <1>2, <1>4, <1>7, <1>8, <1>10 DEF TokensUpTo

\* More words have no fewer tokens.
LEMMA TokensGrow ==
    ASSUME NEW T, NEW text \in Seq(Seq(T)), NEW w \in 0 .. Len(text), NEW v \in 0 .. w
    PROVE  /\ TokensUpTo(text, v) \in Nat /\ TokensUpTo(text, w) \in Nat
           /\ TokensUpTo(text, v) <= TokensUpTo(text, w)
<1>1. PICK a, b : a = FlattenSeq(SubSeq(text, 1, v)) /\ b = FlattenSeq(SubSeq(text, 1, w))
  OBVIOUS
<1>2. a \in Seq(T) /\ Begins(a, b)
  BY <1>1, FlattenBegins
<1>3. w \in 0 .. w
  OBVIOUS
<1>4. b \in Seq(T)
  BY <1>1, <1>3, FlattenBegins
<1> QED BY <1>1, <1>2, <1>4 DEF Begins, TokensUpTo

\* The inner loop of map_indices stops behind the tokens of the word.
LEMMA WordEndIs ==
    ASSUME NEW T, NEW text \in Seq(Seq(T)), NEW f, f = FlattenSeq(text), NEW w \in 1 .. Len(text)
    PROVE  WordEnd(AsWords(f), TokensUpTo(text, w - 1), text[w]) = TokensUpTo(text, w)
<1>1. PICK p, q, word : /\ p = TokensUpTo(text, w - 1) /\ q = TokensUpTo(text, w)
                        /\ word = text[w]
  OBVIOUS
<1>2. /\ f \in Seq(T) /\ p \in Nat /\ q \in Nat /\ p <= q /\ q <= Len(f)
      /\ word = SubSeq(f, p + 1, q) /\ Len(word) = q - p
  <2>1. /\ f \in Seq(T)
        /\ TokensUpTo(text, w - 1) \in Nat /\ TokensUpTo(text, w) \in Nat
        /\ TokensUpTo(text, w - 1) <= TokensUpTo(text, w) /\ TokensUpTo(text, w) <= Len(f)
        /\ text[w] = SubSeq(f, TokensUpTo(text, w - 1) + 1, TokensUpTo(text, w))
        /\ Len(text[w]) = TokensUpTo(text, w) - TokensUpTo(text, w - 1)
    <3>1. f \in Seq(T) /\ TokensUpTo(text, w - 1) \in Nat /\ TokensUpTo(text, w) \in Nat
      BY TokensOfWord
    <3>2. TokensUpTo(text, w - 1) <= TokensUpTo(text, w) /\ TokensUpTo(text, w) <= Len(f)
      BY TokensOfWord
    <3>3. text[w] = SubSeq(f, TokensUpTo(text, w - 1) + 1, TokensUpTo(text, w))
      BY TokensOfWord
    <3>4. Len(text[w]) = TokensUpTo(text, w) - TokensUpTo(text, w - 1)
      BY TokensOfWord
    <3> QED BY <3>1, <3>2, <3>3, <3>4
  <2> QED BY <1>1, <2>1, Zenon
<1>3. PICK tokens : tokens = AsWords(f)
  OBVIOUS
<1>4. Len(tokens) = Len(f) /\ Len(f) \in Nat
  BY <1>2, <1>3, TokensTogether
<1>5. PICK ends : ends = {e \in p .. Len(tokens) : FlattenSeq(SubSeq(tokens, p + 1, e)) = word}
  OBVIOUS
<1>6. q \in ends
  <2>1. q \in p .. Len(f)
    BY <1>2, <1>4
  <2>2. FlattenSeq(SubSeq(tokens, p + 1, q)) = SubSeq(f, p + 1, q)
    BY <1>2, <1>3, <2>1, SomeTokensTogether
  <2> QED BY <1>2, <1>4, <1>5, <2>1, <2>2
<1>7. ASSUME NEW e \in ends PROVE e = q
  <2>1. e \in p .. Len(f) /\ FlattenSeq(SubSeq(tokens, p + 1, e)) = word
    BY <1>4, <1>5
  <2>2. /\ FlattenSeq(SubSeq(tokens, p + 1, e)) = SubSeq(f, p + 1, e)
        /\ Len(SubSeq(f, p + 1, e)) = e - p
    BY <1>2, <1>3, <2>1, SomeTokensTogether
  <2>3. Len(word) = e - p
    BY <2>1, <2>2
  <2> QED BY <1>2, <1>4, <2>1, <2>3
<1>8. ends \in SUBSET Nat
  BY <1>2, <1>7
<1>9. Min(ends) = q
  BY <1>6, <1>7, <1>8, LeastIs
<1>10. WordEnd(tokens, p, word) = IF ends = {} THEN Len(tokens) ELSE Min(ends)
  BY <1>5 DEF WordEnd
<1> QED BY <1>1, <1>3, <1>6, <1>9, <1>10

\* The place of a token is counted by the words that end before it.
LEMMA WordOfIs ==
    ASSUME NEW T, NEW text \in Seq(Seq(T)), NEW w \in 1 .. Len(text),
           NEW t \in TokensUpTo(text, w - 1) .. TokensUpTo(text, w) - 1
    PROVE  WordOf(text, t) = w - 1
<1>1. PICK l : l = w - 1 /\ l \in Nat
  OBVIOUS
<1>2. /\ w \in 0 .. Len(text) /\ l \in 0 .. Len(text) /\ DOMAIN text = 1 .. Len(text)
      /\ Len(text) \in Nat
  BY <1>1
<1>3. TokensUpTo(text, l) \in Nat /\ TokensUpTo(text, w) \in Nat
  <2>1. l \in 0 .. l /\ w \in 0 .. w
    BY <1>1, <1>2
  <2> QED BY <1>2, <2>1, TokensGrow
<1>4. t \in Nat /\ TokensUpTo(text, l) <= t /\ t < TokensUpTo(text, w)
  BY <1>1, <1>3
<1>5. ASSUME NEW v \in 1 .. Len(text) PROVE TokensUpTo(text, v) <= t <=> v <= l
  <2>1. v \in 0 .. Len(text)
    BY <1>2
  <2>2. CASE v <= l
    <3>1. v \in 0 .. l
      BY <1>1, <2>2
    <3>2. TokensUpTo(text, v) \in Nat /\ TokensUpTo(text, v) <= TokensUpTo(text, l)
      BY <1>2, <3>1, TokensGrow
    <3> QED BY <1>3, <1>4, <2>2, <3>2
  <2>3. CASE ~(v <= l)
    <3>1. w \in 0 .. v
      BY <1>1, <2>3
    <3>2. TokensUpTo(text, v) \in Nat /\ TokensUpTo(text, w) <= TokensUpTo(text, v)
      BY <2>1, <3>1, TokensGrow
    <3> QED BY <1>3, <1>4, <2>3, <3>2
  <2> QED BY <2>2, <2>3
<1>6. {v \in DOMAIN text : TokensUpTo(text, v) <= t} = 1 .. l
  BY <1>1, <1>2, <1>5
<1>7. Cardinality(1 .. l) = l
  <2>1. Cardinality(1 .. l) = IF 1 > l THEN 0 ELSE l - 1 + 1
    BY <1>1, FS_Interval
  <2> QED BY <1>1, <2>1
<1> QED BY <1>1, <1>6, <1>7 DEF WordOf, TokensUpTo

\* map_indices gives each token of a text, tokenized without spaces, the word it comes from.
LEMMA MapOfTokens ==
    ASSUME NEW T, NEW text \in Seq(Seq(T)), NEW f, f = FlattenSeq(text),
           NEW map, map = MapIndices(AsWords(f), text)
    PROVE  /\ Len(f) \in Nat /\ DOMAIN map = 0 .. Len(f) - 1
           /\ \A t \in 0 .. Len(f) - 1 : map[t] = WordOf(text, t)
<1>1. PICK n : n = Len(text) /\ n \in Nat /\ DOMAIN text = 1 .. n
  OBVIOUS
<1>2. PICK tokens : tokens = AsWords(f)
  OBVIOUS
<1>3. PICK r : map = r[n].map /\ MapsOneByOne(r, tokens, text, n)
  <2>1. \E r : MapIndices(tokens, text) = r[n].map /\ MapsOneByOne(r, tokens, text, n)
    BY <1>1, MapRuns
  <2>2. map = MapIndices(tokens, text)
    BY <1>2
  <2> QED BY <2>1, <2>2
<1>4. PICK P : P = [w \in 0 .. n |-> TokensUpTo(text, w)]
  OBVIOUS
<1> DEFINE Right(w) == /\ r[w].orig_idx = w /\ r[w].tok_idx = P[w]
                       /\ DOMAIN r[w].map = 0 .. P[w] - 1
                       /\ \A t \in 0 .. P[w] - 1 : r[w].map[t] = WordOf(text, t)
<1>5. P[0] = 0
  <2>1. SubSeq(text, 1, 0) = <<>>
    BY SubSeqEmpty
  <2>2. FlattenSeq(<<>>) = <<>>
    BY DEF FlattenSeq
  <2>3. TokensUpTo(text, 0) = 0
    <3>1. TokensUpTo(text, 0) = Len(FlattenSeq(<<>>))
      BY <2>1, Zenon DEF TokensUpTo
    <3> QED BY <2>2, <3>1
  <2> QED BY <1>1, <1>4, <2>3
<1>6. Right(0)
  <2>1. 0 .. 0 - 1 = {} /\ DOMAIN << >> = {}
    OBVIOUS
  <2>2. r[0].orig_idx = 0 /\ r[0].tok_idx = 0 /\ r[0].map = << >>
    BY <1>3 DEF MapsOneByOne
  <2> QED BY <1>5, <2>1, <2>2
<1>7. ASSUME NEW w \in 1 .. n, Right(w - 1) PROVE Right(w)
  <2>1. w \in 1 .. Len(text) /\ w - 1 \in 0 .. n /\ w \in 0 .. n
    BY <1>1
  <2>2. P[w - 1] = TokensUpTo(text, w - 1) /\ P[w] = TokensUpTo(text, w)
    BY <1>4, <2>1
  <2>3. P[w - 1] \in Nat /\ P[w] \in Nat /\ P[w - 1] <= P[w]
    BY <2>1, <2>2, TokensOfWord
  <2>4. WordEnd(tokens, P[w - 1], text[w]) = P[w]
    BY <1>2, <2>1, <2>2, WordEndIs
  <2>5. PICK old : old = r[w - 1]
    OBVIOUS
  <2>6. /\ old.orig_idx = w - 1 /\ old.tok_idx = P[w - 1]
        /\ DOMAIN old.map = 0 .. P[w - 1] - 1
        /\ \A t \in 0 .. P[w - 1] - 1 : old.map[t] = WordOf(text, t)
    BY <1>7, <2>5
  <2>7. PICK more : more = [t \in P[w - 1] .. P[w] - 1 |-> w - 1]
    OBVIOUS
  <2>8. r[w] = [orig_idx |-> w, tok_idx |-> P[w], map |-> Update(old.map, more)]
    <3>1. r[w] = MapWord(tokens, old, text[w])
      BY <1>3, <2>5 DEF MapsOneByOne
    <3>2. WordEnd(tokens, old.tok_idx, text[w]) = P[w] /\ old.orig_idx + 1 = w
      BY <2>1, <2>4, <2>6
    <3>3. r[w] = [orig_idx |-> old.orig_idx + 1, tok_idx |-> P[w],
                  map |-> Update(old.map, [t \in old.tok_idx .. P[w] - 1 |-> old.orig_idx])]
      BY <3>1, <3>2 DEF MapWord
    <3> QED BY <2>6, <2>7, <3>2, <3>3
  <2>9. PICK new : new = Update(old.map, more)
    OBVIOUS
  <2>10. DOMAIN new = 0 .. P[w] - 1
    <3>1. DOMAIN new = DOMAIN old.map \cup DOMAIN more
      BY <2>9 DEF Update
    <3>2. DOMAIN new = (0 .. P[w - 1] - 1) \cup (P[w - 1] .. P[w] - 1)
      BY <2>6, <2>7, <3>1
    <3>3. (0 .. P[w - 1] - 1) \cup (P[w - 1] .. P[w] - 1) = 0 .. P[w] - 1
      BY <2>3
    <3> QED BY <3>2, <3>3
  <2>11. ASSUME NEW t \in 0 .. P[w] - 1 PROVE new[t] = WordOf(text, t)
    <3>1. new[t] = IF t \in DOMAIN more THEN more[t] ELSE old.map[t]
      BY <2>9, <2>10 DEF Update
    <3>2. DOMAIN more = P[w - 1] .. P[w] - 1
      BY <2>7
    <3>3. CASE t \in P[w - 1] .. P[w] - 1
      <4>1. new[t] = w - 1
        BY <2>7, <3>1, <3>2, <3>3
      <4>2. t \in TokensUpTo(text, w - 1) .. TokensUpTo(text, w) - 1
        BY <2>2, <3>3
      <4>3. WordOf(text, t) = w - 1
        BY <2>1, <4>2, WordOfIs
      <4> QED BY <4>1, <4>3
    <3>4. CASE t \notin P[w - 1] .. P[w] - 1
      <4>1. t \in 0 .. P[w - 1] - 1
        BY <2>3, <3>4
      <4>2. new[t] = old.map[t]
        BY <3>1, <3>2, <3>4
      <4> QED BY <2>6, <4>1, <4>2
    <3> QED BY <3>3, <3>4
  <2>12. r[w].orig_idx = w /\ r[w].tok_idx = P[w] /\ r[w].map = new
    BY <2>8, <2>9
  <2> QED BY <2>10, <2>11, <2>12
<1>8. PICK Wrong : Wrong = {w \in 0 .. n : ~Right(w)}
  OBVIOUS
<1> HIDE DEF Right
<1>9. ASSUME Wrong # {} PROVE FALSE
  <2>1. PICK w \in Wrong : \A v \in Wrong : w <= v
    <3>1. Wrong \in SUBSET Nat
      BY <1>1, <1>8
    <3> QED BY <1>9, <3>1, Smallest
  <2>2. w \in 0 .. n /\ ~Right(w)
    BY <1>8, <2>1
  <2>3. w \in 1 .. n /\ w - 1 \in 0 .. n /\ w - 1 \notin Wrong
    <3>1. w # 0
      BY <1>6, <2>2
    <3> QED BY <1>1, <2>1, <2>2, <3>1
  <2>4. Right(w - 1)
    BY <1>8, <2>3
  <2> QED BY <1>7, <2>2, <2>3, <2>4
<1>10. Right(n)
  BY <1>1, <1>8, <1>9
<1>11. P[n] = Len(f) /\ Len(f) \in Nat
  <2>1. SubSeq(text, 1, n) = text
    BY <1>1, SubSeqFull
  <2>2. f \in Seq(T)
    BY FlattenType
  <2>3. TokensUpTo(text, n) = Len(f)
    BY <2>1, Zenon DEF TokensUpTo
  <2>4. n \in 0 .. n
    BY <1>1
  <2>5. P[n] = TokensUpTo(text, n)
    BY <1>4, <2>4
  <2> QED BY <2>2, <2>3, <2>5
<1> QED BY <1>3, <1>10, <1>11 DEF Right

-----------------------------------------------------------------------------
(* Work done in parts.                                                     *)

\* At each place of the parts is what is at that place of the whole.
InPlace(parts, file, whole, c) ==
    /\ parts = [p \in 1 .. Len(Cut(file, c)) |-> parts[p]]
    /\ \A p \in 1 .. Len(Cut(file, c)) :
          parts[p] = [j \in 1 .. Len(Cut(file, c)[p]) |-> whole[(p - 1) * c + j]]

\* Parts that hold at each place what belongs to the line at that place of the whole file
\* make up the whole, put together.
LEMMA PartsTogether ==
    ASSUME NEW S, NEW T, NEW file \in Seq(S), NEW whole \in Seq(T), Len(whole) = Len(file),
           NEW c \in Nat \ {0}, NEW parts, InPlace(parts, file, whole, c)
    PROVE  parts = Cut(whole, c) /\ FlattenSeq(parts) = whole
<1>1. PICK n : n = NumParts(file, c) /\ n = NumParts(whole, c)
  BY DEF NumParts
<1>2. PICK cut, new : cut = Cut(file, c) /\ new = Cut(whole, c)
  OBVIOUS
<1>3. /\ Len(cut) = n /\ Len(new) = n /\ n \in Nat
      /\ cut \in Seq(Seq(S)) /\ new \in Seq(Seq(T))
  <2>1. Len(cut) = n /\ n \in Nat /\ cut \in Seq(Seq(S))
    BY <1>1, <1>2, CutLines
  <2>2. Len(new) = n /\ new \in Seq(Seq(T))
    BY <1>1, <1>2, CutLines
  <2> QED BY <2>1, <2>2
<1>4. DOMAIN new = 1 .. n /\ new = [k \in 1 .. n |-> new[k]]
  BY <1>3
<1>5. ASSUME NEW k \in 1 .. n PROVE parts[k] = new[k]
  <2>1. parts[k] = [j \in 1 .. Len(cut[k]) |-> whole[(k - 1) * c + j]]
    BY <1>2, <1>3 DEF InPlace
  <2>2. k \in 1 .. NumParts(file, c) /\ k \in 1 .. NumParts(whole, c)
    BY <1>1
  <2>3. Len(cut[k]) = PartLen(file, c, k)
    <3>1. PICK y : y = Cut(file, c)[k]
      OBVIOUS
    <3>2. Len(y) = PartLen(file, c, k)
      BY <2>2, <3>1, CutPart
    <3> QED BY <1>2, <3>1, <3>2
  <2>4. PICK x : x = Cut(whole, c)[k]
    OBVIOUS
  <2>5. x \in Seq(T) /\ Len(x) = PartLen(whole, c, k) /\ Placed(x, whole, c, k)
    BY <2>2, <2>4, CutPart
  <2>6. Len(x) = Len(cut[k]) /\ x = new[k]
    BY <1>2, <2>3, <2>4, <2>5 DEF PartLen
  <2>7. \A j \in 1 .. Len(x) : x[j] = whole[(k - 1) * c + j]
    BY <2>5 DEF Placed
  <2>8. x = [j \in 1 .. Len(x) |-> x[j]]
    BY <2>5
  <2> QED BY <2>1, <2>5, <2>6, <2>7, <2>8
<1>6. parts = new
  BY <1>2, <1>3, <1>4, <1>5 DEF InPlace
<1>7. FlattenSeq(new) = whole
  BY <1>2, ChunksTogether
<1> QED BY <1>2, <1>6, <1>7

\* The links of two lines.
Links(src, trg) == AlignForward(src, trg) \cup AlignReverse(src, trg)

\* They name tokens of their lines only.
LEMMA LinksNameTokens ==
    ASSUME NEW src, NEW trg, Len(src) \in Nat, Len(trg) \in Nat,
           src = <<>> <=> Len(src) = 0, trg = <<>> <=> Len(trg) = 0
    PROVE  /\ AlignForward(src, trg) \in SUBSET ((0 .. Len(src) - 1) \X (0 .. Len(trg) - 1))
           /\ AlignReverse(src, trg) \in SUBSET ((0 .. Len(src) - 1) \X (0 .. Len(trg) - 1))
<1>1. PICK m, n : m = Len(src) /\ n = Len(trg) /\ m \in Nat /\ n \in Nat
  OBVIOUS
<1>2. ASSUME n # 0
      PROVE  {<<i, Min({i, n - 1})>> : i \in 0 .. m - 1}
                 \in SUBSET ((0 .. m - 1) \X (0 .. n - 1))
  <2>1. ASSUME NEW i \in 0 .. m - 1 PROVE Min({i, n - 1}) \in 0 .. n - 1
    <3>1. i \in Int /\ n - 1 \in Int
      BY <1>1
    <3>2. Min({i, n - 1}) = IF i <= n - 1 THEN i ELSE n - 1
      BY <3>1, LeastOfTwo
    <3> QED BY <1>1, <1>2, <3>2
  <2>2. ASSUME NEW x \in {<<i, Min({i, n - 1})>> : i \in 0 .. m - 1}
        PROVE  x \in (0 .. m - 1) \X (0 .. n - 1)
    <3>1. PICK i \in 0 .. m - 1 : x = <<i, Min({i, n - 1})>>
      OBVIOUS
    <3> QED BY <2>1, <3>1
  <2> QED BY <2>2
<1>3. ASSUME m # 0
      PROVE  {<<Min({j, m - 1}), j>> : j \in 0 .. n - 1}
                 \in SUBSET ((0 .. m - 1) \X (0 .. n - 1))
  <2>1. ASSUME NEW j \in 0 .. n - 1 PROVE Min({j, m - 1}) \in 0 .. m - 1
    <3>1. j \in Int /\ m - 1 \in Int
      BY <1>1
    <3>2. Min({j, m - 1}) = IF j <= m - 1 THEN j ELSE m - 1
      BY <3>1, LeastOfTwo
    <3> QED BY <1>1, <1>3, <3>2
  <2>2. ASSUME NEW x \in {<<Min({j, m - 1}), j>> : j \in 0 .. n - 1}
        PROVE  x \in (0 .. m - 1) \X (0 .. n - 1)
    <3>1. PICK j \in 0 .. n - 1 : x = <<Min({j, m - 1}), j>>
      OBVIOUS
    <3> QED BY <2>1, <3>1
  <2> QED BY <2>2
<1> QED BY <1>1, <1>2, <1>3 DEF AlignForward, AlignReverse

\* Lines of the same number in parts: each is aligned with the line of its number.
LEMMA AlignIs ==
    ASSUME NEW T, NEW src \in Seq(Seq(T)), NEW trg \in Seq(Seq(T)), Len(src) = Len(trg),
           AlnChunkLines \in Nat \ {0}
    PROVE  Align(src, trg) = [i \in 1 .. Len(src) |-> Links(src[i], trg[i])]
<1>1. PICK n, c : n = Len(src) /\ n \in Nat /\ c = AlnChunkLines /\ c \in Nat \ {0}
  OBVIOUS
<1>2. PICK sp, tp : sp = LineParts(src) /\ tp = LineParts(trg)
  OBVIOUS
<1>3. sp = Cut(src, c) /\ tp = Cut(trg, c)
  BY <1>1, <1>2 DEF LineParts, Cut
<1>4. PICK fwd, rev :
        /\ fwd = [p \in DOMAIN sp |->
                     [i \in DOMAIN sp[p] |-> AlignForward(sp[p][i], tp[p][i])]]
        /\ rev = [p \in DOMAIN sp |->
                     [i \in DOMAIN sp[p] |-> AlignReverse(sp[p][i], tp[p][i])]]
  OBVIOUS
<1>5. PICK f, r : /\ f = [i \in 1 .. n |-> AlignForward(src[i], trg[i])]
                  /\ r = [i \in 1 .. n |-> AlignReverse(src[i], trg[i])]
  OBVIOUS
<1>6. PICK F, R : F = {f[i] : i \in 1 .. n} /\ R = {r[i] : i \in 1 .. n}
  OBVIOUS
<1>7. f \in Seq(F) /\ Len(f) = n /\ r \in Seq(R) /\ Len(r) = n
  <2>1. f \in [1 .. n -> F] /\ r \in [1 .. n -> R]
    BY <1>5, <1>6
  <2> QED BY <1>1, <2>1, IsSequence
<1>8. PICK m : m = NumParts(src, c) /\ m = NumParts(trg, c)
  BY DEF NumParts
<1>9. DOMAIN sp = 1 .. m /\ Len(sp) = m
  <2>1. Cut(src, c) \in Seq(Seq(Seq(T))) /\ Len(Cut(src, c)) = NumParts(src, c)
    BY <1>1, CutLines
  <2>2. sp \in Seq(Seq(Seq(T))) /\ Len(sp) = m
    BY <1>3, <1>8, <2>1
  <2> QED BY <2>2
<1>10. ASSUME NEW p \in 1 .. m
       PROVE  /\ fwd[p] = [j \in 1 .. Len(sp[p]) |-> f[(p - 1) * c + j]]
              /\ rev[p] = [j \in 1 .. Len(sp[p]) |-> r[(p - 1) * c + j]]
  <2>1. PICK x, y : x = Cut(src, c)[p] /\ y = Cut(trg, c)[p]
    OBVIOUS
  <2>2. p \in 1 .. NumParts(src, c) /\ p \in 1 .. NumParts(trg, c)
    BY <1>8
  <2>3. x \in Seq(Seq(T)) /\ Placed(x, src, c, p) /\ Len(x) = PartLen(src, c, p)
    BY <1>1, <2>1, <2>2, CutPart
  <2>4. y \in Seq(Seq(T)) /\ Placed(y, trg, c, p) /\ Len(y) = PartLen(trg, c, p)
    BY <1>1, <2>1, <2>2, CutPart
  <2>5. Len(y) = Len(x) /\ DOMAIN x = 1 .. Len(x) /\ sp[p] = x /\ tp[p] = y
    BY <1>3, <2>1, <2>3, <2>4 DEF PartLen
  <2>6. PICK d : d = (p - 1) * c
    OBVIOUS
  <2>7. ASSUME NEW j \in 1 .. Len(x)
        PROVE  d + j \in 1 .. n /\ x[j] = src[d + j] /\ y[j] = trg[d + j]
    BY <1>1, <2>3, <2>4, <2>5, <2>6 DEF Placed
  <2>8. /\ fwd[p] = [j \in 1 .. Len(x) |-> AlignForward(x[j], y[j])]
        /\ rev[p] = [j \in 1 .. Len(x) |-> AlignReverse(x[j], y[j])]
    BY <1>4, <1>9, <2>5
  <2>9. ASSUME NEW j \in 1 .. Len(x)
        PROVE  /\ AlignForward(x[j], y[j]) = f[d + j]
               /\ AlignReverse(x[j], y[j]) = r[d + j]
    BY <1>5, <2>7
  <2> QED BY <2>5, <2>6, <2>8, <2>9
<1>11. FlattenSeq(fwd) = f
  <2>1. fwd = [p \in 1 .. Len(sp) |-> fwd[p]]
    BY <1>4, <1>9
  <2>2. \A p \in 1 .. Len(Cut(src, c)) :
            fwd[p] = [j \in 1 .. Len(Cut(src, c)[p]) |-> f[(p - 1) * c + j]]
    BY <1>3, <1>9, <1>10
  <2>3. fwd = [p \in 1 .. Len(Cut(src, c)) |-> fwd[p]]
    BY <1>3, <2>1
  <2>4. InPlace(fwd, src, f, c)
    BY <2>2, <2>3 DEF InPlace
  <2> QED BY <1>1, <1>7, <2>4, PartsTogether
<1>12. FlattenSeq(rev) = r
  <2>1. rev = [p \in 1 .. Len(sp) |-> rev[p]]
    BY <1>4, <1>9
  <2>2. \A p \in 1 .. Len(Cut(src, c)) :
            rev[p] = [j \in 1 .. Len(Cut(src, c)[p]) |-> r[(p - 1) * c + j]]
    BY <1>3, <1>9, <1>10
  <2>3. rev = [p \in 1 .. Len(Cut(src, c)) |-> rev[p]]
    BY <1>3, <2>1
  <2>4. InPlace(rev, src, r, c)
    BY <2>2, <2>3 DEF InPlace
  <2> QED BY <1>1, <1>7, <2>4, PartsTogether
<1>13. Align(src, trg) = Symmetrize(FlattenSeq(fwd), FlattenSeq(rev))
  BY <1>2, <1>4 DEF Align
<1>14. Symmetrize(f, r) = [i \in 1 .. n |-> Links(src[i], trg[i])]
  BY <1>5 DEF Symmetrize, Links
<1> QED BY <1>1, <1>11, <1>12, <1>13, <1>14

-----------------------------------------------------------------------------
(* Groups of translations.                                                 *)

\* Groups of b lines each: so many lines come before each group.
LEMMA EqualGroups ==
    ASSUME NEW T, NEW s \in Seq(Seq(T)), NEW b \in Nat, \A i \in 1 .. Len(s) : Len(s[i]) = b,
           NEW w \in 0 .. Len(s)
    PROVE  TokensUpTo(s, w) = w * b
<1>1. PICK n : n = Len(s) /\ n \in Nat
  OBVIOUS
<1>2. PICK Wrong : Wrong = {i \in 0 .. n : TokensUpTo(s, i) # i * b}
  OBVIOUS
<1>3. ASSUME Wrong # {} PROVE FALSE
  <2>1. PICK i \in Wrong : \A j \in Wrong : i <= j
    <3>1. Wrong \in SUBSET Nat
      BY <1>1, <1>2
    <3> QED BY <1>3, <3>1, Smallest
  <2>2. i \in 0 .. n /\ TokensUpTo(s, i) # i * b
    BY <1>2, <2>1
  <2>3. i # 0
    <3>1. SubSeq(s, 1, 0) = <<>>
      BY SubSeqEmpty
    <3>2. FlattenSeq(<<>>) = <<>>
      BY DEF FlattenSeq
    <3>3. TokensUpTo(s, 0) = Len(FlattenSeq(<<>>))
      BY <3>1, Zenon DEF TokensUpTo
    <3>4. 0 * b = 0
      OBVIOUS
    <3> QED BY <2>2, <3>2, <3>3, <3>4
  <2>4. i \in 1 .. n /\ i - 1 \in 0 .. n /\ i - 1 \notin Wrong
    BY <1>1, <2>1, <2>2, <2>3
  <2>5. TokensUpTo(s, i - 1) = (i - 1) * b
    BY <1>2, <2>4
  <2>6. i \in 1 .. Len(s)
    BY <1>1, <2>4
  <2>7. PICK f : f = FlattenSeq(s)
    OBVIOUS
  <2>8. /\ Len(s[i]) = TokensUpTo(s, i) - TokensUpTo(s, i - 1)
        /\ TokensUpTo(s, i - 1) \in Nat /\ TokensUpTo(s, i) \in Nat
    BY <2>6, <2>7, TokensOfWord
  <2>9. Len(s[i]) = b
    BY <2>6
  <2>10. (i - 1) * b = i * b - b
    BY <2>4
  <2>11. PICK p, q : p = TokensUpTo(s, i - 1) /\ q = TokensUpTo(s, i)
    OBVIOUS
  <2>12. q = p + b
    BY <2>8, <2>9, <2>11
  <2>13. p = i * b - b /\ i * b \in Int
    BY <2>4, <2>5, <2>10, <2>11
  <2>14. q = i * b
    BY <2>12, <2>13
  <2> QED BY <2>2, <2>11, <2>14
<1> QED BY <1>1, <1>2, <1>3

OfLength(s, b) == \A i \in 1 .. Len(s) : Len(s[i]) = b

\* Line k of group i, from 1 on, is line (i - 1) * b + k of all.
InGroups(f, s, b) ==
    /\ Len(f) = Len(s) * b
    /\ \A i \in 1 .. Len(s) : \A k \in 1 .. b :
          (i - 1) * b + k \in 1 .. Len(f) /\ f[(i - 1) * b + k] = s[i][k]

\* Groups of the same length, put together.
LEMMA GroupLine ==
    ASSUME NEW T, NEW s \in Seq(Seq(T)), NEW b \in Nat \ {0}, OfLength(s, b),
           NEW f, f = FlattenSeq(s)
    PROVE  f \in Seq(T) /\ InGroups(f, s, b)
<1> USE DEF OfLength
<1>1. PICK n : n = Len(s) /\ n \in Nat
  OBVIOUS
<1>2. f \in Seq(T)
  BY FlattenType
<1>3. Len(f) = n * b
  <2>1. TokensUpTo(s, n) = n * b
    <3>1. n \in 0 .. Len(s)
      BY <1>1
    <3> QED BY <3>1, EqualGroups
  <2>2. SubSeq(s, 1, n) = s
    BY <1>1, SubSeqFull
  <2>3. TokensUpTo(s, n) = Len(f)
    BY <2>2, Zenon DEF TokensUpTo
  <2> QED BY <2>1, <2>3
<1>4. ASSUME NEW i \in 1 .. n, NEW k \in 1 .. b
      PROVE  (i - 1) * b + k \in 1 .. Len(f) /\ f[(i - 1) * b + k] = s[i][k]
  <2>1. i \in 1 .. Len(s) /\ i - 1 \in 0 .. Len(s) /\ i \in 0 .. Len(s)
    BY <1>1
  <2>2. PICK p, q : p = TokensUpTo(s, i - 1) /\ q = TokensUpTo(s, i)
    OBVIOUS
  <2>3. p = (i - 1) * b /\ q = i * b
    BY <2>1, <2>2, EqualGroups
  <2>4. p \in Nat /\ q \in Nat /\ p <= q /\ q <= Len(f)
    BY <2>1, <2>2, TokensOfWord
  <2>5. s[i] = SubSeq(f, p + 1, q)
    <3>1. s[i] = SubSeq(f, TokensUpTo(s, i - 1) + 1, TokensUpTo(s, i))
      BY <2>1, TokensOfWord
    <3> QED BY <2>2, <3>1
  <2>6. q - p = b
    <3>1. i * b = (i - 1) * b + b
      BY <1>4
    <3> QED BY <2>3, <2>4, <3>1
  <2>7. PICK e : e = SubSeq(f, p + 1, q)
    OBVIOUS
  <2>8. \A j \in 1 .. q - p : e[j] = f[p + j]
    <3>1. q \in p .. Len(f)
      BY <1>2, <2>4
    <3>2. \A j \in 1 .. q - p : SubSeq(f, p + 1, q)[j] = f[p + j]
      BY <1>2, <2>4, <3>1, SomeTokensTogether
    <3> QED BY <2>7, <3>2
  <2>9. s[i][k] = f[p + k]
    BY <2>5, <2>6, <2>7, <2>8
  <2>10. p + k \in 1 .. Len(f)
    BY <1>2, <2>4, <2>6
  <2> QED BY <2>3, <2>9, <2>10
<1> QED BY <1>1, <1>2, <1>3, <1>4 DEF InGroups

\* What an n-best line says.
LEMMA NbestLineIs ==
    ASSUME NEW index \in Nat, NEW text \in Texts
    PROVE  NbestLine(index, text)[1] = index /\ TextOf(NbestLine(index, text)) = text
<1>1. CASE text = <<>>
  <2>1. NbestLine(index, text) = <<index>>
    BY <1>1 DEF NbestLine
  <2>2. Len(<<index>>) = 1 /\ <<index>>[1] = index
    OBVIOUS
  <2> QED BY <1>1, <2>1, <2>2 DEF TextOf
<1>2. CASE text # <<>>
  <2>1. NbestLine(index, text) = <<index, text>>
    BY <1>2 DEF NbestLine
  <2>2. Len(<<index, text>>) = 2 /\ <<index, text>>[1] = index /\ <<index, text>>[2] = text
    OBVIOUS
  <2> QED BY <2>1, <2>2 DEF TextOf
<1> QED BY <1>1, <1>2

\* n groups of b lines: those of group i have its number and its texts.
Grouped(nbest, groups, n, b) ==
    /\ groups \in [1 .. n -> Seq(Texts)]
    /\ \A i \in 1 .. n : Len(groups[i]) = b
    /\ Len(nbest) = n * b
    /\ \A i \in 1 .. n : \A k \in 1 .. b :
          /\ (i - 1) * b + k \in 1 .. n * b
          /\ nbest[(i - 1) * b + k] = NbestLine(i - 1, groups[i][k])

\* The lines behind the first m groups.
Behind(nbest, n, b, m) == SubSeq(nbest, m * b + 1, n * b)

\* After m groups the next one is taken as a whole, and nothing of the one behind it.
LEMMA GroupTaken ==
    ASSUME NEW T, NEW nbest \in Seq(T), NEW n \in Nat, NEW b \in Nat \ {0},
           NEW groups, Grouped(nbest, groups, n, b),
           NEW m \in 0 .. n - 1,
           NEW taken, taken = TakeTexts(Behind(nbest, n, b, m), m)
    PROVE  taken.texts = groups[m + 1] /\ taken.rest = Behind(nbest, n, b, m + 1)
<1>0. groups \in [1 .. n -> Seq(Texts)] /\ \A i \in 1 .. n : Len(groups[i]) = b
  BY DEF Grouped
<1>1. PICK p, l, rest : /\ p = m * b /\ l = n * b /\ rest = SubSeq(nbest, p + 1, l)
                        /\ rest = Behind(nbest, n, b, m)
  BY DEF Behind
<1>2. (m + 1) * b = p + b /\ p \in Nat /\ l \in Nat /\ p + b <= l /\ Len(nbest) = l
      /\ (m + 1 < n => p + b + b <= l) /\ (m + 1 = n => p + b = l)
  <2>1. p \in Nat /\ l \in Nat /\ (m + 1) * b = p + b
    BY <1>1
  <2>2. (m + 1) * b <= n * b
    <3>1. m + 1 \in Int /\ n \in Int /\ m + 1 <= n /\ b \in Nat
      OBVIOUS
    <3> QED BY <3>1, TimesLeq
  <2>3. m + 1 < n => p + b + b <= l
    <3>1. ASSUME m + 1 < n PROVE p + b + b <= l
      <4>1. m + 2 \in Int /\ n \in Int /\ m + 2 <= n /\ b \in Nat
        BY <3>1
      <4>2. (m + 2) * b <= n * b
        BY <4>1, TimesLeq
      <4>3. (m + 2) * b = p + b + b
        BY <1>1
      <4> QED BY <1>1, <4>2, <4>3
    <3> QED BY <3>1
  <2>4. m + 1 = n => p + b = l
    BY <1>1, <2>1
  <2>5. Len(nbest) = l
    BY <1>1 DEF Grouped
  <2> QED BY <1>1, <2>1, <2>2, <2>3, <2>4, <2>5
<1>3. /\ rest \in Seq(T) /\ Len(rest) = l - p
      /\ \A x \in 1 .. l - p : rest[x] = nbest[p + x]
  <2>1. PICK a : a = p + 1 /\ a \in Int
    BY <1>2
  <2>2. \A i \in a .. l : nbest[i] \in T
    <3>1. \A i \in 1 .. l : nbest[i] \in T
      BY <1>2
    <3> QED BY <1>2, <2>1, <3>1
  <2>3. /\ rest \in Seq(T) /\ Len(rest) = IF a <= l THEN l - a + 1 ELSE 0
        /\ \A x \in 1 .. l - a + 1 : rest[x] = nbest[a + x - 1]
    BY <1>1, <1>2, <2>1, <2>2, SubSeqProperties
  <2>4. l - a + 1 = l - p /\ a <= l /\ \A x \in 1 .. l - p : a + x - 1 = p + x
    BY <1>2, <2>1
  <2> QED BY <2>3, <2>4
<1>4. ASSUME NEW x \in 1 .. b
      PROVE  x \in 1 .. l - p /\ rest[x] = NbestLine(m, groups[m + 1][x])
  <2>1. m + 1 \in 1 .. n /\ (m + 1) - 1 = m
    OBVIOUS
  <2>2. nbest[m * b + x] = NbestLine(m, groups[m + 1][x])
    BY <2>1 DEF Grouped
  <2>3. x \in 1 .. l - p
    BY <1>2
  <2> QED BY <1>1, <1>3, <2>2, <2>3
<1>5. ASSUME NEW x \in 1 .. b
      PROVE  rest[x][1] = m /\ TextOf(rest[x]) = groups[m + 1][x]
  <2>1. m + 1 \in 1 .. n /\ m \in Nat
    OBVIOUS
  <2>2. groups[m + 1] \in Seq(Texts) /\ Len(groups[m + 1]) = b
    BY <1>0, <2>1
  <2>3. PICK t \in Texts : t = groups[m + 1][x]
    BY <2>2
  <2> QED BY <1>4, <2>1, <2>3, NbestLineIs
<1>6. PICK I : I = {x \in 1 .. Len(rest) : rest[x][1] # m}
  OBVIOUS
<1>7. I \in SUBSET Nat /\ \A x \in I : x >= b + 1
  <2>1. I \in SUBSET (1 .. l - p)
    BY <1>3, <1>6
  <2>2. ASSUME NEW x \in I PROVE x >= b + 1
    <3>1. x \in Nat /\ x >= 1 /\ x \notin 1 .. b
      BY <1>2, <1>5, <1>6, <2>1
    <3> QED BY <3>1
  <2> QED BY <1>2, <2>1, <2>2
<1>8. ASSUME m + 1 < n PROVE I # {} /\ Min(I) = b + 1
  <2>1. b + 1 \in 1 .. l - p /\ p + b + 1 \in Nat
    BY <1>2, <1>8
  <2>2. m + 2 \in 1 .. n /\ 1 \in 1 .. b /\ (m + 2) - 1 = m + 1
    BY <1>8
  <2>3. nbest[(m + 1) * b + 1] = NbestLine(m + 1, groups[m + 2][1])
    <3>1. nbest[((m + 2) - 1) * b + 1] = NbestLine((m + 2) - 1, groups[m + 2][1])
      BY <2>2 DEF Grouped
    <3> QED BY <2>2, <3>1
  <2>4. rest[b + 1] = NbestLine(m + 1, groups[m + 2][1])
    <3>1. rest[b + 1] = nbest[p + (b + 1)]
      BY <1>3, <2>1
    <3>2. p + (b + 1) = (m + 1) * b + 1
      BY <1>2
    <3> QED BY <2>3, <3>1, <3>2
  <2>5. groups[m + 2][1] \in Texts /\ m + 1 \in Nat
    <3>1. groups[m + 2] \in Seq(Texts) /\ Len(groups[m + 2]) = b
      BY <1>0, <2>2
    <3> QED BY <2>2, <3>1
  <2>6. rest[b + 1][1] = m + 1
    BY <2>4, <2>5, NbestLineIs
  <2>7. b + 1 \in I
    BY <1>3, <1>6, <2>1, <2>6
  <2>8. Min(I) = b + 1
    <3>1. Min(I) \in I /\ \A x \in I : Min(I) <= x
      BY <1>7, <2>7, LeastIs
    <3>2. Min(I) \in Nat /\ Min(I) >= b + 1 /\ Min(I) <= b + 1
      BY <1>7, <2>7, <3>1
    <3> QED BY <3>2
  <2> QED BY <2>7, <2>8
<1>9. ASSUME m + 1 = n PROVE I = {} /\ Len(rest) = b
  <2>1. Len(rest) = b
    BY <1>2, <1>3, <1>9
  <2> QED BY <1>6, <1>7, <2>1
<1>10. PICK group : group = SelectInSeq(rest, LAMBDA fields : fields[1] # m)
  OBVIOUS
<1>11. group = IF I # {} THEN Min(I) ELSE 0
  BY <1>6, <1>10 DEF SelectInSeq
<1>12. (IF group = 0 THEN Len(rest) ELSE group - 1) = b
  <2>1. m + 1 < n \/ m + 1 = n
    OBVIOUS
  <2> QED BY <1>8, <1>9, <1>11, <2>1
<1>13. /\ taken.texts = [k \in 1 .. b |-> TextOf(rest[k])]
       /\ taken.rest = SubSeq(rest, b + 1, Len(rest))
  <2>1. taken = [texts |-> [k \in 1 .. b |-> TextOf(rest[k])],
                 rest |-> SubSeq(rest, b + 1, Len(rest))]
    BY <1>1, <1>10, <1>12 DEF TakeTexts
  <2> QED BY <2>1
<1>14. taken.texts = groups[m + 1]
  <2>1. PICK g : g = groups[m + 1]
    OBVIOUS
  <2>2. g \in Seq(Texts) /\ Len(g) = b
    <3>1. m + 1 \in 1 .. n
      OBVIOUS
    <3> QED BY <1>0, <2>1, <3>1
  <2>3. g = [k \in 1 .. b |-> g[k]]
    BY <2>2
  <2>4. \A k \in 1 .. b : TextOf(rest[k]) = g[k]
    BY <1>5, <2>1
  <2> QED BY <1>13, <2>1, <2>3, <2>4
<1>15. SubSeq(rest, b + 1, Len(rest)) = SubSeq(nbest, p + b + 1, l)
  <2>1. CASE p + b = l
    <3>1. Len(rest) = b /\ b \in Int /\ b + 1 \in Int /\ l \in Int /\ p + b + 1 \in Int
      BY <1>2, <1>3, <2>1
    <3>2. SubSeq(rest, b + 1, b) = <<>>
      BY <3>1, SubSeqEmpty
    <3>3. SubSeq(nbest, p + b + 1, l) = <<>>
      <4>1. PICK a : a = p + b + 1 /\ a \in Int /\ l < a
        BY <1>2, <2>1
      <4>2. SubSeq(nbest, a, l) = <<>>
        BY <3>1, <4>1, SubSeqEmpty
      <4> QED BY <4>1, <4>2
    <3> QED BY <3>1, <3>2, <3>3
  <2>2. CASE p + b # l
    <3>1. PICK i, j, u, v : i = p + 1 /\ j = l /\ u = b + 1 /\ v = l - p
      OBVIOUS
    <3>2. /\ i \in 1 .. Len(nbest) /\ j \in 1 .. Len(nbest)
          /\ u \in 1 .. j - i + 1 /\ v \in 1 .. j - i + 1
      BY <1>2, <2>2, <3>1
    <3>3. SubSeq(SubSeq(nbest, i, j), u, v) = SubSeq(nbest, i + u - 1, i + v - 1)
      BY <3>2, SubSeqOfSubSeq
    <3>4. i + u - 1 = p + b + 1 /\ i + v - 1 = l /\ v = Len(rest) /\ SubSeq(nbest, i, j) = rest
      BY <1>1, <1>2, <1>3, <3>1
    <3> QED BY <3>1, <3>3, <3>4
  <2> QED BY <2>1, <2>2
<1> QED BY <1>1, <1>2, <1>13, <1>14, <1>15 DEF Behind

\* One value more.
LEMMA AppendTo ==
    ASSUME NEW m \in Nat, NEW f, NEW a, NEW x,
           a = [i \in 1 .. m |-> f[i]], x = f[m + 1]
    PROVE  Len(a) = m /\ Append(a, x) = [i \in 1 .. m + 1 |-> f[i]]
<1>1. PICK S : S = {f[i] : i \in 1 .. m + 1}
  OBVIOUS
<1>2. PICK b : b = [i \in 1 .. m + 1 |-> f[i]]
  OBVIOUS
<1>3. m + 1 \in Nat /\ m + 1 \in 1 .. m + 1 /\ \A i \in 1 .. m : i \in 1 .. m + 1
  OBVIOUS
<1>4. a \in [1 .. m -> S] /\ b \in [1 .. m + 1 -> S] /\ x \in S
  BY <1>1, <1>2, <1>3
<1>5. a \in Seq(S) /\ Len(a) = m
  BY <1>4, IsSequence
<1>6. b \in Seq(S) /\ Len(b) = m + 1
  BY <1>3, <1>4, IsSequence
<1>7. PICK c : c = Append(a, x)
  OBVIOUS
<1>8. c \in Seq(S) /\ Len(c) = m + 1 /\ c[m + 1] = x /\ \A i \in 1 .. m : c[i] = a[i]
  BY <1>4, <1>5, <1>7
<1>9. \A i \in 1 .. Len(c) : c[i] = b[i]
  <2>1. \A i \in 1 .. m + 1 : i \in 1 .. m \/ i = m + 1
    OBVIOUS
  <2> QED BY <1>2, <1>8, <2>1
<1>10. c = b
  BY <1>6, <1>8, <1>9, SeqEqual
<1> QED BY <1>2, <1>5, <1>7, <1>10

\* The best of each group.
Chosen(best, groups, references, n) ==
    /\ best.ok = TRUE
    /\ best.lines = [i \in 1 .. n |-> BestText(groups[i], references[i])]

\* With a group of translations for each reference, one is chosen from each group.
LEMMA BestOfGroups ==
    ASSUME NEW T, NEW nbest \in Seq(T), NEW n \in Nat, NEW b \in Nat \ {0},
           NEW groups, Grouped(nbest, groups, n, b),
           NEW references, DOMAIN references = 1 .. n,
           NEW best, best = MarianBest(nbest, references)
    PROVE  Chosen(best, groups, references, n)
<1>0. groups \in [1 .. n -> Seq(Texts)] /\ \A i \in 1 .. n : Len(groups[i]) = b
  BY DEF Grouped
<1>1. PICK r : best = r[n] /\ BestsOneByOne(r, nbest, references, n)
  BY BestRuns
<1>2. PICK f : f = [i \in 1 .. n |-> BestText(groups[i], references[i])]
  OBVIOUS
<1> DEFINE Right(m) == r[m] = [ok |-> TRUE, rest |-> Behind(nbest, n, b, m),
                               lines |-> [i \in 1 .. m |-> f[i]]]
<1>3. Right(0)
  <2>1. Len(nbest) = n * b /\ 0 * b + 1 = 1
    BY DEF Grouped
  <2>2. SubSeq(nbest, 1, Len(nbest)) = nbest
    BY SubSeqFull
  <2>3. SubSeq(nbest, 0 * b + 1, n * b) = nbest
    BY <2>1, <2>2
  <2>4. [i \in 1 .. 0 |-> f[i]] = <<>>
    OBVIOUS
  <2>5. r[0] = [ok |-> TRUE, rest |-> nbest, lines |-> <<>>]
    BY <1>1 DEF BestsOneByOne
  <2> QED BY <2>3, <2>4, <2>5 DEF Behind
<1>4. ASSUME NEW m \in 0 .. n - 1, Right(m) PROVE Right(m + 1)
  <2>1. PICK old : old = r[m]
    OBVIOUS
  <2>2. PICK a, rest : a = [i \in 1 .. m |-> f[i]] /\ rest = Behind(nbest, n, b, m)
    OBVIOUS
  <2>3. old = [ok |-> TRUE, rest |-> rest, lines |-> a]
    BY <1>4, <2>1, <2>2
  <2>4. PICK x : x = f[m + 1]
    OBVIOUS
  <2>5. m \in Nat /\ m + 1 \in 1 .. n /\ (m + 1) - 1 = m
    OBVIOUS
  <2>6. Len(a) = m /\ Append(a, x) = [i \in 1 .. m + 1 |-> f[i]]
    BY <2>2, <2>4, <2>5, AppendTo
  <2>7. PICK taken : taken = TakeTexts(rest, m)
    OBVIOUS
  <2>8. taken.texts = groups[m + 1] /\ taken.rest = Behind(nbest, n, b, m + 1)
    <3>1. taken = TakeTexts(Behind(nbest, n, b, m), m)
      BY <2>2, <2>7
    <3>2. taken.texts = groups[m + 1]
      BY <3>1, GroupTaken
    <3>3. taken.rest = Behind(nbest, n, b, m + 1)
      BY <3>1, GroupTaken
    <3> QED BY <3>2, <3>3
  <2>9. taken.texts # <<>>
    <3>1. groups[m + 1] \in Seq(Texts) /\ Len(groups[m + 1]) = b
      BY <1>0, <2>5
    <3> QED BY <2>8, <3>1
  <2>10. r[m + 1] = BestStep(old, references[m + 1])
    BY <1>1, <2>1, <2>5 DEF BestsOneByOne
  <2>11. old.ok = TRUE /\ old.rest = rest /\ old.lines = a
    BY <2>3
  <2>12. TakeTexts(old.rest, Len(old.lines)) = taken
    BY <2>6, <2>7, <2>11
  <2>13. BestStep(old, references[m + 1])
            = [ok |-> TRUE, rest |-> taken.rest,
               lines |-> Append(a, BestText(taken.texts, references[m + 1]))]
    BY <2>9, <2>11, <2>12 DEF BestStep
  <2>14. x = BestText(taken.texts, references[m + 1])
    BY <1>2, <2>4, <2>5, <2>8
  <2>15. r[m + 1] = [ok |-> TRUE, rest |-> taken.rest, lines |-> Append(a, x)]
    BY <2>10, <2>13, <2>14
  <2> QED BY <2>6, <2>8, <2>15
<1>5. PICK Wrong : Wrong = {m \in 0 .. n : ~Right(m)}
  OBVIOUS
<1> HIDE DEF Right
<1>6. ASSUME Wrong # {} PROVE FALSE
  <2>1. PICK m \in Wrong : \A j \in Wrong : m <= j
    <3>1. Wrong \in SUBSET Nat
      BY <1>5
    <3> QED BY <1>6, <3>1, Smallest
  <2>2. m \in 0 .. n /\ ~Right(m) /\ m # 0
    BY <1>3, <1>5, <2>1
  <2>3. m - 1 \in 0 .. n - 1 /\ m - 1 \in 0 .. n /\ m - 1 \notin Wrong /\ (m - 1) + 1 = m
    BY <2>1, <2>2
  <2>4. PICK l : l = m - 1 /\ l \in 0 .. n - 1 /\ l + 1 = m
    BY <2>3
  <2>5. Right(l)
    BY <1>5, <2>3, <2>4
  <2>6. Right(l + 1)
    BY <1>4, <2>4, <2>5
  <2> QED BY <2>2, <2>4, <2>6
<1>7. Right(n)
  <2>1. n \in 0 .. n /\ n \notin Wrong
    BY <1>6
  <2> QED BY <1>5, <2>1
<1>8. best = [ok |-> TRUE, rest |-> Behind(nbest, n, b, n),
              lines |-> [i \in 1 .. n |-> f[i]]]
  BY <1>1, <1>7 DEF Right
<1>9. [i \in 1 .. n |-> f[i]] = f
  BY <1>2
<1> QED BY <1>2, <1>8, <1>9 DEF Chosen

-----------------------------------------------------------------------------
(* Chunks of what is made line by line, and what the tools return.         *)

\* The part of a whole that takes the place of a part of another file.
PartMade(whole, part, c, k) == [j \in 1 .. Len(part) |-> whole[(k - 1) * c + j]]

\* What is made line by line of a file is cut in the same places.
LEMMA CutAlike ==
    ASSUME NEW S, NEW T, NEW file \in Seq(S), NEW whole \in Seq(T), Len(whole) = Len(file),
           NEW c \in Nat \ {0}, NEW k \in 1 .. NumParts(file, c),
           NEW part, part = Cut(file, c)[k]
    PROVE  /\ k \in 1 .. NumParts(whole, c)
           /\ Cut(whole, c)[k] = PartMade(whole, part, c, k)
<1>1. k \in 1 .. NumParts(whole, c)
  BY DEF NumParts
<1>2. Len(part) = PartLen(file, c, k)
  BY CutPart
<1>3. PICK x : x = Cut(whole, c)[k]
  OBVIOUS
<1>4. x \in Seq(T) /\ Len(x) = PartLen(whole, c, k) /\ Placed(x, whole, c, k)
  BY <1>1, <1>3, CutPart
<1>5. Len(x) = Len(part)
  BY <1>2, <1>4 DEF PartLen
<1>6. \A j \in 1 .. Len(x) : x[j] = whole[(k - 1) * c + j]
  BY <1>4 DEF Placed
<1>7. x = [j \in 1 .. Len(x) |-> x[j]]
  BY <1>4
<1> QED BY <1>1, <1>3, <1>5, <1>6, <1>7 DEF PartMade

\* The parts that a split writes.
LEMMA PartsAre ==
    ASSUME NEW T, NEW file \in Seq(T), NEW n \in Nat \ {0},
           NEW c, c = PerPart(Len(file), n)
    PROVE  /\ c \in Nat \ {0} /\ SplitFile(file, n) = Cut(file, c)
           /\ NumParts(file, c) \in 0 .. n
           /\ DOMAIN SplitFile(file, n) = 1 .. NumParts(file, c)
<1>1. PICK L, m : L = Len(file) /\ m = NumParts(file, c)
  OBVIOUS
<1>2. L \in Nat
  BY <1>1
<1>3. c \in Nat \ {0} /\ SplitFile(file, n) = Cut(file, c) /\ m <= n
  BY <1>1, <1>2, SplitIsCut DEF NumParts
<1>4. PICK cut : cut = Cut(file, c)
  OBVIOUS
<1>5. m \in Nat /\ cut \in Seq(Seq(T)) /\ Len(cut) = m
  BY <1>1, <1>3, <1>4, CutLines
<1>6. DOMAIN cut = 1 .. m
  BY <1>5
<1> QED BY <1>1, <1>3, <1>4, <1>5, <1>6

\* collect.sh puts the parts together in the order of their numbers.
LEMMA CollectIsWhole ==
    ASSUME NEW T, NEW whole \in Seq(T), NEW n \in Nat \ {0}, NEW c,
           c = PerPart(Len(whole), n), NumParts(whole, c) = n,
           NEW outs, outs = [k \in 1 .. n |-> Cut(whole, c)[k]],
           NEW original, Len(original) = Len(whole)
    PROVE  Collect(outs, original) = Written(whole)
<1>1. PICK cut : cut = Cut(whole, c)
  OBVIOUS
<1>2. c \in Nat \ {0}
  BY PartsAre
<1>3. cut \in Seq(Seq(T)) /\ Len(cut) = n
  BY <1>1, <1>2, CutLines
<1> DEFINE order == SortedChunks(DOMAIN outs)
<1>5. order = [i \in 1 .. n |-> i]
  BY SortedNumbers
<1> DEFINE output == FlattenSeq([i \in DOMAIN order |-> outs[order[i]]])
<1>10. Collect(outs, original) = IF Len(output) # Len(original) THEN Failed ELSE Written(output)
  BY Zenon DEF Collect
<1> HIDE DEF order
<1>6. [i \in DOMAIN order |-> outs[order[i]]] = cut
  <2>1. cut = [i \in 1 .. n |-> cut[i]]
    BY <1>3
  <2> QED BY <1>1, <1>5, <2>1
<1>7. FlattenSeq(cut) = whole
  BY <1>1, <1>2, ChunksTogether
<1>9. output = whole
  BY <1>6, <1>7
<1> HIDE DEF output
<1> QED BY <1>9, <1>10

NbestLines == {NbestLine(p[1], p[2]) : p \in Nat \X Texts}

\* A hypothesis for each place in the beam.
Ranked(b) ==
    \A text \in DOMAIN Hypotheses : Hypotheses[text] \in Seq(Texts) /\ b <= Len(Hypotheses[text])

\* The n-best output has, line by line, as many translations as the beam has places.
LEMMA DecodeGroups ==
    ASSUME NEW part \in Seq(DOMAIN Hypotheses), NEW b \in Nat \ {0}, Ranked(b),
           NEW nbest, nbest = Decode(part, TRUE, b),
           NEW groups, groups = [i \in 1 .. Len(part) |-> SubSeq(Hypotheses[part[i]], 1, b)]
    PROVE  nbest \in Seq(NbestLines) /\ Grouped(nbest, groups, Len(part), b)
<1>1. PICK n : n = Len(part)
  OBVIOUS
<1>2. n \in Nat /\ DOMAIN part = 1 .. n /\ \A i \in 1 .. n : part[i] \in DOMAIN Hypotheses
  BY <1>1
<1>3. ASSUME NEW i \in 1 .. n PROVE groups[i] \in Seq(Texts) /\ Len(groups[i]) = b
  <2>1. PICK hyps : hyps = Hypotheses[part[i]]
    OBVIOUS
  <2>2. hyps \in Seq(Texts) /\ b <= Len(hyps)
    BY <1>2, <2>1 DEF Ranked
  <2>3. 1 \in Int /\ \A j \in 1 .. b : hyps[j] \in Texts
    BY <2>2
  <2>4. PICK g : g = SubSeq(hyps, 1, b)
    OBVIOUS
  <2>5. g \in Seq(Texts) /\ Len(g) = b
    BY <2>3, <2>4, SubSeqProperties
  <2> QED BY <1>1, <2>1, <2>4, <2>5
<1>4. PICK s : s = [i \in 1 .. n |-> NbestOf(i - 1, groups[i])]
  OBVIOUS
<1>5. ASSUME NEW i \in 1 .. n
      PROVE  /\ s[i] \in Seq(NbestLines) /\ Len(s[i]) = b
             /\ \A k \in 1 .. b : s[i][k] = NbestLine(i - 1, groups[i][k])
  <2>1. PICK g : g = groups[i]
    OBVIOUS
  <2>2. g \in Seq(Texts) /\ Len(g) = b
    BY <1>3, <2>1
  <2>2a. DOMAIN g = 1 .. b
    BY <2>2
  <2>3. PICK x : x = [k \in 1 .. b |-> NbestLine(i - 1, g[k])]
    OBVIOUS
  <2>4. s[i] = x
    BY <1>4, <2>1, <2>2a, <2>3 DEF NbestOf
  <2>5. ASSUME NEW k \in 1 .. b PROVE x[k] \in NbestLines
    <3>1. <<i - 1, g[k]>> \in Nat \X Texts
      BY <2>2
    <3>2. PICK p : p = <<i - 1, g[k]>>
      OBVIOUS
    <3>3. NbestLine(p[1], p[2]) \in NbestLines
      BY <3>1, <3>2 DEF NbestLines
    <3> QED BY <2>3, <3>2, <3>3
  <2>6. x \in [1 .. b -> NbestLines]
    BY <2>3, <2>5
  <2>7. x \in Seq(NbestLines) /\ Len(x) = b
    BY <2>6, IsSequence
  <2> QED BY <2>1, <2>3, <2>4, <2>7
<1>6. s \in Seq(Seq(NbestLines)) /\ Len(s) = n
  <2>1. s \in [1 .. n -> Seq(NbestLines)]
    BY <1>4, <1>5
  <2> QED BY <1>2, <2>1, IsSequence
<1>7. nbest = FlattenSeq(s)
  <2>1. [i \in DOMAIN part |-> NbestOf(i - 1, SubSeq(Hypotheses[part[i]], 1, b))] = s
    BY <1>1, <1>2, <1>4
  <2> QED BY <2>1 DEF Decode
<1>7a. OfLength(s, b)
  BY <1>5, <1>6 DEF OfLength
<1>8. nbest \in Seq(NbestLines) /\ InGroups(nbest, s, b)
  BY <1>6, <1>7, <1>7a, GroupLine
<1>9. ASSUME NEW i \in 1 .. n, NEW k \in 1 .. b
      PROVE  /\ (i - 1) * b + k \in 1 .. n * b
             /\ nbest[(i - 1) * b + k] = NbestLine(i - 1, groups[i][k])
  <2>1. \A j \in 1 .. Len(s) : \A l \in 1 .. b :
           (j - 1) * b + l \in 1 .. Len(nbest) /\ nbest[(j - 1) * b + l] = s[j][l]
    BY <1>8, Zenon DEF InGroups
  <2>2. (i - 1) * b + k \in 1 .. Len(nbest) /\ nbest[(i - 1) * b + k] = s[i][k]
    BY <1>6, <2>1, Zenon
  <2>3. Len(nbest) = n * b /\ s[i][k] = NbestLine(i - 1, groups[i][k])
    BY <1>5, <1>6, <1>8 DEF InGroups
  <2> QED BY <2>2, <2>3
<1>10. groups \in [1 .. n -> Seq(Texts)]
  BY <1>1, <1>3
<1>11. Len(nbest) = n * b
  BY <1>6, <1>8 DEF InGroups
<1> QED BY <1>1, <1>3, <1>8, <1>9, <1>10, <1>11 DEF Grouped

\* What the tokenizers return.
LEMMA TokensType ==
    ASSUME NEW tokenization \in {"moses", "icu"}, NEW text \in Texts
    PROVE  Tokenize(tokenization, text) \in Texts
<1>1. text \in Seq(Seq(Strings))
  BY DEF Texts
<1>2. CASE tokenization = "moses"
  <2>1. PICK f : f = FlattenSeq(text)
    OBVIOUS
  <2>2. f \in Seq(Strings)
    BY <1>1, <2>1, FlattenType
  <2>3. AsWords(f) \in Seq(Seq(Strings))
    BY <2>2, TokensTogether
  <2>4. Tokenize(tokenization, text) = AsWords(f)
    BY <1>2, <2>1 DEF Tokenize
  <2> QED BY <2>3, <2>4 DEF Texts
<1>3. CASE tokenization = "icu"
  <2>1. PICK s : s = [w \in DOMAIN text |->
                         IF w = 1 THEN text[w] ELSE <<SpaceToken>> \o text[w]]
    OBVIOUS
  <2>2. PICK n : n = Len(text) /\ n \in Nat /\ DOMAIN text = 1 .. n
    BY <1>1
  <2>3. ASSUME NEW w \in 1 .. n PROVE s[w] \in Seq(Strings)
    <3>1. PICK x : x = text[w]
      OBVIOUS
    <3>2. x \in Seq(Strings)
      BY <1>1, <2>2, <3>1
    <3>3. <<SpaceToken>> \in Seq(Strings)
      <4>1. SpaceToken \in Strings
        BY Zenon DEF Strings
      <4> QED BY <4>1
    <3>4. <<SpaceToken>> \o x \in Seq(Strings)
      BY <3>2, <3>3
    <3>5. s[w] = IF w = 1 THEN x ELSE <<SpaceToken>> \o x
      BY <2>1, <2>2, <3>1
    <3> QED BY <3>2, <3>4, <3>5
  <2>4. s \in [1 .. n -> Seq(Strings)]
    BY <2>1, <2>2, <2>3
  <2>5. s \in Seq(Seq(Strings))
    BY <2>2, <2>4, IsSequence
  <2>6. PICK f : f = FlattenSeq(s)
    OBVIOUS
  <2>7. f \in Seq(Strings)
    BY <2>5, <2>6, FlattenType
  <2>8. AsWords(f) \in Seq(Seq(Strings))
    BY <2>7, TokensTogether
  <2>9. Tokenize(tokenization, text) = AsWords(f)
    BY <1>3, <2>1, <2>6 DEF Tokenize
  <2> QED BY <2>8, <2>9 DEF Texts
<1> QED BY <1>2, <1>3

\* The links of the words, from those of the tokens.
WordLinks(src, trg, links) == {<<WordOf(src, link[1]), WordOf(trg, link[2])>> : link \in links}

\* Every token that a link names has its word, so that remap_line returns.
LEMMA RemapIs ==
    ASSUME NEW src \in Texts, NEW trg \in Texts, NEW params,
           params.src = src, params.trg = trg,
           params.tok_src = Tokenize("moses", src), params.tok_trg = Tokenize("moses", trg),
           params.aln = Links(params.tok_src, params.tok_trg)
    PROVE  /\ ~TokenMissing(params)
           /\ RemapLine(params) = WordLinks(src, trg, params.aln)
<1>1. src \in Seq(Seq(Strings)) /\ trg \in Seq(Seq(Strings))
  BY DEF Texts
<1>2. PICK f, g : f = FlattenSeq(src) /\ g = FlattenSeq(trg)
  OBVIOUS
<1>3. f \in Seq(Strings) /\ g \in Seq(Strings)
  BY <1>1, <1>2, FlattenType
<1>4. PICK fw, gw : fw = AsWords(f) /\ gw = AsWords(g)
  OBVIOUS
<1>5. params.tok_src = fw /\ params.tok_trg = gw
  BY <1>2, <1>4 DEF Tokenize
<1>6. fw \in Seq(Seq(Strings)) /\ Len(fw) = Len(f)
  BY <1>3, <1>4, TokensTogether
<1>7. gw \in Seq(Seq(Strings)) /\ Len(gw) = Len(g)
  BY <1>3, <1>4, TokensTogether
<1>8. PICK fm, gm : fm = MapIndices(fw, src) /\ gm = MapIndices(gw, trg)
  OBVIOUS
<1>9. /\ Len(f) \in Nat /\ DOMAIN fm = 0 .. Len(f) - 1
      /\ \A t \in 0 .. Len(f) - 1 : fm[t] = WordOf(src, t)
  BY <1>1, <1>2, <1>4, <1>8, MapOfTokens
<1>10. /\ Len(g) \in Nat /\ DOMAIN gm = 0 .. Len(g) - 1
       /\ \A t \in 0 .. Len(g) - 1 : gm[t] = WordOf(trg, t)
  BY <1>1, <1>2, <1>4, <1>8, MapOfTokens
<1>11. params.aln \in SUBSET ((0 .. Len(f) - 1) \X (0 .. Len(g) - 1))
  <2>1. /\ Len(fw) \in Nat /\ Len(gw) \in Nat
        /\ fw = <<>> <=> Len(fw) = 0
        /\ gw = <<>> <=> Len(gw) = 0
    BY <1>6, <1>7
  <2>2. /\ AlignForward(fw, gw) \in SUBSET ((0 .. Len(fw) - 1) \X (0 .. Len(gw) - 1))
        /\ AlignReverse(fw, gw) \in SUBSET ((0 .. Len(fw) - 1) \X (0 .. Len(gw) - 1))
    BY <2>1, LinksNameTokens
  <2>3. params.aln = AlignForward(fw, gw) \cup AlignReverse(fw, gw)
    BY <1>5 DEF Links
  <2> QED BY <1>6, <1>7, <2>2, <2>3
<1>12. ASSUME NEW link \in params.aln
       PROVE  /\ link[1] \in 0 .. Len(f) - 1 /\ link[2] \in 0 .. Len(g) - 1
  BY <1>11
<1>13. ~TokenMissing(params)
  BY <1>5, <1>8, <1>9, <1>10, <1>12 DEF TokenMissing
<1>14. RemapLine(params) = {<<fm[link[1]], gm[link[2]]>> : link \in params.aln}
  BY <1>5, <1>8 DEF RemapLine
<1>15. ASSUME NEW link \in params.aln
       PROVE  <<fm[link[1]], gm[link[2]]>> = <<WordOf(src, link[1]), WordOf(trg, link[2])>>
  BY <1>9, <1>10, <1>12
<1>16. {<<fm[link[1]], gm[link[2]]>> : link \in params.aln} = WordLinks(src, trg, params.aln)
  <2>1. PICK A : A = params.aln
    OBVIOUS
  <2>2. {<<fm[link[1]], gm[link[2]]>> : link \in A}
           = {<<WordOf(src, link[1]), WordOf(trg, link[2])>> : link \in A}
    BY <1>15, <2>1
  <2> QED BY <2>1, <2>2 DEF WordLinks
<1> QED BY <1>13, <1>14, <1>16

-----------------------------------------------------------------------------
(* The invariant: what the artifacts of each completed task are, and how   *)
(* far the pool has come.                                                  *)

Beam == BeamOf(input.decoding)
PartsOf(file) == SplitFile(file, input.split_chunks)

\* What the corpora are translated to, line by line.
Translated ==
    [i \in DOMAIN input.corpus |->
        BestText(SubSeq(Hypotheses[input.corpus[i].src], 1, Beam), input.corpus[i].trg)]
MonoTranslated == [i \in DOMAIN input.mono |-> Hypotheses[input.mono[i]][1]]

\* A text and one of its translations.
IsTranslation(other, text) == \E k \in DOMAIN Hypotheses[text] : other = Hypotheses[text][k]
Scored ==
    {line \in [src : DOMAIN Hypotheses, trg : Texts] : IsTranslation(line.trg, line.src)}

NoneTwice(lines) == \A i, j \in 1 .. Len(lines) : lines[i] = lines[j] => i = j

Has(name, k, lines) == <<name, k>> \in DOMAIN artifacts /\ artifacts[<<name, k>>] = lines
HasParts(name, parts) == \A k \in DOMAIN parts : Has(name, k, parts[k])
HasFile(name) == <<name, 0>> \in DOMAIN artifacts

\* What each task has published when it has completed.
SplitRight ==
    HasParts("file", PartsOf(CorpusSide("src"))) /\ HasParts("ref", PartsOf(CorpusSide("trg")))
SplitMonoRight == HasParts("mono", PartsOf(input.mono))
NbestRight(k) ==
    /\ k \in DOMAIN PartsOf(CorpusSide("src"))
    /\ Has("nbest", k, Decode(PartsOf(CorpusSide("src"))[k], TRUE, Beam))
OutRight(k) == k \in DOMAIN PartsOf(input.mono) /\ Has("out", k, PartsOf(MonoTranslated)[k])
BestRight(k) ==
    k \in DOMAIN PartsOf(CorpusSide("src")) /\ Has("nbest.out", k, PartsOf(Translated)[k])
MergedRight == HasFile("merged") /\ File("merged") \in Seq(Scored) /\ NoneTwice(File("merged"))
ScoresRight ==
    /\ Task("merge-translated") \in completed
    /\ Has("scores", 0, [i \in DOMAIN File("merged") |-> Score[File("merged")[i]]])
WorstOut(merged, filtered) ==
    LET all == ToSet(merged)
        kept == ToSet(filtered)
    IN  /\ kept \subseteq all
        /\ 100 * Cardinality(all \ kept) <= RemovePercent * Cardinality(all)
        /\ \A out \in all \ kept, in \in kept : Score[out] <= Score[in]
FilteredRight ==
    /\ Task("merge-translated") \in completed
    /\ HasFile("filtered") /\ File("filtered") \in Seq(Scored)
    /\ WorstOut(File("merged"), File("filtered"))
Tokens(side) ==
    [i \in DOMAIN File("filtered") |-> Tokenize(input.tokenization, File("filtered")[i][side])]
TokensRight == Has("tokenized.src", 0, Tokens("src")) /\ Has("tokenized.trg", 0, Tokens("trg"))
\* The rows that the training data should have, and their links.
Rows == [i \in DOMAIN File("filtered") |-> Expected(File("filtered")[i])]
LinkedRows == WithLinks(Rows)
RowLinks == [i \in DOMAIN File("filtered") |-> Expected(File("filtered")[i]).aln]
AlnRight ==
    /\ Task("cefilter") \in completed
    /\ Has("aln", 0, RowLinks)
    /\ input.output_tokenized => TokensRight
TsvRight ==
    /\ Task("cefilter") \in completed
    /\ Has("tsv", 0, LinkedRows)

AllRight(tasks) ==
    /\ Task("split-corpus") \in tasks => SplitRight
    /\ Task("split-mono") \in tasks => SplitMonoRight
    /\ \A k \in 1 .. input.split_chunks :
          /\ <<"translate-corpus", k>> \in tasks => NbestRight(k)
          /\ <<"translate-mono", k>> \in tasks => OutRight(k)
          /\ <<"extract-best", k>> \in tasks => BestRight(k)
    /\ Task("collect-corpus") \in tasks => Has("collected.corpus", 0, Translated)
    /\ Task("collect-mono") \in tasks => Has("collected.mono", 0, MonoTranslated)
    /\ Task("merge-translated") \in tasks => MergedRight
    /\ Task("score") \in tasks => ScoresRight
    /\ Task("cefilter") \in tasks => FilteredRight
    /\ Task("alignments") \in tasks => AlnRight
    /\ Task("train-student") \in tasks => TsvRight

Given ==
    /\ input \in Inputs
    /\ Has("corpus.src", 0, CorpusSide("src")) /\ Has("corpus.trg", 0, CorpusSide("trg"))
    /\ Has("mono", 0, input.mono)

\* No part has a number that the split did not give.
OnlyParts ==
    \A k \in 1 .. input.split_chunks :
        /\ <<"file", k>> \in DOMAIN artifacts => k \in DOMAIN PartsOf(CorpusSide("src"))
        /\ <<"mono", k>> \in DOMAIN artifacts => k \in DOMAIN PartsOf(input.mono)

LinksOf == [i \in DOMAIN File("filtered") |-> Links(Tokens("src")[i], Tokens("trg")[i])]

\* What the pool works on, and what it should make of it.
Params ==
    [i \in DOMAIN File("filtered") |->
        [src |-> Side("src")[i], trg |-> Side("trg")[i], tok_src |-> Tokens("src")[i],
         tok_trg |-> Tokens("trg")[i], aln |-> LinksOf[i]]]
PoolFile ==
    CASE pool.phase = "src" -> Side("src")
      [] pool.phase = "trg" -> Side("trg")
      [] pool.phase = "remap" -> Params
PoolWhole ==
    CASE pool.phase = "src" -> Tokens("src")
      [] pool.phase = "trg" -> Tokens("trg")
      [] pool.phase = "remap" -> RowLinks

\* The chunks of the file, and those of the results that are written, in their order.
PoolInOrder ==
    /\ pool.chunks = Cut(PoolFile, PoolChunk)
    /\ pool.done \subseteq DOMAIN pool.chunks
    /\ \E n \in 0 .. Len(pool.chunks) :
          pool.output = [i \in 1 .. n |-> [chunk |-> i, lines |-> Cut(PoolWhole, PoolChunk)[i]]]

PoolRight ==
    /\ pool = [phase |-> pool.phase, chunks |-> pool.chunks, done |-> pool.done,
               output |-> pool.output]
    /\ pool.phase \in {"none", "src", "trg", "remap", "aligned"}
    /\ pool.phase \in {"none", "aligned"} => pool.chunks = <<>> /\ pool.done = {}
    /\ pool.phase # "none" => /\ Task("cefilter") \in completed
                              /\ Task("alignments") \notin completed
    /\ pool.phase \in {"trg", "remap", "aligned"} => Has("tokenized.src", 0, Tokens("src"))
    /\ pool.phase \in {"remap", "aligned"} => /\ Has("tokenized.trg", 0, Tokens("trg"))
                                              /\ Has("links", 0, LinksOf)
    /\ pool.phase = "remap" => ~input.output_tokenized
    /\ pool.phase = "aligned" => input.output_tokenized
    /\ pool.phase \in {"src", "trg", "remap"} => PoolInOrder

CorpusInv ==
    Given /\ OnlyParts /\ NothingLeftOut /\ PoolRight /\ AllRight(completed)

-----------------------------------------------------------------------------
(* What the corpora are.                                                   *)

\* Facts about the input that the steps need.
LEMMA InputFacts ==
    ASSUME input \in Inputs
    PROVE  /\ input.split_chunks \in Nat \ {0}
           /\ Beam \in Nat \ {0} /\ Ranked(Beam)
           /\ input.decoding.decoder \in {"marian", "ctranslate2"}
           /\ input.tokenization \in {"moses", "icu"} /\ input.output_tokenized \in BOOLEAN
           /\ input.tokenization = "icu" => input.output_tokenized
           /\ input.mono \in Seq(DOMAIN Hypotheses)
<1>1. IsInput(input)
  BY CorpusAssumption
<1>2. /\ input.split_chunks \in Nat \ {0}
      /\ input.decoding.decoder \in {"marian", "ctranslate2"}
      /\ input.tokenization \in {"moses", "icu"} /\ input.output_tokenized \in BOOLEAN
      /\ input.tokenization = "icu" => input.output_tokenized
      /\ input.mono \in Seq(DOMAIN Hypotheses)
  BY <1>1 DEF IsInput
<1>3. Beam \in Nat \ {0}
  BY <1>1 DEF IsInput, Beam
<1>4. Ranked(Beam)
  BY <1>1, CorpusAssumption DEF IsInput, Beam, Ranked
<1> QED BY <1>2, <1>3, <1>4

\* The sides of the parallel corpus.
LEMMA SideFacts ==
    ASSUME input \in Inputs, NEW n, n = Len(input.corpus)
    PROVE  /\ n \in Nat /\ DOMAIN input.corpus = 1 .. n
           /\ CorpusSide("src") \in Seq(DOMAIN Hypotheses) /\ Len(CorpusSide("src")) = n
           /\ CorpusSide("trg") \in Seq(Texts) /\ Len(CorpusSide("trg")) = n
           /\ \A i \in 1 .. n : /\ input.corpus[i].src \in DOMAIN Hypotheses
                                /\ input.corpus[i].trg \in Texts
<1>1. IsInput(input)
  BY CorpusAssumption
<1>2. input.corpus \in Seq([src : DOMAIN Hypotheses, trg : Texts])
  BY <1>1 DEF IsInput
<1>3. n \in Nat /\ DOMAIN input.corpus = 1 .. n
  BY <1>2
<1>4. ASSUME NEW i \in 1 .. n
      PROVE  input.corpus[i].src \in DOMAIN Hypotheses /\ input.corpus[i].trg \in Texts
  <2>1. PICK R, file : R = [src : DOMAIN Hypotheses, trg : Texts] /\ file = input.corpus
    OBVIOUS
  <2>2. file \in Seq(R) /\ i \in 1 .. Len(file)
    BY <1>2, <2>1
  <2>3. file[i] \in R
    BY <2>2
  <2> QED BY <2>1, <2>3
<1>5. PICK src, trg : src = CorpusSide("src") /\ trg = CorpusSide("trg")
  OBVIOUS
<1>6. src = [i \in 1 .. n |-> input.corpus[i].src] /\ trg = [i \in 1 .. n |-> input.corpus[i].trg]
  BY <1>3, <1>5 DEF CorpusSide
<1>7. src \in [1 .. n -> DOMAIN Hypotheses] /\ trg \in [1 .. n -> Texts]
  BY <1>4, <1>6
<1>8. src \in Seq(DOMAIN Hypotheses) /\ Len(src) = n
  BY <1>3, <1>7, IsSequence
<1>9. trg \in Seq(Texts) /\ Len(trg) = n
  BY <1>3, <1>7, IsSequence
<1> QED BY <1>3, <1>4, <1>5, <1>8, <1>9

\* The first places of the beam.
LEMMA BeamTexts ==
    ASSUME NEW text \in DOMAIN Hypotheses, NEW b \in Nat \ {0}, Ranked(b),
           NEW texts, texts = SubSeq(Hypotheses[text], 1, b)
    PROVE  /\ texts \in Seq(Texts) /\ Len(texts) = b /\ texts # <<>>
           /\ \A k \in 1 .. b : k \in DOMAIN Hypotheses[text] /\ texts[k] = Hypotheses[text][k]
<1>1. PICK hyps : hyps = Hypotheses[text]
  OBVIOUS
<1>2. hyps \in Seq(Texts) /\ b <= Len(hyps)
  BY <1>1 DEF Ranked
<1>3. 1 \in Int /\ \A j \in 1 .. b : hyps[j] \in Texts
  BY <1>2
<1>4. PICK g : g = SubSeq(hyps, 1, b)
  OBVIOUS
<1>5. g \in Seq(Texts) /\ Len(g) = b /\ \A k \in 1 .. b : g[k] = hyps[k]
  <2>1. g \in Seq(Texts) /\ Len(g) = b - 1 + 1 /\ \A k \in 1 .. b - 1 + 1 : g[k] = hyps[1 + k - 1]
    BY <1>3, <1>4, SubSeqProperties
  <2> QED BY <2>1
<1>6. g # <<>>
  BY <1>5
<1>7. \A k \in 1 .. b : k \in DOMAIN hyps
  BY <1>2
<1> QED BY <1>1, <1>4, <1>5, <1>6, <1>7

\* The best translation of a line is one of its translations, none of which is closer to
\* the reference.
LEMMA BestOfBeam ==
    ASSUME NEW text \in DOMAIN Hypotheses, NEW b \in Nat \ {0}, Ranked(b), NEW reference,
           NEW texts, texts = SubSeq(Hypotheses[text], 1, b),
           NEW best, best = BestText(texts, reference)
    PROVE  /\ best \in ToSet(texts) /\ best \in Texts
           /\ \A other \in ToSet(texts) : Chrf(reference, other) <= Chrf(reference, best)
           /\ IsTranslation(best, text)
<1>1. /\ texts \in Seq(Texts) /\ Len(texts) = b /\ texts # <<>>
      /\ \A k \in 1 .. b : k \in DOMAIN Hypotheses[text] /\ texts[k] = Hypotheses[text][k]
  BY BeamTexts
<1>2. /\ best \in ToSet(texts)
      /\ \A other \in ToSet(texts) : Chrf(reference, other) <= Chrf(reference, best)
  BY <1>1, BestIsBest
<1>3. PICK k \in 1 .. b : best = texts[k]
  <2>1. DOMAIN texts = 1 .. b
    BY <1>1
  <2> QED BY <1>2, <2>1 DEF ToSet
<1>4. best \in Texts
  BY <1>1, <1>3
<1> QED BY <1>1, <1>2, <1>3, <1>4 DEF IsTranslation

\* What the corpora are translated to.
LEMMA TranslatedFacts ==
    ASSUME input \in Inputs
    PROVE  /\ Translated \in Seq(Texts) /\ Len(Translated) = Len(input.corpus)
           /\ MonoTranslated \in Seq(Texts) /\ Len(MonoTranslated) = Len(input.mono)
<1>1. Beam \in Nat \ {0} /\ Ranked(Beam) /\ input.mono \in Seq(DOMAIN Hypotheses)
  BY InputFacts
<1>2. PICK n : n = Len(input.corpus)
  OBVIOUS
<1>3. /\ n \in Nat /\ DOMAIN input.corpus = 1 .. n
      /\ \A i \in 1 .. n : /\ input.corpus[i].src \in DOMAIN Hypotheses
                           /\ input.corpus[i].trg \in Texts
  BY <1>2, SideFacts
<1>4. PICK T : T = Translated
  OBVIOUS
<1>5. ASSUME NEW i \in 1 .. n PROVE T[i] \in Texts
  <2>1. PICK text, reference, texts :
           /\ text = input.corpus[i].src /\ reference = input.corpus[i].trg
           /\ texts = SubSeq(Hypotheses[text], 1, Beam)
    OBVIOUS
  <2>2. T[i] = BestText(texts, reference)
    BY <1>3, <1>4, <2>1 DEF Translated
  <2>3. text \in DOMAIN Hypotheses
    BY <1>3, <2>1
  <2>4. BestText(texts, reference) \in Texts
    BY <1>1, <2>1, <2>3, BestOfBeam
  <2> QED BY <2>2, <2>4
<1>6. T \in [1 .. n -> Texts]
  BY <1>3, <1>4, <1>5 DEF Translated
<1>7. T \in Seq(Texts) /\ Len(T) = n
  BY <1>3, <1>6, IsSequence
<1>8. PICK m, M : m = Len(input.mono) /\ M = MonoTranslated
  OBVIOUS
<1>9. m \in Nat /\ DOMAIN input.mono = 1 .. m
  BY <1>1, <1>8
<1>10. ASSUME NEW i \in 1 .. m PROVE M[i] \in Texts
  <2>1. PICK hyps : hyps = Hypotheses[input.mono[i]]
    OBVIOUS
  <2>2. input.mono[i] \in DOMAIN Hypotheses
    BY <1>1, <1>8
  <2>3. hyps \in Seq(Texts) /\ Beam <= Len(hyps)
    BY <1>1, <2>1, <2>2 DEF Ranked
  <2>4. hyps[1] \in Texts
    BY <1>1, <2>3
  <2> QED BY <1>8, <1>9, <2>1, <2>4 DEF MonoTranslated
<1>11. M \in [1 .. m -> Texts]
  BY <1>8, <1>9, <1>10 DEF MonoTranslated
<1>12. M \in Seq(Texts) /\ Len(M) = m
  BY <1>9, <1>11, IsSequence
<1> QED BY <1>2, <1>4, <1>7, <1>8, <1>12

-----------------------------------------------------------------------------
(* What a task leaves alone.                                               *)

\* The task that publishes an artifact; what is given has none.
Maker(a) ==
    CASE a[1] \in {"file", "ref"} -> Task("split-corpus")
      [] a[1] = "mono" /\ a[2] # 0 -> Task("split-mono")
      [] a[1] = "nbest" -> <<"translate-corpus", a[2]>>
      [] a[1] = "out" -> <<"translate-mono", a[2]>>
      [] a[1] = "nbest.out" -> <<"extract-best", a[2]>>
      [] a[1] = "collected.corpus" -> Task("collect-corpus")
      [] a[1] = "collected.mono" -> Task("collect-mono")
      [] a[1] = "merged" -> Task("merge-translated")
      [] a[1] = "scores" -> Task("score")
      [] a[1] = "filtered" -> Task("cefilter")
      [] a[1] \in {"lex", "pruned"} -> Task("shortlist")
      [] a[1] \in {"tokenized.src", "tokenized.trg", "links", "aln"} -> Task("alignments")
      [] a[1] = "tsv" -> Task("train-student")
      [] OTHER -> Task("given")

\* A step of one task: what the others publish stays.
KeepsOthers(task) ==
    /\ \A a \in DOMAIN artifacts :
          Maker(a) # task => a \in DOMAIN artifacts' /\ artifacts'[a] = artifacts[a]
    /\ \A a \in DOMAIN artifacts' : Maker(a) # task => a \in DOMAIN artifacts
    /\ completed \subseteq completed' /\ completed' \subseteq completed \cup {task}
    /\ UNCHANGED input

\* A step that adds the files of its own task.
LEMMA AddsOnly ==
    ASSUME NEW task, NEW files, \A a \in DOMAIN files : Maker(a) = task,
           artifacts' = Update(artifacts, files), completed \subseteq completed',
           completed' \subseteq completed \cup {task}, UNCHANGED input
    PROVE  KeepsOthers(task)
BY DEF KeepsOthers, Update

\* A step that publishes nothing.
LEMMA AddsNothing ==
    ASSUME NEW task, UNCHANGED <<artifacts, completed, input>>
    PROVE  KeepsOthers(task)
BY DEF KeepsOthers

\* A file of a task that completed stays as it is.
LEMMA FileKept ==
    ASSUME NEW t, NEW task, KeepsOthers(t), t \notin completed, task \in completed,
           NEW a, Maker(a) = task, a \in DOMAIN artifacts
    PROVE  a \in DOMAIN artifacts' /\ artifacts'[a] = artifacts[a]
BY DEF KeepsOthers

\* So does what is known of a file, when that is about the input only.
LEMMA HasKept ==
    ASSUME NEW t, NEW task, KeepsOthers(t), t \notin completed, task \in completed,
           NEW name, NEW k, NEW lines, Maker(<<name, k>>) = task,
           Has(name, k, lines)
    PROVE  Has(name, k, lines)'
<1>1. PICK a : a = <<name, k>>
  OBVIOUS
<1>2. a \in DOMAIN artifacts' /\ artifacts'[a] = artifacts[a]
  BY <1>1, FileKept DEF Has
<1> QED BY <1>1, <1>2 DEF Has

\* And for all parts.
LEMMA HasPartsKept ==
    ASSUME NEW t, NEW task, KeepsOthers(t), t \notin completed, task \in completed,
           NEW name, NEW parts, \A k \in DOMAIN parts : Maker(<<name, k>>) = task,
           HasParts(name, parts)
    PROVE  HasParts(name, parts)'
<1>1. ASSUME NEW k \in DOMAIN parts PROVE Has(name, k, parts[k])'
  <2>1. Has(name, k, parts[k]) /\ Maker(<<name, k>>) = task
    BY DEF HasParts
  <2>2. PICK x : x = parts[k]
    OBVIOUS
  <2>3. Has(name, k, x)'
    BY <2>1, <2>2, HasKept
  <2> QED BY <2>2, <2>3
<1> QED BY <1>1 DEF HasParts

\* What depends on the input alone.
LEMMA SameInput ==
    ASSUME UNCHANGED input
    PROVE  /\ CorpusSide("src")' = CorpusSide("src") /\ CorpusSide("trg")' = CorpusSide("trg")
           /\ Beam' = Beam /\ Translated' = Translated /\ MonoTranslated' = MonoTranslated
           /\ input.mono' = input.mono
           /\ PartsOf(CorpusSide("src"))' = PartsOf(CorpusSide("src"))
           /\ PartsOf(CorpusSide("trg"))' = PartsOf(CorpusSide("trg"))
           /\ PartsOf(Translated)' = PartsOf(Translated)
           /\ PartsOf(input.mono)' = PartsOf(input.mono)
           /\ PartsOf(MonoTranslated)' = PartsOf(MonoTranslated)
BY DEF CorpusSide, Beam, Translated, MonoTranslated, PartsOf

\* The numbers of the parts of a file.
LEMMA PartNumbers ==
    ASSUME input \in Inputs, NEW k
    PROVE  /\ k \in DOMAIN PartsOf(CorpusSide("src")) => k \in 1 .. input.split_chunks
           /\ k \in DOMAIN PartsOf(CorpusSide("trg")) => k \in 1 .. input.split_chunks
           /\ k \in DOMAIN PartsOf(input.mono) => k \in 1 .. input.split_chunks
<1>1. PICK n : n = input.split_chunks
  OBVIOUS
<1>2. n \in Nat \ {0} /\ input.mono \in Seq(DOMAIN Hypotheses)
  BY <1>1, InputFacts
<1>3. PICK src, trg, mono :
         src = CorpusSide("src") /\ trg = CorpusSide("trg") /\ mono = input.mono
  OBVIOUS
<1>4. src \in Seq(DOMAIN Hypotheses) /\ trg \in Seq(Texts) /\ mono \in Seq(DOMAIN Hypotheses)
  BY <1>2, <1>3, SideFacts
<1>5. ASSUME NEW T, NEW file \in Seq(T), k \in DOMAIN SplitFile(file, n) PROVE k \in 1 .. n
  <2>1. PICK c : c = PerPart(Len(file), n)
    OBVIOUS
  <2>2. NumParts(file, c) \in 0 .. n /\ DOMAIN SplitFile(file, n) = 1 .. NumParts(file, c)
    BY <1>2, <2>1, PartsAre
  <2> QED BY <1>2, <1>5, <2>2
<1>6. /\ k \in DOMAIN SplitFile(src, n) => k \in 1 .. n
      /\ k \in DOMAIN SplitFile(trg, n) => k \in 1 .. n
      /\ k \in DOMAIN SplitFile(mono, n) => k \in 1 .. n
  BY <1>4, <1>5
<1> QED BY <1>1, <1>3, <1>6 DEF PartsOf

\* Which task each artifact is of.
LEMMA Makers ==
    /\ \A k : /\ Maker(<<"file", k>>) = Task("split-corpus")
              /\ Maker(<<"ref", k>>) = Task("split-corpus")
              /\ k # 0 => Maker(<<"mono", k>>) = Task("split-mono")
              /\ Maker(<<"nbest", k>>) = <<"translate-corpus", k>>
              /\ Maker(<<"out", k>>) = <<"translate-mono", k>>
              /\ Maker(<<"nbest.out", k>>) = <<"extract-best", k>>
    /\ Maker(<<"collected.corpus", 0>>) = Task("collect-corpus")
    /\ Maker(<<"collected.mono", 0>>) = Task("collect-mono")
    /\ Maker(<<"merged", 0>>) = Task("merge-translated")
    /\ Maker(<<"scores", 0>>) = Task("score")
    /\ Maker(<<"filtered", 0>>) = Task("cefilter")
    /\ Maker(<<"lex", 0>>) = Task("shortlist") /\ Maker(<<"pruned", 0>>) = Task("shortlist")
    /\ Maker(<<"tokenized.src", 0>>) = Task("alignments")
    /\ Maker(<<"tokenized.trg", 0>>) = Task("alignments")
    /\ Maker(<<"links", 0>>) = Task("alignments") /\ Maker(<<"aln", 0>>) = Task("alignments")
    /\ Maker(<<"tsv", 0>>) = Task("train-student")
    /\ Maker(<<"corpus.src", 0>>) = Task("given") /\ Maker(<<"corpus.trg", 0>>) = Task("given")
    /\ Maker(<<"mono", 0>>) = Task("given")
BY DEF Maker

\* What depends on the filtered corpus and the input.
LEMMA SameFiltered ==
    ASSUME UNCHANGED input, File("filtered")' = File("filtered")
    PROVE  /\ Side("src")' = Side("src") /\ Side("trg")' = Side("trg")
           /\ Tokens("src")' = Tokens("src") /\ Tokens("trg")' = Tokens("trg")
           /\ LinksOf' = LinksOf /\ Params' = Params
           /\ Rows' = Rows /\ RowLinks' = RowLinks /\ LinkedRows' = LinkedRows
<1>1. /\ Side("src")' = Side("src") /\ Side("trg")' = Side("trg")
      /\ Tokens("src")' = Tokens("src") /\ Tokens("trg")' = Tokens("trg")
      /\ LinksOf' = LinksOf /\ Params' = Params
      /\ Rows' = Rows /\ RowLinks' = RowLinks
  BY DEF Side, Tokens, LinksOf, Params, Expected, Rows, RowLinks
<1>2. LinkedRows' = LinkedRows
  BY <1>1 DEF LinkedRows
<1> QED BY <1>1, <1>2

\* The file of a task that has completed.
LEMMA FileSame ==
    ASSUME NEW t, NEW task, KeepsOthers(t), t \notin completed, task \in completed,
           NEW name, Maker(<<name, 0>>) = task, HasFile(name)
    PROVE  HasFile(name)' /\ File(name)' = File(name)
BY FileKept DEF HasFile, File

\* What is known of the tasks that completed stays true when another task goes on.
LEMMA RightStays ==
    ASSUME NEW t, KeepsOthers(t), t \notin completed, NEW old, old = completed,
           input \in Inputs, AllRight(old)
    PROVE  AllRight(old)'
<1>1. UNCHANGED input /\ completed \subseteq completed'
  BY DEF KeepsOthers
<1>2. PICK n : n = input.split_chunks
  OBVIOUS
<1>3. n \in Nat \ {0} /\ input.split_chunks' = n
  BY <1>1, <1>2, InputFacts
<1>4. ASSUME Task("split-corpus") \in old PROVE SplitRight'
  <2>1. PICK p, q : p = PartsOf(CorpusSide("src")) /\ q = PartsOf(CorpusSide("trg"))
    OBVIOUS
  <2>2. HasParts("file", p) /\ HasParts("ref", q)
    BY <1>4, <2>1 DEF AllRight, SplitRight
  <2>3. Task("split-corpus") \in completed
    BY <1>4
  <2>4. \A k : Maker(<<"file", k>>) = Task("split-corpus")
    BY Makers
  <2>5. \A k : Maker(<<"ref", k>>) = Task("split-corpus")
    BY Makers
  <2>6. HasParts("file", p)'
    BY <2>2, <2>3, <2>4, HasPartsKept
  <2>7. HasParts("ref", q)'
    BY <2>2, <2>3, <2>5, HasPartsKept
  <2>8. PartsOf(CorpusSide("src"))' = p /\ PartsOf(CorpusSide("trg"))' = q
    BY <1>1, <2>1, SameInput
  <2> QED BY <2>6, <2>7, <2>8 DEF SplitRight
<1>5. ASSUME Task("split-mono") \in old PROVE SplitMonoRight'
  <2>1. PICK p : p = PartsOf(input.mono)
    OBVIOUS
  <2>2. HasParts("mono", p)
    BY <1>5, <2>1 DEF AllRight, SplitMonoRight
  <2>3. Task("split-mono") \in completed
    BY <1>5
  <2>4. \A k \in DOMAIN p : k # 0
    BY <1>2, <1>3, <2>1, PartNumbers
  <2>5. \A k \in DOMAIN p : Maker(<<"mono", k>>) = Task("split-mono")
    BY <2>4, Makers
  <2>6. HasParts("mono", p)'
    BY <2>2, <2>3, <2>5, HasPartsKept
  <2>7. PartsOf(input.mono)' = p
    BY <1>1, <2>1, SameInput
  <2> QED BY <2>6, <2>7 DEF SplitMonoRight
<1>6. ASSUME NEW k \in 1 .. n, <<"translate-corpus", k>> \in old PROVE NbestRight(k)'
  <2>1. PICK p, lines : p = PartsOf(CorpusSide("src")) /\ lines = Decode(p[k], TRUE, Beam)
    OBVIOUS
  <2>2. k \in DOMAIN p /\ Has("nbest", k, lines)
    BY <1>2, <1>6, <2>1 DEF AllRight, NbestRight
  <2>3. <<"translate-corpus", k>> \in completed /\ Maker(<<"nbest", k>>) = <<"translate-corpus", k>>
    BY <1>6, Makers
  <2>4. Has("nbest", k, lines)'
    BY <2>2, <2>3, HasKept
  <2>5. PartsOf(CorpusSide("src"))' = p /\ Beam' = Beam
    BY <1>1, <2>1, SameInput
  <2> QED BY <2>1, <2>2, <2>4, <2>5 DEF NbestRight
<1>7. ASSUME NEW k \in 1 .. n, <<"translate-mono", k>> \in old PROVE OutRight(k)'
  <2>1. PICK p, q : p = PartsOf(input.mono) /\ q = PartsOf(MonoTranslated)
    OBVIOUS
  <2>2. k \in DOMAIN p /\ Has("out", k, q[k])
    BY <1>2, <1>7, <2>1 DEF AllRight, OutRight
  <2>3. <<"translate-mono", k>> \in completed /\ Maker(<<"out", k>>) = <<"translate-mono", k>>
    BY <1>7, Makers
  <2>4. PICK lines : lines = q[k]
    OBVIOUS
  <2>5. Has("out", k, lines)'
    BY <2>2, <2>3, <2>4, HasKept
  <2>6. PartsOf(input.mono)' = p /\ PartsOf(MonoTranslated)' = q
    BY <1>1, <2>1, SameInput
  <2> QED BY <2>2, <2>4, <2>5, <2>6 DEF OutRight
<1>8. ASSUME NEW k \in 1 .. n, <<"extract-best", k>> \in old PROVE BestRight(k)'
  <2>1. PICK p, q : p = PartsOf(CorpusSide("src")) /\ q = PartsOf(Translated)
    OBVIOUS
  <2>2. k \in DOMAIN p /\ Has("nbest.out", k, q[k])
    BY <1>2, <1>8, <2>1 DEF AllRight, BestRight
  <2>3. <<"extract-best", k>> \in completed /\ Maker(<<"nbest.out", k>>) = <<"extract-best", k>>
    BY <1>8, Makers
  <2>4. PICK lines : lines = q[k]
    OBVIOUS
  <2>5. Has("nbest.out", k, lines)'
    BY <2>2, <2>3, <2>4, HasKept
  <2>6. PartsOf(CorpusSide("src"))' = p /\ PartsOf(Translated)' = q
    BY <1>1, <2>1, SameInput
  <2> QED BY <2>2, <2>4, <2>5, <2>6 DEF BestRight
<1>9. ASSUME Task("collect-corpus") \in old PROVE Has("collected.corpus", 0, Translated)'
  <2>1. PICK lines : lines = Translated
    OBVIOUS
  <2>2. Has("collected.corpus", 0, lines)
    BY <1>9, <2>1 DEF AllRight
  <2>3. Task("collect-corpus") \in completed
    BY <1>9
  <2>4. Maker(<<"collected.corpus", 0>>) = Task("collect-corpus")
    BY Makers
  <2>5. Has("collected.corpus", 0, lines)'
    BY <2>2, <2>3, <2>4, HasKept
  <2>6. Translated' = lines
    BY <1>1, <2>1, SameInput
  <2> QED BY <2>5, <2>6 DEF Has
<1>10. ASSUME Task("collect-mono") \in old PROVE Has("collected.mono", 0, MonoTranslated)'
  <2>1. PICK lines : lines = MonoTranslated
    OBVIOUS
  <2>2. Has("collected.mono", 0, lines)
    BY <1>10, <2>1 DEF AllRight
  <2>3. Task("collect-mono") \in completed
    BY <1>10
  <2>4. Maker(<<"collected.mono", 0>>) = Task("collect-mono")
    BY Makers
  <2>5. Has("collected.mono", 0, lines)'
    BY <2>2, <2>3, <2>4, HasKept
  <2>6. MonoTranslated' = lines
    BY <1>1, <2>1, SameInput
  <2> QED BY <2>5, <2>6 DEF Has
<1>11. ASSUME Task("merge-translated") \in old
       PROVE  MergedRight /\ HasFile("merged")' /\ File("merged")' = File("merged")
  <2>1. MergedRight
    BY <1>11 DEF AllRight
  <2>2. Task("merge-translated") \in completed
    BY <1>11
  <2>3. Maker(<<"merged", 0>>) = Task("merge-translated")
    BY Makers
  <2> QED BY <2>1, <2>2, <2>3, FileSame DEF MergedRight
<1>12. ASSUME Task("merge-translated") \in old PROVE MergedRight'
  BY <1>11, <1>12 DEF MergedRight, Scored, NoneTwice
<1>13. ASSUME Task("score") \in old PROVE ScoresRight'
  <2>1. ScoresRight /\ Task("merge-translated") \in old
    BY <1>13 DEF AllRight, ScoresRight
  <2>2. File("merged")' = File("merged") /\ Task("merge-translated") \in completed'
    BY <1>1, <1>11, <2>1
  <2>3. PICK lines : lines = [i \in DOMAIN File("merged") |-> Score[File("merged")[i]]]
    OBVIOUS
  <2>4. lines' = [i \in DOMAIN File("merged")' |-> Score[File("merged")'[i]]]
    BY <2>2, <2>3
  <2>5. Task("score") \in completed /\ Maker(<<"scores", 0>>) = Task("score")
    BY <1>13, Makers
  <2>6. Has("scores", 0, lines)
    BY <2>1, <2>3 DEF ScoresRight
  <2>7. Has("scores", 0, lines)'
    BY <2>5, <2>6, HasKept
  <2> QED BY <2>2, <2>4, <2>7 DEF ScoresRight, Has
<1>14. ASSUME Task("cefilter") \in old
       PROVE  FilteredRight /\ HasFile("filtered")' /\ File("filtered")' = File("filtered")
  <2>1. FilteredRight
    BY <1>14 DEF AllRight
  <2>2. Task("cefilter") \in completed
    BY <1>14
  <2>3. Maker(<<"filtered", 0>>) = Task("cefilter")
    BY Makers
  <2> QED BY <2>1, <2>2, <2>3, FileSame DEF FilteredRight
<1>15. ASSUME Task("cefilter") \in old PROVE FilteredRight'
  <2>1. FilteredRight /\ HasFile("filtered")' /\ File("filtered")' = File("filtered")
    BY <1>14, <1>15
  <2>2. File("merged")' = File("merged") /\ Task("merge-translated") \in completed'
    BY <1>1, <1>11, <2>1 DEF FilteredRight
  <2> QED BY <2>1, <2>2 DEF FilteredRight, WorstOut, Scored
<1>16. ASSUME Task("cefilter") \in old
       PROVE  /\ Tokens("src")' = Tokens("src") /\ Tokens("trg")' = Tokens("trg")
              /\ LinkedRows' = LinkedRows /\ RowLinks' = RowLinks
  BY <1>1, <1>14, <1>16, SameFiltered
<1>17. ASSUME Task("alignments") \in old PROVE AlnRight'
  <2>1. AlnRight /\ Task("cefilter") \in old /\ Task("cefilter") \in completed'
    BY <1>1, <1>17 DEF AllRight, AlnRight
  <2>2. PICK lines, src, trg : lines = RowLinks /\ src = Tokens("src") /\ trg = Tokens("trg")
    OBVIOUS
  <2>3. /\ Has("aln", 0, lines)
        /\ input.output_tokenized => /\ Has("tokenized.src", 0, src)
                                     /\ Has("tokenized.trg", 0, trg)
    BY <2>1, <2>2 DEF AlnRight, TokensRight
  <2>4. /\ Task("alignments") \in completed
        /\ Maker(<<"aln", 0>>) = Task("alignments")
        /\ Maker(<<"tokenized.src", 0>>) = Task("alignments")
        /\ Maker(<<"tokenized.trg", 0>>) = Task("alignments")
    BY <1>17, Makers
  <2>5. Has("aln", 0, lines)'
    BY <2>3, <2>4, HasKept
  <2>6. Has("tokenized.src", 0, src) => Has("tokenized.src", 0, src)'
    BY <2>4, HasKept
  <2>7. Has("tokenized.trg", 0, trg) => Has("tokenized.trg", 0, trg)'
    BY <2>4, HasKept
  <2>8. RowLinks' = lines /\ Tokens("src")' = src /\ Tokens("trg")' = trg
    BY <1>16, <2>1, <2>2
  <2> QED BY <1>1, <2>1, <2>3, <2>5, <2>6, <2>7, <2>8 DEF AlnRight, TokensRight, Has
<1>18. ASSUME Task("train-student") \in old PROVE TsvRight'
  <2>1. TsvRight /\ Task("cefilter") \in old /\ Task("cefilter") \in completed'
    BY <1>1, <1>18 DEF AllRight, TsvRight
  <2>2. PICK lines : lines = LinkedRows
    OBVIOUS
  <2>3. LinkedRows' = lines
    BY <1>16, <2>1, <2>2
  <2>5. Task("train-student") \in completed /\ Maker(<<"tsv", 0>>) = Task("train-student")
    BY <1>18, Makers
  <2>6. Has("tsv", 0, lines)
    BY <2>1, <2>2 DEF TsvRight
  <2>7. Has("tsv", 0, lines)'
    BY <2>5, <2>6, HasKept
  <2> QED BY <2>1, <2>3, <2>7 DEF TsvRight, Has
<1> QED
  BY <1>2, <1>3, <1>4, <1>5, <1>6, <1>7, <1>8, <1>9, <1>10, <1>12, <1>13, <1>15, <1>17, <1>18
     DEF AllRight

\* What is given stays.
LEMMA GivenStays ==
    ASSUME NEW t, KeepsOthers(t), t # Task("given"), Given
    PROVE  Given'
<1>1. UNCHANGED input
  BY DEF KeepsOthers
<1>2. PICK src, trg, mono : /\ src = CorpusSide("src") /\ trg = CorpusSide("trg")
                            /\ mono = input.mono
  OBVIOUS
<1>3. CorpusSide("src")' = src /\ CorpusSide("trg")' = trg /\ input.mono' = mono
  BY <1>1, <1>2, SameInput
<1>4. PICK a, b, c : a = <<"corpus.src", 0>> /\ b = <<"corpus.trg", 0>> /\ c = <<"mono", 0>>
  OBVIOUS
<1>5. Maker(a) # t /\ Maker(b) # t /\ Maker(c) # t
  BY <1>4, Makers
<1>6. /\ a \in DOMAIN artifacts /\ artifacts[a] = src
      /\ b \in DOMAIN artifacts /\ artifacts[b] = trg
      /\ c \in DOMAIN artifacts /\ artifacts[c] = mono
  BY <1>2, <1>4 DEF Given, Has
<1>7. /\ a \in DOMAIN artifacts' /\ artifacts'[a] = src
      /\ b \in DOMAIN artifacts' /\ artifacts'[b] = trg
      /\ c \in DOMAIN artifacts' /\ artifacts'[c] = mono
  BY <1>5, <1>6 DEF KeepsOthers
<1> QED BY <1>1, <1>3, <1>4, <1>7 DEF Given, Has

\* There are no more parts than before.
LEMMA OnlyPartsStays ==
    ASSUME NEW t, KeepsOthers(t), t # Task("split-corpus"), t # Task("split-mono"),
           input \in Inputs, OnlyParts
    PROVE  OnlyParts'
<1>1. UNCHANGED input
  BY DEF KeepsOthers
<1>2. PICK n, p, q : /\ n = input.split_chunks /\ p = PartsOf(CorpusSide("src"))
                     /\ q = PartsOf(input.mono)
  OBVIOUS
<1>3. /\ input.split_chunks' = n /\ PartsOf(CorpusSide("src"))' = p /\ PartsOf(input.mono)' = q
      /\ n \in Nat
  BY <1>1, <1>2, SameInput, InputFacts
<1>4. ASSUME NEW k \in 1 .. n
      PROVE  /\ <<"file", k>> \in DOMAIN artifacts' => k \in DOMAIN p
             /\ <<"mono", k>> \in DOMAIN artifacts' => k \in DOMAIN q
  <2>1. Maker(<<"file", k>>) # t /\ Maker(<<"mono", k>>) # t
    BY <1>3, Makers
  <2>2. /\ <<"file", k>> \in DOMAIN artifacts => k \in DOMAIN p
        /\ <<"mono", k>> \in DOMAIN artifacts => k \in DOMAIN q
    BY <1>2 DEF OnlyParts
  <2> QED BY <2>1, <2>2 DEF KeepsOthers
<1> QED BY <1>3, <1>4 DEF OnlyParts

\* A pool goes on where it was when another task does something.
LEMMA PoolStays ==
    ASSUME NEW t, KeepsOthers(t), t \notin completed, t # Task("alignments"),
           UNCHANGED pool, AllRight(completed), PoolRight
    PROVE  PoolRight'
<1>1. CASE pool.phase = "none"
  BY <1>1 DEF PoolRight
<1>2. CASE pool.phase # "none"
  <2>1. Task("cefilter") \in completed /\ Task("alignments") \notin completed
    BY <1>2 DEF PoolRight
  <2>2. Task("cefilter") \in completed' /\ Task("alignments") \notin completed' /\ UNCHANGED input
    BY <2>1 DEF KeepsOthers
  <2>3. HasFile("filtered") /\ Maker(<<"filtered", 0>>) = Task("cefilter")
    BY <2>1, Makers DEF AllRight, FilteredRight
  <2>4. File("filtered")' = File("filtered")
    BY <2>1, <2>3, FileSame
  <2>5. /\ Side("src")' = Side("src") /\ Side("trg")' = Side("trg")
        /\ Tokens("src")' = Tokens("src") /\ Tokens("trg")' = Tokens("trg")
        /\ LinksOf' = LinksOf /\ Params' = Params /\ RowLinks' = RowLinks
    BY <2>2, <2>4, SameFiltered
  <2>6. PICK src, trg, links : src = Tokens("src") /\ trg = Tokens("trg") /\ links = LinksOf
    OBVIOUS
  <2>7. ASSUME NEW name \in {"tokenized.src", "tokenized.trg", "links"}, NEW lines,
               Has(name, 0, lines)
        PROVE  Has(name, 0, lines)'
    <3>1. PICK a : a = <<name, 0>>
      OBVIOUS
    <3>2. Maker(a) = Task("alignments")
      BY <2>7, <3>1 DEF Maker
    <3>3. a \in DOMAIN artifacts /\ artifacts[a] = lines
      BY <2>7, <3>1 DEF Has
    <3>4. a \in DOMAIN artifacts' /\ artifacts'[a] = lines
      BY <3>2, <3>3 DEF KeepsOthers
    <3> QED BY <3>1, <3>4 DEF Has
  <2>8. /\ Has("tokenized.src", 0, src) => Has("tokenized.src", 0, src)'
        /\ Has("tokenized.trg", 0, trg) => Has("tokenized.trg", 0, trg)'
        /\ Has("links", 0, links) => Has("links", 0, links)'
    BY <2>7
  <2>9. PoolFile' = PoolFile /\ PoolWhole' = PoolWhole
    BY <2>5 DEF PoolFile, PoolWhole
  <2>10. PoolInOrder => PoolInOrder'
    <3>1. PICK cf, cw : cf = Cut(PoolFile, PoolChunk) /\ cw = Cut(PoolWhole, PoolChunk)
      OBVIOUS
    <3>2. Cut(PoolFile, PoolChunk)' = cf /\ Cut(PoolWhole, PoolChunk)' = cw
      BY <2>9, <3>1 DEF Cut
    <3>3. PICK out, chunks, done : out = pool.output /\ chunks = pool.chunks /\ done = pool.done
      OBVIOUS
    <3>4. pool.output' = out /\ pool.chunks' = chunks /\ pool.done' = done
      BY <3>3
    <3>5. PoolInOrder <=>
             /\ chunks = cf /\ done \subseteq DOMAIN chunks
             /\ \E n \in 0 .. Len(chunks) :
                   out = [i \in 1 .. n |-> [chunk |-> i, lines |-> cw[i]]]
      BY <3>1, <3>3, ZenonT(60) DEF PoolInOrder
    <3>6. PoolInOrder' <=>
             /\ chunks = cf /\ done \subseteq DOMAIN chunks
             /\ \E n \in 0 .. Len(chunks) :
                   out = [i \in 1 .. n |-> [chunk |-> i, lines |-> cw[i]]]
      BY <3>2, <3>4, ZenonT(60) DEF PoolInOrder
    <3> QED BY <3>5, <3>6, Zenon
  <2> QED BY <2>2, <2>5, <2>6, <2>8, <2>10 DEF PoolRight, Has
<1> QED BY <1>1, <1>2

\* A step of a task keeps the invariant when what it publishes is right.
LEMMA StepKeeps ==
    ASSUME CorpusInv, NEW t, KeepsOthers(t), t \notin completed, t # Task("given"),
           t \in completed' => AllRight({t})', OnlyParts', PoolRight', NothingLeftOut'
    PROVE  CorpusInv'
<1>1. PICK old : old = completed
  OBVIOUS
<1>2. Given' /\ AllRight(old)'
  <2>1. AllRight(old) /\ Given /\ input \in Inputs
    BY <1>1 DEF CorpusInv, Given
  <2> QED BY <1>1, <2>1, RightStays, GivenStays
<1>3. completed' \subseteq old \cup {t} /\ (t \in completed' => AllRight({t})')
  BY <1>1 DEF KeepsOthers
<1>4. AllRight(completed)'
  <2>1. \A task : task \in completed' => task \in old \/ (task \in {t} /\ t \in completed')
    BY <1>3
  <2> QED BY <1>2, <1>3, <2>1 DEF AllRight
<1> QED BY <1>2, <1>4 DEF CorpusInv

\* The same for a task other than the splits and the alignment.
LEMMA PlainStep ==
    ASSUME CorpusInv, NEW t, KeepsOthers(t), t \notin completed, UNCHANGED pool,
           t[1] \notin {"given", "split-corpus", "split-mono", "alignments"},
           t \in completed' => AllRight({t})', NothingLeftOut'
    PROVE  CorpusInv'
<1>1. /\ t # Task("given") /\ t # Task("split-corpus") /\ t # Task("split-mono")
      /\ t # Task("alignments")
  BY DEF Task
<1>2. OnlyParts /\ PoolRight /\ AllRight(completed) /\ input \in Inputs
  BY DEF CorpusInv, Given
<1>3. OnlyParts'
  BY <1>1, <1>2, OnlyPartsStays
<1>4. PoolRight'
  BY <1>1, <1>2, PoolStays
<1> QED BY <1>1, <1>3, <1>4, StepKeeps

\* A task fails, but not one that collects.
LEMMA FailKeeps ==
    ASSUME CorpusInv, NEW t, Fails(t), t \notin completed,
           t[1] \notin {"given", "split-corpus", "split-mono", "alignments"},
           t \notin {Task("collect-corpus"), Task("collect-mono")}
    PROVE  CorpusInv'
<1>1. UNCHANGED <<input, completed, artifacts, pool>> /\ failed' = failed \cup {t}
  BY DEF Fails
<1>2. NothingLeftOut'
  BY <1>1 DEF NothingLeftOut, CorpusInv
<1>3. KeepsOthers(t)
  BY <1>1, AddsNothing
<1> QED BY <1>1, <1>2, <1>3, PlainStep

\* A task completes with files of its own.
LEMMA CompletesKeeps ==
    ASSUME CorpusInv, NEW t, NEW files, Completes(t, files), t \notin completed,
           t[1] \notin {"given", "split-corpus", "split-mono", "alignments"},
           \A a \in DOMAIN files : Maker(a) = t, AllRight({t})'
    PROVE  CorpusInv'
<1>1. /\ UNCHANGED <<input, failed, pool>> /\ completed' = completed \cup {t}
      /\ artifacts' = Update(artifacts, files)
  BY DEF Completes
<1>2. KeepsOthers(t)
  BY <1>1, AddsOnly
<1>3. NothingLeftOut'
  BY <1>1 DEF NothingLeftOut, CorpusInv
<1> QED BY <1>1, <1>2, <1>3, PlainStep

\* What the artifacts are after that.
LEMMA CompletesHas ==
    ASSUME NEW t, NEW files, Completes(t, files)
    PROVE  /\ UNCHANGED <<input, failed, pool>> /\ completed' = completed \cup {t}
           /\ \A a \in DOMAIN files : a \in DOMAIN artifacts' /\ artifacts'[a] = files[a]
           /\ \A a \in DOMAIN artifacts :
                 a \notin DOMAIN files => a \in DOMAIN artifacts' /\ artifacts'[a] = artifacts[a]
BY DEF Completes, Update

\* One file is published.
Publishes(name, lines) ==
    /\ UNCHANGED input /\ completed \subseteq completed'
    /\ name \in DOMAIN artifacts' /\ artifacts'[name] = lines
    /\ \A a \in DOMAIN artifacts :
          a # name => a \in DOMAIN artifacts' /\ artifacts'[a] = artifacts[a]

\* A script that publishes one file, or fails.
LEMMA EndsKeeps ==
    ASSUME CorpusInv, NEW t, NEW name, NEW result, Ends(t, name, result), t \notin completed,
           t[1] \notin {"given", "split-corpus", "split-mono", "alignments"},
           t \in {Task("collect-corpus"), Task("collect-mono")} => result.ok,
           Maker(name) = t,
           result.ok /\ Publishes(name, result.lines) => AllRight({t})'
    PROVE  CorpusInv'
<1>1. CASE ~result.ok
  <2>1. Fails(t)
    BY <1>1 DEF Ends
  <2> QED BY <1>1, <2>1, FailKeeps
<1>2. CASE result.ok
  <2>1. PICK files : files = [a \in {name} |-> result.lines]
    OBVIOUS
  <2>2. Completes(t, files)
    BY <1>2, <2>1 DEF Ends
  <2>3. \A a \in DOMAIN files : Maker(a) = t
    BY <2>1
  <2>4. /\ UNCHANGED input /\ completed' = completed \cup {t}
        /\ \A a \in DOMAIN files : a \in DOMAIN artifacts' /\ artifacts'[a] = files[a]
        /\ \A a \in DOMAIN artifacts :
              a \notin DOMAIN files => a \in DOMAIN artifacts' /\ artifacts'[a] = artifacts[a]
    BY <2>2, CompletesHas
  <2>5. name \in DOMAIN artifacts' /\ artifacts'[name] = result.lines
    BY <2>1, <2>4
  <2>6. \A a \in DOMAIN artifacts :
           a # name => a \in DOMAIN artifacts' /\ artifacts'[a] = artifacts[a]
    BY <2>1, <2>4
  <2>7. AllRight({t})'
    BY <1>2, <2>4, <2>5, <2>6 DEF Publishes
  <2> QED BY <2>2, <2>3, <2>7, CompletesKeeps
<1> QED BY <1>1, <1>2

-----------------------------------------------------------------------------
(* The tasks.                                                              *)

\* The artifacts of a split.
LEMMA PartsHas ==
    ASSUME NEW name, NEW parts, NEW files, files = Parts(name, parts)
    PROVE  /\ \A k \in DOMAIN parts : <<name, k>> \in DOMAIN files /\ files[<<name, k>>] = parts[k]
           /\ \A a \in DOMAIN files : \E k \in DOMAIN parts : a = <<name, k>>
BY DEF Parts

\* The invariant gives these everywhere.
LEMMA InvFacts ==
    ASSUME CorpusInv
    PROVE  /\ input \in Inputs /\ AllRight(completed) /\ OnlyParts /\ PoolRight /\ NothingLeftOut
           /\ File("corpus.src") = CorpusSide("src") /\ File("corpus.trg") = CorpusSide("trg")
           /\ File("mono") = input.mono
           /\ input.split_chunks \in Nat \ {0}
<1>1. Given /\ input \in Inputs
  BY DEF CorpusInv, Given
<1>2. input.split_chunks \in Nat \ {0}
  BY <1>1, InputFacts
<1> QED BY <1>1, <1>2 DEF CorpusInv, Given, Has, File

\* splitter.py on the parallel corpus.
LEMMA SplitCorpusKeeps ==
    ASSUME CorpusInv, SplitCorpus
    PROVE  CorpusInv'
<1>1. PICK t, p, q, fp, fq, files :
         /\ t = Task("split-corpus")
         /\ p = PartsOf(CorpusSide("src")) /\ q = PartsOf(CorpusSide("trg"))
         /\ fp = Parts("file", p) /\ fq = Parts("ref", q) /\ files = Update(fp, fq)
  OBVIOUS
<1>2. /\ input \in Inputs /\ OnlyParts /\ PoolRight /\ AllRight(completed)
      /\ File("corpus.src") = CorpusSide("src") /\ File("corpus.trg") = CorpusSide("trg")
  BY InvFacts
<1>3. t \notin completed /\ Completes(t, files)
  BY <1>1, <1>2 DEF SplitCorpus, MayStart, PartsOf
<1>4. /\ \A k \in DOMAIN p : <<"file", k>> \in DOMAIN fp /\ fp[<<"file", k>>] = p[k]
      /\ \A a \in DOMAIN fp : \E k \in DOMAIN p : a = <<"file", k>>
  BY <1>1, PartsHas
<1>5. /\ \A k \in DOMAIN q : <<"ref", k>> \in DOMAIN fq /\ fq[<<"ref", k>>] = q[k]
      /\ \A a \in DOMAIN fq : \E k \in DOMAIN q : a = <<"ref", k>>
  BY <1>1, PartsHas
<1>6. /\ DOMAIN files = DOMAIN fp \cup DOMAIN fq
      /\ \A a \in DOMAIN files : files[a] = IF a \in DOMAIN fq THEN fq[a] ELSE fp[a]
  BY <1>1 DEF Update
<1>7. \A a \in DOMAIN files : Maker(a) = t
  BY <1>1, <1>4, <1>5, <1>6, Makers
<1>8. /\ UNCHANGED <<input, failed, pool>> /\ completed' = completed \cup {t}
      /\ artifacts' = Update(artifacts, files)
      /\ \A a \in DOMAIN files : a \in DOMAIN artifacts' /\ artifacts'[a] = files[a]
  BY <1>3, CompletesHas DEF Completes
<1>9. KeepsOthers(t)
  BY <1>7, <1>8, AddsOnly
<1>10. ASSUME NEW k \in DOMAIN p
       PROVE  <<"file", k>> \in DOMAIN artifacts' /\ artifacts'[<<"file", k>>] = p[k]
  <2>1. PICK a : a = <<"file", k>>
    OBVIOUS
  <2>2. a \in DOMAIN fp /\ fp[a] = p[k] /\ a \notin DOMAIN fq
    BY <1>4, <1>5, <2>1
  <2> QED BY <1>6, <1>8, <2>1, <2>2
<1>11. ASSUME NEW k \in DOMAIN q
       PROVE  <<"ref", k>> \in DOMAIN artifacts' /\ artifacts'[<<"ref", k>>] = q[k]
  <2>1. PICK a : a = <<"ref", k>>
    OBVIOUS
  <2>2. a \in DOMAIN fq /\ fq[a] = q[k]
    BY <1>5, <2>1
  <2> QED BY <1>6, <1>8, <2>1, <2>2
<1>12. PartsOf(CorpusSide("src"))' = p /\ PartsOf(CorpusSide("trg"))' = q
  BY <1>1, <1>8, SameInput
<1>13. SplitRight'
  BY <1>10, <1>11, <1>12 DEF SplitRight, HasParts, Has
<1>14. AllRight({t})'
  BY <1>1, <1>13 DEF AllRight, Task
<1>15. PoolRight'
  <2>1. t # Task("alignments")
    BY <1>1 DEF Task
  <2> QED BY <1>2, <1>3, <1>8, <1>9, <2>1, PoolStays
<1>16. OnlyParts'
  <2>1. PICK n, m : n = input.split_chunks /\ m = PartsOf(input.mono)
    OBVIOUS
  <2>2. /\ input.split_chunks' = n /\ PartsOf(input.mono)' = m /\ n \in Nat \ {0}
    BY <1>2, <1>8, <2>1, SameInput, InputFacts
  <2>3. ASSUME NEW k \in 1 .. n
        PROVE  /\ <<"file", k>> \in DOMAIN artifacts' => k \in DOMAIN p
               /\ <<"mono", k>> \in DOMAIN artifacts' => k \in DOMAIN m
    <3>1. /\ <<"file", k>> \in DOMAIN artifacts => k \in DOMAIN p
          /\ <<"mono", k>> \in DOMAIN artifacts => k \in DOMAIN m
      BY <1>1, <1>2, <2>1 DEF OnlyParts
    <3>2. PICK a, b : a = <<"file", k>> /\ b = <<"mono", k>>
      OBVIOUS
    <3>3. b \notin DOMAIN files /\ (a \in DOMAIN files => k \in DOMAIN p)
      BY <1>4, <1>5, <1>6, <3>2
    <3>4. DOMAIN artifacts' = DOMAIN artifacts \cup DOMAIN files
      BY <1>8 DEF Update
    <3> QED BY <3>1, <3>2, <3>3, <3>4
  <2> QED BY <1>12, <2>2, <2>3 DEF OnlyParts
<1>17. NothingLeftOut' /\ t # Task("given")
  BY <1>1, <1>8 DEF NothingLeftOut, CorpusInv, Task
<1> QED BY <1>3, <1>9, <1>14, <1>15, <1>16, <1>17, StepKeeps

\* splitter.py on the monolingual corpus.
LEMMA SplitMonoKeeps ==
    ASSUME CorpusInv, SplitMono
    PROVE  CorpusInv'
<1>1. PICK t, p, files :
         t = Task("split-mono") /\ p = PartsOf(input.mono) /\ files = Parts("mono", p)
  OBVIOUS
<1>2. /\ input \in Inputs /\ OnlyParts /\ PoolRight /\ AllRight(completed)
      /\ File("mono") = input.mono
  BY InvFacts
<1>3. t \notin completed /\ Completes(t, files)
  BY <1>1, <1>2 DEF SplitMono, MayStart, PartsOf
<1>4. /\ \A k \in DOMAIN p : <<"mono", k>> \in DOMAIN files /\ files[<<"mono", k>>] = p[k]
      /\ \A a \in DOMAIN files : \E k \in DOMAIN p : a = <<"mono", k>>
  BY <1>1, PartsHas
<1>5. PICK n, m : n = input.split_chunks /\ m = PartsOf(CorpusSide("src"))
  OBVIOUS
<1>6. n \in Nat \ {0} /\ \A k \in DOMAIN p : k \in 1 .. n
  BY <1>1, <1>2, <1>5, PartNumbers, InputFacts
<1>7. \A a \in DOMAIN files : Maker(a) = t
  BY <1>1, <1>4, <1>6, Makers
<1>8. /\ UNCHANGED <<input, failed, pool>> /\ completed' = completed \cup {t}
      /\ artifacts' = Update(artifacts, files)
      /\ \A a \in DOMAIN files : a \in DOMAIN artifacts' /\ artifacts'[a] = files[a]
  BY <1>3, CompletesHas DEF Completes
<1>9. KeepsOthers(t)
  BY <1>7, <1>8, AddsOnly
<1>10. PartsOf(input.mono)' = p /\ PartsOf(CorpusSide("src"))' = m /\ input.split_chunks' = n
  BY <1>1, <1>5, <1>8, SameInput
<1>11. SplitMonoRight'
  BY <1>4, <1>8, <1>10 DEF SplitMonoRight, HasParts, Has
<1>12. AllRight({t})'
  BY <1>1, <1>11 DEF AllRight, Task
<1>13. PoolRight'
  <2>1. t # Task("alignments")
    BY <1>1 DEF Task
  <2> QED BY <1>2, <1>3, <1>8, <1>9, <2>1, PoolStays
<1>14. OnlyParts'
  <2>1. ASSUME NEW k \in 1 .. n
        PROVE  /\ <<"file", k>> \in DOMAIN artifacts' => k \in DOMAIN m
               /\ <<"mono", k>> \in DOMAIN artifacts' => k \in DOMAIN p
    <3>1. /\ <<"file", k>> \in DOMAIN artifacts => k \in DOMAIN m
          /\ <<"mono", k>> \in DOMAIN artifacts => k \in DOMAIN p
      BY <1>1, <1>2, <1>5 DEF OnlyParts
    <3>2. PICK a, b : a = <<"file", k>> /\ b = <<"mono", k>>
      OBVIOUS
    <3>3. a \notin DOMAIN files /\ (b \in DOMAIN files => k \in DOMAIN p)
      BY <1>4, <3>2
    <3>4. DOMAIN artifacts' = DOMAIN artifacts \cup DOMAIN files
      BY <1>8 DEF Update
    <3> QED BY <3>1, <3>2, <3>3, <3>4
  <2> QED BY <1>10, <2>1 DEF OnlyParts
<1>15. NothingLeftOut' /\ t # Task("given")
  BY <1>1, <1>8 DEF NothingLeftOut, CorpusInv, Task
<1> QED BY <1>3, <1>9, <1>12, <1>13, <1>14, <1>15, StepKeeps

\* Both decoders give the same, when they give anything.
LEMMA TranslateIs ==
    ASSUME NEW lines, lines # <<>>, NEW is_nbest, NEW decoding,
           decoding.decoder \in {"marian", "ctranslate2"},
           NEW result, result = Translate(lines, is_nbest, decoding), result.ok
    PROVE  result.lines = Decode(lines, is_nbest, BeamOf(decoding))
<1>1. CASE decoding.decoder = "marian"
  <2>1. result = TranslateWithMarian(lines, is_nbest, decoding)
    BY <1>1 DEF Translate
  <2>2. PICK output : output = Decode(lines, is_nbest, BeamOf(decoding))
    OBVIOUS
  <2>3. result = Written(output) \/ result = Failed
    BY <2>1, <2>2, Zenon DEF TranslateWithMarian, BeamOf
  <2> QED BY <2>2, <2>3 DEF Written, Failed
<1>2. CASE decoding.decoder = "ctranslate2"
  <2>1. result = TranslateWithCTranslate2(lines, is_nbest, decoding)
    BY <1>2 DEF Translate
  <2>2. PICK output : output = Decode(lines, is_nbest, BeamOf(decoding))
    OBVIOUS
  <2>3. result = Written(output) \/ result = Failed
    BY <2>1, <2>2, Zenon DEF TranslateWithCTranslate2, BeamOf
  <2> QED BY <2>2, <2>3 DEF Written, Failed
<1> QED BY <1>1, <1>2

\* Part k of a file, with what is made of it line by line.
LEMMA PartAlike ==
    ASSUME NEW S, NEW T, NEW file \in Seq(S), NEW whole \in Seq(T), Len(whole) = Len(file),
           NEW n \in Nat \ {0}, NEW k \in DOMAIN SplitFile(file, n),
           NEW part, part = SplitFile(file, n)[k], NEW c, c = PerPart(Len(file), n)
    PROVE  /\ part \in Seq(S) /\ Len(part) \in Nat \ {0} /\ part # <<>>
           /\ c \in Nat \ {0} /\ Placed(part, file, c, k)
           /\ k \in Nat \ {0} /\ k \in DOMAIN SplitFile(whole, n)
           /\ SplitFile(whole, n)[k] = PartMade(whole, part, c, k)
<1>1. /\ c \in Nat \ {0} /\ SplitFile(file, n) = Cut(file, c)
      /\ DOMAIN SplitFile(file, n) = 1 .. NumParts(file, c) /\ NumParts(file, c) \in 0 .. n
  BY PartsAre
<1>2. c = PerPart(Len(whole), n)
  OBVIOUS
<1>3. SplitFile(whole, n) = Cut(whole, c) /\ DOMAIN SplitFile(whole, n) = 1 .. NumParts(whole, c)
  BY <1>2, PartsAre
<1>4. k \in 1 .. NumParts(file, c) /\ part = Cut(file, c)[k] /\ k \in Nat \ {0}
  BY <1>1
<1>5. part \in Seq(S) /\ Len(part) \in Nat \ {0} /\ Placed(part, file, c, k)
  BY <1>1, <1>4, CutPart
<1>6. /\ k \in 1 .. NumParts(whole, c)
      /\ Cut(whole, c)[k] = PartMade(whole, part, c, k)
  BY <1>1, <1>4, CutAlike
<1>7. part # <<>>
  BY <1>5
<1> QED BY <1>1, <1>3, <1>4, <1>5, <1>6, <1>7

\* translate.py on a part of the parallel corpus.
LEMMA TranslateCorpusKeeps ==
    ASSUME CorpusInv, NEW k \in 1 .. input.split_chunks, TranslateCorpus(k)
    PROVE  CorpusInv'
<1>1. PICK t, p, n : /\ t = <<"translate-corpus", k>> /\ p = PartsOf(CorpusSide("src"))
                     /\ n = input.split_chunks
  OBVIOUS
<1>2. /\ input \in Inputs /\ OnlyParts /\ AllRight(completed) /\ n \in Nat \ {0}
  BY <1>1, InvFacts
<1>3. t \notin completed /\ Task("split-corpus") \in completed
  BY <1>1 DEF TranslateCorpus, MayStart
<1>4. t[1] \notin {"given", "split-corpus", "split-mono", "alignments"}
      /\ t \notin {Task("collect-corpus"), Task("collect-mono")}
  BY <1>1 DEF Task
<1>5. CASE <<"file", k>> \notin DOMAIN artifacts
  <2>1. Fails(t)
    BY <1>1, <1>5 DEF TranslateCorpus
  <2> QED BY <1>3, <1>4, <2>1, FailKeeps
<1>6. CASE <<"file", k>> \in DOMAIN artifacts
  <2>1. k \in DOMAIN p
    BY <1>1, <1>2, <1>6 DEF OnlyParts
  <2>2. artifacts[<<"file", k>>] = p[k]
    BY <1>1, <1>2, <1>3, <2>1 DEF AllRight, SplitRight, HasParts, Has
  <2>3. PICK name, result, decoding :
           /\ name = <<"nbest", k>> /\ decoding = input.decoding
           /\ result = Translate(p[k], TRUE, decoding)
    OBVIOUS
  <2>4. Ends(t, name, result)
    BY <1>1, <1>6, <2>2, <2>3 DEF TranslateCorpus
  <2>5. Maker(name) = t
    BY <1>1, <2>3, Makers
  <2>6. p[k] # <<>>
    <3>1. PICK src : src = CorpusSide("src")
      OBVIOUS
    <3>2. src \in Seq(DOMAIN Hypotheses)
      BY <1>2, <3>1, SideFacts
    <3>3. k \in DOMAIN SplitFile(src, n) /\ p[k] = SplitFile(src, n)[k]
      BY <1>1, <2>1, <3>1 DEF PartsOf
    <3>4. PICK part, c : part = SplitFile(src, n)[k] /\ c = PerPart(Len(src), n)
      OBVIOUS
    <3>5. part # <<>>
      BY <1>2, <3>2, <3>3, <3>4, PartAlike
    <3> QED BY <3>3, <3>4, <3>5
  <2>7. ASSUME result.ok, Publishes(name, result.lines)
        PROVE  AllRight({t})'
    <3>1. result.lines = Decode(p[k], TRUE, Beam)
      <4>1. decoding.decoder \in {"marian", "ctranslate2"}
        BY <1>2, <2>3, InputFacts
      <4>2. PICK lines, nbest : lines = p[k] /\ nbest = TRUE
        OBVIOUS
      <4>3. lines # <<>> /\ result = Translate(lines, nbest, decoding) /\ result.ok
        BY <2>3, <2>6, <2>7, <4>2
      <4>4. result.lines = Decode(lines, nbest, BeamOf(decoding))
        BY <4>1, <4>3, TranslateIs
      <4> QED BY <2>3, <4>2, <4>4 DEF Beam
    <3>2. PICK lines : lines = Decode(p[k], TRUE, Beam)
      OBVIOUS
    <3>3. PartsOf(CorpusSide("src"))' = p /\ Beam' = Beam
      BY <1>1, <2>7, SameInput DEF Publishes
    <3>4. NbestRight(k)'
      BY <2>1, <2>3, <2>7, <3>1, <3>2, <3>3 DEF NbestRight, Has, Publishes
    <3> QED BY <1>1, <3>4 DEF AllRight, Task
  <2> QED BY <1>3, <1>4, <2>4, <2>5, <2>7, EndsKeeps
<1> QED BY <1>5, <1>6

\* The translation of a part of the monolingual corpus.
LEMMA MonoPart ==
    ASSUME input \in Inputs, NEW k \in DOMAIN PartsOf(input.mono),
           NEW part, part = PartsOf(input.mono)[k]
    PROVE  part # <<>> /\ Decode(part, FALSE, Beam) = PartsOf(MonoTranslated)[k]
<1>1. PICK n, mono, whole, c : /\ n = input.split_chunks /\ mono = input.mono
                               /\ whole = MonoTranslated /\ c = PerPart(Len(mono), n)
  OBVIOUS
<1>2. n \in Nat \ {0} /\ mono \in Seq(DOMAIN Hypotheses)
  BY <1>1, InputFacts
<1>3. whole \in Seq(Texts) /\ Len(whole) = Len(mono)
  BY <1>1, TranslatedFacts
<1>4. k \in DOMAIN SplitFile(mono, n) /\ part = SplitFile(mono, n)[k]
  BY <1>1 DEF PartsOf
<1>5. /\ part \in Seq(DOMAIN Hypotheses) /\ part # <<>> /\ Placed(part, mono, c, k)
      /\ SplitFile(whole, n)[k] = PartMade(whole, part, c, k)
  BY <1>1, <1>2, <1>3, <1>4, PartAlike
<1>6. PICK m : m = Len(part) /\ DOMAIN part = 1 .. m
  BY <1>5
<1>7. ASSUME NEW j \in 1 .. m PROVE Hypotheses[part[j]][1] = whole[(k - 1) * c + j]
  <2>1. PICK i : i = (k - 1) * c + j
    OBVIOUS
  <2>2. i \in 1 .. Len(mono) /\ part[j] = mono[i]
    BY <1>5, <1>6, <2>1 DEF Placed
  <2>3. i \in DOMAIN mono
    BY <1>2, <2>2
  <2>4. whole[i] = Hypotheses[mono[i]][1]
    BY <1>1, <2>3 DEF MonoTranslated
  <2> QED BY <2>1, <2>2, <2>4
<1>8. Decode(part, FALSE, Beam) = [j \in 1 .. m |-> Hypotheses[part[j]][1]]
  BY <1>6 DEF Decode
<1>9. PartMade(whole, part, c, k) = [j \in 1 .. m |-> whole[(k - 1) * c + j]]
  BY <1>6 DEF PartMade
<1>10. Decode(part, FALSE, Beam) = PartMade(whole, part, c, k)
  BY <1>7, <1>8, <1>9
<1> QED BY <1>1, <1>5, <1>10 DEF PartsOf

Gives(result, lines) == result.ok = TRUE /\ result.lines = lines

\* The best translations of a part.
LEMMA BestPart ==
    ASSUME input \in Inputs, NEW k \in DOMAIN PartsOf(CorpusSide("src")),
           NEW part, part = PartsOf(CorpusSide("src"))[k],
           NEW refs, refs = PartsOf(CorpusSide("trg"))[k],
           NEW best, best = MarianBest(Decode(part, TRUE, Beam), refs)
    PROVE  /\ k \in DOMAIN PartsOf(CorpusSide("trg"))
           /\ Gives(best, PartsOf(Translated)[k])
<1>1. PICK n, b, src, trg, whole, c :
         /\ n = input.split_chunks /\ b = Beam /\ whole = Translated
         /\ src = CorpusSide("src") /\ trg = CorpusSide("trg") /\ c = PerPart(Len(src), n)
  OBVIOUS
<1>2. n \in Nat \ {0} /\ b \in Nat \ {0} /\ Ranked(b)
  BY <1>1, InputFacts
<1>3. /\ src \in Seq(DOMAIN Hypotheses) /\ trg \in Seq(Texts) /\ Len(trg) = Len(src)
      /\ whole \in Seq(Texts) /\ Len(whole) = Len(src) /\ Len(src) = Len(input.corpus)
      /\ DOMAIN input.corpus = 1 .. Len(src)
  BY <1>1, SideFacts, TranslatedFacts
<1>4. k \in DOMAIN SplitFile(src, n) /\ part = SplitFile(src, n)[k] /\ refs = SplitFile(trg, n)[k]
  BY <1>1 DEF PartsOf
<1>5. /\ part \in Seq(DOMAIN Hypotheses) /\ Len(part) \in Nat \ {0} /\ Placed(part, src, c, k)
      /\ SplitFile(whole, n)[k] = PartMade(whole, part, c, k)
  BY <1>1, <1>2, <1>3, <1>4, PartAlike
<1>6. k \in DOMAIN SplitFile(trg, n) /\ SplitFile(trg, n)[k] = PartMade(trg, part, c, k)
  BY <1>1, <1>2, <1>3, <1>4, PartAlike
<1>7. PICK m : m = Len(part) /\ m \in Nat /\ DOMAIN part = 1 .. m
  BY <1>5
<1>8. refs = [j \in 1 .. m |-> trg[(k - 1) * c + j]] /\ DOMAIN refs = 1 .. m
  BY <1>4, <1>6, <1>7 DEF PartMade
<1>9. PICK groups, nbest : /\ groups = [i \in 1 .. Len(part) |-> SubSeq(Hypotheses[part[i]], 1, b)]
                           /\ nbest = Decode(part, TRUE, b)
  OBVIOUS
<1>10. nbest \in Seq(NbestLines) /\ Grouped(nbest, groups, m, b)
  BY <1>2, <1>5, <1>7, <1>9, DecodeGroups
<1>11. best = MarianBest(nbest, refs)
  BY <1>1, <1>9
<1>12. best.ok = TRUE /\ best.lines = [i \in 1 .. m |-> BestText(groups[i], refs[i])]
  <2>1. PICK T : T = NbestLines
    OBVIOUS
  <2>2. nbest \in Seq(T) /\ m \in Nat /\ b \in Nat \ {0} /\ DOMAIN refs = 1 .. m
    BY <1>2, <1>7, <1>8, <1>10, <2>1
  <2>3. Chosen(best, groups, refs, m)
    BY <1>10, <1>11, <2>2, BestOfGroups
  <2> QED BY <2>3 DEF Chosen
<1>13. ASSUME NEW j \in 1 .. m
       PROVE  BestText(groups[j], refs[j]) = whole[(k - 1) * c + j]
  <2>1. PICK i : i = (k - 1) * c + j
    OBVIOUS
  <2>2. i \in 1 .. Len(src) /\ part[j] = src[i]
    BY <1>5, <1>7, <2>1 DEF Placed
  <2>3. i \in DOMAIN input.corpus
    BY <1>3, <2>2
  <2>4. src[i] = input.corpus[i].src /\ trg[i] = input.corpus[i].trg
    BY <1>1, <2>3 DEF CorpusSide
  <2>5. whole[i] = BestText(SubSeq(Hypotheses[input.corpus[i].src], 1, b), input.corpus[i].trg)
    BY <1>1, <2>3 DEF Translated
  <2>6. groups[j] = SubSeq(Hypotheses[part[j]], 1, b) /\ refs[j] = trg[i]
    BY <1>7, <1>8, <1>9, <2>1
  <2> QED BY <2>1, <2>2, <2>4, <2>5, <2>6
<1>14. PartMade(whole, part, c, k) = [j \in 1 .. m |-> whole[(k - 1) * c + j]]
  BY <1>7 DEF PartMade
<1>15. best.lines = PartMade(whole, part, c, k)
  BY <1>12, <1>13, <1>14
<1> QED BY <1>1, <1>5, <1>6, <1>12, <1>15 DEF PartsOf, Gives

\* translate.py on a part of the monolingual corpus.
LEMMA TranslateMonoKeeps ==
    ASSUME CorpusInv, NEW k \in 1 .. input.split_chunks, TranslateMono(k)
    PROVE  CorpusInv'
<1>1. PICK t, p, n : /\ t = <<"translate-mono", k>> /\ p = PartsOf(input.mono)
                     /\ n = input.split_chunks
  OBVIOUS
<1>2. /\ input \in Inputs /\ OnlyParts /\ AllRight(completed) /\ n \in Nat \ {0}
  BY <1>1, InvFacts
<1>3. t \notin completed /\ Task("split-mono") \in completed
  BY <1>1 DEF TranslateMono, MayStart
<1>4. t[1] \notin {"given", "split-corpus", "split-mono", "alignments"}
      /\ t \notin {Task("collect-corpus"), Task("collect-mono")}
  BY <1>1 DEF Task
<1>5. CASE <<"mono", k>> \notin DOMAIN artifacts
  <2>1. Fails(t)
    BY <1>1, <1>5 DEF TranslateMono
  <2> QED BY <1>3, <1>4, <2>1, FailKeeps
<1>6. CASE <<"mono", k>> \in DOMAIN artifacts
  <2>1. k \in DOMAIN p
    BY <1>1, <1>2, <1>6 DEF OnlyParts
  <2>2. artifacts[<<"mono", k>>] = p[k]
    BY <1>1, <1>2, <1>3, <2>1 DEF AllRight, SplitMonoRight, HasParts, Has
  <2>3. PICK name, result, decoding, nbest, part :
           /\ name = <<"out", k>> /\ decoding = input.decoding
           /\ nbest = FALSE /\ part = p[k]
           /\ result = Translate(part, nbest, decoding)
    OBVIOUS
  <2>4. Ends(t, name, result)
    BY <1>1, <1>6, <2>2, <2>3 DEF TranslateMono
  <2>5. Maker(name) = t
    BY <1>1, <2>3, Makers
  <2>6. part # <<>> /\ Decode(part, FALSE, Beam) = PartsOf(MonoTranslated)[k]
    BY <1>1, <1>2, <2>1, <2>3, MonoPart
  <2>7. ASSUME result.ok, Publishes(name, result.lines)
        PROVE  AllRight({t})'
    <3>1. decoding.decoder \in {"marian", "ctranslate2"}
      BY <1>2, <2>3, InputFacts
    <3>2. result.lines = Decode(part, nbest, BeamOf(decoding))
      BY <2>3, <2>6, <2>7, <3>1, TranslateIs
    <3>3. PICK q : q = PartsOf(MonoTranslated)
      OBVIOUS
    <3>4. result.lines = q[k]
      BY <2>3, <2>6, <3>2, <3>3 DEF Beam
    <3>5. PartsOf(input.mono)' = p /\ PartsOf(MonoTranslated)' = q
      BY <1>1, <2>7, <3>3, SameInput DEF Publishes
    <3>6. OutRight(k)'
      BY <2>1, <2>3, <2>7, <3>4, <3>5 DEF OutRight, Has, Publishes
    <3> QED BY <1>1, <3>6 DEF AllRight, Task
  <2> QED BY <1>3, <1>4, <2>4, <2>5, <2>7, EndsKeeps
<1> QED BY <1>5, <1>6

\* extract_best.py on a part.
LEMMA ExtractBestKeeps ==
    ASSUME CorpusInv, NEW k \in 1 .. input.split_chunks, ExtractBest(k)
    PROVE  CorpusInv'
<1>1. PICK t, p, q, n : /\ t = <<"extract-best", k>> /\ n = input.split_chunks
                        /\ p = PartsOf(CorpusSide("src")) /\ q = PartsOf(CorpusSide("trg"))
  OBVIOUS
<1>2. /\ input \in Inputs /\ AllRight(completed) /\ n \in Nat \ {0}
  BY <1>1, InvFacts
<1>3. /\ t \notin completed
      /\ Task("split-corpus") \in completed /\ <<"translate-corpus", k>> \in completed
  BY <1>1 DEF ExtractBest, MayStart
<1>4. t[1] \notin {"given", "split-corpus", "split-mono", "alignments"}
      /\ t \notin {Task("collect-corpus"), Task("collect-mono")}
  BY <1>1 DEF Task
<1>5. k \in DOMAIN p /\ artifacts[<<"nbest", k>>] = Decode(p[k], TRUE, Beam)
  <2>1. NbestRight(k)
    BY <1>2, <1>3 DEF AllRight
  <2> QED BY <1>1, <2>1 DEF NbestRight, Has
<1>6. PICK part, refs, best, name, result :
         /\ part = p[k] /\ refs = q[k] /\ best = MarianBest(Decode(part, TRUE, Beam), refs)
         /\ name = <<"nbest.out", k>> /\ result = [ok |-> best.ok, lines |-> best.lines]
  OBVIOUS
<1>7. k \in DOMAIN q /\ best.ok = TRUE /\ best.lines = PartsOf(Translated)[k]
  <2>1. /\ k \in DOMAIN PartsOf(CorpusSide("src")) /\ part = PartsOf(CorpusSide("src"))[k]
        /\ refs = PartsOf(CorpusSide("trg"))[k]
    BY <1>1, <1>5, <1>6
  <2>2. k \in DOMAIN PartsOf(CorpusSide("trg")) /\ Gives(best, PartsOf(Translated)[k])
    BY <1>2, <1>6, <2>1, BestPart
  <2> QED BY <1>1, <2>2 DEF Gives
<1>8. artifacts[<<"ref", k>>] = refs
  BY <1>1, <1>2, <1>3, <1>6, <1>7 DEF AllRight, SplitRight, HasParts, Has
<1>9. Ends(t, name, result)
  BY <1>1, <1>5, <1>6, <1>8 DEF ExtractBest
<1>10. Maker(name) = t
  BY <1>1, <1>6, Makers
<1>11. ASSUME Publishes(name, result.lines)
       PROVE  AllRight({t})'
  <2>1. PICK best_parts : best_parts = PartsOf(Translated)
    OBVIOUS
  <2>2. PartsOf(CorpusSide("src"))' = p /\ PartsOf(Translated)' = best_parts
    BY <1>1, <1>11, <2>1, SameInput DEF Publishes
  <2>3. result.lines = best_parts[k]
    BY <1>6, <1>7, <2>1
  <2>4. BestRight(k)'
    BY <1>5, <1>6, <1>11, <2>2, <2>3 DEF BestRight, Has, Publishes
  <2> QED BY <1>1, <2>4 DEF AllRight, Task
<1> QED BY <1>3, <1>4, <1>9, <1>10, <1>11, EndsKeeps

\* All parts that a corpus should have.
AllParts(name, whole) ==
    \A k \in 1 .. input.split_chunks :
        k \in DOMAIN PartsOf(whole) /\ artifacts[<<name, k>>] = PartsOf(whole)[k]

\* collect.sh with the output of every part.
LEMMA CollectsWhole ==
    ASSUME input \in Inputs, NEW T, NEW whole \in Seq(T), NEW name, AllParts(name, whole),
           NEW original, Len(original) = Len(whole)
    PROVE  Collect(Fetched(name), original) = Written(whole)
<1>1. PICK n, c, outs, cut : /\ n = input.split_chunks /\ c = PerPart(Len(whole), n)
                             /\ outs = Fetched(name) /\ cut = Cut(whole, c)
  OBVIOUS
<1>2. n \in Nat \ {0}
  BY <1>1, InputFacts
<1>3. /\ SplitFile(whole, n) = cut /\ NumParts(whole, c) \in 0 .. n
      /\ DOMAIN SplitFile(whole, n) = 1 .. NumParts(whole, c)
  BY <1>1, <1>2, PartsAre
<1>4. NumParts(whole, c) = n
  <2>1. n \in DOMAIN SplitFile(whole, n)
    <3>1. n \in 1 .. n
      BY <1>2
    <3> QED BY <1>1, <3>1 DEF AllParts, PartsOf
  <2> QED BY <1>2, <1>3, <2>1
<1>5. outs = [k \in 1 .. n |-> cut[k]]
  BY <1>1, <1>3 DEF AllParts, PartsOf, Fetched
<1>6. outs = [k \in 1 .. n |-> Cut(whole, c)[k]]
  BY <1>1, <1>5
<1> QED BY <1>1, <1>2, <1>4, <1>6, CollectIsWhole

\* collect.sh on the parallel corpus.
LEMMA CollectCorpusKeeps ==
    ASSUME CorpusInv, CollectCorpus
    PROVE  CorpusInv'
<1>1. PICK t, n, whole, original, name, result :
         /\ t = Task("collect-corpus") /\ n = input.split_chunks /\ whole = Translated
         /\ original = File("corpus.trg") /\ name = <<"collected.corpus", 0>>
         /\ result = Collect(Fetched("nbest.out"), original)
  OBVIOUS
<1>2. /\ input \in Inputs /\ AllRight(completed) /\ n \in Nat \ {0}
      /\ original = CorpusSide("trg")
  BY <1>1, InvFacts
<1>3. t \notin completed /\ Chunked("extract-best") \subseteq completed /\ Ends(t, name, result)
  BY <1>1 DEF CollectCorpus, MayStart
<1>4. whole \in Seq(Texts) /\ Len(original) = Len(whole)
  BY <1>1, <1>2, TranslatedFacts, SideFacts
<1>5. AllParts("nbest.out", whole)
  <2>1. ASSUME NEW k \in 1 .. n
        PROVE  k \in DOMAIN PartsOf(whole) /\ artifacts[<<"nbest.out", k>>] = PartsOf(whole)[k]
    <3>1. <<"extract-best", k>> \in completed
      BY <1>1, <1>3 DEF Chunked
    <3>2. BestRight(k)
      BY <1>1, <1>2, <3>1 DEF AllRight
    <3>3. PICK src, part, c : /\ src = CorpusSide("src") /\ part = SplitFile(src, n)[k]
                              /\ c = PerPart(Len(src), n)
      OBVIOUS
    <3>4. src \in Seq(DOMAIN Hypotheses) /\ Len(whole) = Len(src)
      BY <1>2, <1>4, <3>3, SideFacts
    <3>5. k \in DOMAIN SplitFile(src, n)
      BY <1>1, <3>2, <3>3 DEF BestRight, PartsOf
    <3>6. k \in DOMAIN SplitFile(whole, n)
      BY <1>2, <1>4, <3>3, <3>4, <3>5, PartAlike
    <3> QED BY <1>1, <3>2, <3>6 DEF BestRight, PartsOf, Has
  <2> QED BY <1>1, <2>1 DEF AllParts
<1>6. result = Written(whole)
  BY <1>1, <1>2, <1>4, <1>5, CollectsWhole
<1>7. result.ok /\ result.lines = whole
  BY <1>6 DEF Written
<1>8. Maker(name) = t /\ t[1] \notin {"given", "split-corpus", "split-mono", "alignments"}
  BY <1>1, Makers DEF Task
<1>9. ASSUME Publishes(name, result.lines) PROVE AllRight({t})'
  <2>1. Translated' = whole
    BY <1>1, <1>9, SameInput DEF Publishes
  <2>2. Has("collected.corpus", 0, Translated)'
    BY <1>1, <1>7, <1>9, <2>1 DEF Has, Publishes
  <2> QED BY <1>1, <2>2 DEF AllRight, Task
<1> QED BY <1>3, <1>7, <1>8, <1>9, EndsKeeps

\* collect.sh on the monolingual corpus.
LEMMA CollectMonoKeeps ==
    ASSUME CorpusInv, CollectMono
    PROVE  CorpusInv'
<1>1. PICK t, n, whole, original, name, result :
         /\ t = Task("collect-mono") /\ n = input.split_chunks /\ whole = MonoTranslated
         /\ original = File("mono") /\ name = <<"collected.mono", 0>>
         /\ result = Collect(Fetched("out"), original)
  OBVIOUS
<1>2. /\ input \in Inputs /\ AllRight(completed) /\ n \in Nat \ {0}
      /\ original = input.mono /\ original \in Seq(DOMAIN Hypotheses)
  BY <1>1, InvFacts, InputFacts
<1>3. t \notin completed /\ Chunked("translate-mono") \subseteq completed /\ Ends(t, name, result)
  BY <1>1 DEF CollectMono, MayStart
<1>4. whole \in Seq(Texts) /\ Len(whole) = Len(original)
  BY <1>1, <1>2, TranslatedFacts
<1>5. AllParts("out", whole)
  <2>1. ASSUME NEW k \in 1 .. n
        PROVE  k \in DOMAIN PartsOf(whole) /\ artifacts[<<"out", k>>] = PartsOf(whole)[k]
    <3>1. <<"translate-mono", k>> \in completed
      BY <1>1, <1>3 DEF Chunked
    <3>2. OutRight(k)
      BY <1>1, <1>2, <3>1 DEF AllRight
    <3>3. PICK part, c : /\ part = SplitFile(original, n)[k] /\ c = PerPart(Len(original), n)
      OBVIOUS
    <3>4. k \in DOMAIN SplitFile(original, n)
      BY <1>1, <1>2, <3>2 DEF OutRight, PartsOf
    <3>5. k \in DOMAIN SplitFile(whole, n)
      <4>1. PICK file, D, T : file = original /\ D = DOMAIN Hypotheses /\ T = Texts
        OBVIOUS
      <4>2. /\ file \in Seq(D) /\ whole \in Seq(T) /\ Len(whole) = Len(file)
            /\ k \in DOMAIN SplitFile(file, n) /\ part = SplitFile(file, n)[k]
            /\ c = PerPart(Len(file), n)
        BY <1>2, <1>4, <3>3, <3>4, <4>1
      <4> QED BY <1>2, <4>2, PartAlike
    <3> QED BY <1>1, <3>2, <3>5 DEF OutRight, PartsOf, Has
  <2> QED BY <1>1, <2>1 DEF AllParts
<1>6. result = Written(whole)
  BY <1>1, <1>2, <1>4, <1>5, CollectsWhole
<1>7. result.ok /\ result.lines = whole
  BY <1>6 DEF Written
<1>8. Maker(name) = t /\ t[1] \notin {"given", "split-corpus", "split-mono", "alignments"}
  BY <1>1, Makers DEF Task
<1>9. ASSUME Publishes(name, result.lines) PROVE AllRight({t})'
  <2>1. MonoTranslated' = whole
    BY <1>1, <1>9, SameInput DEF Publishes
  <2>2. Has("collected.mono", 0, MonoTranslated)'
    BY <1>1, <1>7, <1>9, <2>1 DEF Has, Publishes
  <2> QED BY <1>1, <2>2 DEF AllRight, Task
<1> QED BY <1>3, <1>7, <1>8, <1>9, EndsKeeps

\* A task that publishes one file and cannot fail.
LEMMA PublishedKeeps ==
    ASSUME CorpusInv, NEW t, NEW name, NEW lines, Completes(t, Published(name, lines)),
           t \notin completed, t[1] \notin {"given", "split-corpus", "split-mono", "alignments"},
           Maker(<<name, 0>>) = t, Publishes(<<name, 0>>, lines) => AllRight({t})'
    PROVE  CorpusInv'
<1>1. PICK files, a : files = Published(name, lines) /\ a = <<name, 0>>
  OBVIOUS
<1>2. files = [x \in {a} |-> lines] /\ Completes(t, files)
  BY <1>1 DEF Published
<1>3. \A x \in DOMAIN files : Maker(x) = t
  BY <1>1, <1>2
<1>4. /\ UNCHANGED input /\ completed' = completed \cup {t}
      /\ \A x \in DOMAIN files : x \in DOMAIN artifacts' /\ artifacts'[x] = files[x]
      /\ \A x \in DOMAIN artifacts :
            x \notin DOMAIN files => x \in DOMAIN artifacts' /\ artifacts'[x] = artifacts[x]
  BY <1>2, CompletesHas
<1>5. Publishes(a, lines)
  BY <1>2, <1>4 DEF Publishes
<1> QED BY <1>1, <1>2, <1>3, <1>5, CompletesKeeps

\* merge-corpus.sh pastes each text with a translation of its own.
LEMMA PastedType ==
    ASSUME input \in Inputs, NEW lines,
           lines = Paste(CorpusSide("src") \o input.mono, Translated \o MonoTranslated)
    PROVE  lines \in Seq(Scored)
<1>1. PICK src, mono, T, M, S, D, n, m :
         /\ src = CorpusSide("src") /\ mono = input.mono /\ T = Translated
         /\ M = MonoTranslated /\ S = src \o mono /\ D = T \o M
         /\ n = Len(src) /\ m = Len(mono)
  OBVIOUS
<1>2. Beam \in Nat \ {0} /\ Ranked(Beam)
  BY InputFacts
<1>3. /\ src \in Seq(DOMAIN Hypotheses) /\ T \in Seq(Texts) /\ Len(T) = n /\ n \in Nat
      /\ DOMAIN input.corpus = 1 .. n
      /\ \A i \in 1 .. n : input.corpus[i].src \in DOMAIN Hypotheses
  BY <1>1, SideFacts, TranslatedFacts
<1>4. mono \in Seq(DOMAIN Hypotheses) /\ M \in Seq(Texts) /\ Len(M) = m /\ m \in Nat
  BY <1>1, InputFacts, TranslatedFacts
<1>5. /\ S \in Seq(DOMAIN Hypotheses) /\ Len(S) = n + m
      /\ \A i \in 1 .. n + m : S[i] = IF i <= n THEN src[i] ELSE mono[i - n]
  BY <1>1, <1>3, <1>4
<1>6. /\ D \in Seq(Texts) /\ Len(D) = n + m
      /\ \A i \in 1 .. n + m : D[i] = IF i <= n THEN T[i] ELSE M[i - n]
  <2>1. PICK X : X = Texts
    OBVIOUS
  <2>2. T \in Seq(X) /\ M \in Seq(X) /\ Len(T) = n /\ Len(M) = m
    BY <1>3, <1>4, <2>1
  <2>3. D = T \o M
    BY <1>1
  <2>4. D \in Seq(X) /\ Len(D) = n + m
    BY <2>2, <2>3, ConcatProperties
  <2>5. \A i \in 1 .. n + m : D[i] = IF i <= n THEN T[i] ELSE M[i - n]
    BY <1>3, <1>4, <2>2, <2>3
  <2> QED BY <2>1, <2>4, <2>5
<1>7. Max({Len(S), Len(D)}) = n + m
  <2>1. PICK a : a = n + m /\ a \in Int
    BY <1>3, <1>4
  <2>2. Max({a, a}) = a
    BY <2>1, GreatestOfTwo
  <2> QED BY <1>5, <1>6, <2>1, <2>2
<1>8. lines = [i \in 1 .. n + m |-> [src |-> S[i], trg |-> D[i]]]
  <2>1. \A i \in 1 .. n + m : i \in DOMAIN S /\ i \in DOMAIN D
    BY <1>5, <1>6
  <2>2. lines = [i \in 1 .. n + m |-> [src |-> LineOf(S, i), trg |-> LineOf(D, i)]]
    BY <1>1, <1>7 DEF Paste
  <2> QED BY <2>1, <2>2 DEF LineOf
<1>9. ASSUME NEW i \in 1 .. n + m
      PROVE  IsTranslation(D[i], S[i])
  <2>1. CASE i <= n
    <3>1. i \in 1 .. n /\ S[i] = src[i] /\ D[i] = T[i]
      BY <1>3, <1>4, <1>5, <1>6, <2>1
    <3>2. PICK text, reference, texts :
             /\ text = input.corpus[i].src /\ reference = input.corpus[i].trg
             /\ texts = SubSeq(Hypotheses[text], 1, Beam)
      OBVIOUS
    <3>3. text \in DOMAIN Hypotheses /\ src[i] = text
      BY <1>1, <1>3, <3>1, <3>2 DEF CorpusSide
    <3>4. T[i] = BestText(texts, reference)
      BY <1>1, <1>3, <3>1, <3>2 DEF Translated
    <3>5. IsTranslation(BestText(texts, reference), text)
      <4>1. PICK best : best = BestText(texts, reference)
        OBVIOUS
      <4>2. IsTranslation(best, text)
        <5>1. PICK b : b = Beam
          OBVIOUS
        <5>2. b \in Nat \ {0} /\ Ranked(b) /\ texts = SubSeq(Hypotheses[text], 1, b)
          BY <1>2, <3>2, <5>1
        <5> QED BY <3>3, <4>1, <5>2, BestOfBeam
      <4> QED BY <4>1, <4>2
    <3> QED BY <3>1, <3>3, <3>4, <3>5
  <2>2. CASE ~(i <= n)
    <3>1. i - n \in 1 .. m /\ S[i] = mono[i - n] /\ D[i] = M[i - n]
      BY <1>3, <1>4, <1>5, <1>6, <2>2
    <3>2. PICK j, text : j = i - n /\ text = mono[j]
      OBVIOUS
    <3>3. j \in DOMAIN mono /\ text \in DOMAIN Hypotheses
      BY <1>4, <1>1, <3>1, <3>2
    <3>4. M[j] = Hypotheses[text][1]
      BY <1>1, <3>2, <3>3 DEF MonoTranslated
    <3>5. PICK hyps : hyps = Hypotheses[text]
      OBVIOUS
    <3>6. hyps \in Seq(Texts) /\ Beam <= Len(hyps)
      BY <1>2, <3>3, <3>5 DEF Ranked
    <3>7. 1 \in DOMAIN hyps
      BY <1>2, <3>6
    <3> QED BY <3>1, <3>2, <3>4, <3>5, <3>7 DEF IsTranslation
  <2> QED BY <2>1, <2>2
<1>10. ASSUME NEW i \in 1 .. n + m PROVE lines[i] \in Scored
  <2>1. lines[i] = [src |-> S[i], trg |-> D[i]]
    BY <1>8
  <2>2. S[i] \in DOMAIN Hypotheses /\ D[i] \in Texts
    BY <1>5, <1>6
  <2>3. lines[i] \in [src : DOMAIN Hypotheses, trg : Texts]
    BY <2>1, <2>2
  <2>4. lines[i].src = S[i] /\ lines[i].trg = D[i]
    BY <2>1
  <2> QED BY <1>9, <2>3, <2>4 DEF Scored
<1>11. lines \in [1 .. n + m -> Scored] /\ n + m \in Nat
  BY <1>3, <1>4, <1>8, <1>10
<1> QED BY <1>11, IsSequence

\* Lines in the other order.
LEMMA ReverseType ==
    ASSUME NEW T, NEW lines \in Seq(T)
    PROVE  Reverse(lines) \in Seq(T)
<1>1. PICK n : n = Len(lines) /\ n \in Nat
  OBVIOUS
<1>2. \A i \in 1 .. n : lines[(n - i) + 1] \in T
  BY <1>1
<1>3. Reverse(lines) = [i \in 1 .. n |-> lines[(n - i) + 1]]
  BY <1>1 DEF Reverse
<1>4. Reverse(lines) \in [1 .. n -> T]
  BY <1>2, <1>3
<1> QED BY <1>1, <1>4, IsSequence

\* merge-corpus.sh
LEMMA MergeKeeps ==
    ASSUME CorpusInv, MergeTranslated
    PROVE  CorpusInv'
<1>1. PICK t : t = Task("merge-translated")
  OBVIOUS
<1>2. input \in Inputs /\ AllRight(completed)
      /\ File("corpus.src") = CorpusSide("src") /\ File("mono") = input.mono
  BY InvFacts
<1>3. /\ t \notin completed
      /\ Task("collect-corpus") \in completed /\ Task("collect-mono") \in completed
  BY <1>1 DEF MergeTranslated, MayStart
<1>4. File("collected.corpus") = Translated /\ File("collected.mono") = MonoTranslated
  BY <1>2, <1>3 DEF AllRight, Has, File
<1>5. PICK pasted :
         pasted = Paste(CorpusSide("src") \o input.mono, Translated \o MonoTranslated)
  OBVIOUS
<1>6. PICK lines \in Shuffled(pasted) : Completes(t, Published("merged", Dedupe(lines)))
  BY <1>1, <1>2, <1>4, <1>5 DEF MergeTranslated
<1>7. lines \in Seq(Scored)
  <2>1. pasted \in Seq(Scored)
    BY <1>2, <1>5, PastedType
  <2>2. Reverse(pasted) \in Seq(Scored)
    BY <2>1, ReverseType
  <2> QED BY <1>6, <2>1, <2>2 DEF Shuffled
<1>8. PICK merged : merged = Dedupe(lines)
  OBVIOUS
<1>9. merged \in Seq(Scored) /\ NoneTwice(merged)
  BY <1>7, <1>8, DedupeDistinct DEF NoneTwice
<1>10. /\ Maker(<<"merged", 0>>) = t
       /\ t[1] \notin {"given", "split-corpus", "split-mono", "alignments"}
  BY <1>1, Makers DEF Task
<1>11. ASSUME Publishes(<<"merged", 0>>, merged) PROVE AllRight({t})'
  <2>1. HasFile("merged")' /\ File("merged")' = merged
    BY <1>11 DEF Publishes, HasFile, File
  <2>2. MergedRight'
    BY <1>9, <2>1 DEF MergedRight, NoneTwice, Scored
  <2> QED BY <1>1, <2>2 DEF AllRight, Task
<1>12. Completes(t, Published("merged", merged))
  BY <1>6, <1>8
<1> QED BY <1>3, <1>10, <1>11, <1>12, PublishedKeeps

\* Every line that a teacher gave has a score.
LEMMA ScoreIsInt ==
    ASSUME NEW line \in Scored
    PROVE  Score[line] \in Int
<1>1. line \in [src : DOMAIN Hypotheses, trg : Texts] /\ IsTranslation(line.trg, line.src)
  BY DEF Scored
<1>2. PICK text, other : text = line.src /\ other = line.trg
  OBVIOUS
<1>3. text \in DOMAIN Hypotheses /\ line = [src |-> text, trg |-> other]
  BY <1>1, <1>2
<1>4. PICK k \in DOMAIN Hypotheses[text] : other = Hypotheses[text][k]
  BY <1>1, <1>2 DEF IsTranslation
<1> QED BY <1>3, <1>4, CorpusAssumption

\* score.sh
LEMMA ScoreKeeps ==
    ASSUME CorpusInv, ScoreCorpus
    PROVE  CorpusInv'
<1>1. PICK t, merged, scores :
         /\ t = Task("score") /\ merged = File("merged")
         /\ scores = [i \in DOMAIN merged |-> Score[merged[i]]]
  OBVIOUS
<1>2. AllRight(completed)
  BY InvFacts
<1>3. t \notin completed /\ Task("merge-translated") \in completed
  BY <1>1 DEF ScoreCorpus, MayStart
<1>4. Completes(t, Published("scores", scores))
  BY <1>1 DEF ScoreCorpus
<1>5. HasFile("merged")
  BY <1>2, <1>3 DEF AllRight, MergedRight
<1>6. /\ Maker(<<"scores", 0>>) = t
      /\ t[1] \notin {"given", "split-corpus", "split-mono", "alignments"}
  BY <1>1, Makers DEF Task
<1>7. ASSUME Publishes(<<"scores", 0>>, scores) PROVE AllRight({t})'
  <2>1. PICK a, b : a = <<"merged", 0>> /\ b = <<"scores", 0>>
    OBVIOUS
  <2>1a. a # b
    BY <2>1
  <2>2. a \in DOMAIN artifacts /\ artifacts[a] = merged
    BY <1>1, <1>5, <2>1 DEF HasFile, File
  <2>3. artifacts'[a] = merged /\ b \in DOMAIN artifacts' /\ artifacts'[b] = scores
    BY <1>7, <2>1, <2>1a, <2>2 DEF Publishes
  <2>4. File("merged")' = merged
    BY <2>1, <2>3 DEF File
  <2>5. [i \in DOMAIN File("merged")' |-> Score[File("merged")'[i]]] = scores
    BY <1>1, <2>4
  <2>6. Task("merge-translated") \in completed'
    BY <1>3, <1>7 DEF Publishes
  <2>7. ScoresRight'
    BY <2>1, <2>3, <2>5, <2>6 DEF ScoresRight, Has
  <2> QED BY <1>1, <2>7 DEF AllRight, Task
<1> QED BY <1>3, <1>4, <1>6, <1>7, PublishedKeeps

\* ce-filter.sh
LEMMA FilterKeeps ==
    ASSUME CorpusInv, FilterCorpus
    PROVE  CorpusInv'
<1>1. PICK t, name, merged, scores, result :
         /\ t = Task("cefilter") /\ name = <<"filtered", 0>> /\ merged = File("merged")
         /\ scores = File("scores") /\ result = CeFilter(merged, scores)
  OBVIOUS
<1>2. AllRight(completed)
  BY InvFacts
<1>3. t \notin completed /\ Task("score") \in completed /\ Ends(t, name, result)
  BY <1>1 DEF FilterCorpus, MayStart
<1>4. /\ Task("merge-translated") \in completed
      /\ scores = [i \in DOMAIN merged |-> Score[merged[i]]]
  BY <1>1, <1>2, <1>3 DEF AllRight, ScoresRight, Has, File
<1>5. HasFile("merged") /\ merged \in Seq(Scored) /\ NoneTwice(merged)
  BY <1>1, <1>2, <1>4 DEF AllRight, MergedRight
<1>6. PICK n : n = Len(merged) /\ n \in Nat /\ DOMAIN merged = 1 .. n
  BY <1>5
<1>7. scores \in [1 .. n -> Int]
  <2>1. ASSUME NEW i \in 1 .. n PROVE Score[merged[i]] \in Int
    <3>1. merged[i] \in Scored
      BY <1>5, <1>6
    <3> QED BY <3>1, ScoreIsInt
  <2> QED BY <1>4, <1>6, <2>1
<1>8. /\ Maker(name) = t /\ t[1] \notin {"given", "split-corpus", "split-mono", "alignments"}
      /\ t \notin {Task("collect-corpus"), Task("collect-mono")}
  BY <1>1, Makers DEF Task
<1>9. ASSUME result.ok, Publishes(name, result.lines) PROVE AllRight({t})'
  <2>1. PICK filtered : filtered = result.lines
    OBVIOUS
  <2>2. CeFilter(merged, scores) = Written(filtered)
    <3>1. result = Failed \/ \E lines : result = Written(lines)
      BY <1>1, Zenon DEF CeFilter
    <3> QED BY <1>1, <1>9, <2>1, <3>1 DEF Failed, Written
  <2>3. PICK all, kept : all = ToSet(merged) /\ kept = ToSet(filtered)
    OBVIOUS
  <2>4. /\ filtered \in Seq(Scored) /\ kept \subseteq all
        /\ 100 * Cardinality(all \ kept) <= RemovePercent * Cardinality(all)
        /\ \A i, j \in 1 .. Len(merged) :
              merged[i] \notin kept /\ merged[j] \in kept => scores[i] <= scores[j]
    <3>1. \A i, j \in 1 .. Len(merged) : merged[i] = merged[j] => i = j
      BY <1>5 DEF NoneTwice
    <3>2. scores \in [1 .. Len(merged) -> Int] /\ RemovePercent \in 0 .. 100
      BY <1>6, <1>7, CorpusAssumption
    <3> QED BY <1>5, <2>2, <2>3, <3>1, <3>2, FilterLeavesWorst
  <2>5. ASSUME NEW out \in all \ kept, NEW in \in kept PROVE Score[out] <= Score[in]
    <3>1. PICK i \in 1 .. n : merged[i] = out
      BY <1>6, <2>3 DEF ToSet
    <3>2. PICK j \in 1 .. n : merged[j] = in
      BY <1>6, <2>3, <2>4 DEF ToSet
    <3>3. scores[i] <= scores[j]
      BY <1>6, <2>4, <2>5, <3>1, <3>2
    <3> QED BY <1>4, <1>6, <3>1, <3>2, <3>3
  <2>6. WorstOut(merged, filtered)
    BY <2>3, <2>4, <2>5 DEF WorstOut
  <2>7. PICK a : a = <<"merged", 0>>
    OBVIOUS
  <2>8. a \in DOMAIN artifacts /\ artifacts[a] = merged /\ a # name
    BY <1>1, <1>5, <2>7 DEF HasFile, File
  <2>9. File("merged")' = merged
    BY <1>9, <2>7, <2>8 DEF Publishes, File
  <2>10. /\ HasFile("filtered")' /\ File("filtered")' = filtered
         /\ Task("merge-translated") \in completed'
    BY <1>1, <1>4, <1>9, <2>1 DEF Publishes, HasFile, File
  <2>11. FilteredRight'
    BY <2>4, <2>6, <2>9, <2>10 DEF FilteredRight, WorstOut, Scored, IsTranslation
  <2> QED BY <1>1, <2>11 DEF AllRight, Task
<1> QED BY <1>3, <1>8, <1>9, EndsKeeps

\* generate-shortlist.sh
LEMMA ShortlistKeeps ==
    ASSUME CorpusInv, GenerateShortlist
    PROVE  CorpusInv'
<1>1. PICK t : t = Task("shortlist")
  OBVIOUS
<1>2. t \notin completed
  BY <1>1 DEF GenerateShortlist, MayStart
<1>3. PICK lex, pruned : Completes(t, Update(Published("lex", lex), Published("pruned", pruned)))
  BY <1>1, Zenon DEF GenerateShortlist
<1>4. PICK files : files = Update(Published("lex", lex), Published("pruned", pruned))
  OBVIOUS
<1>5. \A a \in DOMAIN files : a \in {<<"lex", 0>>, <<"pruned", 0>>}
  BY <1>4 DEF Update, Published
<1>6. \A a \in DOMAIN files : Maker(a) = t
  BY <1>1, <1>5, Makers
<1>7. t[1] \notin {"given", "split-corpus", "split-mono", "alignments"}
  BY <1>1 DEF Task
<1>8. AllRight({t})'
  BY <1>1 DEF AllRight, Task
<1>9. Completes(t, files)
  BY <1>3, <1>4
<1> QED BY <1>2, <1>6, <1>7, <1>8, <1>9, CompletesKeeps

-----------------------------------------------------------------------------
(* The alignment.                                                          *)

\* A file is a sequence of its lines.
LEMMA LinesAre ==
    ASSUME NEW n \in Nat, NEW f, f = [i \in 1 .. n |-> f[i]]
    PROVE  f \in Seq(ToSet(f)) /\ Len(f) = n
<1>1. f \in [1 .. n -> ToSet(f)]
  BY DEF ToSet
<1> QED BY <1>1, IsSequence

\* The sides of the filtered corpus.
LEMMA FilteredFacts ==
    ASSUME input \in Inputs, FilteredRight, NEW n, n = Len(File("filtered")),
           NEW side \in {"src", "trg"}
    PROVE  /\ n \in Nat /\ DOMAIN File("filtered") = 1 .. n
           /\ Side(side) \in Seq(Texts) /\ Len(Side(side)) = n
           /\ \A i \in 1 .. n : /\ Side(side)[i] = File("filtered")[i][side]
                                /\ Tokens(side)[i] = Tokenize(input.tokenization, Side(side)[i])
           /\ Tokens(side) \in Seq(Texts) /\ Len(Tokens(side)) = n
<1>1. PICK file, S, K, tok : /\ file = File("filtered") /\ S = Side(side) /\ K = Tokens(side)
                             /\ tok = input.tokenization
  OBVIOUS
<1>2. tok \in {"moses", "icu"}
  BY <1>1, InputFacts
<1>3. file \in Seq(Scored) /\ n \in Nat /\ DOMAIN file = 1 .. n
  BY <1>1 DEF FilteredRight
<1>4. S = [i \in 1 .. n |-> file[i][side]]
  BY <1>1, <1>3 DEF Side
<1>5. K = [i \in 1 .. n |-> Tokenize(tok, file[i][side])]
  BY <1>1, <1>3 DEF Tokens
<1>6. ASSUME NEW i \in 1 .. n
      PROVE  S[i] = file[i][side] /\ K[i] = Tokenize(tok, S[i]) /\ S[i] \in Texts /\ K[i] \in Texts
  <2>1. PICK line : line = file[i] /\ line \in Scored
    BY <1>3
  <2>2. line \in [src : DOMAIN Hypotheses, trg : Texts]
    BY <2>1 DEF Scored
  <2>3. line[side] \in Texts
    <3>1. line.src \in Texts /\ line.trg \in Texts
      BY <2>2, CorpusAssumption
    <3> QED BY <3>1
  <2>4. PICK text : text = line[side]
    OBVIOUS
  <2>5. Tokenize(tok, text) \in Texts
    BY <1>2, <2>3, <2>4, TokensType
  <2> QED BY <1>4, <1>5, <2>1, <2>3, <2>4, <2>5
<1>7. S \in [1 .. n -> Texts] /\ K \in [1 .. n -> Texts]
  BY <1>4, <1>5, <1>6
<1>8. S \in Seq(Texts) /\ Len(S) = n
  BY <1>3, <1>7, IsSequence
<1>9. K \in Seq(Texts) /\ Len(K) = n
  BY <1>3, <1>7, IsSequence
<1> QED BY <1>1, <1>3, <1>6, <1>8, <1>9

\* The links of the lines, and the lines that are remapped.
LEMMA LinksFacts ==
    ASSUME input \in Inputs, FilteredRight, NEW n, n = Len(File("filtered"))
    PROVE  /\ LinksOf \in Seq(ToSet(LinksOf)) /\ Len(LinksOf) = n
           /\ Params \in Seq(ToSet(Params)) /\ Len(Params) = n
           /\ RowLinks \in Seq(ToSet(RowLinks)) /\ Len(RowLinks) = n
           /\ Align(Tokens("src"), Tokens("trg")) = LinksOf
<1>1. PICK file, src, trg : /\ file = File("filtered") /\ src = Tokens("src")
                            /\ trg = Tokens("trg")
  OBVIOUS
<1>2. n \in Nat /\ DOMAIN file = 1 .. n
  BY <1>1, FilteredFacts
<1>3. PICK L, P, R : L = LinksOf /\ P = Params /\ R = RowLinks
  OBVIOUS
<1>4. L = [i \in 1 .. n |-> L[i]]
  BY <1>1, <1>2, <1>3 DEF LinksOf
<1>5. P = [i \in 1 .. n |-> P[i]]
  BY <1>1, <1>2, <1>3 DEF Params
<1>6. R = [i \in 1 .. n |-> R[i]]
  BY <1>1, <1>2, <1>3 DEF RowLinks
<1>7. L \in Seq(ToSet(L)) /\ Len(L) = n
  BY <1>2, <1>4, LinesAre
<1>8. P \in Seq(ToSet(P)) /\ Len(P) = n
  BY <1>2, <1>5, LinesAre
<1>9. R \in Seq(ToSet(R)) /\ Len(R) = n
  BY <1>2, <1>6, LinesAre
<1>10. Align(src, trg) = L
  <2>1. src \in Seq(Texts) /\ Len(src) = n /\ trg \in Seq(Texts) /\ Len(trg) = n
    BY <1>1, FilteredFacts
  <2>2. PICK T : T = Seq(Strings)
    OBVIOUS
  <2>3. src \in Seq(Seq(T)) /\ trg \in Seq(Seq(T)) /\ Len(src) = Len(trg)
    BY <2>1, <2>2 DEF Texts
  <2>4. AlnChunkLines \in Nat \ {0}
    BY CorpusAssumption
  <2>5. Align(src, trg) = [i \in 1 .. Len(src) |-> Links(src[i], trg[i])]
    BY <2>3, <2>4, AlignIs
  <2>6. L = [i \in 1 .. n |-> Links(src[i], trg[i])]
    BY <1>1, <1>2, <1>3 DEF LinksOf
  <2> QED BY <2>1, <2>5, <2>6
<1> QED BY <1>1, <1>3, <1>7, <1>8, <1>9, <1>10

\* The links that a line of the training data should have.
LEMMA RowLinksAre ==
    ASSUME input \in Inputs, FilteredRight, NEW n, n = Len(File("filtered")), NEW i \in 1 .. n
    PROVE  /\ input.output_tokenized => RowLinks[i] = LinksOf[i]
           /\ ~input.output_tokenized =>
                 /\ input.tokenization = "moses"
                 /\ RowLinks[i] = WordLinks(Side("src")[i], Side("trg")[i], LinksOf[i])
<1>1. PICK line, src, trg, tok, links :
         /\ line = File("filtered")[i] /\ tok = input.tokenization
         /\ src = Tokens("src")[i] /\ trg = Tokens("trg")[i] /\ links = Links(src, trg)
  OBVIOUS
<1>2. i \in DOMAIN File("filtered")
  BY FilteredFacts
<1>3. LinksOf[i] = links /\ RowLinks[i] = Expected(line).aln
  BY <1>1, <1>2 DEF LinksOf, RowLinks
<1>4. /\ Side("src")[i] = line["src"] /\ src = Tokenize(tok, line["src"])
      /\ Side("trg")[i] = line["trg"] /\ trg = Tokenize(tok, line["trg"])
  BY <1>1, FilteredFacts
<1>5. /\ input.tokenization \in {"moses", "icu"}
      /\ input.tokenization = "icu" => input.output_tokenized
      /\ input.output_tokenized \in BOOLEAN
  BY InputFacts
<1>6. CASE input.output_tokenized
  <2>1. Expected(line).aln = links
    BY <1>1, <1>4, <1>6 DEF Expected, Links
  <2> QED BY <1>3, <1>6, <2>1
<1>7. CASE ~input.output_tokenized
  <2>1. Expected(line).aln = WordLinks(line.src, line.trg, links)
    BY <1>1, <1>4, <1>7 DEF Expected, Links, WordLinks
  <2> QED BY <1>3, <1>4, <1>5, <1>7, <2>1
<1> QED BY <1>6, <1>7

\* Each line that a pool works on has the right result.
LEMMA ResultIs ==
    ASSUME input \in Inputs, FilteredRight, pool.phase \in {"src", "trg", "remap"},
           pool.phase = "remap" => ~input.output_tokenized,
           NEW n, n = Len(File("filtered")), NEW i \in 1 .. n
    PROVE  /\ Result(PoolFile[i]) = PoolWhole[i]
           /\ pool.phase = "remap" => ~TokenMissing(PoolFile[i])
<1>1. CASE pool.phase = "src"
  <2>1. PoolFile = Side("src") /\ PoolWhole = Tokens("src")
    BY <1>1 DEF PoolFile, PoolWhole
  <2>2. Result(PoolFile[i]) = Tokenize(input.tokenization, PoolFile[i])
    BY <1>1 DEF Result
  <2>3. Tokens("src")[i] = Tokenize(input.tokenization, Side("src")[i])
    BY FilteredFacts
  <2> QED BY <1>1, <2>1, <2>2, <2>3
<1>2. CASE pool.phase = "trg"
  <2>1. PoolFile = Side("trg") /\ PoolWhole = Tokens("trg")
    BY <1>2 DEF PoolFile, PoolWhole
  <2>2. Result(PoolFile[i]) = Tokenize(input.tokenization, PoolFile[i])
    BY <1>2 DEF Result
  <2>3. Tokens("trg")[i] = Tokenize(input.tokenization, Side("trg")[i])
    BY FilteredFacts
  <2> QED BY <1>2, <2>1, <2>2, <2>3
<1>3. CASE pool.phase = "remap"
  <2>1. PoolFile = Params /\ PoolWhole = RowLinks
    BY <1>3 DEF PoolFile, PoolWhole
  <2>2. PICK params, src, trg : /\ params = Params[i] /\ src = Side("src")[i]
                                /\ trg = Side("trg")[i]
    OBVIOUS
  <2>3. /\ Tokens("src")[i] = Tokenize(input.tokenization, src)
        /\ Tokens("trg")[i] = Tokenize(input.tokenization, trg)
        /\ Side("src") \in Seq(Texts) /\ Len(Side("src")) = n
        /\ Side("trg") \in Seq(Texts) /\ Len(Side("trg")) = n
        /\ i \in DOMAIN File("filtered")
    BY <2>2, FilteredFacts
  <2>4. src \in Texts /\ trg \in Texts
    BY <2>2, <2>3
  <2>5. /\ input.tokenization = "moses"
        /\ RowLinks[i] = WordLinks(src, trg, LinksOf[i])
    BY <1>3, <2>2, RowLinksAre
  <2>6. params = [src |-> src, trg |-> trg, tok_src |-> Tokens("src")[i],
                  tok_trg |-> Tokens("trg")[i], aln |-> LinksOf[i]]
    BY <2>2, <2>3 DEF Params
  <2>7. LinksOf[i] = Links(Tokens("src")[i], Tokens("trg")[i])
    BY <2>3 DEF LinksOf
  <2>8. /\ params.src = src /\ params.trg = trg
        /\ params.tok_src = Tokenize("moses", src) /\ params.tok_trg = Tokenize("moses", trg)
        /\ params.aln = LinksOf[i] /\ params.aln = Links(params.tok_src, params.tok_trg)
    BY <2>3, <2>5, <2>6, <2>7
  <2>9. ~TokenMissing(params) /\ RemapLine(params) = WordLinks(src, trg, params.aln)
    BY <2>4, <2>8, RemapIs
  <2>10. Result(params) = RemapLine(params)
    BY <1>3 DEF Result
  <2> QED BY <2>1, <2>2, <2>5, <2>8, <2>9, <2>10
<1> QED BY <1>1, <1>2, <1>3

\* What a pool works on, and what it makes of it, have as many lines.
LEMMA PoolFacts ==
    ASSUME input \in Inputs, FilteredRight, pool.phase \in {"src", "trg", "remap"},
           NEW n, n = Len(File("filtered"))
    PROVE  \E S, T : /\ PoolFile \in Seq(S) /\ Len(PoolFile) = n
                     /\ PoolWhole \in Seq(T) /\ Len(PoolWhole) = n /\ n \in Nat
<1>1. CASE pool.phase = "src"
  <2>1. PoolFile = Side("src") /\ PoolWhole = Tokens("src")
    BY <1>1 DEF PoolFile, PoolWhole
  <2> QED BY <2>1, FilteredFacts
<1>2. CASE pool.phase = "trg"
  <2>1. PoolFile = Side("trg") /\ PoolWhole = Tokens("trg")
    BY <1>2 DEF PoolFile, PoolWhole
  <2> QED BY <2>1, FilteredFacts
<1>3. CASE pool.phase = "remap"
  <2>1. PoolFile = Params /\ PoolWhole = RowLinks
    BY <1>3 DEF PoolFile, PoolWhole
  <2>2. n \in Nat
    BY FilteredFacts
  <2> QED BY <2>1, <2>2, LinksFacts
<1> QED BY <1>1, <1>2, <1>3

\* A process of the pool, or the one that writes, goes on.
LEMMA PoolGoesOn ==
    ASSUME CorpusInv, UNCHANGED <<input, completed, failed, artifacts>>,
           pool.phase \in {"src", "trg", "remap"}, pool'.phase = pool.phase,
           pool' = [phase |-> pool'.phase, chunks |-> pool'.chunks, done |-> pool'.done,
                    output |-> pool'.output],
           PoolInOrder'
    PROVE  CorpusInv'
<1>1. PICK t : t = Task("alignments")
  OBVIOUS
<1>2. /\ input \in Inputs /\ PoolRight /\ OnlyParts /\ NothingLeftOut
      /\ t \notin completed
  BY <1>1, InvFacts DEF PoolRight
<1>3. KeepsOthers(t)
  BY AddsNothing
<1>4. t # Task("given") /\ t # Task("split-corpus") /\ t # Task("split-mono")
  BY <1>1 DEF Task
<1>5. OnlyParts'
  BY <1>2, <1>3, <1>4, OnlyPartsStays
<1>6. NothingLeftOut'
  BY <1>2 DEF NothingLeftOut
<1>7. PoolRight'
  <2>1. UNCHANGED input /\ File("filtered")' = File("filtered")
    BY DEF File
  <2>2. /\ Tokens("src")' = Tokens("src") /\ Tokens("trg")' = Tokens("trg")
        /\ LinksOf' = LinksOf
    BY <2>1, SameFiltered
  <2> QED BY <1>1, <1>2, <2>2 DEF PoolRight, Has
<1>8. t \notin completed'
  BY <1>2
<1> QED BY <1>2, <1>3, <1>4, <1>5, <1>6, <1>7, <1>8, StepKeeps

\* While a pool is at work.
LEMMA AtWork ==
    ASSUME CorpusInv, pool.done # {} \/ pool.chunks # <<>>
    PROVE  /\ input \in Inputs /\ FilteredRight
           /\ pool.phase \in {"src", "trg", "remap"} /\ PoolInOrder
           /\ pool.phase = "remap" => ~input.output_tokenized
           /\ pool = [phase |-> pool.phase, chunks |-> pool.chunks, done |-> pool.done,
                      output |-> pool.output]
<1>1. input \in Inputs /\ AllRight(completed) /\ PoolRight
  BY InvFacts
<1>2. pool.phase \in {"src", "trg", "remap"} /\ Task("cefilter") \in completed
  BY <1>1 DEF PoolRight
<1>3. FilteredRight
  BY <1>1, <1>2 DEF AllRight
<1> QED BY <1>1, <1>2, <1>3 DEF PoolRight

\* The file and the result of a pool are the same when only the pool goes on.
LEMMA SameWork ==
    ASSUME UNCHANGED <<input, completed, artifacts>>, pool'.phase = pool.phase
    PROVE  PoolFile' = PoolFile /\ PoolWhole' = PoolWhole
<1>1. UNCHANGED input /\ File("filtered")' = File("filtered")
  BY DEF File
<1>2. /\ Side("src")' = Side("src") /\ Side("trg")' = Side("trg")
      /\ Tokens("src")' = Tokens("src") /\ Tokens("trg")' = Tokens("trg")
      /\ Params' = Params /\ RowLinks' = RowLinks
  BY <1>1, SameFiltered
<1> QED BY <1>2 DEF PoolFile, PoolWhole

\* The places of the chunks of a pool, one after the other.
InOrder(output, whole, m) ==
    output = [i \in 1 .. m |-> [chunk |-> i, lines |-> Cut(whole, PoolChunk)[i]]]

\* _tokenize_lines and remap_line
LEMMA WorkKeeps ==
    ASSUME CorpusInv, NEW c, WorkOnChunk(c)
    PROVE  CorpusInv'
<1>1. /\ c \in DOMAIN pool.chunks /\ pool' = [pool EXCEPT !.done = @ \cup {c}]
      /\ UNCHANGED <<input, completed, failed, artifacts>>
  BY DEF WorkOnChunk
<1>2. pool.chunks # <<>>
  BY <1>1
<1>3. /\ pool.phase \in {"src", "trg", "remap"} /\ PoolInOrder
      /\ pool = [phase |-> pool.phase, chunks |-> pool.chunks, done |-> pool.done,
                 output |-> pool.output]
  BY <1>2, AtWork
<1>4. /\ pool'.phase = pool.phase /\ pool'.chunks = pool.chunks /\ pool'.output = pool.output
      /\ pool'.done = pool.done \cup {c}
      /\ pool' = [phase |-> pool'.phase, chunks |-> pool'.chunks, done |-> pool'.done,
                  output |-> pool'.output]
  <2>1. PICK ph, ch, d, o : pool = [phase |-> ph, chunks |-> ch, done |-> d, output |-> o]
    BY <1>3
  <2> QED BY <1>1, <2>1
<1>5. PICK cf, whole : cf = Cut(PoolFile, PoolChunk) /\ whole = PoolWhole
  OBVIOUS
<1>6. Cut(PoolFile, PoolChunk)' = cf /\ PoolWhole' = whole
  BY <1>1, <1>4, <1>5, SameWork DEF Cut
<1>7. /\ pool.chunks = cf /\ pool.done \subseteq DOMAIN pool.chunks
      /\ \E m \in 0 .. Len(pool.chunks) : InOrder(pool.output, whole, m)
  BY <1>3, <1>5 DEF PoolInOrder, InOrder
<1>8. /\ pool'.chunks = cf /\ pool'.done \subseteq DOMAIN pool'.chunks
      /\ \E m \in 0 .. Len(pool'.chunks) : InOrder(pool'.output, whole, m)
  BY <1>1, <1>4, <1>7
<1>9. PoolInOrder'
  BY <1>6, <1>8 DEF PoolInOrder, InOrder, Cut
<1> QED BY <1>1, <1>3, <1>4, <1>9, PoolGoesOn

\* imap: the next result is that of the next chunk.
LEMMA NextInOrder ==
    ASSUME NEW whole, NEW m \in Nat, InOrder(pool.output, whole, m),
           NEW c \in NextResult(ToSet([i \in DOMAIN pool.output |-> pool.output[i].chunk]))
    PROVE  c = m + 1 /\ c \in pool.done /\ Len(pool.output) = m /\ DOMAIN pool.output = 1 .. m
<1>1. PICK cut, output : cut = Cut(whole, PoolChunk) /\ output = pool.output
  OBVIOUS
<1>2. output = [i \in 1 .. m |-> [chunk |-> i, lines |-> cut[i]]]
  BY <1>1 DEF InOrder
<1>3. DOMAIN output = 1 .. m /\ Len(output) = m
  <2>1. output \in [1 .. m -> ToSet(output)]
    BY <1>2 DEF ToSet
  <2> QED BY <2>1, IsSequence
<1>4. PICK written : written = ToSet([i \in DOMAIN output |-> output[i].chunk])
  OBVIOUS
<1>5. written = 1 .. m
  <2>1. [i \in DOMAIN output |-> output[i].chunk] = [i \in 1 .. m |-> i]
    BY <1>2, <1>3
  <2> QED BY <1>4, <2>1 DEF ToSet
<1>6. Cardinality(written) = m
  BY <1>5, FS_Interval
<1>7. c \in pool.done /\ c = Cardinality(written) + 1
  BY <1>1, <1>4 DEF NextResult
<1> QED BY <1>1, <1>3, <1>6, <1>7

\* A chunk of the results.
LEMMA ChunkOfResults ==
    ASSUME input \in Inputs, FilteredRight, pool.phase \in {"src", "trg", "remap"},
           pool.phase = "remap" => ~input.output_tokenized,
           NEW c \in DOMAIN Cut(PoolFile, PoolChunk),
           NEW chunk, chunk = Cut(PoolFile, PoolChunk)[c],
           NEW lines, lines = [i \in DOMAIN chunk |-> Result(chunk[i])]
    PROVE  /\ lines = Cut(PoolWhole, PoolChunk)[c]
           /\ ~(pool.phase = "remap" /\ \E i \in DOMAIN chunk : TokenMissing(chunk[i]))
<1>1. PICK n, file, whole, p : /\ n = Len(File("filtered")) /\ file = PoolFile
                               /\ whole = PoolWhole /\ p = PoolChunk
  OBVIOUS
<1>2. PICK S, T : /\ file \in Seq(S) /\ Len(file) = n /\ whole \in Seq(T) /\ Len(whole) = n
                  /\ n \in Nat
  BY <1>1, PoolFacts
<1>3. p \in Nat \ {0}
  BY <1>1, CorpusAssumption
<1>4. c \in 1 .. NumParts(file, p) /\ chunk = Cut(file, p)[c]
  <2>1. PICK cut : cut = Cut(file, p)
    OBVIOUS
  <2>2. DOMAIN cut = 1 .. NumParts(file, p)
    BY <2>1 DEF Cut, NumParts
  <2> QED BY <1>1, <2>1, <2>2
<1>5. chunk \in Seq(S) /\ Placed(chunk, file, p, c)
  BY <1>2, <1>3, <1>4, CutPart
<1>6. Cut(whole, p)[c] = PartMade(whole, chunk, p, c)
  BY <1>2, <1>3, <1>4, CutAlike
<1>7. PICK m : m = Len(chunk) /\ DOMAIN chunk = 1 .. m
  BY <1>5
<1>8. ASSUME NEW j \in 1 .. m
      PROVE  /\ Result(chunk[j]) = whole[(c - 1) * p + j]
             /\ pool.phase = "remap" => ~TokenMissing(chunk[j])
  <2>1. PICK i : i = (c - 1) * p + j
    OBVIOUS
  <2>2. i \in 1 .. n /\ chunk[j] = file[i]
    BY <1>2, <1>5, <1>7, <2>1 DEF Placed
  <2>3. /\ Result(PoolFile[i]) = PoolWhole[i]
        /\ pool.phase = "remap" => ~TokenMissing(PoolFile[i])
    BY <1>1, <2>2, ResultIs
  <2> QED BY <1>1, <2>1, <2>2, <2>3
<1>9. lines = [j \in 1 .. m |-> whole[(c - 1) * p + j]]
  BY <1>7, <1>8
<1> QED BY <1>1, <1>6, <1>7, <1>8, <1>9 DEF PartMade

\* The results are written in the order of the chunks, whichever is done first.
LEMMA WriteKeeps ==
    ASSUME CorpusInv, WriteResult
    PROVE  CorpusInv'
<1>1. PICK c \in NextResult(ToSet([i \in DOMAIN pool.output |-> pool.output[i].chunk])) :
         LET chunk == pool.chunks[c]
         IN  IF pool.phase = "remap" /\ \E i \in DOMAIN chunk : TokenMissing(chunk[i])
             THEN /\ failed' = failed \cup {Task("alignments")}
                  /\ pool' = NoPool
                  /\ UNCHANGED <<input, completed, artifacts>>
             ELSE /\ pool' = [pool EXCEPT !.output = Append(@,
                        [chunk |-> c, lines |-> [i \in DOMAIN chunk |-> Result(chunk[i])]])]
                  /\ UNCHANGED <<input, completed, failed, artifacts>>
  BY Zenon DEF WriteResult
<1>2. pool.done # {}
  BY DEF NextResult
<1>3. /\ input \in Inputs /\ FilteredRight
      /\ pool.phase \in {"src", "trg", "remap"} /\ PoolInOrder
      /\ pool.phase = "remap" => ~input.output_tokenized
      /\ pool = [phase |-> pool.phase, chunks |-> pool.chunks, done |-> pool.done,
                 output |-> pool.output]
  BY <1>2, AtWork
<1>4. PICK cf, whole, cw : /\ cf = Cut(PoolFile, PoolChunk) /\ whole = PoolWhole
                           /\ cw = Cut(whole, PoolChunk)
  OBVIOUS
<1>5. /\ pool.chunks = cf /\ pool.done \subseteq DOMAIN pool.chunks
      /\ \E m \in 0 .. Len(pool.chunks) : InOrder(pool.output, whole, m)
  BY <1>3, <1>4 DEF PoolInOrder, InOrder
<1>6. PICK m \in 0 .. Len(pool.chunks) : InOrder(pool.output, whole, m)
  BY <1>5
<1>7. m \in Nat /\ c = m + 1 /\ c \in pool.done /\ Len(pool.output) = m
      /\ DOMAIN pool.output = 1 .. m
  <2>1. m \in Nat
    OBVIOUS
  <2> QED BY <1>6, <2>1, NextInOrder
<1>8. PICK chunk, lines : /\ chunk = pool.chunks[c]
                          /\ lines = [i \in DOMAIN chunk |-> Result(chunk[i])]
  OBVIOUS
<1>9. /\ lines = cw[c]
      /\ ~(pool.phase = "remap" /\ \E i \in DOMAIN chunk : TokenMissing(chunk[i]))
  <2>1. c \in DOMAIN Cut(PoolFile, PoolChunk) /\ chunk = Cut(PoolFile, PoolChunk)[c]
    BY <1>4, <1>5, <1>7, <1>8
  <2> QED BY <1>3, <1>4, <1>8, <2>1, ChunkOfResults
<1>10. /\ pool' = [pool EXCEPT !.output = Append(@, [chunk |-> c, lines |-> lines])]
       /\ UNCHANGED <<input, completed, failed, artifacts>>
  BY <1>1, <1>8, <1>9, Zenon
<1>11. /\ pool'.phase = pool.phase /\ pool'.chunks = pool.chunks /\ pool'.done = pool.done
       /\ pool'.output = Append(pool.output, [chunk |-> c, lines |-> lines])
       /\ pool' = [phase |-> pool'.phase, chunks |-> pool'.chunks, done |-> pool'.done,
                   output |-> pool'.output]
  <2>1. PICK ph, ch, d, o : pool = [phase |-> ph, chunks |-> ch, done |-> d, output |-> o]
    BY <1>3
  <2>2. PICK x : x = [chunk |-> c, lines |-> lines]
    OBVIOUS
  <2> QED BY <1>10, <2>1, <2>2
<1>12. InOrder(pool'.output, whole, m + 1)
  <2>1. PICK o, T : o = pool.output /\ T = ToSet(o)
    OBVIOUS
  <2>2. o = [i \in 1 .. m |-> [chunk |-> i, lines |-> cw[i]]]
    BY <1>4, <1>6, <2>1 DEF InOrder
  <2>3. PICK x : x = [chunk |-> c, lines |-> lines]
    OBVIOUS
  <2>4. x = [chunk |-> m + 1, lines |-> cw[m + 1]]
    BY <1>7, <1>9, <2>3
  <2>5. Append(o, x) = [i \in 1 .. m + 1 |-> IF i = m + 1 THEN x ELSE o[i]]
    <3>1. o = [i \in 1 .. m |-> o[i]] /\ m \in Nat
      BY <1>7, <2>2
    <3>2. o \in Seq(T) /\ Len(o) = m
      BY <2>1, <3>1, LinesAre
    <3>3. PICK U : U = T \cup {x}
      OBVIOUS
    <3>4. o \in Seq(U) /\ x \in U
      BY <3>2, <3>3
    <3>5. /\ Append(o, x) \in Seq(U) /\ Len(Append(o, x)) = m + 1
          /\ \A i \in 1 .. m : Append(o, x)[i] = o[i]
          /\ Append(o, x)[m + 1] = x
      BY <3>2, <3>4, AppendProperties
    <3>6. PICK y : y = Append(o, x)
      OBVIOUS
    <3>7. y = [i \in 1 .. m + 1 |-> y[i]]
      BY <3>1, <3>5, <3>6
    <3>8. \A i \in 1 .. m + 1 : y[i] = IF i = m + 1 THEN x ELSE o[i]
      BY <3>1, <3>5, <3>6
    <3> QED BY <3>6, <3>7, <3>8
  <2>6. Append(o, x) = [i \in 1 .. m + 1 |-> [chunk |-> i, lines |-> cw[i]]]
    BY <2>2, <2>4, <2>5, <1>7
  <2> QED BY <1>4, <1>11, <2>1, <2>3, <2>6 DEF InOrder
<1>13. m + 1 \in 0 .. Len(pool'.chunks)
  <2>1. c \in 1 .. NumParts(PoolFile, PoolChunk)
    <3>1. DOMAIN cf = 1 .. NumParts(PoolFile, PoolChunk)
      BY <1>4 DEF Cut, NumParts
    <3> QED BY <1>5, <1>7, <3>1
  <2>2. Len(cf) = NumParts(PoolFile, PoolChunk) /\ NumParts(PoolFile, PoolChunk) \in Nat
    <3>1. PICK n, file, p : n = Len(File("filtered")) /\ file = PoolFile /\ p = PoolChunk
      OBVIOUS
    <3>2. PICK S : file \in Seq(S)
      BY <1>3, <3>1, PoolFacts
    <3>3. p \in Nat \ {0}
      BY <3>1, CorpusAssumption
    <3> QED BY <1>4, <3>1, <3>2, <3>3, CutLines
  <2> QED BY <1>5, <1>7, <1>11, <2>1, <2>2
<1>14. PoolInOrder'
  <2>1. Cut(PoolFile, PoolChunk)' = cf /\ PoolWhole' = whole
    BY <1>4, <1>10, <1>11, SameWork DEF Cut
  <2>2. /\ pool'.chunks = cf /\ pool'.done \subseteq DOMAIN pool'.chunks
        /\ \E k \in 0 .. Len(pool'.chunks) : InOrder(pool'.output, whole, k)
    BY <1>5, <1>11, <1>12, <1>13
  <2> QED BY <2>1, <2>2 DEF PoolInOrder, InOrder, Cut
<1> QED BY <1>3, <1>10, <1>11, <1>14, PoolGoesOn

\* When all results are written, together they are what the pool should make.
LEMMA PoolDone ==
    ASSUME CorpusInv, NEW phase \in {"src", "trg", "remap"}, PoolEnds(phase)
    PROVE  PoolOutput = PoolWhole
<1>1. pool.phase = phase /\ Len(pool.output) = Len(pool.chunks)
  BY DEF PoolEnds
<1>2. input \in Inputs /\ AllRight(completed) /\ PoolRight
  BY InvFacts
<1>3. PoolInOrder /\ FilteredRight
  BY <1>1, <1>2 DEF PoolRight, AllRight
<1>4. PICK n, file, whole, p, cut, output :
         /\ n = Len(File("filtered")) /\ file = PoolFile /\ whole = PoolWhole
         /\ p = PoolChunk /\ cut = Cut(whole, p) /\ output = pool.output
  OBVIOUS
<1>5. p \in Nat \ {0}
  BY <1>4, CorpusAssumption
<1>6. PICK S, T : file \in Seq(S) /\ Len(file) = n /\ whole \in Seq(T) /\ Len(whole) = n
  BY <1>1, <1>2, <1>3, <1>4, PoolFacts
<1>7. PICK m \in 0 .. Len(pool.chunks) : output = [i \in 1 .. m |-> [chunk |-> i, lines |-> cut[i]]]
  BY <1>3, <1>4 DEF PoolInOrder
<1>8. DOMAIN output = 1 .. m /\ Len(output) = m
  <2>1. output = [i \in 1 .. m |-> output[i]] /\ m \in Nat
    BY <1>7
  <2>2. output \in Seq(ToSet(output)) /\ Len(output) = m
    BY <2>1, LinesAre
  <2> QED BY <2>2
<1>9. pool.chunks = Cut(file, p)
  BY <1>3, <1>4 DEF PoolInOrder
<1>10. /\ Len(Cut(file, p)) = NumParts(file, p)
       /\ Len(cut) = NumParts(whole, p) /\ cut \in Seq(Seq(T))
  BY <1>4, <1>5, <1>6, CutLines
<1>11. NumParts(file, p) = NumParts(whole, p)
  BY <1>6 DEF NumParts
<1>12. m = Len(cut)
  BY <1>1, <1>4, <1>8, <1>9, <1>10, <1>11
<1>13. [i \in DOMAIN output |-> output[i].lines] = cut
  <2>1. [i \in DOMAIN output |-> output[i].lines] = [i \in 1 .. m |-> cut[i]]
    BY <1>7, <1>8
  <2>2. cut = [i \in 1 .. m |-> cut[i]]
    BY <1>10, <1>12
  <2> QED BY <2>1, <2>2
<1>14. FlattenSeq(cut) = whole
  BY <1>4, <1>5, <1>6, ChunksTogether
<1> QED BY <1>4, <1>13, <1>14 DEF PoolOutput

\* A new pool has written nothing.
LEMMA StartsInOrder ==
    ASSUME NEW phase, NEW S, NEW file \in Seq(S), StartPool(phase, file), PoolFile' = file
    PROVE  /\ PoolInOrder' /\ pool'.phase = phase
           /\ pool' = [phase |-> pool'.phase, chunks |-> pool'.chunks, done |-> pool'.done,
                       output |-> pool'.output]
<1>1. PICK cut, p : p = PoolChunk /\ cut = Cut(file, p)
  OBVIOUS
<1>2. InChunks(file) = cut
  BY <1>1 DEF InChunks, Cut
<1>3. pool' = [phase |-> phase, chunks |-> cut, done |-> {}, output |-> <<>>]
  BY <1>2 DEF StartPool
<1>4. p \in Nat \ {0}
  BY <1>1, CorpusAssumption
<1>5. Len(cut) \in Nat
  BY <1>1, <1>4, CutLines
<1>6. PICK whole : whole = PoolWhole'
  OBVIOUS
<1>7. InOrder(pool'.output, whole, 0) /\ 0 \in 0 .. Len(pool'.chunks)
  <2>1. PICK cw : cw = Cut(whole, PoolChunk)
    OBVIOUS
  <2>2. [i \in 1 .. 0 |-> [chunk |-> i, lines |-> cw[i]]] = <<>>
    OBVIOUS
  <2> QED BY <1>3, <1>5, <2>1, <2>2 DEF InOrder
<1>8. pool'.chunks = Cut(PoolFile, PoolChunk)' /\ pool'.done \subseteq DOMAIN pool'.chunks
  BY <1>1, <1>3 DEF Cut
<1>9. PoolInOrder'
  BY <1>6, <1>7, <1>8 DEF PoolInOrder, InOrder, Cut
<1> QED BY <1>3, <1>9

\* What a step of align.py leaves alone.
LEMMA AlignStep ==
    ASSUME CorpusInv, NEW t, t = Task("alignments"), KeepsOthers(t), t \notin completed,
           Task("cefilter") \in completed, UNCHANGED failed
    PROVE  /\ input \in Inputs /\ FilteredRight /\ t # Task("given")
           /\ OnlyParts' /\ NothingLeftOut' /\ Task("cefilter") \in completed'
           /\ File("filtered")' = File("filtered")
           /\ Side("src")' = Side("src") /\ Side("trg")' = Side("trg")
           /\ Tokens("src")' = Tokens("src") /\ Tokens("trg")' = Tokens("trg")
           /\ LinksOf' = LinksOf /\ Params' = Params /\ RowLinks' = RowLinks
<1>1. /\ input \in Inputs /\ OnlyParts /\ NothingLeftOut /\ AllRight(completed)
  BY InvFacts
<1>2. FilteredRight /\ HasFile("filtered")
  BY <1>1 DEF AllRight, FilteredRight
<1>3. t # Task("given") /\ t # Task("split-corpus") /\ t # Task("split-mono")
  BY DEF Task
<1>4. OnlyParts'
  BY <1>1, <1>3, OnlyPartsStays
<1>5. NothingLeftOut'
  BY <1>1 DEF NothingLeftOut
<1>6. UNCHANGED input /\ Task("cefilter") \in completed'
  BY DEF KeepsOthers
<1>7. File("filtered")' = File("filtered")
  <2>1. Maker(<<"filtered", 0>>) = Task("cefilter")
    BY Makers
  <2> QED BY <1>2, <2>1, FileSame
<1> QED BY <1>1, <1>2, <1>3, <1>4, <1>5, <1>6, <1>7, SameFiltered

\* tokenize() of the source begins.
LEMMA StartKeeps ==
    ASSUME CorpusInv, StartAlignment
    PROVE  CorpusInv'
<1>1. PICK t, file : t = Task("alignments") /\ file = Side("src")
  OBVIOUS
<1>2. /\ t \notin completed /\ Task("cefilter") \in completed /\ StartPool("src", file)
      /\ UNCHANGED <<input, completed, failed, artifacts>>
  BY <1>1 DEF StartAlignment, MayStart
<1>3. KeepsOthers(t)
  BY <1>2, AddsNothing
<1>4. /\ input \in Inputs /\ FilteredRight /\ t # Task("given")
      /\ OnlyParts' /\ NothingLeftOut' /\ Task("cefilter") \in completed'
      /\ Side("src")' = file
  BY <1>1, <1>2, <1>3, AlignStep
<1>5. file \in Seq(Texts)
  BY <1>1, <1>4, FilteredFacts
<1>6. pool'.phase = "src"
  BY <1>2 DEF StartPool
<1>7. PoolFile' = file
  BY <1>4, <1>6 DEF PoolFile
<1>8. PICK phase : phase = "src"
  OBVIOUS
<1>9. /\ PoolInOrder'
      /\ pool' = [phase |-> pool'.phase, chunks |-> pool'.chunks, done |-> pool'.done,
                  output |-> pool'.output]
  BY <1>2, <1>5, <1>7, <1>8, StartsInOrder
<1>10. PoolRight'
  BY <1>1, <1>2, <1>4, <1>6, <1>9 DEF PoolRight
<1> QED BY <1>2, <1>3, <1>4, <1>10, StepKeeps

\* Files that are written beside those that are there.
LEMMA AddedFiles ==
    ASSUME NEW files, artifacts' = Update(artifacts, files)
    PROVE  /\ \A a \in DOMAIN files : a \in DOMAIN artifacts' /\ artifacts'[a] = files[a]
           /\ \A a \in DOMAIN artifacts :
                 a \notin DOMAIN files => a \in DOMAIN artifacts' /\ artifacts'[a] = artifacts[a]
BY DEF Update

\* What is known while align.py runs.
LEMMA AlignFacts ==
    ASSUME CorpusInv, pool.phase # "none"
    PROVE  /\ Task("alignments") \notin completed /\ Task("cefilter") \in completed
           /\ input \in Inputs /\ PoolRight /\ FilteredRight
<1>1. input \in Inputs /\ AllRight(completed) /\ PoolRight
  BY InvFacts
<1>2. Task("alignments") \notin completed /\ Task("cefilter") \in completed
  BY <1>1 DEF PoolRight
<1> QED BY <1>1, <1>2 DEF AllRight

\* The source is tokenized.
LEMMA SourceKeeps ==
    ASSUME CorpusInv, TokenizeSource
    PROVE  CorpusInv'
<1>1. PICK t, file, output, files :
         /\ t = Task("alignments") /\ file = Side("trg") /\ output = PoolOutput
         /\ files = Published("tokenized.src", output)
  OBVIOUS
<1>2. /\ PoolEnds("src") /\ StartPool("trg", file) /\ artifacts' = Update(artifacts, files)
      /\ UNCHANGED <<input, completed, failed>>
  BY <1>1 DEF TokenizeSource
<1>3. pool.phase = "src"
  BY <1>2 DEF PoolEnds
<1>4. t \notin completed /\ Task("cefilter") \in completed
  BY <1>1, <1>3, AlignFacts
<1>5. output = Tokens("src")
  <2>1. output = PoolWhole
    BY <1>1, <1>2, PoolDone
  <2> QED BY <1>3, <2>1 DEF PoolWhole
<1>6. files = [a \in {<<"tokenized.src", 0>>} |-> output]
  BY <1>1 DEF Published
<1>7. KeepsOthers(t)
  <2>1. \A a \in DOMAIN files : Maker(a) = t
    BY <1>1, <1>6, Makers
  <2> QED BY <1>2, <2>1, AddsOnly
<1>8. /\ input \in Inputs /\ FilteredRight /\ t # Task("given")
      /\ OnlyParts' /\ NothingLeftOut' /\ Task("cefilter") \in completed'
      /\ Side("trg")' = file /\ Tokens("src")' = output
  BY <1>1, <1>2, <1>4, <1>5, <1>7, AlignStep
<1>9. Has("tokenized.src", 0, Tokens("src"))'
  <2>1. \A a \in DOMAIN files : a \in DOMAIN artifacts' /\ artifacts'[a] = files[a]
    BY <1>2, AddedFiles
  <2>2. PICK a : a = <<"tokenized.src", 0>>
    OBVIOUS
  <2>3. a \in DOMAIN artifacts' /\ artifacts'[a] = output
    BY <1>6, <2>1, <2>2
  <2> QED BY <1>8, <2>2, <2>3 DEF Has
<1>10. file \in Seq(Texts)
  BY <1>1, <1>8, FilteredFacts
<1>11. pool'.phase = "trg"
  BY <1>2 DEF StartPool
<1>12. PoolFile' = file
  BY <1>8, <1>11 DEF PoolFile
<1>13. PICK phase : phase = "trg"
  OBVIOUS
<1>14. /\ PoolInOrder'
       /\ pool' = [phase |-> pool'.phase, chunks |-> pool'.chunks, done |-> pool'.done,
                   output |-> pool'.output]
  BY <1>2, <1>10, <1>12, <1>13, StartsInOrder
<1>15. PoolRight'
  BY <1>1, <1>2, <1>4, <1>8, <1>9, <1>11, <1>14 DEF PoolRight
<1> QED BY <1>2, <1>4, <1>7, <1>8, <1>15, StepKeeps

\* The target is tokenized, and the tokens are aligned.
LEMMA TargetKeeps ==
    ASSUME CorpusInv, TokenizeTarget
    PROVE  CorpusInv'
<1>1. PICK t, src, output, links, files, params :
         /\ t = Task("alignments") /\ src = Tokenized("src") /\ output = PoolOutput
         /\ links = Align(src, output)
         /\ files = Update(Published("tokenized.trg", output), Published("links", links))
         /\ params = [i \in DOMAIN links |->
                         [src |-> Side("src")[i], trg |-> Side("trg")[i], tok_src |-> src[i],
                          tok_trg |-> output[i], aln |-> links[i]]]
  OBVIOUS
<1>2. /\ PoolEnds("trg") /\ artifacts' = Update(artifacts, files)
      /\ IF input.output_tokenized THEN pool' = [NoPool EXCEPT !.phase = "aligned"]
         ELSE StartPool("remap", params)
      /\ UNCHANGED <<input, completed, failed>>
  BY <1>1 DEF TokenizeTarget
<1>3. pool.phase = "trg"
  BY <1>2 DEF PoolEnds
<1>4. /\ t \notin completed /\ Task("cefilter") \in completed /\ input \in Inputs
      /\ FilteredRight /\ PoolRight
  BY <1>1, <1>3, AlignFacts
<1>5. output = Tokens("trg") /\ Has("tokenized.src", 0, Tokens("src"))
  <2>1. output = PoolWhole
    BY <1>1, <1>2, PoolDone
  <2> QED BY <1>3, <1>4, <2>1 DEF PoolWhole, PoolRight
<1>6. src = Tokens("src")
  BY <1>1, <1>5 DEF Has, Tokenized, TokenizedName, File
<1>7. links = LinksOf
  BY <1>1, <1>4, <1>5, <1>6, LinksFacts
<1>8. params = Params
  <2>1. DOMAIN links = DOMAIN File("filtered")
    BY <1>7 DEF LinksOf
  <2> QED BY <1>1, <1>5, <1>6, <1>7, <2>1 DEF Params
<1>9. PICK a, b, s : /\ a = <<"tokenized.trg", 0>> /\ b = <<"links", 0>>
                     /\ s = <<"tokenized.src", 0>>
  OBVIOUS
<1>10. a # b /\ s # a /\ s # b
  BY <1>9
<1>11. /\ DOMAIN files = {a, b} /\ files[a] = output /\ files[b] = links
  BY <1>1, <1>9, <1>10 DEF Update, Published
<1>12. KeepsOthers(t)
  <2>1. \A x \in DOMAIN files : Maker(x) = t
    BY <1>1, <1>9, <1>11, Makers
  <2> QED BY <1>2, <2>1, AddsOnly
<1>13. /\ t # Task("given")
       /\ OnlyParts' /\ NothingLeftOut' /\ Task("cefilter") \in completed'
       /\ Tokens("src")' = src /\ Tokens("trg")' = output
       /\ LinksOf' = links /\ Params' = params
  BY <1>1, <1>2, <1>4, <1>5, <1>6, <1>7, <1>8, <1>12, AlignStep
<1>14. /\ Has("tokenized.src", 0, Tokens("src"))' /\ Has("tokenized.trg", 0, Tokens("trg"))'
       /\ Has("links", 0, LinksOf)'
  <2>1. /\ \A x \in DOMAIN files : x \in DOMAIN artifacts' /\ artifacts'[x] = files[x]
        /\ \A x \in DOMAIN artifacts :
              x \notin DOMAIN files => x \in DOMAIN artifacts' /\ artifacts'[x] = artifacts[x]
    BY <1>2, AddedFiles
  <2>2. s \in DOMAIN artifacts /\ artifacts[s] = src
    BY <1>5, <1>6, <1>9 DEF Has
  <2>3. /\ s \in DOMAIN artifacts' /\ artifacts'[s] = src
        /\ a \in DOMAIN artifacts' /\ artifacts'[a] = output
        /\ b \in DOMAIN artifacts' /\ artifacts'[b] = links
    BY <1>10, <1>11, <2>1, <2>2
  <2> QED BY <1>9, <1>13, <2>3 DEF Has
<1>15. CASE input.output_tokenized
  <2>1. pool' = [phase |-> "aligned", chunks |-> <<>>, done |-> {}, output |-> <<>>]
    BY <1>2, <1>15 DEF NoPool
  <2>2. PoolRight'
    BY <1>1, <1>2, <1>4, <1>13, <1>14, <1>15, <2>1 DEF PoolRight
  <2> QED BY <1>2, <1>4, <1>12, <1>13, <2>2, StepKeeps
<1>16. CASE ~input.output_tokenized
  <2>1. StartPool("remap", params) /\ pool'.phase = "remap"
    BY <1>2, <1>16 DEF StartPool
  <2>2. params \in Seq(ToSet(params))
    BY <1>4, <1>8, LinksFacts
  <2>3. PoolFile' = params
    BY <1>13, <2>1 DEF PoolFile
  <2>4. PICK phase, S : phase = "remap" /\ S = ToSet(params)
    OBVIOUS
  <2>5. StartPool(phase, params) /\ params \in Seq(S)
    BY <2>1, <2>2, <2>4
  <2>6. /\ PoolInOrder'
        /\ pool' = [phase |-> pool'.phase, chunks |-> pool'.chunks, done |-> pool'.done,
                    output |-> pool'.output]
    BY <2>3, <2>5, StartsInOrder
  <2>7. PoolRight'
    BY <1>1, <1>2, <1>4, <1>13, <1>14, <1>16, <2>1, <2>6 DEF PoolRight
  <2> QED BY <1>2, <1>4, <1>12, <1>13, <2>7, StepKeeps
<1> QED BY <1>15, <1>16

\* The links are those of the lines, in pieces or in words.
LEMMA FinishKeeps ==
    ASSUME CorpusInv, FinishAlignment
    PROVE  CorpusInv'
<1>1. PICK t : t = Task("alignments")
  OBVIOUS
<1>2. /\ completed' = completed \cup {t} /\ pool' = NoPool /\ UNCHANGED <<input, failed>>
      /\ pool.phase # "none"
  BY <1>1 DEF FinishAlignment, PoolEnds
<1>3. /\ t \notin completed /\ Task("cefilter") \in completed /\ input \in Inputs
      /\ FilteredRight /\ PoolRight
  BY <1>1, <1>2, AlignFacts
<1>4. PICK lines, src, trg : lines = RowLinks /\ src = Tokens("src") /\ trg = Tokens("trg")
  OBVIOUS
<1>5. PICK n : n = Len(File("filtered")) /\ n \in Nat
  BY <1>3, FilteredFacts
<1>6. /\ artifacts' = Update(artifacts, Published("aln", lines))
      /\ input.output_tokenized => TokensRight
  <2>1. CASE pool.phase = "aligned"
    <3>1. /\ input.output_tokenized /\ TokensRight /\ File("links") = LinksOf
      BY <1>3, <2>1 DEF PoolRight, TokensRight, Has, File
    <3>2. LinksOf = lines
      <4>1. PICK L : L = LinksOf
        OBVIOUS
      <4>2. /\ L \in Seq(ToSet(L)) /\ Len(L) = n
            /\ lines \in Seq(ToSet(lines)) /\ Len(lines) = n
        BY <1>3, <1>4, <1>5, <4>1, LinksFacts
      <4>3. L = [i \in 1 .. n |-> L[i]] /\ lines = [i \in 1 .. n |-> lines[i]]
        BY <4>2
      <4>4. \A i \in 1 .. n : lines[i] = L[i]
        BY <1>3, <1>4, <1>5, <3>1, <4>1, RowLinksAre
      <4> QED BY <4>1, <4>3, <4>4
    <3>3. artifacts' = Update(artifacts, Published("aln", File("links")))
      BY <2>1 DEF FinishAlignment, PoolEnds
    <3> QED BY <3>1, <3>2, <3>3
  <2>2. CASE pool.phase # "aligned"
    <3>1. PoolEnds("remap") /\ artifacts' = Update(artifacts, Published("aln", PoolOutput))
      BY <2>2 DEF FinishAlignment
    <3>2. pool.phase = "remap" /\ PoolOutput = PoolWhole
      BY <3>1, PoolDone DEF PoolEnds
    <3>3. ~input.output_tokenized /\ PoolWhole = lines
      BY <1>3, <1>4, <3>2 DEF PoolRight, PoolWhole
    <3> QED BY <3>1, <3>2, <3>3
  <2> QED BY <2>1, <2>2
<1>7. PICK a, s, r, files : /\ a = <<"aln", 0>> /\ s = <<"tokenized.src", 0>>
                            /\ r = <<"tokenized.trg", 0>> /\ files = Published("aln", lines)
  OBVIOUS
<1>8. a # s /\ a # r
  BY <1>7
<1>9. files = [x \in {a} |-> lines]
  BY <1>7 DEF Published
<1>10. KeepsOthers(t)
  <2>1. \A x \in DOMAIN files : Maker(x) = t
    BY <1>1, <1>7, <1>9, Makers
  <2> QED BY <1>2, <1>6, <1>7, <2>1, AddsOnly
<1>11. /\ t # Task("given")
       /\ OnlyParts' /\ NothingLeftOut' /\ Task("cefilter") \in completed'
       /\ Tokens("src")' = src /\ Tokens("trg")' = trg /\ RowLinks' = lines
  BY <1>1, <1>2, <1>3, <1>4, <1>10, AlignStep
<1>12. PoolRight'
  <2>1. pool' = [phase |-> "none", chunks |-> <<>>, done |-> {}, output |-> <<>>]
    BY <1>2 DEF NoPool
  <2> QED BY <2>1 DEF PoolRight
<1>13. AllRight({t})'
  <2>1. /\ \A x \in DOMAIN files : x \in DOMAIN artifacts' /\ artifacts'[x] = files[x]
        /\ \A x \in DOMAIN artifacts :
              x \notin DOMAIN files => x \in DOMAIN artifacts' /\ artifacts'[x] = artifacts[x]
    BY <1>6, <1>7, AddedFiles
  <2>2. a \in DOMAIN artifacts' /\ artifacts'[a] = lines
    BY <1>9, <2>1
  <2>3. input.output_tokenized => /\ s \in DOMAIN artifacts' /\ artifacts'[s] = src
                                  /\ r \in DOMAIN artifacts' /\ artifacts'[r] = trg
    BY <1>4, <1>6, <1>7, <1>8, <1>9, <2>1 DEF TokensRight, Has
  <2>4. AlnRight'
    BY <1>2, <1>7, <1>11, <2>2, <2>3 DEF AlnRight, TokensRight, Has
  <2> QED BY <1>1, <2>4 DEF AllRight, Task
<1> QED BY <1>3, <1>10, <1>11, <1>12, <1>13, StepKeeps

\* build_dataset_tsv
LEMMA TsvKeeps ==
    ASSUME CorpusInv, BuildDatasetTsv
    PROVE  CorpusInv'
<1>1. PICK t, file, aln, rows :
         /\ t = Task("train-student") /\ file = File("filtered") /\ aln = File("aln")
         /\ rows = [i \in DOMAIN aln |->
                       [src |-> Row("src", i), trg |-> Row("trg", i), aln |-> aln[i]]]
  OBVIOUS
<1>2. /\ t \notin completed /\ Task("alignments") \in completed
      /\ Completes(t, Published("tsv", WithLinks(rows)))
  BY <1>1 DEF BuildDatasetTsv, MayStart
<1>3. input \in Inputs /\ AllRight(completed)
  BY InvFacts
<1>4. AlnRight /\ Task("cefilter") \in completed
  BY <1>2, <1>3 DEF AllRight, AlnRight
<1>5. FilteredRight
  BY <1>3, <1>4 DEF AllRight
<1>6. aln = RowLinks
  BY <1>1, <1>4 DEF AlnRight, Has, File
<1>7. PICK n : n = Len(file) /\ n \in Nat /\ DOMAIN file = 1 .. n
  BY <1>1, <1>3, <1>5, FilteredFacts
<1>8. ASSUME NEW i \in 1 .. n
      PROVE  [src |-> Row("src", i), trg |-> Row("trg", i), aln |-> aln[i]] = Expected(file[i])
  <2>1. PICK line, tok : line = file[i] /\ tok = input.tokenization
    OBVIOUS
  <2>2. /\ Side("src")[i] = line.src /\ Tokens("src")[i] = Tokenize(tok, line.src)
        /\ Side("trg")[i] = line.trg /\ Tokens("trg")[i] = Tokenize(tok, line.trg)
    <3>1. \A side \in {"src", "trg"} :
             /\ Side(side)[i] = file[i][side]
             /\ Tokens(side)[i] = Tokenize(input.tokenization, Side(side)[i])
      BY <1>1, <1>3, <1>5, <1>7, FilteredFacts
    <3> QED BY <2>1, <3>1
  <2>3. aln[i] = Expected(line).aln
    BY <1>1, <1>6, <1>7, <2>1 DEF RowLinks
  <2>4. CASE input.output_tokenized
    <3>1. Tokenized("src") = Tokens("src") /\ Tokenized("trg") = Tokens("trg")
      BY <1>4, <2>4 DEF AlnRight, TokensRight, Has, Tokenized, TokenizedName, File
    <3>2. Row("src", i) = Tokenize(tok, line.src) /\ Row("trg", i) = Tokenize(tok, line.trg)
      BY <2>2, <2>4, <3>1 DEF Row
    <3> QED BY <2>1, <2>3, <2>4, <3>2 DEF Expected
  <2>5. CASE ~input.output_tokenized
    <3>1. Row("src", i) = line.src /\ Row("trg", i) = line.trg
      BY <2>2, <2>5 DEF Row
    <3> QED BY <2>1, <2>3, <2>5, <3>1 DEF Expected
  <2> QED BY <2>4, <2>5
<1>9. rows = Rows
  <2>1. DOMAIN aln = 1 .. n
    BY <1>1, <1>6, <1>7 DEF RowLinks
  <2>2. rows = [i \in 1 .. n |-> Expected(file[i])]
    BY <1>1, <1>8, <2>1
  <2> QED BY <1>1, <1>7, <2>2 DEF Rows
<1>10. PICK lines : lines = LinkedRows
  OBVIOUS
<1>11. Completes(t, Published("tsv", lines))
  BY <1>2, <1>9, <1>10 DEF LinkedRows
<1>12. /\ Maker(<<"tsv", 0>>) = t
       /\ t[1] \notin {"given", "split-corpus", "split-mono", "alignments"}
  BY <1>1, Makers DEF Task
<1>13. ASSUME Publishes(<<"tsv", 0>>, lines) PROVE AllRight({t})'
  <2>1. PICK a, b : a = <<"filtered", 0>> /\ b = <<"tsv", 0>>
    OBVIOUS
  <2>2. a # b
    BY <2>1
  <2>3. a \in DOMAIN artifacts /\ artifacts[a] = file
    BY <1>1, <1>5, <2>1 DEF FilteredRight, HasFile, File
  <2>4. artifacts'[a] = file
    BY <1>13, <2>1, <2>2, <2>3 DEF Publishes
  <2>5. UNCHANGED input /\ File("filtered")' = File("filtered")
    BY <1>1, <1>13, <2>1, <2>4 DEF Publishes, File
  <2>6. LinkedRows' = lines
    BY <1>10, <2>5, SameFiltered
  <2>7. TsvRight'
    BY <1>4, <1>13, <2>1, <2>6 DEF TsvRight, Has, Publishes
  <2> QED BY <1>1, <2>7 DEF AllRight, Task
<1> QED BY <1>2, <1>11, <1>12, <1>13, PublishedKeeps

-----------------------------------------------------------------------------
(* The theorems.                                                           *)

\* Before any task.
LEMMA InitRight ==
    ASSUME Init
    PROVE  CorpusInv
<1>1. PICK a, b, c, src, trg, mono :
         /\ a = <<"corpus.src", 0>> /\ b = <<"corpus.trg", 0>> /\ c = <<"mono", 0>>
         /\ src = CorpusSide("src") /\ trg = CorpusSide("trg") /\ mono = input.mono
  OBVIOUS
<1>2. a # b /\ a # c /\ b # c
  BY <1>1
<1>3. /\ input \in Inputs /\ completed = {} /\ failed = {} /\ pool = NoPool
      /\ artifacts = Update(Update(Published("corpus.src", src), Published("corpus.trg", trg)),
                            Published("mono", mono))
  BY <1>1 DEF Init
<1>4. /\ DOMAIN artifacts = {a, b, c}
      /\ artifacts[a] = src /\ artifacts[b] = trg /\ artifacts[c] = mono
  BY <1>1, <1>2, <1>3 DEF Update, Published
<1>5. Given
  BY <1>1, <1>3, <1>4 DEF Given, Has
<1>6. OnlyParts
  <2>1. input.split_chunks \in Nat
    BY <1>3, InputFacts
  <2>2. ASSUME NEW k \in 1 .. input.split_chunks
        PROVE  <<"file", k>> \notin DOMAIN artifacts /\ <<"mono", k>> \notin DOMAIN artifacts
    BY <1>1, <1>4, <2>1
  <2> QED BY <2>2 DEF OnlyParts
<1>7. NothingLeftOut
  BY <1>3 DEF NothingLeftOut
<1>8. PoolRight
  BY <1>3 DEF PoolRight, NoPool
<1>9. AllRight(completed)
  BY <1>3 DEF AllRight
<1> QED BY <1>5, <1>6, <1>7, <1>8, <1>9 DEF CorpusInv

\* Nothing happens.
LEMMA NothingKeeps ==
    ASSUME CorpusInv, UNCHANGED vars
    PROVE  CorpusInv'
<1>1. UNCHANGED <<input, completed, failed, artifacts, pool>>
  BY DEF vars
<1>2. PICK t : t \notin completed \cup {Task("given"), Task("split-corpus"), Task("split-mono"),
                                       Task("alignments")}
  <2>1. ASSUME NEW S PROVE \E x : x \notin S
    <3>1. PICK r : r = {s \in S : s \notin s}
      OBVIOUS
    <3>2. r \notin S
      BY <3>1
    <3> QED BY <3>2
  <2> QED BY <2>1
<1>3. KeepsOthers(t)
  BY <1>1, AddsNothing
<1>4. /\ input \in Inputs /\ OnlyParts /\ PoolRight /\ NothingLeftOut /\ AllRight(completed)
  BY InvFacts
<1>5. OnlyParts'
  BY <1>2, <1>3, <1>4, OnlyPartsStays
<1>6. PoolRight'
  BY <1>1, <1>2, <1>3, <1>4, PoolStays
<1>7. NothingLeftOut' /\ completed' = completed
  BY <1>1, <1>4 DEF NothingLeftOut
<1> QED BY <1>2, <1>3, <1>5, <1>6, <1>7, StepKeeps

\* Every step keeps what has been published right.
LEMMA NextKeeps ==
    ASSUME CorpusInv, [Next]_vars
    PROVE  CorpusInv'
<1>1. CASE SplitCorpus
  BY <1>1, SplitCorpusKeeps
<1>2. CASE SplitMono
  BY <1>2, SplitMonoKeeps
<1>3. ASSUME NEW k \in 1 .. input.split_chunks, TranslateCorpus(k) PROVE CorpusInv'
  BY <1>3, TranslateCorpusKeeps
<1>4. ASSUME NEW k \in 1 .. input.split_chunks, TranslateMono(k) PROVE CorpusInv'
  BY <1>4, TranslateMonoKeeps
<1>5. ASSUME NEW k \in 1 .. input.split_chunks, ExtractBest(k) PROVE CorpusInv'
  BY <1>5, ExtractBestKeeps
<1>6. CASE CollectCorpus
  BY <1>6, CollectCorpusKeeps
<1>7. CASE CollectMono
  BY <1>7, CollectMonoKeeps
<1>8. CASE MergeTranslated
  BY <1>8, MergeKeeps
<1>9. CASE ScoreCorpus
  BY <1>9, ScoreKeeps
<1>10. CASE FilterCorpus
  BY <1>10, FilterKeeps
<1>11. CASE GenerateShortlist
  BY <1>11, ShortlistKeeps
<1>12. CASE StartAlignment
  BY <1>12, StartKeeps
<1>13. ASSUME NEW c \in DOMAIN pool.chunks, WorkOnChunk(c) PROVE CorpusInv'
  BY <1>13, WorkKeeps
<1>14. CASE WriteResult
  BY <1>14, WriteKeeps
<1>15. CASE TokenizeSource
  BY <1>15, SourceKeeps
<1>16. CASE TokenizeTarget
  BY <1>16, TargetKeeps
<1>17. CASE FinishAlignment
  BY <1>17, FinishKeeps
<1>18. CASE BuildDatasetTsv
  BY <1>18, TsvKeeps
<1>19. CASE UNCHANGED vars
  BY <1>19, NothingKeeps
<1> QED
  BY <1>1, <1>2, <1>3, <1>4, <1>5, <1>6, <1>7, <1>8, <1>9, <1>10, <1>11, <1>12, <1>13, <1>14,
     <1>15, <1>16, <1>17, <1>18, <1>19 DEF Next

\* What the invariant says of the collected file.
LEMMA InvBest ==
    ASSUME CorpusInv
    PROVE  BestOfItsLine
<1>1. ASSUME Task("collect-corpus") \in completed, NEW i \in DOMAIN input.corpus
      PROVE  LET line == input.corpus[i]
                 mine == ToSet(SubSeq(Hypotheses[line.src], 1, BeamOf(input.decoding)))
                 best == File("collected.corpus")[i]
             IN  best \in mine /\ \A text \in mine : Chrf(line.trg, text) <= Chrf(line.trg, best)
  <2>1. input \in Inputs /\ File("collected.corpus") = Translated
    BY <1>1, InvFacts DEF AllRight, Has, File
  <2>2. PICK b, text, reference, texts, best :
           /\ b = Beam /\ text = input.corpus[i].src /\ reference = input.corpus[i].trg
           /\ texts = SubSeq(Hypotheses[text], 1, b) /\ best = BestText(texts, reference)
    OBVIOUS
  <2>3. b \in Nat \ {0} /\ Ranked(b)
    BY <2>1, <2>2, InputFacts
  <2>4. text \in DOMAIN Hypotheses
    <3>1. PICK n : n = Len(input.corpus)
      OBVIOUS
    <3>2. /\ DOMAIN input.corpus = 1 .. n
          /\ \A j \in 1 .. n : input.corpus[j].src \in DOMAIN Hypotheses
      BY <2>1, <3>1, SideFacts
    <3> QED BY <1>1, <2>2, <3>2
  <2>5. /\ best \in ToSet(texts)
        /\ \A other \in ToSet(texts) : Chrf(reference, other) <= Chrf(reference, best)
    BY <2>2, <2>3, <2>4, BestOfBeam
  <2>6. File("collected.corpus")[i] = best
    BY <1>1, <2>1, <2>2 DEF Translated
  <2> QED BY <2>2, <2>5, <2>6 DEF Beam
<1> QED BY <1>1 DEF BestOfItsLine

\* What it says of the filtered corpus and of the training data.
LEMMA InvFilteredAndLinked ==
    ASSUME CorpusInv
    PROVE  WorstLeftOut /\ LinksOfTheirLine
<1>1. AllRight(completed)
  BY InvFacts
<1>2. WorstLeftOut
  <2>1. Task("cefilter") \in completed => WorstOut(File("merged"), File("filtered"))
    BY <1>1 DEF AllRight, FilteredRight
  <2> QED BY <2>1, Zenon DEF WorstLeftOut, WorstOut
<1>3. LinksOfTheirLine
  <2>1. Task("train-student") \in completed => File("tsv") = LinkedRows
    BY <1>1 DEF AllRight, TsvRight, Has, File
  <2> QED BY <2>1 DEF LinksOfTheirLine, LinkedRows, Rows
<1> QED BY <1>2, <1>3

\* In every reachable state the artifacts of the tasks that completed are those that the
\* corpora should become, and the pools of align.py have written a beginning of theirs.
THEOREM ArtifactsAlwaysRight == Spec => []CorpusInv
<1>1. Init => CorpusInv
  BY InitRight
<1>2. CorpusInv /\ [Next]_vars => CorpusInv'
  BY NextKeeps
<1> QED BY <1>1, <1>2, PTL DEF Spec

\* Each line of the corpus gets the best of its own translations (extract_best.py), whatever
\* the number of parts (splitter.py), the beam and the order in which the tasks end.
THEOREM BestIsOfItsLine == Spec => []BestOfItsLine
<1>1. CorpusInv => BestOfItsLine
  BY InvBest
<1> QED BY <1>1, ArtifactsAlwaysRight, PTL

\* No line is left in a part that no task takes, so that collect.sh does not fail.
THEOREM NothingIsLeftOut == Spec => []NothingLeftOut
<1>1. CorpusInv => NothingLeftOut
  BY DEF CorpusInv
<1> QED BY <1>1, ArtifactsAlwaysRight, PTL

\* ce-filter.sh leaves out no more than the percentage, and nothing better than what it keeps.
THEOREM WorstAreLeftOut == Spec => []WorstLeftOut
<1>1. CorpusInv => WorstLeftOut
  BY InvFilteredAndLinked
<1> QED BY <1>1, ArtifactsAlwaysRight, PTL

\* The training data are the lines of the filtered corpus with the links of each (align.py,
\* tokenizer.py, build_dataset_tsv), for any size of the chunks and of the aligner's parts.
THEOREM LinksAreOfTheirLine == Spec => []LinksOfTheirLine
<1>1. CorpusInv => LinksOfTheirLine
  BY InvFilteredAndLinked
<1> QED BY <1>1, ArtifactsAlwaysRight, PTL

=============================================================================
