------------------------- MODULE TrainPipeline_proofs -------------------------
(***************************************************************************)
(* Proofs about TrainPipeline, for any logs, sizes of the pipe and tasks:  *)
(* the log parser takes every training line once, and assembles the        *)
(* validations of a log whose metrics come in rounds.                      *)
(***************************************************************************)
EXTENDS TrainPipeline, TLAPS, SequenceTheorems, FiniteSetTheorems,
        NaturalsInduction, WellFoundedInduction

-----------------------------------------------------------------------------
(* Counting the positions of a set.                                        *)

\* The smallest of some numbers.
LEMMA Smallest ==
    ASSUME NEW S \in SUBSET Nat, S # {}
    PROVE  \E m \in S : \A k \in S : m <= k
<1>1. PICK m \in S : \A k \in S : ~(<<k, m>> \in OpToRel(<, Nat))
  BY NatLessThanWellFounded, WFMin
<1>2. \A k \in S : ~(k < m)
  BY <1>1 DEF OpToRel
<1>3. \A k \in S : k \in Nat
  OBVIOUS
<1> QED BY <1>2, <1>3

\* The lines of a kind among the first n are finitely many.
LEMMA CountIsNat ==
    ASSUME NEW n \in Nat, NEW S
    PROVE  IsFiniteSet(S \cap (1 .. n)) /\ Cardinality(S \cap (1 .. n)) \in Nat
<1>1. IsFiniteSet(1 .. n)
  BY FS_Interval
<1>2. S \cap (1 .. n) \in SUBSET (1 .. n)
  OBVIOUS
<1>3. IsFiniteSet(S \cap (1 .. n))
  BY <1>1, <1>2, FS_Subset
<1> QED BY <1>3, FS_CardinalityType

\* One line more is counted if it is of the kind.
LEMMA CountNext ==
    ASSUME NEW n \in Nat, NEW S
    PROVE  Cardinality(S \cap (1 .. n + 1)) =
               IF n + 1 \in S THEN Cardinality(S \cap (1 .. n)) + 1
                              ELSE Cardinality(S \cap (1 .. n))
<1>1. IsFiniteSet(S \cap (1 .. n))
  BY CountIsNat
<1>2. CASE n + 1 \in S
  <2>1. S \cap (1 .. n + 1) = (S \cap (1 .. n)) \cup {n + 1} /\ n + 1 \notin S \cap (1 .. n)
    BY <1>2
  <2> QED BY <1>1, <1>2, <2>1, FS_AddElement
<1>3. CASE n + 1 \notin S
  <2>1. S \cap (1 .. n + 1) = S \cap (1 .. n)
    BY <1>3
  <2> QED BY <1>3, <2>1
<1> QED BY <1>2, <1>3

\* A line of the kind is counted where it is, and no later line lowers the count.
LEMMA CountAt ==
    ASSUME NEW n \in Nat, NEW S, NEW i \in 1 .. n, i \in S
    PROVE  Cardinality(S \cap (1 .. i)) \in 1 .. Cardinality(S \cap (1 .. n))
<1>1. i \in Nat /\ IsFiniteSet(S \cap (1 .. n)) /\ Cardinality(S \cap (1 .. n)) \in Nat
  BY CountIsNat
<1>2. IsFiniteSet(S \cap (1 .. i)) /\ Cardinality(S \cap (1 .. i)) \in Nat
  BY <1>1, CountIsNat
<1>3. S \cap (1 .. i) \in SUBSET (S \cap (1 .. n))
  OBVIOUS
<1>4. Cardinality(S \cap (1 .. i)) <= Cardinality(S \cap (1 .. n))
  BY <1>1, <1>3, FS_Subset
<1>5. S \cap (1 .. i) # {}
  BY <1>1
<1>6. Cardinality(S \cap (1 .. i)) # 0
  BY <1>2, <1>5, FS_EmptySet
<1> QED BY <1>1, <1>2, <1>4, <1>6

\* Nothing is counted before the first line.
LEMMA CountNone == ASSUME NEW S PROVE Cardinality(S \cap (1 .. 0)) = 0
<1>1. S \cap (1 .. 0) = {}
  OBVIOUS
<1> QED BY <1>1, FS_EmptySet

\* The lines counted up to a line are no more than those up to a later line.
LEMMA CountGrows ==
    ASSUME NEW S, NEW i \in Nat, NEW j \in Nat, i <= j
    PROVE  Cardinality(S \cap (1 .. i)) <= Cardinality(S \cap (1 .. j))
<1>1. S \cap (1 .. i) \in SUBSET (S \cap (1 .. j))
  OBVIOUS
<1> QED BY <1>1, CountIsNat, FS_Subset

\* For every number up to the count there is the line that makes it.
LEMMA CountReaches ==
    ASSUME NEW n \in Nat, NEW S \in SUBSET (1 .. n), NEW i \in 1 .. Cardinality(S)
    PROVE  \E l \in S : Cardinality(S \cap (1 .. l)) = i
<1>1. PICK reached : reached = {m \in Nat : Cardinality(S \cap (1 .. m)) >= i}
  OBVIOUS
<1>2. S \cap (1 .. n) = S
  OBVIOUS
<1>3. n \in reached /\ reached \in SUBSET Nat
  BY <1>1, <1>2, CountIsNat
<1>4. PICK m \in reached : \A k \in reached : m <= k
  BY <1>3, Smallest
<1>5. m \in Nat /\ Cardinality(S \cap (1 .. m)) >= i
  BY <1>1
<1>6. m # 0
  <2>1. Cardinality(S \cap (1 .. 0)) = 0
    BY CountNone
  <2> QED BY <1>5, <2>1
<1>7. PICK k \in Nat : k + 1 = m
  BY <1>5, <1>6
<1>8. Cardinality(S \cap (1 .. k)) \in Nat /\ ~(Cardinality(S \cap (1 .. k)) >= i)
  <2>1. Cardinality(S \cap (1 .. k)) \in Nat /\ ~(m <= k)
    BY <1>5, <1>7, CountIsNat
  <2>2. k \notin reached
    BY <1>4, <2>1
  <2> QED BY <1>1, <2>1, <2>2
<1>9. Cardinality(S \cap (1 .. k + 1)) =
          IF k + 1 \in S THEN Cardinality(S \cap (1 .. k)) + 1 ELSE Cardinality(S \cap (1 .. k))
  BY CountNext
<1>10. m \in S /\ Cardinality(S \cap (1 .. m)) = i
  BY <1>5, <1>7, <1>8, <1>9
<1> QED BY <1>10

-----------------------------------------------------------------------------
(* The invariants.                                                         *)

\* The three positions in the log.  The trainer writes no more once it closed its end.
Positions ==
    /\ log \in Logs
    /\ seen \in Nat /\ read \in Nat /\ written \in Nat
    /\ seen <= read /\ read <= written /\ written <= Len(log)
    /\ closed = (trainer # "running")

Trained ==
    /\ training \in Seq([up : Nat, popped : BOOLEAN])
    /\ EveryTrainingLine

ParserInv == Positions /\ Trained

\* Marian reports every metric of a validation before the next validation: at no line of a
\* log has one metric of an update been reported twice more than another.
RoundsOf(l, n, up, key) == Cardinality({i \in 1 .. n :
    l[i].kind = "valid" /\ l[i].up = up /\ l[i].key = key})

InRounds ==
    \A l \in Logs : \A n \in 0 .. Len(l) : \A up \in Nat : \A j, k \in Metrics :
        RoundsOf(l, n, up, j) <= RoundsOf(l, n, up, k) + 1

\* The entry of an update holds the metrics that were reported once more than it was
\* published, and all others were reported as often.
Assembled ==
    /\ validation \in Seq(Nat)
    /\ \A up \in Nat : /\ EntryOf(up) = {k \in Metrics : Reports(up, k) = Times(up) + 1}
                       /\ EntryOf(up) # Metrics
                       /\ \A k \in Metrics : Reports(up, k) \in {Times(up), Times(up) + 1}

ValidationInv == ParserInv /\ Assembled

-----------------------------------------------------------------------------
(* Every training line.                                                    *)

\* The positions of the training lines, of which TrainingLines(n) counts those up to n.
TrainingAt == {i \in Nat : log[i].kind = "train"}

\* The count of training lines is that of their positions.
LEMMA TrainingCount ==
    ASSUME NEW n \in Nat
    PROVE  TrainingLines(n) = Cardinality(TrainingAt \cap (1 .. n))
<1>1. {i \in 1 .. n : log[i].kind = "train"} = TrainingAt \cap (1 .. n)
  BY DEF TrainingAt
<1> QED BY <1>1 DEF TrainingLines

\* No state of the parser that can be entered is publish or close, but by DataEnds and Publish.
LEMMA ContextGoesOn ==
    ASSUME Positions, ReadHeader \/ ReadDescription \/ ReadConfig \/ SkipCreated
    PROVE  /\ parser' \notin {"publish", "close"} /\ read < written /\ read' = read + 1
           /\ UNCHANGED <<seen, training, entries, validation>>
<1>1. read < written /\ read' = read + 1 /\ UNCHANGED <<seen, training, entries, validation>>
  BY DEF ReadHeader, ReadDescription, ReadConfig, SkipCreated, TakeContext, HasLine
<1>2. log \in Seq(Line)
  BY ParserAssumption DEF Positions
<1>3. read + 1 \in 1 .. Len(log)
  BY <1>1, <1>2 DEF Positions
<1>4. log[read + 1].kind \in Kinds
  <2>1. log[read + 1] \in Line
    BY <1>2, <1>3
  <2> QED BY <2>1 DEF Line
<1>5. parser' \notin {"publish", "close"}
  BY <1>4 DEF ReadHeader, ReadDescription, ReadConfig, SkipCreated, TakeContext, Kinds
<1> QED BY <1>1, <1>5

\* What TakeData does to the positions: the next line is within what was written.
LEMMA TakesNext ==
    ASSUME Positions, DataLine, TakeData
    PROVE  /\ seen' = seen + 1 /\ seen' \in Nat /\ read' \in Nat
           /\ seen' <= read' /\ read' <= written
           /\ seen + 1 \in 1 .. Len(log) /\ log[seen + 1] \in Line /\ parser = "data"
<1>1. log \in Seq(Line)
  BY ParserAssumption DEF Positions
<1>2. /\ seen' = seen + 1 /\ seen' \in Nat /\ read' \in Nat
      /\ seen' <= read' /\ read' <= written /\ parser = "data"
  BY DEF Positions, DataLine, TakeData, NextData, HasLine
<1>3. seen + 1 \in 1 .. Len(log)
  BY <1>1, <1>2 DEF Positions
<1> QED BY <1>1, <1>2, <1>3

\* The trainer and the shell: only their variables, and written, change.
LEMMA OthersKeepParser ==
    ASSUME ParserInv, \/ Prepare \/ Trainer \/ SaveBest \/ Crash \/ CopyBest \/ Done
    PROVE  ParserInv' /\ UNCHANGED <<log, seen, entries, validation>>
<1>1. UNCHANGED <<log, parserVars>>
  BY DEF Prepare, Trainer, SaveBest, Crash, CopyBest, Done, NotConfigured, Write, BrokenPipe,
         FinishTraining, running, vars
<1>2. UNCHANGED <<log, parser, read, seen, training, entries, validation>>
  BY <1>1 DEF parserVars
<1>3. \/ UNCHANGED <<written, closed, trainer>>
      \/ UNCHANGED written /\ closed' = TRUE /\ trainer' # "running" /\ trainer = "running"
      \/ /\ trainer = "running" /\ written < Len(log)
         /\ written' = written + 1 /\ UNCHANGED <<closed, trainer>>
  BY DEF Prepare, Trainer, SaveBest, Crash, CopyBest, Done, NotConfigured, Write, BrokenPipe,
         FinishTraining, running, vars, Training
<1>4. log \in Seq(Line)
  BY ParserAssumption DEF ParserInv, Positions
<1>5. Positions'
  <2>1. Len(log) \in Nat /\ Positions /\ UNCHANGED <<log, read, seen>>
    BY <1>2, <1>4 DEF ParserInv
  <2>2. written' \in Nat /\ written <= written' /\ written' <= Len(log)
    BY <1>3, <2>1 DEF Positions
  <2>3. closed' = (trainer' # "running")
    BY <1>3, <2>1 DEF Positions
  <2> QED BY <2>1, <2>2, <2>3 DEF Positions
<1>6. parser \in {"publish", "close"} => closed' /\ seen = written'
  BY <1>3 DEF ParserInv, Positions, Trained, EveryTrainingLine
<1>7. Trained'
  BY <1>2, <1>6 DEF ParserInv, Trained, EveryTrainingLine, TrainingLines
<1> QED BY <1>2, <1>5, <1>7 DEF ParserInv

\* A training line is appended at the place its count gives.
LEMMA TrainingLineTaken ==
    ASSUME ParserInv, ReadTraining, UNCHANGED <<log, written, closed, trainer>>
    PROVE  ParserInv'
<1>1. Positions /\ DataLine /\ TakeData
  BY DEF ParserInv, ReadTraining
<1>2. /\ seen' = seen + 1 /\ seen' \in Nat /\ read' \in Nat
      /\ seen' <= read' /\ read' <= written /\ seen \in Nat
      /\ seen + 1 \in 1 .. Len(log) /\ log[seen + 1] \in Line /\ parser = "data"
  BY <1>1, TakesNext DEF Positions
<1>3. Positions'
  BY <1>1, <1>2 DEF Positions
<1>4. PICK entry \in [up : Nat, popped : BOOLEAN] :
          training' = Append(training, entry) /\ entry.up = log[seen + 1].up
  <2>1. log[seen + 1].up \in Nat
    BY <1>2 DEF Line
  <2>2. (wandb = "run") \in BOOLEAN
    OBVIOUS
  <2>3. [up |-> log[seen + 1].up, popped |-> wandb = "run"] \in [up : Nat, popped : BOOLEAN]
    BY <2>1, <2>2
  <2> QED BY <2>3 DEF ReadTraining, NextData
<1>5. training \in Seq([up : Nat, popped : BOOLEAN]) /\ Len(training) = TrainingLines(seen)
  BY DEF ParserInv, Trained, EveryTrainingLine
<1>6. /\ training' \in Seq([up : Nat, popped : BOOLEAN])
      /\ Len(training') = Len(training) + 1 /\ training'[Len(training) + 1] = entry
      /\ \A i \in 1 .. Len(training) : training'[i] = training[i]
  BY <1>4, <1>5
<1>7. seen + 1 \in TrainingAt
  BY <1>2 DEF ReadTraining, NextData, TrainingAt
<1>8. TrainingLines(seen + 1) = Len(training) + 1
  <2>1. seen \in Nat /\ seen + 1 \in Nat
    BY <1>2
  <2>2. Cardinality(TrainingAt \cap (1 .. seen + 1)) = Cardinality(TrainingAt \cap (1 .. seen)) + 1
    BY <1>7, <2>1, CountNext
  <2> QED BY <1>5, <2>1, <2>2, TrainingCount
<1>9. ASSUME NEW i \in 1 .. seen + 1, log[i].kind = "train"
      PROVE  training'[TrainingLines(i)].up = log[i].up
  <2>1. CASE i = seen + 1
    BY <1>4, <1>6, <1>8, <2>1
  <2>2. CASE i # seen + 1
    <3>1. i \in 1 .. seen /\ i \in Nat
      BY <1>2, <2>2
    <3>2. i \in TrainingAt
      BY <1>9, <3>1 DEF TrainingAt
    <3>3. TrainingLines(i) \in 1 .. Len(training)
      <4>1. TrainingLines(i) = Cardinality(TrainingAt \cap (1 .. i))
        BY <3>1, TrainingCount
      <4>2. Len(training) = Cardinality(TrainingAt \cap (1 .. seen))
        BY <1>2, <1>5, TrainingCount
      <4> QED BY <1>2, <3>1, <3>2, <4>1, <4>2, CountAt
    <3>4. training[TrainingLines(i)].up = log[i].up
      BY <1>9, <3>1 DEF ParserInv, Trained, EveryTrainingLine
    <3> QED BY <1>6, <3>3, <3>4
  <2> QED BY <2>1, <2>2
<1>10. \A n : TrainingLines(n)' = TrainingLines(n)
  BY DEF TrainingLines
<1>11. parser' = "data"
  BY <1>2 DEF ReadTraining
<1>12. EveryTrainingLine'
  BY <1>2, <1>6, <1>8, <1>9, <1>10, <1>11 DEF EveryTrainingLine
<1> QED BY <1>3, <1>6, <1>12 DEF ParserInv, Trained

\* Any other line is none of the training lines.
LEMMA OtherLineTaken ==
    ASSUME ParserInv, ReadOther \/ ReadValidation \/ UnknownMetric,
           UNCHANGED <<log, written, closed, trainer>>
    PROVE  ParserInv'
<1>1. Positions /\ DataLine /\ TakeData /\ UNCHANGED training
  BY DEF ParserInv, ReadOther, ReadValidation, UnknownMetric
<1>2. /\ seen' = seen + 1 /\ seen' \in Nat /\ read' \in Nat
      /\ seen' <= read' /\ read' <= written /\ seen \in Nat
      /\ seen + 1 \in 1 .. Len(log) /\ log[seen + 1] \in Line /\ parser = "data"
  BY <1>1, TakesNext DEF Positions
<1>3. Positions'
  BY <1>1, <1>2 DEF Positions
<1>4. log[seen + 1].kind # "train"
  BY DEF ReadOther, ReadValidation, UnknownMetric, NextData
<1>5. seen + 1 \notin TrainingAt
  BY <1>4 DEF TrainingAt
<1>6. TrainingLines(seen + 1) = TrainingLines(seen)
  BY <1>2, <1>5, TrainingCount, CountNext
<1>7. parser' \in {"data", "exited"}
  BY <1>2 DEF ReadOther, ReadValidation, UnknownMetric, Die
<1>8. \A i \in 1 .. seen + 1 : log[i].kind = "train" => i \in 1 .. seen
  BY <1>2, <1>4
<1>9. Len(training) = TrainingLines(seen + 1)
  BY <1>6 DEF ParserInv, Trained, EveryTrainingLine
<1>10. \A i \in 1 .. seen + 1 : log[i].kind = "train" => training[TrainingLines(i)].up = log[i].up
  BY <1>8 DEF ParserInv, Trained, EveryTrainingLine
<1>11. \A n : TrainingLines(n)' = TrainingLines(n)
  BY DEF TrainingLines
<1>12. EveryTrainingLine'
  BY <1>1, <1>2, <1>7, <1>9, <1>10, <1>11 DEF EveryTrainingLine
<1> QED BY <1>1, <1>3, <1>12 DEF ParserInv, Trained

\* The other steps of the parser take no line as data.
LEMMA RestOfParser ==
    ASSUME ParserInv, UNCHANGED <<log, written, closed, trainer>>,
           \/ Boot \/ ReadHeader \/ ReadDescription \/ ReadConfig \/ SkipCreated \/ NoContext
           \/ Open \/ DataEnds \/ Publish \/ CloseAll \/ Copy
    PROVE  ParserInv' /\ UNCHANGED <<seen, entries, validation>>
<1>1. /\ UNCHANGED <<seen, training, entries, validation>>
      /\ \/ UNCHANGED read
         \/ read < written /\ read' = read + 1
  <2>1. CASE ReadHeader \/ ReadDescription \/ ReadConfig \/ SkipCreated
    BY <2>1, ContextGoesOn DEF ParserInv
  <2>2. CASE Boot \/ NoContext \/ Open \/ DataEnds
    BY <2>2 DEF Boot, NoContext, Open, DataEnds
  <2>3. CASE Publish \/ CloseAll
    BY <2>3 DEF Publish, CloseAll
  <2>4. CASE Copy
    BY <2>4 DEF Copy, HasLine
  <2> QED BY <2>1, <2>2, <2>3, <2>4
<1>2. Positions'
  BY <1>1 DEF ParserInv, Positions
<1>3. parser' \in {"publish", "close"} => closed /\ seen = written
  <2>1. CASE ReadHeader \/ ReadDescription \/ ReadConfig \/ SkipCreated
    BY <2>1, ContextGoesOn DEF ParserInv
  <2>2. CASE DataEnds
    BY <2>2 DEF DataEnds, AtEnd
  <2>3. CASE Publish
    BY <2>3 DEF Publish, ParserInv, Trained, EveryTrainingLine
  <2>4. CASE Boot \/ NoContext \/ Open \/ CloseAll \/ Copy
    BY <2>4 DEF Boot, NoContext, Open, CloseAll, Copy, Die
  <2> QED BY <2>1, <2>2, <2>3, <2>4
<1>4. EveryTrainingLine'
  BY <1>1, <1>3 DEF ParserInv, Trained, EveryTrainingLine, TrainingLines
<1> QED BY <1>1, <1>2, <1>4 DEF ParserInv, Trained

\* At the start nothing is written, read or parsed.
LEMMA ParserStarts == Init => ParserInv
<1> SUFFICES ASSUME Init PROVE ParserInv
  OBVIOUS
<1>1. log \in Seq(Line)
  BY ParserAssumption DEF Init
<1>2. Positions
  <2>1. Len(log) \in Nat
    BY <1>1
  <2>2. closed = (trainer # "running")
    BY DEF Init
  <2> QED BY <2>1, <2>2 DEF Init, Positions, ParserInit
<1>3. TrainingLines(0) = 0
  BY TrainingCount, CountNone
<1>4. Trained
  BY <1>3 DEF Init, ParserInit, LogParserCommand, Trained, EveryTrainingLine
<1> QED BY <1>2, <1>4 DEF ParserInv

\* Every step keeps the positions and the training lines.
LEMMA ParserKept == ParserInv /\ [Next]_vars => ParserInv'
<1> SUFFICES ASSUME ParserInv, [Next]_vars PROVE ParserInv'
  OBVIOUS
<1>1. CASE Prepare \/ Trainer \/ SaveBest \/ Crash \/ CopyBest \/ Done
  BY <1>1, OthersKeepParser
<1>2. CASE ParserStep
  <2>1. UNCHANGED <<log, written, closed, trainer>> /\ (Parse \/ Copy)
    BY <1>2 DEF ParserStep
  <2>2. CASE ReadTraining
    BY <2>1, <2>2, TrainingLineTaken
  <2>3. CASE ReadOther \/ ReadValidation \/ UnknownMetric
    BY <2>1, <2>3, OtherLineTaken
  <2>4. CASE \/ Boot \/ ReadHeader \/ ReadDescription \/ ReadConfig \/ SkipCreated \/ NoContext
             \/ Open \/ DataEnds \/ Publish \/ CloseAll \/ Copy
    BY <2>1, <2>4, RestOfParser
  <2> QED BY <2>1, <2>2, <2>3, <2>4 DEF Parse
<1>3. CASE UNCHANGED vars
  BY <1>3 DEF vars, running, parserVars, ParserInv, Positions, Trained, EveryTrainingLine,
              TrainingLines
<1> QED BY <1>1, <1>2, <1>3 DEF Next

\* The log parser takes every training line once and in order, and all of them before it
\* publishes: whatever the trainer, W&B and the two ends of the pipe do (parser.py 382-432).
THEOREM TrainingLinesParsed == Spec => []EveryTrainingLine
<1>1. ParserInv => EveryTrainingLine
  BY DEF ParserInv, Trained
<1> QED BY ParserStarts, ParserKept, <1>1, PTL DEF Spec

-----------------------------------------------------------------------------
(* Validations.                                                            *)

\* The positions of the lines that report a metric of an update.
ReportAt(up, key) == {i \in Nat : log[i].kind = "valid" /\ log[i].up = up /\ log[i].key = key}

\* The reports seen are counted by their positions.
LEMMA ReportCount ==
    ASSUME NEW up, NEW key, seen \in Nat
    PROVE  /\ Reports(up, key) = Cardinality(ReportAt(up, key) \cap (1 .. seen))
           /\ Reports(up, key) \in Nat
<1>1. {i \in 1 .. seen : log[i].kind = "valid" /\ log[i].up = up /\ log[i].key = key}
          = ReportAt(up, key) \cap (1 .. seen)
  BY DEF ReportAt
<1> QED BY <1>1, CountIsNat DEF Reports

\* One line more is one report more, if it is of this metric.
LEMMA ReportNext ==
    ASSUME NEW up, NEW key, seen \in Nat, seen' = seen + 1, UNCHANGED log
    PROVE  Reports(up, key)' = IF seen + 1 \in ReportAt(up, key) THEN Reports(up, key) + 1
                                                                ELSE Reports(up, key)
<1>1. Reports(up, key) = Cardinality(ReportAt(up, key) \cap (1 .. seen))
  BY ReportCount
<1>2. {i \in 1 .. seen + 1 : log[i].kind = "valid" /\ log[i].up = up /\ log[i].key = key}
          = ReportAt(up, key) \cap (1 .. seen + 1)
  BY DEF ReportAt
<1>3. Reports(up, key)' = Cardinality(ReportAt(up, key) \cap (1 .. seen + 1))
  BY <1>2 DEF Reports
<1> QED BY <1>1, <1>3, CountNext

\* One publication more is one time more for its update.
LEMMA TimesNext ==
    ASSUME NEW up \in Nat, NEW u \in Nat, validation \in Seq(Nat),
           validation' = Append(validation, u)
    PROVE  Times(up)' = (IF up = u THEN Times(up) + 1 ELSE Times(up)) /\ Times(up) \in Nat
<1>1. PICK n \in Nat : n = Len(validation)
  OBVIOUS
<1>2. PICK t \in Seq(Nat) : t = validation'
  OBVIOUS
<1>3. Len(t) = n + 1 /\ t[n + 1] = u /\ \A i \in 1 .. n : t[i] = validation[i]
  BY <1>1, <1>2
<1>4. PICK S : S = {i \in Nat : t[i] = up}
  OBVIOUS
<1>5. /\ {i \in 1 .. n : validation[i] = up} = S \cap (1 .. n)
      /\ {i \in 1 .. n + 1 : t[i] = up} = S \cap (1 .. n + 1)
  BY <1>3, <1>4
<1>6. n + 1 \in S <=> up = u
  BY <1>3, <1>4
<1>7. Times(up) = Cardinality(S \cap (1 .. n))
  BY <1>1, <1>5 DEF Times
<1>8. Times(up)' = Cardinality(S \cap (1 .. n + 1))
  BY <1>2, <1>3, <1>5 DEF Times
<1>9. Cardinality(S \cap (1 .. n)) \in Nat
  BY CountIsNat
<1>10. Cardinality(S \cap (1 .. n + 1)) =
           IF n + 1 \in S THEN Cardinality(S \cap (1 .. n)) + 1 ELSE Cardinality(S \cap (1 .. n))
  BY CountNext
<1> QED BY <1>6, <1>7, <1>8, <1>9, <1>10

\* How often an update was published is a number.
LEMMA TimesIsNat == ASSUME NEW up, validation \in Seq(Nat) PROVE Times(up) \in Nat
<1>1. {i \in 1 .. Len(validation) : validation[i] = up}
          = {i \in Nat : validation[i] = up} \cap (1 .. Len(validation))
  OBVIOUS
<1>2. Len(validation) \in Nat
  OBVIOUS
<1> QED BY <1>1, <1>2, CountIsNat DEF Times

\* The rounds of the log say how the reports compare once the next line is taken.
LEMMA NextInRounds ==
    ASSUME InRounds, Positions'
    PROVE  \A up \in Nat : \A j, k \in Metrics : Reports(up, j)' <= Reports(up, k)' + 1
<1>1. seen' \in 0 .. Len(log') /\ log' \in Logs
  <2>1. Len(log') \in Nat
    BY ParserAssumption DEF Positions
  <2> QED BY <2>1 DEF Positions
<1>2. \A up, key : Reports(up, key)' = RoundsOf(log', seen', up, key)
  BY DEF Reports, RoundsOf
<1> QED BY <1>1, <1>2 DEF InRounds

\* A line that reports no metric.
LEMMA NoReport ==
    ASSUME Assembled, ParserInv, ReadOther \/ ReadTraining \/ UnknownMetric, UNCHANGED log
    PROVE  Assembled'
<1>1. /\ seen \in Nat /\ seen' = seen + 1 /\ UNCHANGED <<entries, validation>>
      /\ log[seen + 1].kind = "valid" => log[seen + 1].key \notin Metrics
  <2>1. DataLine /\ TakeData /\ UNCHANGED <<entries, validation>>
    BY DEF ReadOther, ReadTraining, UnknownMetric
  <2> QED BY <2>1, TakesNext DEF ParserInv, Positions, ReadOther, ReadTraining, UnknownMetric,
                                 NextData
<1>2. \A up \in Nat : \A k \in Metrics : Reports(up, k)' = Reports(up, k)
  <2> SUFFICES ASSUME NEW up \in Nat, NEW k \in Metrics PROVE Reports(up, k)' = Reports(up, k)
    OBVIOUS
  <2>1. seen + 1 \notin ReportAt(up, k)
    BY <1>1 DEF ReportAt
  <2> QED BY <1>1, <2>1, ReportNext
<1>3. \A up : Times(up)' = Times(up) /\ EntryOf(up)' = EntryOf(up)
  BY <1>1 DEF Times, EntryOf
<1> QED BY <1>1, <1>2, <1>3 DEF Assembled

\* A line that reports a metric, the last one of its validation or not.
LEMMA MetricReported ==
    ASSUME InRounds, Assembled, ParserInv, ParserInv', ReadValidation, UNCHANGED log
    PROVE  Assembled'
<1>1. PICK u \in Nat, key \in Metrics :
          /\ seen \in Nat /\ seen' = seen + 1
          /\ log[seen + 1].kind = "valid" /\ log[seen + 1].up = u /\ log[seen + 1].key = key
  <2>1. DataLine /\ TakeData /\ Positions
    BY DEF ReadValidation, ParserInv
  <2>2. seen' = seen + 1 /\ log[seen + 1] \in Line
    BY <2>1, TakesNext
  <2>3. log[seen + 1].up \in Nat
    BY <2>2 DEF Line
  <2> QED BY <2>1, <2>2, <2>3 DEF ReadValidation, NextData, Positions
<1>2. validation \in Seq(Nat)
  BY DEF Assembled
<1>3. \A up \in Nat : Times(up) \in Nat /\ \A k \in Metrics : Reports(up, k) \in Nat
  BY <1>1, <1>2, TimesIsNat, ReportCount
<1>4. \A up \in Nat : \A k \in Metrics :
          Reports(up, k)' = IF up = u /\ k = key THEN Reports(up, k) + 1 ELSE Reports(up, k)
  <2> SUFFICES ASSUME NEW up \in Nat, NEW k \in Metrics
               PROVE  Reports(up, k)' = IF up = u /\ k = key THEN Reports(up, k) + 1
                                                             ELSE Reports(up, k)
    OBVIOUS
  <2>1. seen + 1 \in ReportAt(up, k) <=> up = u /\ k = key
    BY <1>1 DEF ReportAt
  <2> QED BY <1>1, <2>1, ReportNext
<1>5. key \notin EntryOf(u)
  <2>1. PICK j \in Metrics : j \notin EntryOf(u)
    BY <1>1 DEF Assembled
  <2>2. Reports(u, j) = Times(u)
    BY <1>1, <2>1 DEF Assembled
  <2>3. ASSUME key \in EntryOf(u) PROVE FALSE
    <3>1. Reports(u, key) = Times(u) + 1 /\ j # key
      BY <1>1, <2>1, <2>3 DEF Assembled
    <3>2. Reports(u, key)' = Times(u) + 2 /\ Reports(u, j)' = Times(u)
      BY <1>1, <1>3, <1>4, <2>2, <3>1
    <3>3. Reports(u, key)' <= Reports(u, j)' + 1
      BY <1>1, NextInRounds DEF ParserInv
    <3> QED BY <1>3, <3>2, <3>3
  <2> QED BY <2>3
<1>6. /\ Reports(u, key) = Times(u) /\ Reports(u, key)' = Times(u) + 1
      /\ \A k \in Metrics : Reports(u, k)' \in {Times(u), Times(u) + 1}
      /\ {k \in Metrics : Reports(u, k)' = Times(u) + 1} = EntryOf(u) \cup {key}
  <2>1. Reports(u, key) = Times(u)
    BY <1>1, <1>5 DEF Assembled
  <2>2. Reports(u, key)' = Times(u) + 1
    BY <1>1, <1>4, <2>1
  <2>3. \A k \in Metrics \ {key} : Reports(u, k)' = Reports(u, k)
    BY <1>1, <1>4
  <2>4. /\ EntryOf(u) = {k \in Metrics : Reports(u, k) = Times(u) + 1}
        /\ \A k \in Metrics : Reports(u, k) \in {Times(u), Times(u) + 1}
    BY <1>1 DEF Assembled
  <2> QED BY <1>1, <1>5, <2>1, <2>2, <2>3, <2>4
<1>7. PICK entry : entry = EntryOf(u) \cup {key}
  OBVIOUS
<1>8. entry \subseteq Metrics
  BY <1>1, <1>7 DEF Assembled
<1>9. CASE CompleteEntry(entry)
  <2>1. Emit(u)
    BY <1>1, <1>7, <1>9 DEF ReadValidation, NextData
  <2>2. validation' = Append(validation, u) /\ validation' \in Seq(Nat)
    BY <1>1, <1>2, <2>1 DEF Emit
  <2>3. \A up : EntryOf(up)' = IF up = u THEN {} ELSE EntryOf(up)
    BY <2>1 DEF Emit, EntryOf
  <2>4. \A up \in Nat : Times(up)' = IF up = u THEN Times(up) + 1 ELSE Times(up)
    BY <1>1, <1>2, <2>2, TimesNext
  <2>5. entry = Metrics
    BY <1>8, <1>9 DEF CompleteEntry
  <2>6. \A k \in Metrics : Reports(u, k)' = Times(u)'
    BY <1>1, <1>6, <1>7, <2>4, <2>5
  <2>7. \A up \in Nat \ {u} : /\ Times(up)' = Times(up) /\ EntryOf(up)' = EntryOf(up)
                              /\ \A k \in Metrics : Reports(up, k)' = Reports(up, k)
    BY <1>4, <2>3, <2>4
  <2>8. ASSUME NEW up \in Nat
        PROVE  /\ EntryOf(up)' = {k \in Metrics : Reports(up, k)' = Times(up)' + 1}
               /\ EntryOf(up)' # Metrics
               /\ \A k \in Metrics : Reports(up, k)' \in {Times(up)', Times(up)' + 1}
    <3>1. CASE up = u
      <4>1. EntryOf(up)' = {} /\ Metrics # {}
        BY <2>3, <3>1, ParserAssumption
      <4>2. Times(up)' \in Nat
        BY <2>4, <1>3
      <4> QED BY <2>6, <3>1, <4>1, <4>2
    <3>2. CASE up # u
      <4>1. up \in Nat \ {u}
        BY <3>2
      <4> QED BY <2>7, <4>1 DEF Assembled
    <3> QED BY <3>1, <3>2
  <2> QED BY <2>2, <2>8 DEF Assembled
<1>10. CASE ~CompleteEntry(entry)
  <2>1. /\ entries' = [v \in DOMAIN entries \cup {u} |-> IF v = u THEN entry ELSE entries[v]]
        /\ UNCHANGED validation
    BY <1>1, <1>7, <1>10 DEF ReadValidation, NextData
  <2>2. \A up : EntryOf(up)' = IF up = u THEN entry ELSE EntryOf(up)
    BY <2>1 DEF EntryOf
  <2>3. \A up : Times(up)' = Times(up)
    BY <2>1 DEF Times
  <2>4. entry # Metrics
    BY <1>10 DEF CompleteEntry
  <2>5. \A up \in Nat \ {u} : \A k \in Metrics : Reports(up, k)' = Reports(up, k)
    BY <1>4
  <2>6. ASSUME NEW up \in Nat
        PROVE  /\ EntryOf(up)' = {k \in Metrics : Reports(up, k)' = Times(up)' + 1}
               /\ EntryOf(up)' # Metrics
               /\ \A k \in Metrics : Reports(up, k)' \in {Times(up)', Times(up)' + 1}
    <3>1. CASE up = u
      BY <1>6, <1>7, <2>2, <2>3, <2>4, <3>1
    <3>2. CASE up # u
      <4>1. up \in Nat \ {u}
        BY <3>2
      <4> QED BY <2>2, <2>3, <2>5, <3>2, <4>1 DEF Assembled
    <3> QED BY <3>1, <3>2
  <2> QED BY <1>2, <2>1, <2>6 DEF Assembled
<1> QED BY <1>9, <1>10

\* At the start there is neither a report nor an entry.
LEMMA NothingReported == Init => Assembled
<1> SUFFICES ASSUME Init PROVE Assembled
  OBVIOUS
<1>1. seen = 0 /\ entries = <<>> /\ validation = <<>>
  BY DEF Init, ParserInit
<1>2. \A up, key : Reports(up, key) = 0
  BY <1>1, ReportCount, CountNone
<1>3. \A up : Times(up) = 0
  <2>1. {i \in 1 .. 0 : validation[i] = validation[i]} = {}
    OBVIOUS
  <2> QED BY <1>1, FS_EmptySet DEF Times
<1>4. \A up : EntryOf(up) = {}
  BY <1>1 DEF EntryOf
<1> QED BY <1>1, <1>2, <1>3, <1>4, ParserAssumption DEF Assembled

\* Every step keeps the entries as the reports say.
LEMMA ValidationKept ==
    ASSUME InRounds
    PROVE  ValidationInv /\ [Next]_vars => ValidationInv'
<1> SUFFICES ASSUME ParserInv, Assembled, [Next]_vars PROVE ParserInv' /\ Assembled'
  BY DEF ValidationInv
<1>1. ParserInv'
  BY ParserKept
<1>2. ASSUME UNCHANGED <<log, seen, entries, validation>> PROVE Assembled'
  BY <1>2, SMTT(60) DEF Assembled, EntryOf, Reports, Times
<1>3. CASE Prepare \/ Trainer \/ SaveBest \/ Crash \/ CopyBest \/ Done
  BY <1>2, <1>3, OthersKeepParser
<1>4. CASE ParserStep
  <2>1. UNCHANGED <<log, written, closed, trainer>> /\ (Parse \/ Copy)
    BY <1>4 DEF ParserStep
  <2>2. CASE ReadOther \/ ReadTraining \/ UnknownMetric
    <3>1. UNCHANGED log
      BY <2>1
    <3> QED BY <1>1, <2>2, <3>1, NoReport
  <2>3. CASE ReadValidation
    BY <1>1, <2>1, <2>3, MetricReported
  <2>4. CASE \/ Boot \/ ReadHeader \/ ReadDescription \/ ReadConfig \/ SkipCreated \/ NoContext
             \/ Open \/ DataEnds \/ Publish \/ CloseAll \/ Copy
    BY <1>2, <2>1, <2>4, RestOfParser
  <2> QED BY <2>1, <2>2, <2>3, <2>4 DEF Parse
<1>5. CASE UNCHANGED vars
  <2>1. UNCHANGED <<log, seen, entries, validation>>
    BY <1>5 DEF vars, running, parserVars
  <2> QED BY <1>1, <1>2, <2>1
<1> QED BY <1>1, <1>3, <1>4, <1>5 DEF Next

\* A validation is published when and only when all of its metrics were reported, whatever
\* comes between them, from a log whose metrics come in rounds (parser.py 149-186).
THEOREM ValidationsPublished ==
    ASSUME InRounds
    PROVE  Spec => []ValidationAssembled
<1>1. Init => ValidationInv
  BY ParserStarts, NothingReported DEF ValidationInv
<1>2. ValidationInv => ValidationAssembled
  <2> SUFFICES ASSUME ParserInv, Assembled, NEW i \in 1 .. seen
               PROVE  \E k \in Metrics :
                          /\ Times(log[i].up) = Reports(log[i].up, k)
                          /\ \A j \in Metrics : Reports(log[i].up, k) <= Reports(log[i].up, j)
    BY DEF ValidationInv, ValidationAssembled
  <2>1. log[i].up \in Nat
    <3>1. log \in Seq(Line) /\ Len(log) \in Nat
      BY ParserAssumption DEF ParserInv, Positions
    <3>2. i \in 1 .. Len(log)
      BY <3>1 DEF ParserInv, Positions
    <3>3. log[i] \in Line
      BY <3>1, <3>2
    <3> QED BY <3>3 DEF Line
  <2>2. PICK up \in Nat : up = log[i].up
    BY <2>1
  <2>3. Times(up) \in Nat
    BY TimesIsNat DEF Assembled
  <2>4. PICK k \in Metrics : k \notin EntryOf(up)
    BY DEF Assembled
  <2>5. Times(up) = Reports(up, k)
    BY <2>4 DEF Assembled
  <2>6. \A j \in Metrics : Reports(up, k) <= Reports(up, j)
    BY <2>3, <2>5 DEF Assembled
  <2> QED BY <2>2, <2>5, <2>6
<1> QED BY <1>1, <1>2, ValidationKept, PTL DEF Spec

-----------------------------------------------------------------------------
(* The rows of the trainer.                                                *)

\* A task gives no alignments, or those of its data sets in their order, as
\* kinds/train-*/kind.yml do: the configurations of teacher and student take them.
TasksAgree ==
    \A t \in Tasks :
        IF t.model \in {"teacher", "student"}
          THEN /\ t.alignments # <<>>
               /\ \A d \in DOMAIN t.prefixes \cap DOMAIN t.alignments :
                      t.alignments[d] = t.prefixes[d]
          ELSE t.alignments = <<>>

\* The TSV files that can be built.
DataSets == {Tsv(p) : p \in DOMAIN LinesOf}
            \cup {AlignedTsv(p[1], p[2]) : p \in (DOMAIN LinesOf) \X (DOMAIN LinesOf)}

\* Each data set that was built is that of its prefix, joined with the alignments at its
\* place; the configuration was filled in for this task and has its data sets.
Built ==
    \A d \in 1 .. Len(datasets) :
        IF task.alignments = <<>>
          THEN datasets[d] = Tsv(task.prefixes[d])
          ELSE /\ d <= Len(task.alignments)
               /\ datasets[d] = AlignedTsv(task.prefixes[d], task.alignments[d])

SetupInv ==
    /\ task \in Tasks
    /\ datasets \in Seq(DataSets) /\ Len(datasets) <= Len(task.prefixes)
    /\ Built
    /\ setup \in {"commands", "ready"} =>
           opusConfig = ConfigInput /\ opusConfig.datasets <= Len(datasets)

\* InOrder(some) has every one of the lines, and in their order.
LEMMA LinesInOrder ==
    ASSUME NEW n \in Nat, NEW S \in SUBSET (1 .. n)
    PROVE  /\ Cardinality(S) \in Nat
           /\ InOrder(S) \in [1 .. Cardinality(S) -> S]
           /\ \A i, j \in 1 .. Cardinality(S) : i < j => InOrder(S)[i] < InOrder(S)[j]
           /\ S = {InOrder(S)[i] : i \in 1 .. Cardinality(S)}
<1>1. IsFiniteSet(S) /\ Cardinality(S) \in Nat
  <2>1. S \cap (1 .. n) = S
    OBVIOUS
  <2> QED BY <2>1, CountIsNat
<1>2. PICK c \in Nat : c = Cardinality(S)
  BY <1>1
<1>0. \A l \in S : l \in Nat
  OBVIOUS
<1>3. PICK f : f = [i \in 1 .. c |-> CHOOSE l \in S : Cardinality(S \cap (1 .. l)) = i]
  OBVIOUS
<1>4. \A i \in 1 .. c : f[i] \in S /\ Cardinality(S \cap (1 .. f[i])) = i
  BY <1>2, <1>3, CountReaches
<1>5. f \in [1 .. c -> S]
  BY <1>3, <1>4
<1>6. ASSUME NEW i \in 1 .. c, NEW j \in 1 .. c, i < j
      PROVE  f[i] < f[j]
  <2>1. f[i] \in Nat /\ f[j] \in Nat
    <3>1. f[i] \in S /\ f[j] \in S
      BY <1>4
    <3> QED BY <1>0, <3>1
  <2>2. CASE f[j] <= f[i]
    <3>1. Cardinality(S \cap (1 .. f[j])) <= Cardinality(S \cap (1 .. f[i]))
      BY <2>1, <2>2, CountGrows
    <3> QED BY <1>4, <1>6, <3>1
  <2> QED BY <2>1, <2>2
<1>7. PICK s : s = InOrder(S)
  OBVIOUS
<1>8. s \in [1 .. c -> S] /\ \A i, j \in 1 .. c : i < j => s[i] < s[j]
  <2>1. \E t \in [1 .. Cardinality(S) -> S] : \A i, j \in DOMAIN t : i < j => t[i] < t[j]
    BY <1>2, <1>5, <1>6
  <2> QED BY <1>2, <1>7, <2>1 DEF InOrder
<1>9. s \in Injection(1 .. c, S)
  <2>1. ASSUME NEW i \in 1 .. c, NEW j \in 1 .. c, i # j PROVE s[i] # s[j]
    <3>1. s[i] \in S /\ s[j] \in S
      BY <1>8
    <3>2. s[i] \in Nat /\ s[j] \in Nat
      BY <1>0, <3>1
    <3>3. i < j \/ j < i
      BY <2>1
    <3> QED BY <1>8, <3>2, <3>3
  <2> QED BY <1>8, <2>1 DEF Injection, IsInjective
<1>10. s \in Surjection(1 .. c, S)
  <2>1. Cardinality(1 .. c) = c
    BY FS_Interval
  <2> QED BY <1>1, <1>2, <1>9, <2>1, FS_Injection
<1> QED BY <1>1, <1>2, <1>7, <1>8, <1>10 DEF Surjection

\* A row with a number of fields, all of them of one line of a prefix.
RowFits(row, prefix, line, fields) ==
    /\ Len(row) = fields /\ DOMAIN row = 1 .. fields /\ row[1][3] = line
    /\ \A f \in 1 .. fields : row[f][1] = prefix /\ row[f][3] = line

\* A data set without alignments has a row of two fields for each line.
LEMMA RowsOfSides ==
    ASSUME NEW p \in DOMAIN LinesOf, NEW rows, rows = Tsv(p)
    PROVE  /\ DOMAIN rows = 1 .. LinesOf[p]
           /\ \A r \in DOMAIN rows : RowFits(rows[r], p, r, 2)
<1>1. /\ DOMAIN rows = 1 .. LinesOf[p]
      /\ \A r \in DOMAIN rows : rows[r] = <<<<p, "src", r>>, <<p, "trg", r>>>>
  BY DEF Tsv
<1>2. \A r : RowFits(<<<<p, "src", r>>, <<p, "trg", r>>>>, p, r, 2)
  BY DEF RowFits
<1> QED BY <1>1, <1>2

\* One with the alignments of its own prefix has a row of three for each aligned line.
LEMMA RowsOfAligned ==
    ASSUME NEW p \in DOMAIN LinesOf, NEW rows, rows = AlignedTsv(p, p),
           NEW kept, kept = 1 .. LinesOf[p] \ Unaligned[p]
    PROVE  /\ DOMAIN rows = 1 .. Cardinality(kept)
           /\ \A r \in DOMAIN rows : RowFits(rows[r], p, InOrder(kept)[r], 3)
<1>2. LinesOf[p] \in Nat /\ kept \in SUBSET (1 .. LinesOf[p])
  BY SetupAssumption
<1>3. {line \in 1 .. LinesOf[p] : Keep(p, line)} = kept
  BY DEF Keep
<1>4. InOrder(kept) \in [1 .. Cardinality(kept) -> kept] /\ Cardinality(kept) \in Nat
  BY <1>2, LinesInOrder
<1>5. /\ DOMAIN rows = 1 .. Cardinality(kept)
      /\ \A r \in DOMAIN rows :
             rows[r] = Append(Tsv(p)[InOrder(kept)[r]], <<p, "aln", InOrder(kept)[r]>>)
  BY <1>3, <1>4 DEF AlignedTsv
<1>6. \A l : RowFits(<<<<p, "src", l>>, <<p, "trg", l>>, <<p, "aln", l>>>>, p, l, 3)
  BY DEF RowFits
<1>7. ASSUME NEW r \in DOMAIN rows PROVE RowFits(rows[r], p, InOrder(kept)[r], 3)
  <2>1. PICK l \in kept : l = InOrder(kept)[r]
    BY <1>4, <1>5
  <2>2. Tsv(p)[l] = <<<<p, "src", l>>, <<p, "trg", l>>>>
    BY <1>2, <2>1 DEF Tsv
  <2>3. rows[r] = Append(<<<<p, "src", l>>, <<p, "trg", l>>>>, <<p, "aln", l>>)
    BY <1>5, <2>1, <2>2
  <2>4. rows[r] = <<<<p, "src", l>>, <<p, "trg", l>>, <<p, "aln", l>>>>
    <3>1. ASSUME NEW a, NEW b, NEW c PROVE Append(<<a, b>>, c) = <<a, b, c>>
      <4>1. PICK S : S = {a, b, c}
        OBVIOUS
      <4>2. <<a, b>> \in Seq(S) /\ c \in S /\ <<a, b, c>> \in Seq(S)
        BY <4>1
      <4>3. /\ Append(<<a, b>>, c) \in Seq(S) /\ Len(Append(<<a, b>>, c)) = 3
            /\ Append(<<a, b>>, c)[1] = a /\ Append(<<a, b>>, c)[2] = b
            /\ Append(<<a, b>>, c)[3] = c
        BY <4>2
      <4>4. \A k \in 1 .. 3 : Append(<<a, b>>, c)[k] = <<a, b, c>>[k]
        BY <4>3
      <4> QED BY <4>2, <4>3, <4>4, SeqEqual
    <3> QED BY <2>3, <3>1
  <2> QED BY <1>6, <2>1, <2>4
<1> QED BY <1>5, <1>7

\* Rows of fields of the same line each, which are the lines of a set in their order.
RowsFit(rows, prefix, with, fields) ==
    /\ \A r \in DOMAIN rows : Len(rows[r]) = fields
    /\ \A r \in DOMAIN rows : \A f \in DOMAIN rows[r] :
           rows[r][f][1] = prefix /\ rows[r][f][3] = rows[r][1][3]
    /\ {rows[r][1][3] : r \in DOMAIN rows} = with
    /\ \A r, s \in DOMAIN rows : r < s => rows[r][1][3] < rows[s][1][3]

\* What the setup leaves is as it says, if the task agrees with its configuration.
LEMMA SetupFits == ASSUME TasksAgree, SetupInv PROVE RowsForTrainer
<1> SUFFICES ASSUME setup \in {"commands", "ready"}, NEW d \in 1 .. opusConfig.datasets
             PROVE  RowsFit(datasets[d], task.prefixes[d],
                            IF opusConfig.fields = 3
                              THEN 1 .. LinesOf[task.prefixes[d]] \ Unaligned[task.prefixes[d]]
                              ELSE 1 .. LinesOf[task.prefixes[d]],
                            opusConfig.fields)
  BY DEF RowsForTrainer, RowsFit
<1>0. PICK rows, prefix : rows = datasets[d] /\ prefix = task.prefixes[d]
  OBVIOUS
<1>1. /\ task \in Tasks /\ opusConfig = ConfigInput /\ opusConfig.datasets <= Len(datasets)
      /\ datasets \in Seq(DataSets) /\ Len(datasets) <= Len(task.prefixes)
  BY DEF SetupInv
<1>2. task.prefixes \in Seq(DOMAIN LinesOf) /\ task.alignments \in Seq(DOMAIN LinesOf)
  BY <1>1, SetupAssumption
<1>3. opusConfig.datasets \in Nat
  BY <1>1 DEF ConfigInput, TeacherConfig, StudentConfig, BackwardConfig
<1>4. d \in 1 .. Len(datasets) /\ d \in 1 .. Len(task.prefixes) /\ d \in Nat
  BY <1>1, <1>2, <1>3
<1>5. prefix \in DOMAIN LinesOf /\ LinesOf[prefix] \in Nat
  BY <1>0, <1>2, <1>4, SetupAssumption
<1>6. CASE task.model \in {"teacher", "student"}
  <2>1. opusConfig.fields = 3
    BY <1>1, <1>6 DEF ConfigInput, TeacherConfig, StudentConfig
  <2>2. task.alignments # <<>>
    BY <1>1, <1>6 DEF TasksAgree
  <2>3. d <= Len(task.alignments) /\ rows = AlignedTsv(prefix, task.alignments[d])
    BY <1>0, <1>4, <2>2 DEF SetupInv, Built
  <2>4. d \in DOMAIN task.prefixes \cap DOMAIN task.alignments
    BY <1>2, <1>4, <2>3
  <2>5. rows = AlignedTsv(prefix, prefix)
    BY <1>0, <1>1, <1>6, <2>3, <2>4 DEF TasksAgree
  <2>6. PICK with \in SUBSET (1 .. LinesOf[prefix]) :
            with = 1 .. LinesOf[prefix] \ Unaligned[prefix]
    OBVIOUS
  <2>7. /\ DOMAIN rows = 1 .. Cardinality(with)
        /\ \A r \in DOMAIN rows : RowFits(rows[r], prefix, InOrder(with)[r], 3)
    BY <1>5, <2>5, <2>6, RowsOfAligned
  <2>8. /\ \A i, j \in 1 .. Cardinality(with) : i < j => InOrder(with)[i] < InOrder(with)[j]
        /\ with = {InOrder(with)[i] : i \in 1 .. Cardinality(with)}
    BY <1>5, LinesInOrder
  <2>9. RowsFit(rows, prefix, with, 3)
    BY <2>7, <2>8 DEF RowsFit, RowFits
  <2> QED BY <1>0, <2>1, <2>6, <2>9
<1>7. CASE task.model \notin {"teacher", "student"}
  <2>1. opusConfig.fields = 2
    BY <1>1, <1>7 DEF ConfigInput, BackwardConfig
  <2>2. task.alignments = <<>>
    BY <1>1, <1>7 DEF TasksAgree
  <2>3. rows = Tsv(prefix)
    BY <1>0, <1>4, <2>2 DEF SetupInv, Built
  <2>4. /\ DOMAIN rows = 1 .. LinesOf[prefix]
        /\ \A r \in DOMAIN rows : RowFits(rows[r], prefix, r, 2)
    BY <1>5, <2>3, RowsOfSides
  <2>5. RowsFit(rows, prefix, 1 .. LinesOf[prefix], 2)
    BY <2>4 DEF RowsFit, RowFits
  <2> QED BY <1>0, <2>1, <2>5
<1> QED BY <1>6, <1>7

\* A data set more is built from the files at its place.
LEMMA DataSetBuilt ==
    ASSUME SetupInv, BuildDataset
    PROVE  SetupInv'
<1>1. /\ task \in Tasks /\ setup = "build" /\ task' = task
      /\ task.prefixes \in Seq(DOMAIN LinesOf) /\ task.alignments \in Seq(DOMAIN LinesOf)
  BY SetupAssumption DEF SetupInv, BuildDataset
<1>2. PICK n \in Nat : n = Len(datasets)
  BY DEF SetupInv
<1>3. n + 1 \in 1 .. Len(task.prefixes) /\ task.prefixes[n + 1] \in DOMAIN LinesOf
  BY <1>1, <1>2 DEF BuildDataset
<1>4. CASE setup' = "failed" /\ UNCHANGED datasets
  BY <1>1, <1>4 DEF SetupInv, Built
<1>5. CASE ~(setup' = "failed" /\ UNCHANGED datasets)
  <2>1. PICK rows \in DataSets :
            /\ datasets' = Append(datasets, rows) /\ setup' = "build"
            /\ IF task.alignments = <<>>
                 THEN rows = Tsv(task.prefixes[n + 1])
                 ELSE /\ n + 1 <= Len(task.alignments)
                      /\ rows = AlignedTsv(task.prefixes[n + 1], task.alignments[n + 1])
    <3>1. CASE task.alignments = <<>>
      <4>1. Tsv(task.prefixes[n + 1]) \in DataSets
        BY <1>3 DEF DataSets
      <4> QED BY <1>1, <1>2, <1>5, <3>1, <4>1 DEF BuildDataset, Join, Raise
    <3>2. CASE task.alignments # <<>>
      <4>1. n + 1 <= Len(task.alignments)
        BY <1>1, <1>2, <1>5, <3>2 DEF BuildDataset, Raise
      <4>2. task.alignments[n + 1] \in DOMAIN LinesOf
        BY <1>1, <4>1
      <4>3. AlignedTsv(task.prefixes[n + 1], task.alignments[n + 1]) \in DataSets
        <5>1. <<task.prefixes[n + 1], task.alignments[n + 1]>>
                  \in (DOMAIN LinesOf) \X (DOMAIN LinesOf)
          BY <1>3, <4>2
        <5> QED BY <5>1 DEF DataSets
      <4> QED BY <1>1, <1>2, <1>5, <3>2, <4>1, <4>3 DEF BuildDataset, Join, Raise
    <3> QED BY <3>1, <3>2
  <2>2. /\ datasets' \in Seq(DataSets) /\ Len(datasets') = n + 1 /\ datasets'[n + 1] = rows
        /\ \A d \in 1 .. n : datasets'[d] = datasets[d]
    BY <1>2, <2>1 DEF SetupInv
  <2>3. Built'
    <3>1. \A d \in 1 .. n + 1 : d = n + 1 \/ d \in 1 .. n
      OBVIOUS
    <3> QED BY <1>1, <1>2, <2>1, <2>2, <3>1 DEF SetupInv, Built
  <2> QED BY <1>1, <1>3, <2>1, <2>2, <2>3 DEF SetupInv
<1> QED BY <1>4, <1>5

\* The other steps of the setup leave the data sets alone.
LEMMA SetupKept == SetupInv /\ [Next]_vars => SetupInv'
<1> SUFFICES ASSUME SetupInv, [Next]_vars PROVE SetupInv'
  OBVIOUS
<1>1. ASSUME UNCHANGED setupVars PROVE SetupInv'
  BY <1>1 DEF setupVars, SetupInv, Built, ConfigInput
<1>2. CASE Prepare
  <2>1. SetUp
    BY <1>2 DEF Prepare
  <2>2. CASE BuildDataset
    BY <2>2, DataSetBuilt
  <2>3. CASE ValidateArgs \/ BuildValidationSet
    <3>1. UNCHANGED <<task, datasets>> /\ setup' \notin {"commands", "ready"}
      BY <2>3 DEF ValidateArgs, BuildValidationSet, Raise
    <3> QED BY <3>1 DEF SetupInv, Built
  <2>4. CASE GenerateConfig
    <3>1. UNCHANGED <<task, datasets>>
      BY <2>4 DEF GenerateConfig, Raise
    <3>2. setup' \in {"commands", "ready"} =>
              opusConfig' = ConfigInput /\ ConfigInput.datasets <= Len(datasets)
      BY <2>4 DEF GenerateConfig, Raise
    <3> QED BY <3>1, <3>2 DEF SetupInv, Built, ConfigInput
  <2>5. CASE MakeCommands
    <3>1. UNCHANGED <<task, datasets, opusConfig>> /\ setup = "commands"
      BY <2>5 DEF MakeCommands, Raise
    <3> QED BY <3>1 DEF SetupInv, Built, ConfigInput
  <2> QED BY <2>1, <2>2, <2>3, <2>4, <2>5 DEF SetUp
<1>3. CASE Trainer \/ SaveBest \/ Crash \/ ParserStep \/ CopyBest \/ Done \/ UNCHANGED vars
  <2>1. UNCHANGED setupVars
    BY <1>3 DEF Trainer, SaveBest, Crash, ParserStep, CopyBest, Done, NotConfigured, Write,
                BrokenPipe, FinishTraining, vars
  <2> QED BY <1>1, <2>1
<1> QED BY <1>2, <1>3 DEF Next

\* The rows that are given to OpusTrainer fit the configuration that names them, for every
\* task whose alignments are those of its data sets (train.py 91-125, 233-250, 276-285).
THEOREM RowsFitConfig ==
    ASSUME TasksAgree
    PROVE  Spec => []RowsForTrainer
<1>1. Init => SetupInv
  <2> SUFFICES ASSUME Init PROVE SetupInv
    OBVIOUS
  <2>1. task \in Tasks /\ setup = "validate" /\ datasets = <<>>
    BY DEF Init, SetupInit
  <2>2. task.prefixes \in Seq(DOMAIN LinesOf)
    BY <2>1, SetupAssumption
  <2>3. datasets \in Seq(DataSets) /\ Len(datasets) = 0 /\ Len(datasets) <= Len(task.prefixes)
    BY <2>1, <2>2
  <2> QED BY <2>1, <2>3 DEF SetupInv, Built
<1>2. SetupInv => RowsForTrainer
  BY SetupFits
<1> QED BY <1>1, <1>2, SetupKept, PTL DEF Spec

=============================================================================
