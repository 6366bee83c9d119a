-------------------------- MODULE TaskGraph_proofs ---------------------------
(***************************************************************************)
(* The decisions of TaskGraph, for all kinds, configs and actions: what    *)
(* the folds over the kinds make, what a task of a loaded graph is, and    *)
(* that its properties hold in every state.                           *)
(***************************************************************************)
EXTENDS TaskGraph, TLAPS, FiniteSetTheorems, NaturalsInduction, WellFoundedInduction

-----------------------------------------------------------------------------
(* Induction over an interval, with sets.                                  *)

\* The smallest of some numbers.
LEMMA Smallest ==
    ASSUME NEW S \in SUBSET Nat, S # {}
    PROVE  \E m \in S : \A k \in S : m <= k
<1>1. PICK m \in S : \A k \in S : ~(<<k, m>> \in OpToRel(<, Nat))
  BY NatLessThanWellFounded, WFMin
<1>2. \A k \in S : ~(k < m)
  BY <1>1 DEF OpToRel
<1>3. \A k \in S : k \in Nat
  OBVIOUS
<1> QED BY <1>2, <1>3

\* A set of numbers has all up to n if it has each whose predecessors it has.
LEMMA Upwards ==
    ASSUME NEW n \in Nat, NEW good,
           \A m \in 1 .. n : (\A k \in 1 .. m - 1 : k \in good) => m \in good
    PROVE  \A m \in 1 .. n : m \in good
<1>1. PICK bad : bad = {m \in 1 .. n : m \notin good}
  OBVIOUS
<1>2. ASSUME bad # {} PROVE FALSE
  <2>1. bad \in SUBSET Nat
    BY <1>1
  <2>2. PICK m \in bad : \A k \in bad : m <= k
    BY <1>2, <2>1, Smallest
  <2>3. m \in 1 .. n /\ m \notin good
    BY <1>1, <2>2
  <2>4. \A k \in 1 .. m - 1 : k \in good
    BY <1>1, <2>2, <2>3
  <2> QED BY <2>3, <2>4
<1> QED BY <1>1, <1>2

\* It has all from 0 to n if it has 0 and with each number the next.
LEMMA Steps ==
    ASSUME NEW n \in Nat, NEW good, 0 \in good,
           \A m \in 1 .. n : m - 1 \in good => m \in good
    PROVE  \A m \in 0 .. n : m \in good
<1>1. \A m \in 1 .. n : (\A k \in 1 .. m - 1 : k \in good) => m \in good
  <2> SUFFICES ASSUME NEW m \in 1 .. n, \A k \in 1 .. m - 1 : k \in good PROVE m - 1 \in good
    OBVIOUS
  <2>1. m = 1 \/ m - 1 \in 1 .. m - 1
    OBVIOUS
  <2> QED BY <2>1
<1>2. \A m \in 1 .. n : m \in good
  BY <1>1, Upwards
<1> QED BY <1>2

-----------------------------------------------------------------------------
(* Folds: the value after each of the first elements of a sequence.  Step  *)
(* is the step of any of the folds here; in is what it takes from outside. *)

Step(fold, in, made, x) ==
    IF fold = "load" THEN LoadKind(made, x)
    ELSE IF fold = "made" THEN WithMade(made, x)
    ELSE IF fold = "results" THEN WithResults(in, made, x)
    ELSE IF fold = "upstream" THEN WithUpstream(in, made, x)
    ELSE IF fold = "order" THEN made \o SetToSeq(LabelsOf(in.graph, x, in.labels))
    ELSE WithReplaced(in.graph, in.needed, made, x)

\* What the step of each fold is.
LEMMA StepIs ==
    ASSUME NEW in, NEW made, NEW x
    PROVE  /\ Step("load", in, made, x) = LoadKind(made, x)
           /\ Step("made", in, made, x) = WithMade(made, x)
           /\ Step("results", in, made, x) = WithResults(in, made, x)
           /\ Step("upstream", in, made, x) = WithUpstream(in, made, x)
           /\ Step("order", in, made, x) = made \o SetToSeq(LabelsOf(in.graph, x, in.labels))
           /\ Step("replaced", in, made, x) = WithReplaced(in.graph, in.needed, made, x)
  BY DEF Step

\* The equation of the recursive function in FoldLeft.
Folds(g, fold, in, base, s, n) ==
    g = [S \in SUBSET (1 .. n) |->
            IF S = {} THEN base ELSE Step(fold, in, g[S \ {Max(S)}], s[Max(S)])]

\* The number that FoldLeft takes out of a set of numbers up to m that has m.
LEMMA TakenOut ==
    ASSUME NEW m \in Nat \ {0}, NEW S \in SUBSET (1 .. m), m \in S
    PROVE  Max(S) = m /\ S \ {m} \in SUBSET (1 .. m - 1)
<1>1. \A y \in S : y \in Int /\ m >= y
  OBVIOUS
<1>2. \A x \in S : (\A y \in S : x >= y) => x = m
  BY <1>1
<1>3. Max(S) = m
  BY <1>1, <1>2 DEF Max
<1> QED BY <1>3

\* The equation has a solution.
LEMMA FoldExists ==
    ASSUME NEW fold, NEW in, NEW base, NEW s, NEW n \in Nat
    PROVE  \E g : Folds(g, fold, in, base, s, n)
<1>1. PICK good : good = {m \in 0 .. n : \E g : Folds(g, fold, in, base, s, m)}
  OBVIOUS
<1>2. 0 \in good
  <2>1. \A S \in SUBSET (1 .. 0) : S = {}
    OBVIOUS
  <2>2. Folds([S \in SUBSET (1 .. 0) |-> base], fold, in, base, s, 0)
    BY <2>1 DEF Folds
  <2>3. 0 \in 0 .. n
    OBVIOUS
  <2> QED BY <1>1, <2>2, <2>3
<1>3. ASSUME NEW m \in 1 .. n, m - 1 \in good PROVE m \in good
  <2>1. PICK g : Folds(g, fold, in, base, s, m - 1)
    BY <1>1, <1>3
  <2>2. PICK h : h = [S \in SUBSET (1 .. m) |->
                        IF m \in S THEN Step(fold, in, g[S \ {m}], s[m]) ELSE g[S]]
    OBVIOUS
  <2>3. ASSUME NEW S \in SUBSET (1 .. m)
        PROVE  h[S] = IF S = {} THEN base ELSE Step(fold, in, h[S \ {Max(S)}], s[Max(S)])
    <3>1. CASE m \in S
      <4>1. Max(S) = m /\ S \ {m} \in SUBSET (1 .. m) /\ m \notin S \ {m} /\ S # {}
        BY <3>1, TakenOut
      <4>2. h[S \ {m}] = g[S \ {m}] /\ h[S] = Step(fold, in, g[S \ {m}], s[m])
        BY <2>2, <3>1, <4>1
      <4> QED BY <4>1, <4>2
    <3>2. CASE m \notin S
      <4>1. S \in SUBSET (1 .. m - 1)
        BY <3>2
      <4>2. g[S] = IF S = {} THEN base ELSE Step(fold, in, g[S \ {Max(S)}], s[Max(S)])
        BY <2>1, <4>1 DEF Folds
      <4>3. /\ h[S] = g[S]
            /\ h[S \ {Max(S)}] = g[S \ {Max(S)}]
        <5>1. m \notin S \ {Max(S)} /\ S \ {Max(S)} \in SUBSET (1 .. m)
          BY <3>2
        <5> QED BY <2>2, <3>2, <5>1
      <4> QED BY <4>2, <4>3
    <3> QED BY <3>1, <3>2
  <2>4. Folds(h, fold, in, base, s, m)
    BY <2>2, <2>3 DEF Folds
  <2>5. m \in 0 .. n
    OBVIOUS
  <2> QED BY <1>1, <2>4, <2>5
<1>4. \A m \in 0 .. n : m \in good
  BY <1>2, <1>3, Steps
<1>5. n \in 0 .. n
  OBVIOUS
<1> QED BY <1>1, <1>4, <1>5

\* A run of a fold: its value after each of the first elements.
Run(r, fold, in, base, s, n) ==
    /\ DOMAIN r = 0 .. n /\ r[0] = base
    /\ \A m \in 1 .. n : r[m] = Step(fold, in, r[m - 1], s[m])

\* A solution gives the run.
LEMMA FoldRuns ==
    ASSUME NEW fold, NEW in, NEW base, NEW s, NEW n \in Nat,
           NEW g, Folds(g, fold, in, base, s, n)
    PROVE  \E r : Run(r, fold, in, base, s, n) /\ r[n] = g[1 .. n]
<1>1. PICK r : r = [m \in 0 .. n |-> g[1 .. m]]
  OBVIOUS
<1>2. r[0] = base
  <2>1. 1 .. 0 = {} /\ 0 \in 0 .. n /\ {} \in SUBSET (1 .. n)
    OBVIOUS
  <2> QED BY <1>1, <2>1 DEF Folds
<1>3. ASSUME NEW m \in 1 .. n PROVE r[m] = Step(fold, in, r[m - 1], s[m])
  <2>1. m \in 1 .. m /\ 1 .. m # {} /\ 1 .. m \in SUBSET (1 .. n) /\ 1 .. m \in SUBSET (1 .. m)
    <3>1. m \in 1 .. m
      OBVIOUS
    <3>2. \A i \in 1 .. m : i \in 1 .. n
      OBVIOUS
    <3> QED BY <3>1, <3>2
  <2>2. Max(1 .. m) = m
    BY <2>1, TakenOut
  <2>3. (1 .. m) \ {m} = 1 .. m - 1 /\ m - 1 \in 0 .. n /\ m \in 0 .. n
    OBVIOUS
  <2>4. g[1 .. m] = Step(fold, in, g[(1 .. m) \ {m}], s[m])
    BY <2>1, <2>2 DEF Folds
  <2> QED BY <1>1, <2>3, <2>4
<1>4. n \in 0 .. n /\ DOMAIN r = 0 .. n
  BY <1>1
<1>5. Run(r, fold, in, base, s, n)
  BY <1>2, <1>3, <1>4 DEF Run
<1>6. r[n] = g[1 .. n]
  BY <1>1, <1>4
<1> QED BY <1>5, <1>6

\* The run of the kinds of a config.
LEMMA LoadRuns ==
    ASSUME NEW config, NEW n \in Nat, DOMAIN KindOrder = 1 .. n
    PROVE  \E r : Run(r, "load", None, Unloaded(config), KindOrder, n) /\ Load(config) = r[n]
<1>1. PICK h : Folds(h, "load", None, Unloaded(config), KindOrder, n)
  BY FoldExists
<1>2. h = [S \in SUBSET (DOMAIN KindOrder) |->
            IF S = {} THEN Unloaded(config)
            ELSE LoadKind(h[S \ {Max(S)}], KindOrder[Max(S)])]
  BY <1>1 DEF Folds, Step
<1>3. PICK g : /\ Load(config) = g[DOMAIN KindOrder]
               /\ g = [S \in SUBSET (DOMAIN KindOrder) |->
                        IF S = {} THEN Unloaded(config)
                        ELSE LoadKind(g[S \ {Max(S)}], KindOrder[Max(S)])]
  BY <1>2, Zenon DEF Load, FoldLeft, MapThenFoldSet
<1>4. Folds(g, "load", None, Unloaded(config), KindOrder, n)
  BY <1>3 DEF Folds, Step
<1>5. PICK r : Run(r, "load", None, Unloaded(config), KindOrder, n) /\ r[n] = g[1 .. n]
  BY <1>4, FoldRuns
<1> QED BY <1>3, <1>5

\* What tasks make, one after the other.
LEMMA MadeRuns ==
    ASSUME NEW created, NEW n \in Nat, DOMAIN created = 1 .. n
    PROVE  \E r : Run(r, "made", None, <<>>, created, n) /\ MadeOf(created) = r[n]
<1>1. PICK h : Folds(h, "made", None, <<>>, created, n)
  BY FoldExists
<1>2. h = [S \in SUBSET (DOMAIN created) |->
            IF S = {} THEN <<>>
            ELSE WithMade(h[S \ {Max(S)}], created[Max(S)])]
  BY <1>1 DEF Folds, Step
<1>3. PICK g : /\ MadeOf(created) = g[DOMAIN created]
               /\ g = [S \in SUBSET (DOMAIN created) |->
                        IF S = {} THEN <<>>
                        ELSE WithMade(g[S \ {Max(S)}], created[Max(S)])]
  BY <1>2, Zenon DEF MadeOf, FoldLeft, MapThenFoldSet
<1>4. Folds(g, "made", None, <<>>, created, n)
  BY <1>3 DEF Folds, Step
<1>5. PICK r : Run(r, "made", None, <<>>, created, n) /\ r[n] = g[1 .. n]
  BY <1>4, FoldRuns
<1> QED BY <1>3, <1>5

\* What the tasks of a graph would make, one kind after the other.
LEMMA ResultsRuns ==
    ASSUME NEW graph, NEW n \in Nat, DOMAIN KindOrder = 1 .. n
    PROVE  \E r : Run(r, "results", graph, Empty, KindOrder, n) /\ Results(graph) = r[n]
<1>1. PICK h : Folds(h, "results", graph, Empty, KindOrder, n)
  BY FoldExists
<1>2. h = [S \in SUBSET (DOMAIN KindOrder) |->
            IF S = {} THEN Empty
            ELSE WithResults(graph, h[S \ {Max(S)}], KindOrder[Max(S)])]
  BY <1>1 DEF Folds, Step
<1>3. PICK g : /\ Results(graph) = g[DOMAIN KindOrder]
               /\ g = [S \in SUBSET (DOMAIN KindOrder) |->
                        IF S = {} THEN Empty
                        ELSE WithResults(graph, g[S \ {Max(S)}], KindOrder[Max(S)])]
  BY <1>2, Zenon DEF Results, FoldLeft, MapThenFoldSet
<1>4. Folds(g, "results", graph, Empty, KindOrder, n)
  BY <1>3 DEF Folds, Step
<1>5. PICK r : Run(r, "results", graph, Empty, KindOrder, n) /\ r[n] = g[1 .. n]
  BY <1>4, FoldRuns
<1> QED BY <1>3, <1>5

\* The labels of a graph, one kind after the other.
LEMMA OrderRuns ==
    ASSUME NEW graph, NEW labels, NEW n \in Nat, DOMAIN KindOrder = 1 .. n
    PROVE  \E r : /\ Run(r, "order", [graph |-> graph, labels |-> labels], <<>>, KindOrder, n)
                  /\ CreationOrder(graph, labels) = r[n]
<1>1. PICK h : Folds(h, "order", [graph |-> graph, labels |-> labels], <<>>, KindOrder, n)
  BY FoldExists
<1>2. h = [S \in SUBSET (DOMAIN KindOrder) |->
            IF S = {} THEN <<>>
            ELSE h[S \ {Max(S)}] \o SetToSeq(LabelsOf(graph, KindOrder[Max(S)], labels))]
  BY <1>1 DEF Folds, Step
<1>3. PICK g : /\ CreationOrder(graph, labels) = g[DOMAIN KindOrder]
               /\ g = [S \in SUBSET (DOMAIN KindOrder) |->
                        IF S = {} THEN <<>>
                        ELSE g[S \ {Max(S)}] \o SetToSeq(LabelsOf(graph, KindOrder[Max(S)], labels))]
  BY <1>2, Zenon DEF CreationOrder, FoldLeft, MapThenFoldSet
<1>4. Folds(g, "order", [graph |-> graph, labels |-> labels], <<>>, KindOrder, n)
  BY <1>3 DEF Folds, Step
<1>5. PICK r : /\ Run(r, "order", [graph |-> graph, labels |-> labels], <<>>, KindOrder, n)
               /\ r[n] = g[1 .. n]
  BY <1>4, FoldRuns
<1> QED BY <1>3, <1>5

\* What the targets need, from the last kind back.
LEMMA TargetRuns ==
    ASSUME NEW graph, NEW config, NEW n \in Nat, DOMAIN Reverse(KindOrder) = 1 .. n
    PROVE  \E r : /\ Run(r, "upstream", graph, TargetLabels(graph, config), Reverse(KindOrder), n)
                  /\ TargetGraph(graph, config) = r[n]
<1>1. PICK h : Folds(h, "upstream", graph, TargetLabels(graph, config), Reverse(KindOrder), n)
  BY FoldExists
<1>2. h = [S \in SUBSET (DOMAIN Reverse(KindOrder)) |->
            IF S = {} THEN TargetLabels(graph, config)
            ELSE WithUpstream(graph, h[S \ {Max(S)}], Reverse(KindOrder)[Max(S)])]
  BY <1>1 DEF Folds, Step
<1>3. PICK g : /\ TargetGraph(graph, config) = g[DOMAIN Reverse(KindOrder)]
               /\ g = [S \in SUBSET (DOMAIN Reverse(KindOrder)) |->
                        IF S = {} THEN TargetLabels(graph, config)
                        ELSE WithUpstream(graph, g[S \ {Max(S)}], Reverse(KindOrder)[Max(S)])]
  BY <1>2, Zenon DEF TargetGraph, FoldLeft, MapThenFoldSet
<1>4. Folds(g, "upstream", graph, TargetLabels(graph, config), Reverse(KindOrder), n)
  BY <1>3 DEF Folds, Step
<1>5. PICK r : /\ Run(r, "upstream", graph, TargetLabels(graph, config), Reverse(KindOrder), n)
               /\ r[n] = g[1 .. n]
  BY <1>4, FoldRuns
<1> QED BY <1>3, <1>5

\* What is replaced, one kind after the other.
LEMMA ReplacedRuns ==
    ASSUME NEW graph, NEW needed, NEW n \in Nat, DOMAIN KindOrder = 1 .. n
    PROVE  \E r : /\ Run(r, "replaced", [graph |-> graph, needed |-> needed], Empty, KindOrder, n)
                  /\ Replacements(graph, needed) = r[n]
<1>1. PICK h : Folds(h, "replaced", [graph |-> graph, needed |-> needed], Empty, KindOrder, n)
  BY FoldExists
<1>2. h = [S \in SUBSET (DOMAIN KindOrder) |->
            IF S = {} THEN Empty
            ELSE WithReplaced(graph, needed, h[S \ {Max(S)}], KindOrder[Max(S)])]
  BY <1>1 DEF Folds, Step
<1>3. PICK g : /\ Replacements(graph, needed) = g[DOMAIN KindOrder]
               /\ g = [S \in SUBSET (DOMAIN KindOrder) |->
                        IF S = {} THEN Empty
                        ELSE WithReplaced(graph, needed, g[S \ {Max(S)}], KindOrder[Max(S)])]
  BY <1>2, Zenon DEF Replacements, FoldLeft, MapThenFoldSet
<1>4. Folds(g, "replaced", [graph |-> graph, needed |-> needed], Empty, KindOrder, n)
  BY <1>3 DEF Folds, Step
<1>5. PICK r : /\ Run(r, "replaced", [graph |-> graph, needed |-> needed], Empty, KindOrder, n)
               /\ r[n] = g[1 .. n]
  BY <1>4, FoldRuns
<1> QED BY <1>3, <1>5

-----------------------------------------------------------------------------
(* Jobs: what each transform changes, and what it leaves as it was.        *)

Fields == {"kind", "dataset", "chunk", "src", "trg", "needs", "dependencies", "mounts", "command",
           "resources", "parameters", "worker", "label", "digest"}

\* A job that differs from another in some fields only.
Changed(job, other, fields) ==
    /\ DOMAIN other = Fields
    /\ \A f \in Fields \ fields : other[f] = job[f]

\* The jobs of a kind before its transforms.
LEMMA JobsAre ==
    ASSUME NEW kind \in DOMAIN Kinds, NEW config, NEW job \in Jobs(kind, config)
    PROVE  /\ Changed(Base(kind, config), job, {"dataset", "command", "parameters"})
           /\ Kinds[kind].fan = "none" => job = Base(kind, config)
           /\ Kinds[kind].fan # "none" => job.dataset \in IncludedDatasets(kind, config)
<1>1. DOMAIN Base(kind, config) = Fields
  BY DEF Base, Fields
<1>2. ASSUME NEW d, NEW locale
      PROVE  /\ Changed(Base(kind, config), ForDataset(Base(kind, config), d, locale),
                        {"dataset", "command", "parameters"})
             /\ ForDataset(Base(kind, config), d, locale).dataset = d
  BY <1>1 DEF ForDataset, Changed, Fields
<1>3. CASE Kinds[kind].fan = "none"
  BY <1>1, <1>3 DEF Jobs, Changed
<1>4. CASE Kinds[kind].fan = "datasets"
  <2>1. PICK d \in IncludedDatasets(kind, config) :
            job = ForDataset(Base(kind, config), d, None)
    BY <1>4 DEF Jobs, JobsFromDatasets
  <2> QED BY <1>2, <1>4, <2>1
<1>5. CASE Kinds[kind].fan = "mono"
  <2>1. PICK d \in IncludedDatasets(kind, config) :
            \E locale : job = ForDataset(Base(kind, config), d, locale)
    BY <1>5 DEF Jobs, JobsForMonoDatasets
  <2> QED BY <1>2, <1>5, <2>1
<1> QED BY <1>3, <1>4, <1>5, KindsAssumption

\* The fields of a job before its transforms.
LEMMA BaseIs ==
    ASSUME NEW kind, NEW config
    PROVE  /\ DOMAIN Base(kind, config) = Fields
           /\ Base(kind, config).kind = kind /\ Base(kind, config).dataset = None
           /\ Base(kind, config).chunk = 0 /\ Base(kind, config).mounts = <<>>
           /\ Base(kind, config).src = config.src /\ Base(kind, config).trg = config.trg
           /\ Base(kind, config).needs = Kinds[kind].needs
           /\ Base(kind, config).dependencies = {}
           /\ Base(kind, config).parameters = Kinds[kind].parameters
  BY DEF Base, Fields

\* What each transform changes.
LEMMA TransformsChange ==
    ASSUME NEW job, DOMAIN job = Fields, NEW config, NEW sofar
    PROVE  /\ Changed(job, AddPretrainedModelMounts(job, config),
                      {"mounts", "needs", "resources", "parameters"})
           /\ Changed(job, SetWorkerType(job, config), {"worker"})
           /\ Changed(job, RenderCommand(job, config), {"command"})
           /\ Changed(job, ResolveNeeds(job, sofar), {"dependencies"})
           /\ Changed(job, FindUpstreams(job, config, sofar), {"dependencies"})
<1>1. Changed(job, SetWorkerType(job, config), {"worker"})
  BY DEF SetWorkerType, Changed, Fields
<1>2. Changed(job, RenderCommand(job, config), {"command"})
  BY DEF RenderCommand, Changed, Fields
<1>3. Changed(job, ResolveNeeds(job, sofar), {"dependencies"})
  BY DEF ResolveNeeds, Changed, Fields
<1>4. Changed(job, FindUpstreams(job, config, sofar), {"dependencies"})
  BY DEF FindUpstreams, Changed, Fields
<1>5. Changed(job, AddPretrainedModelMounts(job, config),
              {"mounts", "needs", "resources", "parameters"})
  BY DEF AddPretrainedModelMounts, Changed, Fields
<1> QED BY <1>1, <1>2, <1>3, <1>4, <1>5

\* The labels that the transforms make a job depend on.
Wants(job, sofar) ==
    {t.label : t \in {u \in sofar : u.kind \in job.needs
                          /\ (None \in {u.dataset, job.dataset} \/ u.dataset = job.dataset)}}
Gets(job, config, sofar) ==
    Wants(job, sofar) \cup
        (IF FetchesUpstreams(job.kind) THEN {t.label : t \in Upstreams(job, config, sofar)} ELSE {})

\* The numbers of a product of naturals.
LEMMA Products ==
    ASSUME NEW a \in Nat, NEW b \in Nat, NEW c \in Nat, a <= b
    PROVE  a * c \in Nat /\ b * c \in Nat /\ a * c <= b * c /\ (a + 1) * c = a * c + c
  OBVIOUS

\* A finite set as a sequence.
LEMMA SetAsSeq ==
    ASSUME NEW S, IsFiniteSet(S)
    PROVE  /\ SetToSeq(S) \in Seq(S) /\ Len(SetToSeq(S)) = Cardinality(S)
           /\ Cardinality(S) \in Nat
           /\ ToSet(SetToSeq(S)) = S
           /\ \A i, j \in DOMAIN SetToSeq(S) : SetToSeq(S)[i] = SetToSeq(S)[j] => i = j
<1>1. Cardinality(S) \in Nat
  BY FS_CardinalityType
<1>2. PICK f \in Bijection(1 .. Cardinality(S), S) : TRUE
  BY FS_CardinalityType DEF ExistsBijection
<1>3. f \in [1 .. Cardinality(S) -> S] /\ IsInjective(f)
  BY <1>2 DEF Bijection, Injection, Surjection
<1>4. SetToSeq(S) \in [1 .. Cardinality(S) -> S] /\ IsInjective(SetToSeq(S))
  BY <1>3, Zenon DEF SetToSeq
<1>5. SetToSeq(S) \in Surjection(1 .. Cardinality(S), S)
  <2>1. SetToSeq(S) \in Injection(1 .. Cardinality(S), S)
    BY <1>4 DEF Injection
  <2>2. IsFiniteSet(1 .. Cardinality(S)) /\ Cardinality(1 .. Cardinality(S)) = Cardinality(S)
    BY <1>1, FS_Interval
  <2> QED BY <2>1, <2>2, FS_Injection
<1>6. ToSet(SetToSeq(S)) = S
  BY <1>4, <1>5 DEF ToSet, Surjection
<1> QED BY <1>1, <1>4, <1>6 DEF IsInjective

\* The dummies take a part of the dependencies each, and together take all.
LEMMA DummiesTake ==
    ASSUME NEW job, DOMAIN job = Fields, IsFiniteSet(job.dependencies)
    PROVE  /\ \A dummy \in AddDependencies(job) :
                 /\ Changed(job, dummy, {"chunk", "dependencies"})
                 /\ dummy.dependencies \subseteq job.dependencies
           /\ \A d \in job.dependencies : \E dummy \in AddDependencies(job) :
                 d \in dummy.dependencies
<1> DEFINE all == SetToSeq(job.dependencies)
           size == Len(all)
           end(i) == IF i * MaxDependencies < size THEN i * MaxDependencies ELSE size
           part(i) == ToSet(SubSeq(all, (i - 1) * MaxDependencies + 1, end(i)))
           count == (size + MaxDependencies - 1) \div MaxDependencies
<1>1. AddDependencies(job) =
          {[job EXCEPT !.dependencies = part(i), !.chunk = i] : i \in 1 .. count}
  BY Zenon DEF AddDependencies
<1>2. /\ all \in Seq(job.dependencies) /\ size \in Nat
      /\ ToSet(all) = job.dependencies
      /\ MaxDependencies \in Nat \ {0}
  BY SetAsSeq, InputsAssumption
<1>3. ASSUME NEW i \in Nat \ {0}
      PROVE  part(i) = {all[p] : p \in (i - 1) * MaxDependencies + 1 .. end(i)}
  <2>1. PICK first \in Nat : first = (i - 1) * MaxDependencies
    BY <1>2, <1>3, Products
  <2>2. end(i) \in Nat /\ end(i) <= size
    <3>1. i * MaxDependencies \in Nat
      BY <1>2, <1>3, Products
    <3> QED BY <1>2, <3>1
  <2> HIDE DEF end, all, size
  <2>3. PICK last \in Nat : last = end(i) /\ last <= size
    BY <2>2
  <2>4. SubSeq(all, first + 1, last) = [k \in 1 .. last - (first + 1) + 1 |-> all[first + 1 + k - 1]]
    BY <1>2, <2>3 DEF size
  <2>5. ASSUME NEW p \in first + 1 .. last
        PROVE  all[p] \in ToSet(SubSeq(all, first + 1, last))
    <3>1. p - first \in 1 .. last - (first + 1) + 1 /\ first + 1 + (p - first) - 1 = p
      OBVIOUS
    <3> QED BY <2>4, <3>1 DEF ToSet
  <2>6. ASSUME NEW k \in 1 .. last - (first + 1) + 1
        PROVE  SubSeq(all, first + 1, last)[k] \in {all[p] : p \in first + 1 .. last}
    <3>1. first + 1 + k - 1 \in first + 1 .. last
      OBVIOUS
    <3> QED BY <2>4, <3>1
  <2>7. ToSet(SubSeq(all, first + 1, last)) = {all[p] : p \in first + 1 .. last}
    BY <2>4, <2>5, <2>6 DEF ToSet
  <2> QED BY <2>1, <2>3, <2>7
<1>4. ASSUME NEW i \in 1 .. count PROVE part(i) \subseteq job.dependencies
  <2>1. i \in Nat \ {0} /\ i - 1 \in Nat
    OBVIOUS
  <2>2. (i - 1) * MaxDependencies \in Nat /\ end(i) \in Nat /\ end(i) <= size
    <3>1. (i - 1) * MaxDependencies \in Nat /\ i * MaxDependencies \in Nat
      BY <1>2, <2>1, Products
    <3> QED BY <1>2, <3>1
  <2>3. part(i) = {all[p] : p \in (i - 1) * MaxDependencies + 1 .. end(i)}
    BY <1>3, <2>1
  <2> HIDE DEF end, all, size, part, count
  <2>4. ASSUME NEW p \in (i - 1) * MaxDependencies + 1 .. end(i) PROVE all[p] \in job.dependencies
    <3>1. PICK first \in Nat : first = (i - 1) * MaxDependencies
      BY <2>2
    <3>2. p \in 1 .. size
      BY <1>2, <2>2, <3>1
    <3>3. p \in DOMAIN all
      BY <1>2, <3>2 DEF size
    <3> QED BY <1>2, <3>3 DEF ToSet
  <2> QED BY <2>3, <2>4
<1>5. ASSUME NEW p \in 1 .. size PROVE \E i \in 1 .. count : all[p] \in part(i)
  <2>1. PICK reach : reach = {i \in Nat : p <= i * MaxDependencies}
    OBVIOUS
  <2>2. p \in reach
    <3>1. 1 * p <= MaxDependencies * p
      BY <1>2, Products
    <3>2. p <= p * MaxDependencies
      BY <1>2, <3>1
    <3> QED BY <2>1, <3>2
  <2>3. PICK i \in reach : \A k \in reach : i <= k
    BY <2>1, <2>2, Smallest
  <2>4. i \in Nat /\ p <= i * MaxDependencies
    BY <2>1, <2>3
  <2>5. i # 0
    BY <1>2, <2>4
  <2>6. i - 1 \in Nat /\ ~ (p <= (i - 1) * MaxDependencies)
    BY <2>1, <2>3, <2>4, <2>5
  <2>7. (i - 1) * MaxDependencies \in Nat /\ i * MaxDependencies = (i - 1) * MaxDependencies + MaxDependencies
    BY <1>2, <2>4, <2>6, Products
  <2>8. i * MaxDependencies <= size + MaxDependencies - 1 /\ (i - 1) * MaxDependencies + 1 <= p
    BY <1>2, <2>6, <2>7
  <2>9. i <= count
    <3>1. PICK a \in Nat : a = size + MaxDependencies - 1
      BY <1>2
    <3>2. PICK q \in Int : q = a \div MaxDependencies
      BY <1>2
    <3>3. a < (q + 1) * MaxDependencies /\ q \in Nat
      BY <1>2, <3>1, <3>2, SMTT(30)
    <3>4. ASSUME q < i PROVE FALSE
      <4>1. (q + 1) * MaxDependencies <= i * MaxDependencies
        BY <1>2, <2>4, <3>3, <3>4, Products
      <4> QED BY <2>4, <2>8, <3>1, <3>3, <4>1, <1>2, <2>7
    <3> QED BY <3>1, <3>2, <3>3, <3>4, <2>4
  <2>10. p \in (i - 1) * MaxDependencies + 1 .. end(i)
    BY <1>2, <2>4, <2>7, <2>8
  <2>11. i \in Nat \ {0} /\ i \in 1 .. count
    <3> HIDE DEF count
    <3>1. count \in Int
      BY <1>2 DEF count
    <3> QED BY <2>4, <2>5, <2>9, <3>1
  <2>12. part(i) = {all[q] : q \in (i - 1) * MaxDependencies + 1 .. end(i)}
    BY <1>3, <2>11
  <2> HIDE DEF part, all, size, end, count
  <2> QED BY <2>10, <2>11, <2>12
<1>6. ASSUME NEW i, NEW dummy, dummy = [job EXCEPT !.dependencies = part(i), !.chunk = i]
      PROVE  Changed(job, dummy, {"chunk", "dependencies"}) /\ dummy.dependencies = part(i)
  <2> HIDE DEF part
  <2> QED BY <1>6 DEF Changed, Fields
<1> HIDE DEF all, size, part, count, end
<1>7. \A d \in job.dependencies : \E p \in 1 .. size : d = all[p]
  BY <1>2 DEF ToSet, size
<1>8. ASSUME NEW dummy \in AddDependencies(job)
      PROVE  /\ Changed(job, dummy, {"chunk", "dependencies"})
             /\ dummy.dependencies \subseteq job.dependencies
  <2>1. PICK i \in 1 .. count : dummy = [job EXCEPT !.dependencies = part(i), !.chunk = i]
    BY <1>1, <1>8
  <2>2. Changed(job, dummy, {"chunk", "dependencies"}) /\ dummy.dependencies = part(i)
    BY <1>6, <2>1
  <2>3. part(i) \subseteq job.dependencies
    BY <1>4
  <2> QED BY <2>2, <2>3
<1>9. ASSUME NEW d \in job.dependencies
      PROVE  \E dummy \in AddDependencies(job) : d \in dummy.dependencies
  <2>1. PICK p \in 1 .. size : d = all[p]
    BY <1>7
  <2>2. PICK i \in 1 .. count : all[p] \in part(i)
    BY <1>5
  <2>3. PICK dummy : dummy = [job EXCEPT !.dependencies = part(i), !.chunk = i]
    OBVIOUS
  <2>4. dummy.dependencies = part(i)
    BY <1>6, <2>3
  <2>5. dummy \in AddDependencies(job)
    BY <1>1, <2>3
  <2> QED BY <2>1, <2>2, <2>4, <2>5
<1> QED BY <1>8, <1>9

-----------------------------------------------------------------------------
(* The tasks of a kind, from its jobs.                                     *)

\* A job after the transforms that do not make several of it.
Gotten(job, config, sofar) ==
    Fetching(ResolveNeeds(RenderCommand(SetWorkerType(AddPretrainedModelMounts(job, config), config),
                                        config), sofar), config, sofar)

\* A job with all its dependencies differs from the one with its mounts in these fields.
LEMMA GottenIs ==
    ASSUME NEW job, DOMAIN job = Fields, job.dependencies = {}, NEW config, NEW sofar
    PROVE  LET mounted == AddPretrainedModelMounts(job, config)
               gotten == Gotten(job, config, sofar)
           IN  /\ Changed(job, mounted, {"mounts", "needs", "resources", "parameters"})
               /\ Changed(mounted, gotten, {"worker", "command", "dependencies"})
               /\ gotten.kind = job.kind
               /\ gotten.dependencies = Gets(mounted, config, sofar)
<1>1. PICK a : a = AddPretrainedModelMounts(job, config)
  OBVIOUS
<1>2. Changed(job, a, {"mounts", "needs", "resources", "parameters"}) /\ DOMAIN a = Fields
  BY <1>1, TransformsChange DEF Changed
<1>3. PICK b : b = SetWorkerType(a, config)
  OBVIOUS
<1>4. Changed(a, b, {"worker"}) /\ DOMAIN b = Fields
  BY <1>2, <1>3, TransformsChange DEF Changed
<1>5. PICK c : c = RenderCommand(b, config)
  OBVIOUS
<1>6. Changed(b, c, {"command"}) /\ DOMAIN c = Fields
  BY <1>4, <1>5 DEF RenderCommand, Changed, Fields
<1>7. PICK d : d = ResolveNeeds(c, sofar)
  OBVIOUS
<1>8. Changed(c, d, {"dependencies"}) /\ DOMAIN d = Fields
  BY <1>6, <1>7, TransformsChange DEF Changed
<1>9. PICK e : e = Fetching(d, config, sofar)
  OBVIOUS
<1>10. Changed(d, e, {"dependencies"})
  BY <1>8, <1>9, TransformsChange DEF Fetching, Changed
<1>11. Changed(a, e, {"worker", "command", "dependencies"})
  BY <1>4, <1>6, <1>8, <1>10 DEF Changed, Fields
<1>12. /\ c.needs = a.needs /\ c.dataset = a.dataset /\ c.dependencies = {}
       /\ a.kind = job.kind /\ d.kind = a.kind /\ e.kind = job.kind
  BY <1>2, <1>4, <1>6, <1>8, <1>10 DEF Changed, Fields
<1>13. d.dependencies = Wants(a, sofar)
  BY <1>6, <1>7, <1>12 DEF ResolveNeeds, Wants, Fields
<1>14. Upstreams(d, config, sofar) = Upstreams(a, config, sofar)
  BY <1>12 DEF Upstreams
<1>15. e.dependencies = Gets(a, config, sofar)
  <2>1. CASE FetchesUpstreams(d.kind)
    BY <1>8, <1>9, <1>12, <1>13, <1>14, <2>1 DEF Fetching, FindUpstreams, Gets, Fields
  <2>2. CASE ~ FetchesUpstreams(d.kind)
    BY <1>9, <1>12, <1>13, <2>2 DEF Fetching, Gets
  <2> QED BY <2>1, <2>2
<1>16. Gotten(job, config, sofar) = e
  BY <1>1, <1>3, <1>5, <1>7, <1>9 DEF Gotten
<1> QED BY <1>1, <1>2, <1>11, <1>12, <1>15, <1>16

\* What the transforms make of a kind is made of its jobs, one by one.
LEMMA TransformedIs ==
    ASSUME NEW kind, NEW config, NEW sofar, NEW x
    PROVE  x \in Transformed(kind, config, sofar) <=>
               \E job \in SkipForPretrainedModels(Jobs(kind, config), config) :
               \E y \in Several(Gotten(job, config, sofar), config) :
                   x = [y EXCEPT !.label = Label(y)]
<1>1. x \in Transformed(kind, config, sofar) <=>
          \E l \in Linked(kind, config, sofar) :
          \E y \in Several(Fetching(l, config, sofar), config) : x = [y EXCEPT !.label = Label(y)]
  BY DEF Transformed
<1> QED BY <1>1 DEF Linked, Gotten

\* The jobs that are made of one.
LEMMA SeveralAre ==
    ASSUME NEW job, DOMAIN job = Fields, IsFiniteSet(job.dependencies), NEW config,
           NEW y \in Several(job, config)
    PROVE  /\ Changed(job, y, {"chunk", "dependencies"})
           /\ y.dependencies \subseteq job.dependencies
           /\ ~ Kinds[job.kind].dummies => y.dependencies = job.dependencies
           /\ ~ Kinds[job.kind].dummies /\ ~ Kinds[job.kind].chunked => y = job
<1>1. CASE Kinds[job.kind].dummies
  BY <1>1, DummiesTake DEF Several
<1>2. CASE ~ Kinds[job.kind].dummies /\ Kinds[job.kind].chunked
  <2>1. PICK i : y = [job EXCEPT !.chunk = i]
    BY <1>2 DEF Several, Chunks
  <2>2. Changed(job, y, {"chunk", "dependencies"}) /\ y.dependencies = job.dependencies
    BY <2>1 DEF Changed, Fields
  <2> QED BY <1>2, <2>2
<1>3. CASE ~ Kinds[job.kind].dummies /\ ~ Kinds[job.kind].chunked
  BY <1>3 DEF Several, Chunks, Changed
<1> QED BY <1>1, <1>2, <1>3

\* The labels that a job may depend on are those of finitely many tasks.
LEMMA GetsAre ==
    ASSUME NEW job, NEW config, NEW sofar
    PROVE  \A d \in Gets(job, config, sofar) : \E u \in sofar :
               u.label = d /\ u.kind \in job.needs \cup Kinds[job.kind].after
  BY DEF Gets, Wants, Upstreams, DependencyTasks

\* What is made of the elements of a finite set is finite.
LEMMA FiniteLabels ==
    ASSUME NEW S, IsFiniteSet(S), NEW T \in SUBSET {t.label : t \in S}
    PROVE  IsFiniteSet(T)
<1>1. PICK f : f = [t \in S |-> t.label]
  OBVIOUS
<1>2. f \in Surjection(S, {t.label : t \in S})
  BY <1>1 DEF Surjection
<1> QED BY <1>2, FS_Surjection, FS_Subset

\* The tasks of a kind: what each has of the job it was made from.
LEMMA AddedIs ==
    ASSUME NEW kind \in DOMAIN Kinds, NEW config, NEW sofar, IsFiniteSet(sofar),
           NEW x \in Transformed(kind, config, sofar)
    PROVE  \E job \in Jobs(kind, config) :
               LET mounted == AddPretrainedModelMounts(job, config)
               IN  /\ Kinds[kind].evaluates \notin DOMAIN Pretrained(config)
                   /\ Changed(job, mounted, {"mounts", "needs", "resources", "parameters"})
                   /\ Changed(mounted, x, {"worker", "command", "dependencies", "chunk", "label"})
                   /\ x.dependencies \subseteq Gets(mounted, config, sofar)
                   /\ ~ Kinds[kind].dummies => x.dependencies = Gets(mounted, config, sofar)
<1>1. PICK job \in SkipForPretrainedModels(Jobs(kind, config), config) :
          \E y \in Several(Gotten(job, config, sofar), config) : x = [y EXCEPT !.label = Label(y)]
  BY TransformedIs
<1>2. PICK y \in Several(Gotten(job, config, sofar), config) : x = [y EXCEPT !.label = Label(y)]
  BY <1>1
<1>3. /\ job \in Jobs(kind, config) /\ job.kind = kind /\ DOMAIN job = Fields
      /\ job.dependencies = {} /\ Kinds[kind].evaluates \notin DOMAIN Pretrained(config)
  <2>1. job \in Jobs(kind, config) /\ Kinds[job.kind].evaluates \notin DOMAIN Pretrained(config)
    BY DEF SkipForPretrainedModels
  <2>2. Changed(Base(kind, config), job, {"dataset", "command", "parameters"})
    BY <2>1, JobsAre
  <2>3. job.kind = kind /\ DOMAIN job = Fields /\ job.dependencies = {}
    BY <2>2, BaseIs DEF Changed, Fields
  <2> QED BY <2>1, <2>3
<1>4. PICK a : a = AddPretrainedModelMounts(job, config)
  OBVIOUS
<1>5. PICK g : g = Gotten(job, config, sofar)
  OBVIOUS
<1>6. /\ Changed(job, a, {"mounts", "needs", "resources", "parameters"})
      /\ Changed(a, g, {"worker", "command", "dependencies"})
      /\ g.kind = kind
      /\ g.dependencies = Gets(a, config, sofar)
  BY <1>3, <1>4, <1>5, GottenIs
<1>7. DOMAIN g = Fields
  BY <1>6 DEF Changed
<1>8. IsFiniteSet(g.dependencies)
  <2>1. g.dependencies \in SUBSET {t.label : t \in sofar}
    BY <1>6, GetsAre
  <2> QED BY <2>1, FiniteLabels
<1>9. /\ Changed(g, y, {"chunk", "dependencies"})
      /\ y.dependencies \subseteq g.dependencies
      /\ ~ Kinds[kind].dummies => y.dependencies = g.dependencies
  BY <1>2, <1>5, <1>6, <1>7, <1>8, SeveralAre
<1>10. Changed(y, x, {"label"})
  BY <1>2, <1>9 DEF Changed, Fields
<1>11. Changed(a, x, {"worker", "command", "dependencies", "chunk", "label"})
  BY <1>6, <1>9, <1>10 DEF Changed, Fields
<1>12. x.dependencies = y.dependencies
  BY <1>10 DEF Changed, Fields
<1> QED BY <1>3, <1>4, <1>6, <1>9, <1>11, <1>12

\* What a job has of its kind, whatever models there are.
LEMMA MountedIs ==
    ASSUME NEW kind \in DOMAIN Kinds, NEW config, NEW job \in Jobs(kind, config), NEW mounted,
           Changed(job, mounted, {"mounts", "needs", "resources", "parameters"}),
           mounted = AddPretrainedModelMounts(job, config)
    PROVE  /\ mounted.kind = kind /\ mounted.src = config.src /\ mounted.trg = config.trg
           /\ mounted.dataset = job.dataset
           /\ mounted.needs \subseteq Kinds[kind].needs
           /\ mounted.chunk = 0 /\ mounted.digest = None
<1>1. Changed(Base(kind, config), job, {"dataset", "command", "parameters"}) /\ job.kind = kind
  BY JobsAre, BaseIs DEF Changed, Fields
<1>2. job.needs = Kinds[kind].needs /\ job.src = config.src /\ job.trg = config.trg
  BY <1>1, BaseIs DEF Changed, Fields
<1>3. mounted.needs \subseteq job.needs
  BY <1>1 DEF AddPretrainedModelMounts, Changed, Fields
<1>4. /\ mounted.kind = kind /\ mounted.src = config.src /\ mounted.trg = config.trg
      /\ mounted.dataset = job.dataset /\ job.chunk = mounted.chunk /\ job.digest = mounted.digest
  BY <1>1, <1>2 DEF Changed, Fields
<1>5. job.chunk = 0 /\ job.digest = None
  BY <1>1 DEF Changed, Fields, Base
<1> QED BY <1>2, <1>3, <1>4, <1>5

\* A task of a kind: its kind, languages and the kinds it depends on.
LEMMA TransformedFields ==
    ASSUME NEW kind \in DOMAIN Kinds, NEW config, NEW sofar, IsFiniteSet(sofar),
           NEW x \in Transformed(kind, config, sofar)
    PROVE  /\ DOMAIN x = Fields
           /\ x.kind = kind /\ x.src = config.src /\ x.trg = config.trg
           /\ x.needs \subseteq Kinds[kind].needs /\ x.digest = None
           /\ \A d \in x.dependencies : \E u \in sofar :
                 u.label = d /\ u.kind \in Kinds[kind].needs \cup Kinds[kind].after
<1>1. PICK job \in Jobs(kind, config) :
               LET mounted == AddPretrainedModelMounts(job, config)
               IN  /\ Changed(job, mounted, {"mounts", "needs", "resources", "parameters"})
                   /\ Changed(mounted, x, {"worker", "command", "dependencies", "chunk", "label"})
                   /\ x.dependencies \subseteq Gets(mounted, config, sofar)
  BY AddedIs
<1>2. PICK a : a = AddPretrainedModelMounts(job, config)
  OBVIOUS
<1>3. /\ Changed(job, a, {"mounts", "needs", "resources", "parameters"})
      /\ Changed(a, x, {"worker", "command", "dependencies", "chunk", "label"})
      /\ x.dependencies \subseteq Gets(a, config, sofar)
  BY <1>1, <1>2
<1>4. /\ a.kind = kind /\ a.src = config.src /\ a.trg = config.trg /\ a.digest = None
      /\ a.needs \subseteq Kinds[kind].needs
  BY <1>2, <1>3, MountedIs
<1>5. /\ DOMAIN x = Fields /\ x.kind = a.kind /\ x.src = a.src /\ x.trg = a.trg
      /\ x.needs = a.needs /\ x.digest = a.digest
  BY <1>3 DEF Changed, Fields
<1>6. \A d \in x.dependencies : \E u \in sofar :
          u.label = d /\ u.kind \in Kinds[kind].needs \cup Kinds[kind].after
  BY <1>3, <1>4, GetsAre
<1> QED BY <1>4, <1>5, <1>6

\* The digest is added to what the transforms make, and nothing else is changed.
LEMMA AddedFields ==
    ASSUME NEW kind \in DOMAIN Kinds, NEW config, NEW sofar, IsFiniteSet(sofar)
    PROVE  /\ \A t \in Added(kind, config, sofar) : \E x \in Transformed(kind, config, sofar) :
                 /\ Changed(x, t, {"digest"})
                 /\ t.digest = IF Kinds[kind].cached THEN TaskDigest(x, config, sofar) ELSE None
           /\ \A x \in Transformed(kind, config, sofar) : \E t \in Added(kind, config, sofar) :
                 /\ Changed(x, t, {"digest"})
                 /\ t.digest = IF Kinds[kind].cached THEN TaskDigest(x, config, sofar) ELSE None
<1>1. PICK d : d = [x \in Transformed(kind, config, sofar) |->
                       IF Kinds[kind].cached THEN TaskDigest(x, config, sofar) ELSE None]
  OBVIOUS
<1>2. \A t : t \in Added(kind, config, sofar) <=>
          \E x \in Transformed(kind, config, sofar) : t = [x EXCEPT !.digest = d[x]]
  BY <1>1 DEF Added
<1>3. ASSUME NEW x \in Transformed(kind, config, sofar), NEW t, t = [x EXCEPT !.digest = d[x]]
      PROVE  Changed(x, t, {"digest"}) /\ t.digest = d[x]
  BY <1>3, TransformedFields DEF Changed, Fields
<1>4. \A x \in Transformed(kind, config, sofar) :
          d[x] = IF Kinds[kind].cached THEN TaskDigest(x, config, sofar) ELSE None
  BY <1>1
<1>5. ASSUME NEW t \in Added(kind, config, sofar)
      PROVE  \E x \in Transformed(kind, config, sofar) :
                 /\ Changed(x, t, {"digest"})
                 /\ t.digest = IF Kinds[kind].cached THEN TaskDigest(x, config, sofar) ELSE None
  <2>1. PICK x \in Transformed(kind, config, sofar) : t = [x EXCEPT !.digest = d[x]]
    BY <1>2
  <2> QED BY <1>3, <1>4, <2>1
<1>6. ASSUME NEW x \in Transformed(kind, config, sofar)
      PROVE  \E t \in Added(kind, config, sofar) :
                 /\ Changed(x, t, {"digest"})
                 /\ t.digest = IF Kinds[kind].cached THEN TaskDigest(x, config, sofar) ELSE None
  <2>1. PICK t : t = [x EXCEPT !.digest = d[x]]
    OBVIOUS
  <2>2. t \in Added(kind, config, sofar)
    BY <1>2, <2>1
  <2> QED BY <1>3, <1>4, <2>1, <2>2
<1> QED BY <1>5, <1>6

-----------------------------------------------------------------------------
(* A config makes finitely many tasks of a kind.                           *)

\* The values of a function on a finite set are finitely many.
LEMMA FiniteValues ==
    ASSUME NEW S, NEW f, IsFiniteSet(S), NEW T, \A y \in T : \E x \in S : y = f[x]
    PROVE  IsFiniteSet(T)
<1>1. PICK g : g = [x \in S |-> f[x]]
  OBVIOUS
<1>2. g \in Surjection(S, {f[x] : x \in S})
  BY <1>1 DEF Surjection
<1>3. T \in SUBSET {f[x] : x \in S}
  OBVIOUS
<1> QED BY <1>2, <1>3, FS_Surjection, FS_Subset

\* The jobs of a kind are finitely many.
LEMMA FiniteJobs ==
    ASSUME NEW kind \in DOMAIN Kinds, NEW name \in DOMAIN Configs
    PROVE  IsFiniteSet(Jobs(kind, Configs[name]))
<1>1. PICK config : config = Configs[name]
  OBVIOUS
<1>2. IsFiniteSet(IncludedDatasets(kind, config))
  <2>1. PICK cs : cs = {c \in DOMAIN config.datasets : Kinds[kind].category \in {None, c}}
    OBVIOUS
  <2>2. cs \in SUBSET DOMAIN config.datasets /\ IsFiniteSet(DOMAIN config.datasets)
    BY <1>1, <2>1, InputsAssumption
  <2>3. IsFiniteSet(cs)
    BY <2>2, FS_Subset
  <2>4. PICK sets : sets = {config.datasets[c] : c \in cs}
    OBVIOUS
  <2>5. \A y \in sets : \E c \in cs : y = config.datasets[c]
    BY <2>4
  <2>6. IsFiniteSet(sets)
    <3>1. PICK f : f = config.datasets
      OBVIOUS
    <3> QED BY <2>3, <2>5, <3>1, FiniteValues
  <2>7. \A y \in sets : IsFiniteSet(y)
    BY <1>1, <2>2, <2>5, InputsAssumption
  <2>8. IsFiniteSet(UNION sets)
    BY <2>6, <2>7, FS_UNION
  <2>9. IncludedDatasets(kind, config) \in SUBSET UNION sets
    BY <2>1, <2>4 DEF IncludedDatasets
  <2> QED BY <2>8, <2>9, FS_Subset
<1>3. CASE Kinds[kind].fan = "none"
  <2>1. Jobs(kind, config) = {Base(kind, config)}
    BY <1>3 DEF Jobs
  <2> QED BY <1>1, <2>1, FS_Singleton
<1>4. ASSUME NEW locale, NEW T \in SUBSET {ForDataset(Base(kind, config), d, locale) :
                                              d \in IncludedDatasets(kind, config)}
      PROVE  IsFiniteSet(T)
  <2>1. PICK f : f = [d \in IncludedDatasets(kind, config) |->
                         ForDataset(Base(kind, config), d, locale)]
    OBVIOUS
  <2>2. \A y \in T : \E d \in IncludedDatasets(kind, config) : y = f[d]
    BY <2>1
  <2> QED BY <1>2, <2>2, FiniteValues
<1>5. CASE Kinds[kind].fan = "datasets"
  <2>1. Jobs(kind, config) \in SUBSET {ForDataset(Base(kind, config), d, None) :
                                          d \in IncludedDatasets(kind, config)}
    BY <1>5 DEF Jobs, JobsFromDatasets
  <2> QED BY <1>1, <1>4, <2>1
<1>6. CASE Kinds[kind].fan = "mono"
  <2>1. PICK locale :
            Jobs(kind, config) \in SUBSET {ForDataset(Base(kind, config), d, locale) :
                                              d \in IncludedDatasets(kind, config)}
    BY <1>6 DEF Jobs, JobsForMonoDatasets
  <2> QED BY <1>1, <1>4, <2>1
<1> QED BY <1>3, <1>5, <1>6, KindsAssumption

\* So are the jobs that are made of one.
LEMMA FiniteSeveral ==
    ASSUME NEW job, IsFiniteSet(job.dependencies), NEW name \in DOMAIN Configs
    PROVE  IsFiniteSet(Several(job, Configs[name]))
<1>1. CASE Kinds[job.kind].dummies
  <2>1. PICK part, count :
            /\ AddDependencies(job) =
                   {[job EXCEPT !.dependencies = part[i], !.chunk = i] : i \in 1 .. count}
            /\ count = (Len(SetToSeq(job.dependencies)) + MaxDependencies - 1) \div MaxDependencies
    <3> DEFINE all == SetToSeq(job.dependencies)
               count == (Len(all) + MaxDependencies - 1) \div MaxDependencies
               part == [i \in 1 .. count |-> ToSet(SubSeq(all, (i - 1) * MaxDependencies + 1,
                                IF i * MaxDependencies < Len(all) THEN i * MaxDependencies
                                ELSE Len(all)))]
    <3>1. AddDependencies(job) =
              {[job EXCEPT !.dependencies = part[i], !.chunk = i] : i \in 1 .. count}
      BY DEF AddDependencies
    <3> HIDE DEF part
    <3> QED BY <3>1
  <2>2. IsFiniteSet(1 .. count)
    <3>1. Len(SetToSeq(job.dependencies)) \in Nat /\ MaxDependencies \in Nat \ {0}
      BY SetAsSeq, InputsAssumption
    <3>2. PICK a \in Nat : a = Len(SetToSeq(job.dependencies)) + MaxDependencies - 1
      BY <3>1
    <3>3. a \div MaxDependencies \in Int
      BY <3>1
    <3>4. count \in Int
      BY <2>1, <3>2, <3>3
    <3> QED BY <3>4, FS_Interval
  <2>3. PICK f : f = [i \in 1 .. count |-> [job EXCEPT !.dependencies = part[i], !.chunk = i]]
    OBVIOUS
  <2>4. \A y \in AddDependencies(job) : \E i \in 1 .. count : y = f[i]
    BY <2>1, <2>3
  <2>5. IsFiniteSet(AddDependencies(job))
    BY <2>2, <2>4, FiniteValues
  <2> QED BY <1>1, <2>5 DEF Several
<1>2. CASE ~ Kinds[job.kind].dummies /\ Kinds[job.kind].chunked
  <2>1. PICK f : f = [i \in 1 .. Configs[name].ensemble |-> [job EXCEPT !.chunk = i]]
    OBVIOUS
  <2>2. \A y \in Several(job, Configs[name]) : \E i \in 1 .. Configs[name].ensemble : y = f[i]
    BY <1>2, <2>1 DEF Several, Chunks
  <2>3. IsFiniteSet(1 .. Configs[name].ensemble)
    <3>1. 1 \in Int /\ Configs[name].ensemble \in Int
      BY InputsAssumption
    <3> QED BY <3>1, FS_Interval
  <2> QED BY <2>2, <2>3, FiniteValues
<1>3. CASE ~ Kinds[job.kind].dummies /\ ~ Kinds[job.kind].chunked
  <2>1. Several(job, Configs[name]) = {job}
    BY <1>3 DEF Several, Chunks
  <2> QED BY <2>1, FS_Singleton
<1> QED BY <1>1, <1>2, <1>3

\* And so are the tasks of a kind.
LEMMA FiniteAdded ==
    ASSUME NEW kind \in DOMAIN Kinds, NEW name \in DOMAIN Configs, NEW sofar, IsFiniteSet(sofar)
    PROVE  IsFiniteSet(Added(kind, Configs[name], sofar))
<1>1. PICK config : config = Configs[name]
  OBVIOUS
<1>2. PICK jobs : jobs = SkipForPretrainedModels(Jobs(kind, config), config)
  OBVIOUS
<1>3. IsFiniteSet(jobs)
  <2>1. jobs \in SUBSET Jobs(kind, config)
    BY <1>2 DEF SkipForPretrainedModels
  <2> QED BY <1>1, <2>1, FiniteJobs, FS_Subset
<1>4. PICK f : f = [job \in jobs |-> Several(Gotten(job, config, sofar), config)]
  OBVIOUS
<1>5. ASSUME NEW job \in jobs PROVE IsFiniteSet(f[job])
  <2>1. job \in Jobs(kind, config)
    BY <1>2 DEF SkipForPretrainedModels
  <2>2. job.kind = kind /\ DOMAIN job = Fields /\ job.dependencies = {}
    BY <2>1, JobsAre, BaseIs DEF Changed, Fields
  <2>3. Gotten(job, config, sofar).dependencies =
            Gets(AddPretrainedModelMounts(job, config), config, sofar)
    BY <2>2, GottenIs
  <2>4. Gotten(job, config, sofar).dependencies \in SUBSET {t.label : t \in sofar}
    BY <2>3, GetsAre
  <2>5. IsFiniteSet(Gotten(job, config, sofar).dependencies)
    BY <2>4, FiniteLabels
  <2> QED BY <1>1, <1>4, <2>5, FiniteSeveral
<1>6. PICK made : made = UNION {f[job] : job \in jobs}
  OBVIOUS
<1>7. IsFiniteSet(made)
  <2>1. \A y \in {f[job] : job \in jobs} : IsFiniteSet(y) /\ \E job \in jobs : y = f[job]
    BY <1>5
  <2>2. IsFiniteSet({f[job] : job \in jobs})
    BY <1>3, <2>1, FiniteValues
  <2> QED BY <1>6, <2>1, <2>2, FS_UNION
<1>8. PICK labelled : labelled = [y \in made |-> [y EXCEPT !.label = Label(y)]]
  OBVIOUS
<1>9. \A x \in Transformed(kind, config, sofar) : \E y \in made : x = labelled[y]
  <2> SUFFICES ASSUME NEW x \in Transformed(kind, config, sofar)
               PROVE  \E y \in made : x = labelled[y]
    OBVIOUS
  <2>1. PICK job \in jobs : \E y \in Several(Gotten(job, config, sofar), config) :
                                x = [y EXCEPT !.label = Label(y)]
    BY <1>2, TransformedIs
  <2>2. PICK y \in Several(Gotten(job, config, sofar), config) : x = [y EXCEPT !.label = Label(y)]
    BY <2>1
  <2>3. y \in made
    BY <1>4, <1>6, <2>2
  <2> QED BY <1>8, <2>2, <2>3
<1>10. IsFiniteSet(Transformed(kind, config, sofar))
  BY <1>7, <1>9, FiniteValues
<1>11. PICK g : g = [x \in Transformed(kind, config, sofar) |->
             [x EXCEPT !.digest = IF Kinds[kind].cached THEN TaskDigest(x, config, sofar)
                                  ELSE None]]
  OBVIOUS
<1>12. \A t \in Added(kind, config, sofar) :
           \E x \in Transformed(kind, config, sofar) : t = g[x]
  BY <1>11 DEF Added
<1> QED BY <1>1, <1>10, <1>12, FiniteValues

-----------------------------------------------------------------------------
(* The graph of a config: its kinds in their order, as far as they load.   *)

KindCount == Len(KindOrder)
Upto(m) == {KindOrder[j] : j \in 1 .. m}
Earlier(graph, i) == {u \in graph : u.kind \in Upto(i - 1)}

\* The places of the kinds.
LEMMA Places ==
    /\ KindCount \in Nat /\ DOMAIN KindOrder = 1 .. KindCount
    /\ \A i \in 1 .. KindCount : KindOrder[i] \in DOMAIN Kinds
    /\ \A kind \in DOMAIN Kinds : \E i \in 1 .. KindCount : KindOrder[i] = kind
    /\ \A i, j \in 1 .. KindCount : KindOrder[i] = KindOrder[j] => i = j
    /\ \A i \in 1 .. KindCount : \A k \in 0 .. i - 1 : KindOrder[i] \notin Upto(k)
    /\ \A i \in 1 .. KindCount :
          Kinds[KindOrder[i]].needs \cup Kinds[KindOrder[i]].after \subseteq Upto(i - 1)
<1>1. KindCount \in Nat /\ DOMAIN KindOrder = 1 .. KindCount
  BY KindsAssumption DEF KindCount
<1>2. \A i \in 1 .. KindCount : KindOrder[i] \in DOMAIN Kinds
  BY <1>1, KindsAssumption
<1>3. \A kind \in DOMAIN Kinds : \E i \in 1 .. KindCount : KindOrder[i] = kind
  BY <1>1, KindsAssumption DEF ToSet
<1>4. \A i, j \in 1 .. KindCount : KindOrder[i] = KindOrder[j] => i = j
  BY <1>1, KindsAssumption
<1>5. ASSUME NEW i \in 1 .. KindCount, NEW k \in 0 .. i - 1, KindOrder[i] \in Upto(k)
      PROVE  FALSE
  <2>1. PICK j \in 1 .. k : KindOrder[i] = KindOrder[j]
    BY <1>5 DEF Upto
  <2>2. j \in 1 .. KindCount /\ j # i
    BY <1>1
  <2> QED BY <1>4, <2>1, <2>2
<1>6. \A i \in 1 .. KindCount :
          Kinds[KindOrder[i]].needs \cup Kinds[KindOrder[i]].after \subseteq Upto(i - 1)
  BY <1>1, KindsAssumption DEF Upto
<1> QED BY <1>1, <1>2, <1>3, <1>4, <1>5, <1>6

\* A graph that has the first m kinds.
Has(graph, config, m) ==
    /\ IsFiniteSet(graph)
    /\ \A u \in graph : u.kind \in Upto(m)
    /\ \A i \in 1 .. m :
          /\ ~ Raises(KindOrder[i], config, Earlier(graph, i))
          /\ OfKind(graph, KindOrder[i]) = Added(KindOrder[i], config, Earlier(graph, i))

\* With the next kind it has one kind more.
LEMMA OneKindMore ==
    ASSUME NEW name \in DOMAIN Configs, NEW m \in Nat, m + 1 <= KindCount,
           NEW graph, Has(graph, Configs[name], m),
           ~ Raises(KindOrder[m + 1], Configs[name], graph)
    PROVE  Has(graph \cup Added(KindOrder[m + 1], Configs[name], graph), Configs[name], m + 1)
<1>1. PICK config : config = Configs[name]
  OBVIOUS
<1>2. PICK kind : kind = KindOrder[m + 1]
  OBVIOUS
<1>3. m + 1 \in 1 .. KindCount /\ kind \in DOMAIN Kinds
  BY <1>2, Places
<1>4. PICK more : more = Added(kind, config, graph)
  OBVIOUS
<1>5. IsFiniteSet(graph)
  BY DEF Has
<1>6. \A t \in more : t.kind = kind
  <2> SUFFICES ASSUME NEW t \in more PROVE t.kind = kind
    OBVIOUS
  <2>1. PICK x \in Transformed(kind, config, graph) : Changed(x, t, {"digest"})
    BY <1>3, <1>4, <1>5, AddedFields
  <2>2. x.kind = kind
    BY <1>3, <1>5, TransformedFields
  <2> QED BY <2>1, <2>2 DEF Changed, Fields
<1>7. IsFiniteSet(graph \cup more)
  BY <1>1, <1>3, <1>4, <1>5, FiniteAdded, FS_Union
<1>8. /\ \A i \in 1 .. m + 1 : kind \notin Upto(i - 1)
      /\ \A i \in 1 .. m : KindOrder[i] # kind
      /\ \A u \in graph : u.kind \in Upto(m)
  <2>1. \A i \in 1 .. m + 1 : kind \notin Upto(i - 1)
    <3> SUFFICES ASSUME NEW i \in 1 .. m + 1, kind \in Upto(i - 1) PROVE FALSE
      OBVIOUS
    <3>1. i - 1 \in 0 .. (m + 1) - 1
      OBVIOUS
    <3> QED BY <1>2, <1>3, <3>1, Places
  <2>2. \A i \in 1 .. m : KindOrder[i] # kind
    <3> SUFFICES ASSUME NEW i \in 1 .. m, KindOrder[i] = kind PROVE FALSE
      OBVIOUS
    <3>1. i \in 1 .. KindCount /\ i # m + 1
      BY <1>3, Places
    <3> QED BY <1>2, <1>3, <3>1, Places
  <2> QED BY <2>1, <2>2 DEF Has
<1>9. \A u \in graph \cup more : u.kind \in Upto(m + 1)
  <2>1. Upto(m) \subseteq Upto(m + 1) /\ kind \in Upto(m + 1)
    BY <1>2 DEF Upto
  <2> QED BY <1>6, <1>8, <2>1
<1>10. ASSUME NEW i \in 1 .. m
       PROVE  /\ Earlier(graph \cup more, i) = Earlier(graph, i)
              /\ OfKind(graph \cup more, KindOrder[i]) = OfKind(graph, KindOrder[i])
  <2>1. kind \notin Upto(i - 1) /\ KindOrder[i] # kind
    BY <1>8
  <2> QED BY <1>6, <2>1 DEF Earlier, OfKind
<1>11. Earlier(graph \cup more, m + 1) = graph /\ OfKind(graph \cup more, kind) = more
  <2>1. kind \notin Upto(m)
    BY <1>8
  <2>2. (m + 1) - 1 = m
    OBVIOUS
  <2> QED BY <1>6, <1>8, <2>1, <2>2 DEF Earlier, OfKind
<1>12. ASSUME NEW i \in 1 .. m + 1
       PROVE  /\ ~ Raises(KindOrder[i], config, Earlier(graph \cup more, i))
              /\ OfKind(graph \cup more, KindOrder[i]) =
                     Added(KindOrder[i], config, Earlier(graph \cup more, i))
  <2>1. CASE i \in 1 .. m
    BY <1>1, <1>10, <2>1 DEF Has
  <2>2. CASE i = m + 1
    BY <1>1, <1>2, <1>4, <1>11, <2>2
  <2> QED BY <2>1, <2>2
<1> QED BY <1>1, <1>2, <1>4, <1>7, <1>9, <1>12 DEF Has

\* The graph of a config has its first kinds, and all if the decision does not fail.
LEMMA GraphIs ==
    ASSUME NEW name \in DOMAIN Configs
    PROVE  \E m \in 0 .. KindCount :
               /\ Has(Graph(name), Configs[name], m)
               /\ ~ DecisionRaises(name) => m = KindCount
<1>1. PICK config : config = Configs[name]
  OBVIOUS
<1>2. PICK r : /\ Run(r, "load", None, Unloaded(config), KindOrder, KindCount)
               /\ Load(config) = r[KindCount]
  BY LoadRuns, Places
<1>3. PICK good : good = {j \in 0 .. KindCount :
            /\ r[j].config = config /\ DOMAIN r[j] = {"config", "graph", "failed"}
            /\ \E m \in 0 .. j : Has(r[j].graph, config, m) /\ (~ r[j].failed => m = j)}
  OBVIOUS
<1>4. 0 \in good
  <2>1. Has({}, config, 0)
    BY FS_EmptySet DEF Has
  <2>2. /\ Unloaded(config).config = config /\ Unloaded(config).graph = {}
        /\ DOMAIN Unloaded(config) = {"config", "graph", "failed"}
    BY DEF Unloaded
  <2>3. r[0] = Unloaded(config)
    BY <1>2 DEF Run
  <2>4. 0 \in 0 .. KindCount /\ 0 \in 0 .. 0
    BY Places
  <2> QED BY <1>3, <2>1, <2>2, <2>3, <2>4
<1>5. ASSUME NEW j \in 1 .. KindCount, j - 1 \in good PROVE j \in good
  <2>1. PICK m \in 0 .. j - 1 : Has(r[j - 1].graph, config, m) /\ (~ r[j - 1].failed => m = j - 1)
    BY <1>3, <1>5
  <2>2. r[j - 1].config = config /\ DOMAIN r[j - 1] = {"config", "graph", "failed"}
    BY <1>3, <1>5
  <2>3. r[j] = LoadKind(r[j - 1], KindOrder[j])
    BY <1>2, StepIs DEF Run
  <2>4. m \in 0 .. j /\ j \in 0 .. KindCount
    BY Places
  <2>5. CASE r[j - 1].failed \/ Raises(KindOrder[j], config, r[j - 1].graph)
    <3>1. r[j] = [r[j - 1] EXCEPT !.failed = TRUE]
      BY <2>2, <2>3, <2>5 DEF LoadKind
    <3>2. /\ r[j].failed /\ r[j].graph = r[j - 1].graph /\ r[j].config = config
          /\ DOMAIN r[j] = {"config", "graph", "failed"}
      BY <2>2, <3>1
    <3> QED BY <1>3, <2>1, <2>4, <3>2
  <2>6. CASE ~ r[j - 1].failed /\ ~ Raises(KindOrder[j], config, r[j - 1].graph)
    <3>1. r[j] = [r[j - 1] EXCEPT !.graph = @ \cup Added(KindOrder[j], config, r[j - 1].graph)]
      BY <2>2, <2>3, <2>6 DEF LoadKind
    <3>2. /\ r[j].graph = r[j - 1].graph \cup Added(KindOrder[j], config, r[j - 1].graph)
          /\ r[j].config = config /\ DOMAIN r[j] = {"config", "graph", "failed"}
      BY <2>2, <3>1
    <3>3. m = j - 1 /\ m \in Nat /\ m + 1 = j /\ m + 1 <= KindCount
      BY <2>1, <2>6, Places
    <3>4. Has(r[j].graph, config, m + 1)
      BY <1>1, <2>1, <2>6, <3>2, <3>3, OneKindMore
    <3>5. Has(r[j].graph, config, j) /\ j \in 0 .. j
      BY <3>3, <3>4
    <3> QED BY <1>3, <2>4, <3>2, <3>5
  <2> QED BY <2>5, <2>6
<1>6. KindCount \in good
  <2>1. \A j \in 0 .. KindCount : j \in good
    BY <1>4, <1>5, Places, Steps
  <2> QED BY <2>1, Places
<1>7. Graph(name) = r[KindCount].graph /\ DecisionRaises(name) = r[KindCount].failed
  BY <1>1, <1>2 DEF Graph, DecisionRaises, Loaded
<1> QED BY <1>1, <1>3, <1>6, <1>7

-----------------------------------------------------------------------------
(* The tasks of a graph.                                                   *)

\* Each task of a graph is one of those that its kind makes after the kinds before it.
LEMMA TaskIs ==
    ASSUME NEW name \in DOMAIN Configs, NEW t \in Graph(name)
    PROVE  \E i \in 1 .. KindCount :
               /\ t.kind = KindOrder[i] /\ t.kind \in DOMAIN Kinds
               /\ IsFiniteSet(Earlier(Graph(name), i))
               /\ ~ Raises(t.kind, Configs[name], Earlier(Graph(name), i))
               /\ t \in Added(t.kind, Configs[name], Earlier(Graph(name), i))
               /\ \A u \in Added(t.kind, Configs[name], Earlier(Graph(name), i)) : u \in Graph(name)
<1>1. PICK m \in 0 .. KindCount : Has(Graph(name), Configs[name], m)
  BY GraphIs
<1>2. PICK i \in 1 .. m : t.kind = KindOrder[i]
  BY <1>1 DEF Has, Upto
<1>3. i \in 1 .. KindCount
  BY Places
<1>4. t.kind \in DOMAIN Kinds
  BY <1>2, <1>3, Places
<1>5. IsFiniteSet(Earlier(Graph(name), i))
  <2>1. Earlier(Graph(name), i) \in SUBSET Graph(name) /\ IsFiniteSet(Graph(name))
    BY <1>1 DEF Has, Earlier
  <2> QED BY <2>1, FS_Subset
<1>6. /\ ~ Raises(KindOrder[i], Configs[name], Earlier(Graph(name), i))
      /\ OfKind(Graph(name), KindOrder[i]) =
             Added(KindOrder[i], Configs[name], Earlier(Graph(name), i))
  BY <1>1 DEF Has
<1> QED BY <1>2, <1>3, <1>4, <1>5, <1>6 DEF OfKind

\* Its fields, and the kinds that it depends on.
LEMMA TaskFields ==
    ASSUME NEW name \in DOMAIN Configs, NEW t \in Graph(name)
    PROVE  /\ DOMAIN t = Fields /\ t.kind \in DOMAIN Kinds
           /\ t.src = Configs[name].src /\ t.trg = Configs[name].trg
           /\ t.needs \subseteq Kinds[t.kind].needs
           /\ \A d \in t.dependencies : \E u \in Graph(name) :
                 u.label = d /\ u.kind \in Kinds[t.kind].needs \cup Kinds[t.kind].after
<1>1. PICK i \in 1 .. KindCount :
               /\ t.kind = KindOrder[i] /\ t.kind \in DOMAIN Kinds
               /\ IsFiniteSet(Earlier(Graph(name), i))
               /\ t \in Added(t.kind, Configs[name], Earlier(Graph(name), i))
  BY TaskIs
<1>2. PICK x \in Transformed(t.kind, Configs[name], Earlier(Graph(name), i)) :
          Changed(x, t, {"digest"})
  BY <1>1, AddedFields
<1>3. /\ x.src = Configs[name].src /\ x.trg = Configs[name].trg
      /\ x.needs \subseteq Kinds[t.kind].needs
      /\ \A d \in x.dependencies : \E u \in Earlier(Graph(name), i) :
            u.label = d /\ u.kind \in Kinds[t.kind].needs \cup Kinds[t.kind].after
  BY <1>1, TransformedFields
<1>4. /\ DOMAIN t = Fields /\ t.src = x.src /\ t.trg = x.trg /\ t.needs = x.needs
      /\ t.dependencies = x.dependencies
  BY <1>2 DEF Changed, Fields
<1>5. Earlier(Graph(name), i) \subseteq Graph(name)
  BY DEF Earlier
<1> QED BY <1>1, <1>3, <1>4, <1>5

\* No two tasks of a graph have the same label: the loader raises.
LEMMA UniqueLabels ==
    ASSUME NEW name \in DOMAIN Configs, NEW t \in Graph(name), NEW u \in Graph(name),
           t.label = u.label
    PROVE  t = u
<1>1. ASSUME NEW v \in Graph(name), NEW w \in Graph(name), v.label = w.label,
             NEW i \in 1 .. KindCount, NEW j \in 1 .. KindCount,
             v.kind = KindOrder[i], w.kind = KindOrder[j], i < j
      PROVE  FALSE
  <2>1. v \in Earlier(Graph(name), j)
    <3>1. i \in 1 .. j - 1
      BY <1>1, Places
    <3> QED BY <1>1, <3>1 DEF Earlier, Upto
  <2>2. PICK k \in 1 .. KindCount :
               /\ w.kind = KindOrder[k] /\ w.kind \in DOMAIN Kinds
               /\ IsFiniteSet(Earlier(Graph(name), k))
               /\ ~ Raises(w.kind, Configs[name], Earlier(Graph(name), k))
               /\ w \in Added(w.kind, Configs[name], Earlier(Graph(name), k))
    BY TaskIs
  <2>3. k = j
    BY <1>1, <2>2, Places
  <2>4. PICK x \in Transformed(w.kind, Configs[name], Earlier(Graph(name), j)) :
            Changed(x, w, {"digest"})
    BY <2>2, <2>3, AddedFields
  <2>5. x.label = v.label /\ x.kind = w.kind
    BY <1>1, <2>4 DEF Changed, Fields
  <2>6. x # v
    <3>1. v.kind # w.kind
      BY <1>1, Places
    <3> QED BY <2>5, <3>1
  <2> QED BY <2>1, <2>2, <2>3, <2>4, <2>5, <2>6 DEF Raises
<1>2. PICK i \in 1 .. KindCount :
               /\ t.kind = KindOrder[i] /\ t.kind \in DOMAIN Kinds
               /\ IsFiniteSet(Earlier(Graph(name), i))
               /\ ~ Raises(t.kind, Configs[name], Earlier(Graph(name), i))
               /\ t \in Added(t.kind, Configs[name], Earlier(Graph(name), i))
  BY TaskIs
<1>3. PICK j \in 1 .. KindCount :
               /\ u.kind = KindOrder[j]
               /\ u \in Added(u.kind, Configs[name], Earlier(Graph(name), j))
  BY TaskIs
<1>4. i = j
  <2>1. i \in Int /\ j \in Int
    BY Places
  <2>2. ~ (i < j) /\ ~ (j < i)
    BY <1>1, <1>2, <1>3
  <2> QED BY <2>1, <2>2
<1>5. u \in Added(t.kind, Configs[name], Earlier(Graph(name), i))
  BY <1>2, <1>3, <1>4
<1>6. PICK d : d = [x \in Transformed(t.kind, Configs[name], Earlier(Graph(name), i)) |->
                       IF Kinds[t.kind].cached
                       THEN TaskDigest(x, Configs[name], Earlier(Graph(name), i)) ELSE None]
  OBVIOUS
<1>7. PICK x \in Transformed(t.kind, Configs[name], Earlier(Graph(name), i)) :
          t = [x EXCEPT !.digest = d[x]]
  BY <1>2, <1>6 DEF Added
<1>8. PICK y \in Transformed(t.kind, Configs[name], Earlier(Graph(name), i)) :
          u = [y EXCEPT !.digest = d[y]]
  BY <1>5, <1>6 DEF Added
<1>9. DOMAIN x = Fields /\ DOMAIN y = Fields
  BY <1>2, TransformedFields
<1>10. t.label = x.label /\ u.label = y.label
  BY <1>7, <1>8, <1>9 DEF Fields
<1>11. x = y
  BY <1>2, <1>10 DEF Raises
<1> QED BY <1>7, <1>8, <1>11

\* A label is that of the task that has it.
LEMMA TheTaskIs ==
    ASSUME NEW name \in DOMAIN Configs, NEW t \in Graph(name)
    PROVE  TheTask(Graph(name), t.label) = t
  BY UniqueLabels DEF TheTask

\* What a task depends on is of an earlier kind.
LEMMA DependencyIs ==
    ASSUME NEW name \in DOMAIN Configs, NEW t \in Graph(name), NEW d \in t.dependencies
    PROVE  \E u \in Graph(name), i, j \in 1 .. KindCount :
               /\ u.label = d /\ u.kind = KindOrder[i] /\ t.kind = KindOrder[j] /\ i < j
               /\ u.kind \in Kinds[t.kind].needs \cup Kinds[t.kind].after
<1>1. PICK u \in Graph(name) :
          u.label = d /\ u.kind \in Kinds[t.kind].needs \cup Kinds[t.kind].after
  BY TaskFields
<1>2. PICK j \in 1 .. KindCount : t.kind = KindOrder[j]
  BY TaskIs
<1>3. u.kind \in Upto(j - 1)
  BY <1>1, <1>2, Places
<1>4. PICK i \in 1 .. j - 1 : u.kind = KindOrder[i]
  BY <1>3 DEF Upto
<1>5. i \in 1 .. KindCount /\ i < j
  BY Places
<1> QED BY <1>1, <1>2, <1>4, <1>5

-----------------------------------------------------------------------------
(* The folds over the graph of a config.                                   *)

\* The target graph has the targets and is closed under dependencies.
LEMMA TargetsClosed ==
    ASSUME NEW name \in DOMAIN Configs
    PROVE  /\ TargetLabels(Graph(name), Configs[name])
                  \subseteq TargetGraph(Graph(name), Configs[name])
           /\ TargetGraph(Graph(name), Configs[name]) \subseteq {u.label : u \in Graph(name)}
           /\ \A t \in Graph(name) :
                 t.label \in TargetGraph(Graph(name), Configs[name]) =>
                     t.dependencies \subseteq TargetGraph(Graph(name), Configs[name])
<1>1. PICK graph : graph = Graph(name)
  OBVIOUS
<1>2. /\ DOMAIN Reverse(KindOrder) = 1 .. KindCount
      /\ \A m \in 1 .. KindCount : Reverse(KindOrder)[m] = KindOrder[KindCount - m + 1]
  BY Places DEF Reverse, KindCount
<1>3. PICK r : /\ Run(r, "upstream", graph, TargetLabels(graph, Configs[name]),
                      Reverse(KindOrder), KindCount)
               /\ TargetGraph(graph, Configs[name]) = r[KindCount]
  BY <1>2, Places, TargetRuns
<1>4. /\ r[0] = TargetLabels(graph, Configs[name])
      /\ \A m \in 1 .. KindCount :
            r[m] = r[m - 1] \cup UNION {t.dependencies :
                       t \in {u \in graph : u.kind = KindOrder[KindCount - m + 1]
                                                /\ u.label \in r[m - 1]}}
  <2>1. r[0] = TargetLabels(graph, Configs[name])
    BY <1>3 DEF Run
  <2>2. ASSUME NEW m \in 1 .. KindCount
        PROVE  r[m] = WithUpstream(graph, r[m - 1], KindOrder[KindCount - m + 1])
    BY <1>2, <1>3, StepIs DEF Run
  <2> QED BY <2>1, <2>2 DEF WithUpstream, OfKind
<1>5. ASSUME NEW p \in 0 .. KindCount PROVE r[p] \subseteq r[KindCount]
  <2>1. PICK good : good = {m \in 0 .. KindCount : m >= p => r[p] \subseteq r[m]}
    OBVIOUS
  <2>2. 0 \in good
    <3>1. 0 >= p => p = 0
      BY Places
    <3> QED BY <2>1, <3>1, Places
  <2>3. ASSUME NEW m \in 1 .. KindCount, m - 1 \in good PROVE m \in good
    <3>1. m \in 0 .. KindCount /\ r[m - 1] \subseteq r[m]
      BY <1>4, Places
    <3>2. m >= p => m = p \/ m - 1 >= p
      BY Places
    <3> QED BY <2>1, <2>3, <3>1, <3>2
  <2>4. \A m \in 0 .. KindCount : m \in good
    BY <2>2, <2>3, Places, Steps
  <2> QED BY <2>1, <2>4, Places
<1>6. r[KindCount] \subseteq {u.label : u \in graph}
  <2>1. PICK good : good = {m \in 0 .. KindCount : r[m] \subseteq {u.label : u \in graph}}
    OBVIOUS
  <2>2. 0 \in good
    BY <1>4, <2>1, Places DEF TargetLabels, TargetTasks
  <2>3. ASSUME NEW m \in 1 .. KindCount, m - 1 \in good PROVE m \in good
    <3>1. m \in 0 .. KindCount /\ r[m - 1] \subseteq {u.label : u \in graph}
      BY <2>1, <2>3, Places
    <3>2. \A t \in graph : t.dependencies \subseteq {u.label : u \in graph}
      BY <1>1, TaskFields
    <3> QED BY <1>4, <2>1, <3>1, <3>2
  <2>4. \A m \in 0 .. KindCount : m \in good
    BY <2>2, <2>3, Places, Steps
  <2> QED BY <2>1, <2>4, Places
<1>7. ASSUME NEW t \in graph, t.label \in r[KindCount] PROVE t.dependencies \subseteq r[KindCount]
  <2>1. PICK i \in 1 .. KindCount : t.kind = KindOrder[i]
    BY <1>1, TaskIs
  <2>2. PICK p \in 0 .. KindCount : p = KindCount - i /\ p + 1 \in 1 .. KindCount
                                       /\ KindCount - (p + 1) + 1 = i /\ (p + 1) - 1 = p
    BY Places
  <2>3. t.label \in r[p]
    <3>1. PICK good : good = {m \in 0 .. KindCount : m >= p => (t.label \in r[m] => t.label \in r[p])}
      OBVIOUS
    <3>2. 0 \in good
      <4>1. 0 >= p => p = 0
        BY Places
      <4> QED BY <3>1, <4>1, Places
    <3>3. ASSUME NEW m \in 1 .. KindCount, m - 1 \in good PROVE m \in good
      <4> SUFFICES ASSUME m >= p, t.label \in r[m], t.label \notin r[p] PROVE FALSE
        BY <3>1, Places
      <4>1. m - 1 >= p
        <5>1. m # p
          OBVIOUS
        <5> QED BY <5>1, Places
      <4>2. t.label \notin r[m - 1]
        BY <3>1, <3>3, <4>1
      <4>3. PICK w \in graph : /\ w.kind = KindOrder[KindCount - m + 1]
                               /\ t.label \in w.dependencies
        BY <1>4, <4>2
      <4>4. PICK u \in graph, a \in 1 .. KindCount, b \in 1 .. KindCount :
                u.label = t.label /\ u.kind = KindOrder[a] /\ w.kind = KindOrder[b] /\ a < b
        BY <1>1, <4>3, DependencyIs
      <4>5. a = i
        <5>1. u = t
          BY <1>1, <4>4, UniqueLabels
        <5> QED BY <2>1, <4>4, <5>1, Places
      <4>6. b = KindCount - m + 1
        <5>1. PICK c \in 1 .. KindCount : c = KindCount - m + 1
          BY Places
        <5>2. KindOrder[b] = KindOrder[c]
          BY <4>3, <4>4, <5>1
        <5>3. b = c
          BY <5>2, Places
        <5> QED BY <5>1, <5>3
      <4> QED BY <2>2, <4>1, <4>4, <4>5, <4>6, Places
    <3>4. \A m \in 0 .. KindCount : m \in good
      BY <3>2, <3>3, Places, Steps
    <3> QED BY <1>7, <3>1, <3>4, Places
  <2>4. t.dependencies \subseteq r[p + 1]
    <3>1. r[p + 1] = r[p] \cup UNION {v.dependencies :
                         v \in {u \in graph : u.kind = KindOrder[i] /\ u.label \in r[p]}}
      BY <1>4, <2>2
    <3> QED BY <2>1, <2>3, <3>1
  <2>5. p + 1 \in 0 .. KindCount
    BY <2>2
  <2> QED BY <1>5, <2>4, <2>5
<1>8. r[0] \subseteq r[KindCount]
  BY <1>5, Places
<1> QED BY <1>1, <1>3, <1>4, <1>6, <1>7, <1>8

\* A label of a graph is that of one task; the order of creation has each label that is
\* asked for, and none before those of the kinds before its own.
LEMMA OrderIs ==
    ASSUME NEW name \in DOMAIN Configs, NEW labels \in SUBSET {u.label : u \in Graph(name)}
    PROVE  LET order == CreationOrder(Graph(name), labels)
           IN  /\ order \in Seq(labels) /\ ToSet(order) = labels
               /\ \A t, u \in Graph(name), i, j \in 1 .. KindCount, p, q \in DOMAIN order :
                     /\ t.kind = KindOrder[j] /\ u.kind = KindOrder[i] /\ i < j
                     /\ order[p] = t.label /\ order[q] = u.label
                     => q < p
<1>1. PICK graph : graph = Graph(name)
  OBVIOUS
<1>2. PICK r : /\ Run(r, "order", [graph |-> graph, labels |-> labels], <<>>, KindOrder, KindCount)
               /\ CreationOrder(graph, labels) = r[KindCount]
  BY Places, OrderRuns
<1> DEFINE Ordered(order) ==
        \A t, u \in graph, i, j \in 1 .. KindCount, p, q \in DOMAIN order :
            /\ t.kind = KindOrder[j] /\ u.kind = KindOrder[i] /\ i < j
            /\ order[p] = t.label /\ order[q] = u.label
            => q < p
<1>3. PICK good : good = {m \in 0 .. KindCount :
            /\ r[m] \in Seq(labels)
            /\ ToSet(r[m]) = labels \cap {u.label : u \in {v \in graph : v.kind \in Upto(m)}}
            /\ Ordered(r[m])}
  OBVIOUS
<1>4. 0 \in good
  <2>1. r[0] = <<>> /\ <<>> \in Seq(labels) /\ ToSet(<<>>) = {} /\ Upto(0) = {} /\ DOMAIN <<>> = {}
    BY <1>2 DEF Run, ToSet, Upto
  <2>2. Ordered(<<>>)
    BY <2>1
  <2>3. 0 \in 0 .. KindCount
    BY Places
  <2> HIDE DEF Ordered
  <2> QED BY <1>3, <2>1, <2>2, <2>3
<1>5. ASSUME NEW m \in 1 .. KindCount, m - 1 \in good PROVE m \in good
  <2>1. PICK some : some = LabelsOf(graph, KindOrder[m], labels)
    OBVIOUS
  <2>2. IsFiniteSet(some) /\ some \subseteq labels
    <3>1. PICK k \in 0 .. KindCount : Has(graph, Configs[name], k)
      BY <1>1, GraphIs
    <3>2. IsFiniteSet(graph)
      BY <3>1 DEF Has
    <3>3. some \in SUBSET {t.label : t \in graph} /\ some \subseteq labels
      BY <2>1 DEF LabelsOf, OfKind
    <3> QED BY <3>2, <3>3, FiniteLabels
  <2>3. PICK old, new : old = r[m - 1] /\ new = SetToSeq(some)
    OBVIOUS
  <2>4. r[m] = old \o new
    <3>1. r[m] = Step("order", [graph |-> graph, labels |-> labels], old, KindOrder[m])
      BY <1>2, <2>3 DEF Run
    <3> QED BY <2>1, <2>3, <3>1 DEF Step
  <2>5. /\ new \in Seq(some) /\ ToSet(new) = some
        /\ old \in Seq(labels)
        /\ ToSet(old) = labels \cap {u.label : u \in {v \in graph : v.kind \in Upto(m - 1)}}
        /\ Ordered(old)
    <3>1. new \in Seq(some) /\ ToSet(new) = some
      BY <2>2, <2>3, SetAsSeq
    <3> HIDE DEF Ordered
    <3> QED BY <1>3, <1>5, <2>3, <3>1
  <2>6. old \o new \in Seq(labels)
    BY <2>2, <2>5
  <2>7. /\ DOMAIN (old \o new) = 1 .. Len(old) + Len(new)
        /\ DOMAIN old = 1 .. Len(old) /\ DOMAIN new = 1 .. Len(new)
        /\ Len(old) \in Nat /\ Len(new) \in Nat
        /\ \A p \in 1 .. Len(old) : (old \o new)[p] = old[p]
        /\ \A p \in 1 .. Len(new) : (old \o new)[Len(old) + p] = new[p]
    BY <2>5
  <2>8. \A p \in DOMAIN (old \o new) : p \in DOMAIN old \/ \E k \in DOMAIN new : p = Len(old) + k
    <3> SUFFICES ASSUME NEW p \in 1 .. Len(old) + Len(new), p \notin 1 .. Len(old)
                 PROVE  \E k \in 1 .. Len(new) : p = Len(old) + k
      BY <2>7
    <3>1. p - Len(old) \in 1 .. Len(new) /\ p = Len(old) + (p - Len(old))
      BY <2>7
    <3> QED BY <3>1
  <2>9. ToSet(old \o new) = ToSet(old) \cup ToSet(new)
    <3>1. ToSet(old \o new) \subseteq ToSet(old) \cup ToSet(new)
      BY <2>7, <2>8 DEF ToSet
    <3>2. \A p \in 1 .. Len(old) : p \in 1 .. Len(old) + Len(new)
      BY <2>7
    <3>3. \A p \in 1 .. Len(new) : Len(old) + p \in 1 .. Len(old) + Len(new)
      BY <2>7
    <3>4. ToSet(old) \subseteq ToSet(old \o new)
      BY <2>7, <3>2 DEF ToSet
    <3>5. ToSet(new) \subseteq ToSet(old \o new)
      BY <2>7, <3>3 DEF ToSet
    <3> QED BY <3>1, <3>4, <3>5
  <2>10. Upto(m) = Upto(m - 1) \cup {KindOrder[m]}
    <3>1. \A j \in 1 .. m : j \in 1 .. m - 1 \/ j = m
      BY Places
    <3>2. m \in 1 .. m /\ \A j \in 1 .. m - 1 : j \in 1 .. m
      BY Places
    <3> QED BY <3>1, <3>2 DEF Upto
  <2>11. ToSet(r[m]) = labels \cap {u.label : u \in {v \in graph : v.kind \in Upto(m)}}
    BY <2>1, <2>4, <2>5, <2>9, <2>10 DEF LabelsOf, OfKind
  <2>12. ASSUME NEW t \in graph, NEW u \in graph, NEW i \in 1 .. KindCount,
                NEW j \in 1 .. KindCount,
                NEW p \in DOMAIN (old \o new), NEW q \in DOMAIN (old \o new),
                t.kind = KindOrder[j], u.kind = KindOrder[i], i < j,
                (old \o new)[p] = t.label, (old \o new)[q] = u.label
         PROVE  q < p
    <3>1. ASSUME NEW v \in graph, NEW k \in DOMAIN new, new[k] = v.label
          PROVE  v.kind = KindOrder[m]
      <4>1. v.label \in some
        BY <2>5, <3>1 DEF ToSet
      <4>2. PICK w \in graph : w.kind = KindOrder[m] /\ w.label = v.label
        BY <2>1, <4>1 DEF LabelsOf, OfKind
      <4> QED BY <1>1, <4>2, UniqueLabels
    <3>2. ASSUME NEW v \in graph, NEW k \in DOMAIN old, old[k] = v.label,
                 NEW l \in 1 .. KindCount, v.kind = KindOrder[l]
          PROVE  l < m
      <4>1. v.label \in ToSet(old)
        BY <3>2 DEF ToSet
      <4>2. PICK w \in graph : w.kind \in Upto(m - 1) /\ w.label = v.label
        BY <2>5, <4>1
      <4>3. PICK n \in 1 .. m - 1 : v.kind = KindOrder[n]
        BY <1>1, <4>2, UniqueLabels DEF Upto
      <4>4. n \in 1 .. KindCount /\ n < m
        BY Places
      <4>5. n = l
        BY <3>2, <4>3, <4>4, Places
      <4> QED BY <4>4, <4>5
    <3>3. CASE p \in DOMAIN old /\ q \in DOMAIN old
      <4>1. (old \o new)[p] = old[p] /\ (old \o new)[q] = old[q]
        BY <2>7, <3>3
      <4> QED BY <2>5, <2>12, <3>3, <4>1
    <3>4. CASE p \notin DOMAIN old /\ q \in DOMAIN old
      BY <2>7, <3>4
    <3>5. CASE q \notin DOMAIN old
      <4>1. PICK k \in DOMAIN new : q = Len(old) + k
        BY <2>8, <3>5
      <4>2. new[k] = u.label
        BY <2>7, <2>12, <4>1
      <4>3. i = m
        BY <2>12, <3>1, <4>2, Places
      <4>4. CASE p \in DOMAIN old
        <5>1. old[p] = t.label
          BY <2>7, <2>12, <4>4
        <5>2. j < m
          BY <2>12, <3>2, <4>4, <5>1
        <5> QED BY <2>12, <4>3, <5>2, Places
      <4>5. CASE p \notin DOMAIN old
        <5>1. PICK l \in DOMAIN new : p = Len(old) + l
          BY <2>8, <4>5
        <5>2. new[l] = t.label
          BY <2>7, <2>12, <5>1
        <5>3. j = m
          BY <2>12, <3>1, <5>2, Places
        <5> QED BY <2>12, <4>3, <5>3, Places
      <4> QED BY <4>4, <4>5
    <3> QED BY <3>3, <3>4, <3>5
  <2>13. Ordered(r[m])
    BY <2>4, <2>12
  <2>14. m \in 0 .. KindCount
    BY Places
  <2> HIDE DEF Ordered
  <2> QED BY <1>3, <2>4, <2>6, <2>11, <2>13, <2>14
<1>6. \A m \in 0 .. KindCount : m \in good
  <2> HIDE DEF Ordered
  <2> QED BY <1>4, <1>5, Places, Steps
<1>7. /\ r[KindCount] \in Seq(labels) /\ Ordered(r[KindCount])
      /\ ToSet(r[KindCount]) = labels \cap {u.label : u \in {v \in graph : v.kind \in Upto(KindCount)}}
  <2> HIDE DEF Ordered
  <2> QED BY <1>3, <1>6, Places
<1>8. \A v \in graph : v.kind \in Upto(KindCount)
  <2> SUFFICES ASSUME NEW v \in graph PROVE v.kind \in Upto(KindCount)
    OBVIOUS
  <2>1. PICK i \in 1 .. KindCount : v.kind = KindOrder[i]
    BY <1>1, TaskIs
  <2> QED BY <2>1 DEF Upto
<1>9. ToSet(r[KindCount]) = labels
  BY <1>1, <1>7, <1>8
<1> QED BY <1>1, <1>2, <1>7, <1>9

-----------------------------------------------------------------------------
(* What tasks are made from.                                               *)

\* What each task of a graph would make, from what those that it depends on make.
LEMMA ResultsAre ==
    ASSUME NEW name \in DOMAIN Configs, NEW t \in Graph(name)
    PROVE  Results(Graph(name))[t.label] =
               Result(t, {Results(Graph(name))[d] : d \in t.dependencies})
<1>1. PICK graph : graph = Graph(name)
  OBVIOUS
<1>2. PICK r : /\ Run(r, "results", graph, Empty, KindOrder, KindCount)
               /\ Results(graph) = r[KindCount]
  BY Places, ResultsRuns
<1>3. ASSUME NEW m \in 1 .. KindCount
      PROVE  r[m] = Update(r[m - 1], [label \in {u.label : u \in OfKind(graph, KindOrder[m])} |->
                                         ResultIn(graph, r[m - 1], label)])
  <2>1. r[m] = WithResults(graph, r[m - 1], KindOrder[m])
    BY <1>2, StepIs DEF Run
  <2> QED BY <2>1 DEF WithResults
<1>4. ASSUME NEW u \in graph, NEW i \in 1 .. KindCount, u.kind = KindOrder[i],
             NEW m \in i .. KindCount
      PROVE  r[m][u.label] = Result(u, {r[i - 1][d] : d \in u.dependencies})
  <2>1. PICK value : value = Result(u, {r[i - 1][d] : d \in u.dependencies})
    OBVIOUS
  <2>2. PICK good : good = {k \in 0 .. KindCount :
                                k >= i => u.label \in DOMAIN r[k] /\ r[k][u.label] = value}
    OBVIOUS
  <2>3. 0 \in good
    BY <2>2, Places
  <2>4. ASSUME NEW k \in 1 .. KindCount, k - 1 \in good PROVE k \in good
    <3> SUFFICES ASSUME k >= i PROVE u.label \in DOMAIN r[k] /\ r[k][u.label] = value
      BY <2>2, Places
    <3>1. PICK labels : labels = {v.label : v \in OfKind(graph, KindOrder[k])}
      OBVIOUS
    <3>2. PICK g : g = [label \in labels |-> ResultIn(graph, r[k - 1], label)]
      OBVIOUS
    <3>3. r[k] = Update(r[k - 1], g) /\ DOMAIN g = labels
      BY <1>3, <3>1, <3>2
    <3>4. CASE k = i
      <4>1. u.label \in labels
        BY <1>4, <3>1, <3>4 DEF OfKind
      <4>2. TheTask(graph, u.label) = u
        BY <1>1, TheTaskIs
      <4>3. g[u.label] = value
        BY <2>1, <3>2, <3>4, <4>1, <4>2 DEF ResultIn
      <4> QED BY <3>3, <4>1, <4>3 DEF Update
    <3>5. CASE k # i
      <4>1. u.label \notin labels
        <5> SUFFICES ASSUME u.label \in labels PROVE FALSE
          OBVIOUS
        <5>1. PICK v \in graph : v.kind = KindOrder[k] /\ v.label = u.label
          BY <3>1 DEF OfKind
        <5>2. KindOrder[k] = KindOrder[i]
          BY <1>1, <1>4, <5>1, UniqueLabels
        <5> QED BY <3>5, <5>2, Places
      <4>2. k - 1 >= i
        BY <3>5, Places
      <4>3. u.label \in DOMAIN r[k - 1] /\ r[k - 1][u.label] = value
        BY <2>2, <2>4, <4>2
      <4> QED BY <3>3, <4>1, <4>3 DEF Update
    <3> QED BY <3>4, <3>5
  <2>5. \A k \in 0 .. KindCount : k \in good
    BY <2>3, <2>4, Places, Steps
  <2>6. m \in 0 .. KindCount /\ m >= i
    BY Places
  <2> QED BY <2>1, <2>2, <2>5, <2>6
<1>5. PICK i \in 1 .. KindCount : t.kind = KindOrder[i]
  BY TaskIs
<1>6. i \in i .. KindCount /\ KindCount \in i .. KindCount
  BY Places
<1>7. Results(graph)[t.label] = Result(t, {r[i - 1][d] : d \in t.dependencies})
  BY <1>1, <1>2, <1>4, <1>5, <1>6
<1>8. ASSUME NEW d \in t.dependencies PROVE r[i - 1][d] = Results(graph)[d]
  <2>1. PICK u \in graph, j \in 1 .. KindCount, k \in 1 .. KindCount :
            u.label = d /\ u.kind = KindOrder[j] /\ t.kind = KindOrder[k] /\ j < k
    BY <1>1, DependencyIs
  <2>2. k = i
    BY <1>5, <2>1, Places
  <2>3. i - 1 \in j .. KindCount /\ KindCount \in j .. KindCount
    BY <2>1, <2>2, Places
  <2>4. r[i - 1][d] = r[KindCount][d]
    BY <1>4, <2>1, <2>3
  <2> QED BY <1>2, <2>4
<1>9. {r[i - 1][d] : d \in t.dependencies} = {Results(graph)[d] : d \in t.dependencies}
  BY <1>8
<1> QED BY <1>1, <1>7, <1>9

Inputs(made, ids) == {made[d] : d \in ids}

\* What tasks make that depend on tasks created before them.
LEMMA MadeIs ==
    ASSUME NEW n \in Nat, NEW created, DOMAIN created = 1 .. n,
           \A id \in 1 .. n : created[id].dependencies \subseteq 1 .. id - 1,
           NEW id \in 1 .. n
    PROVE  MadeOf(created)[id] =
               Result(TheTask(Graph(created[id].config), created[id].label),
                      Inputs(MadeOf(created), created[id].dependencies))
<1>1. PICK r : Run(r, "made", None, <<>>, created, n) /\ MadeOf(created) = r[n]
  BY MadeRuns
<1>2. PICK value : value = [k \in 1 .. n |->
            Result(TheTask(Graph(created[k].config), created[k].label),
                   {r[k - 1][d] : d \in created[k].dependencies})]
  OBVIOUS
<1>3. PICK V : V = {value[k] : k \in 1 .. n}
  OBVIOUS
<1>4. PICK good : good = {m \in 0 .. n : r[m] \in Seq(V) /\ Len(r[m]) = m
                                         /\ \A k \in 1 .. m : r[m][k] = value[k]}
  OBVIOUS
<1>5. 0 \in good
  <2>1. r[0] = <<>>
    BY <1>1 DEF Run
  <2>2. <<>> \in Seq(V) /\ Len(<<>>) = 0 /\ 0 \in 0 .. n /\ \A k \in 1 .. 0 : FALSE
    OBVIOUS
  <2>3. /\ r[0] \in Seq(V) /\ Len(r[0]) = 0 /\ 0 \in 0 .. n
        /\ \A k \in 1 .. 0 : r[0][k] = value[k]
    BY <2>1, <2>2
  <2> QED BY <1>4, <2>3
<1>6. ASSUME NEW m \in 1 .. n, m - 1 \in good PROVE m \in good
  <2>1. r[m] = WithMade(r[m - 1], created[m])
    BY <1>1, StepIs DEF Run
  <2>2. r[m] = Append(r[m - 1], value[m])
    BY <1>2, <2>1 DEF WithMade
  <2>3. PICK old : old = r[m - 1] /\ old \in Seq(V) /\ Len(old) = m - 1
                                  /\ \A k \in 1 .. m - 1 : old[k] = value[k]
    BY <1>4, <1>6
  <2>4. value[m] \in V
    BY <1>3
  <2>5. /\ Append(old, value[m]) \in Seq(V) /\ Len(Append(old, value[m])) = m
        /\ \A k \in 1 .. m : Append(old, value[m])[k] = value[k]
    BY <2>3, <2>4
  <2>6. /\ r[m] \in Seq(V) /\ Len(r[m]) = m /\ \A k \in 1 .. m : r[m][k] = value[k]
        /\ m \in 0 .. n
    BY <2>2, <2>3, <2>5
  <2> QED BY <1>4, <2>6
<1>7. \A m \in 0 .. n : \A k \in 1 .. m : r[m][k] = value[k]
  <2>1. \A m \in 0 .. n : m \in good
    BY <1>5, <1>6, Steps
  <2> QED BY <1>4, <2>1
<1>8. ASSUME NEW d \in created[id].dependencies PROVE r[id - 1][d] = MadeOf(created)[d]
  <2>1. d \in 1 .. id - 1 /\ d \in 1 .. n /\ id - 1 \in 0 .. n /\ n \in 0 .. n
    OBVIOUS
  <2> QED BY <1>1, <1>7, <2>1
<1>9. {r[id - 1][d] : d \in created[id].dependencies} =
          {MadeOf(created)[d] : d \in created[id].dependencies}
  BY <1>8
<1>10. MadeOf(created)[id] = value[id]
  <2>1. n \in 0 .. n
    OBVIOUS
  <2> QED BY <1>1, <1>7, <2>1
<1> QED BY <1>2, <1>9, <1>10 DEF Inputs

-----------------------------------------------------------------------------
(* What a digest tells: tasks with the same make the same.                 *)

\* What is in the digest of a task of a cached kind.
LEMMA DigestIs ==
    ASSUME NEW name \in DOMAIN Configs, NEW t \in Graph(name), Kinds[t.kind].cached
    PROVE  /\ t.digest.type = t.kind /\ t.digest.name = t.label /\ t.digest.command = t.command
           /\ t.digest.parameters = {<<p.name, ParameterValue(p, Configs[name])>> : p \in t.parameters}
           /\ t.digest.dependencies =
                  {v.digest : v \in {w \in Graph(name) : w.label \in t.dependencies}}
           /\ \A w \in Graph(name) : w.label \in t.dependencies => Kinds[w.kind].cached
<1>1. PICK i \in 1 .. KindCount :
               /\ t.kind = KindOrder[i] /\ t.kind \in DOMAIN Kinds
               /\ IsFiniteSet(Earlier(Graph(name), i))
               /\ ~ Raises(t.kind, Configs[name], Earlier(Graph(name), i))
               /\ t \in Added(t.kind, Configs[name], Earlier(Graph(name), i))
  BY TaskIs
<1>2. PICK config, sofar : config = Configs[name] /\ sofar = Earlier(Graph(name), i)
  OBVIOUS
<1>3. PICK x \in Transformed(t.kind, config, sofar) :
          Changed(x, t, {"digest"}) /\ t.digest = TaskDigest(x, config, sofar)
  <2>1. PICK x \in Transformed(t.kind, config, sofar) :
            /\ Changed(x, t, {"digest"})
            /\ t.digest = IF Kinds[t.kind].cached THEN TaskDigest(x, config, sofar) ELSE None
    BY <1>1, <1>2, AddedFields
  <2> QED BY <2>1
<1>4. /\ x.kind = t.kind /\ x.label = t.label /\ x.command = t.command
      /\ x.parameters = t.parameters /\ x.dependencies = t.dependencies
  BY <1>3 DEF Changed, Fields
<1>5. /\ t.digest.type = t.kind /\ t.digest.name = t.label /\ t.digest.command = t.command
      /\ t.digest.parameters = {<<p.name, ParameterValue(p, config)>> : p \in t.parameters}
      /\ t.digest.dependencies = {v.digest : v \in {w \in sofar : w.label \in t.dependencies}}
  BY <1>3, <1>4 DEF TaskDigest
<1>6. ASSUME NEW w \in Graph(name), w.label \in t.dependencies
      PROVE  w \in sofar /\ Kinds[w.kind].cached
  <2>1. ~ UncachedParent(x, sofar)
    BY <1>1, <1>2, <1>3 DEF Raises
  <2>2. PICK v \in sofar : v.label = w.label /\ Kinds[v.kind].cached
    BY <1>4, <1>6, <2>1 DEF UncachedParent
  <2>3. v \in Graph(name)
    BY <1>2 DEF Earlier
  <2> QED BY <2>2, <2>3, UniqueLabels
<1>7. {w \in sofar : w.label \in t.dependencies} = {w \in Graph(name) : w.label \in t.dependencies}
  <2>1. \A w \in sofar : w \in Graph(name)
    BY <1>2 DEF Earlier
  <2> QED BY <1>6, <2>1
<1> QED BY <1>2, <1>5, <1>6, <1>7

\* The mounts, needs and parameters of a task are those that its models leave it.
StartsFrom(t, models) ==
    /\ t.kind \notin DOMAIN models => t.mounts = <<>> /\ t.needs = Kinds[t.kind].needs
    /\ t.kind \in DOMAIN models =>
          /\ t.mounts = <<ArtifactMounts(models[t.kind])[1]>>
          /\ t.needs = IF models[t.kind].mode # "use" THEN Kinds[t.kind].needs \ {"train-vocab"}
                       ELSE {}
    /\ Kinds[t.kind].fan = "none" =>
          /\ t.parameters \subseteq Kinds[t.kind].parameters
          /\ \A p \in Kinds[t.kind].parameters : p.pretrained => p \in t.parameters

\* A training task of a graph has the models that its config gives it.
LEMMA ModelsAre ==
    ASSUME NEW name \in DOMAIN Configs, NEW t \in Graph(name)
    PROVE  StartsFrom(t, Pretrained(Configs[name]))
<1>1. PICK i \in 1 .. KindCount :
               /\ t.kind = KindOrder[i] /\ t.kind \in DOMAIN Kinds
               /\ IsFiniteSet(Earlier(Graph(name), i))
               /\ t \in Added(t.kind, Configs[name], Earlier(Graph(name), i))
  BY TaskIs
<1>2. PICK config, sofar : config = Configs[name] /\ sofar = Earlier(Graph(name), i)
  OBVIOUS
<1>3. PICK x \in Transformed(t.kind, config, sofar) : Changed(x, t, {"digest"})
  BY <1>1, <1>2, AddedFields
<1>4. PICK job \in Jobs(t.kind, config) :
          LET mounted == AddPretrainedModelMounts(job, config)
          IN  Changed(mounted, x, {"worker", "command", "dependencies", "chunk", "label"})
  BY <1>1, <1>2, AddedIs
<1>5. PICK a : a = AddPretrainedModelMounts(job, config)
  OBVIOUS
<1>6. t.mounts = a.mounts /\ t.needs = a.needs /\ t.parameters = a.parameters
  BY <1>3, <1>4, <1>5 DEF Changed, Fields
<1>7. /\ Changed(Base(t.kind, config), job, {"dataset", "command", "parameters"})
      /\ Kinds[t.kind].fan = "none" => job = Base(t.kind, config)
  BY <1>1, JobsAre
<1>8. /\ DOMAIN job = Fields /\ job.kind = t.kind /\ job.mounts = <<>>
      /\ job.needs = Kinds[t.kind].needs
      /\ Kinds[t.kind].fan = "none" => job.parameters = Kinds[t.kind].parameters
  BY <1>7, BaseIs DEF Changed, Fields
<1>9. CASE t.kind \notin DOMAIN Pretrained(config)
  <2>1. a = job
    BY <1>5, <1>8, <1>9 DEF AddPretrainedModelMounts
  <2> QED BY <1>2, <1>6, <1>8, <1>9, <2>1 DEF StartsFrom
<1>10. CASE t.kind \in DOMAIN Pretrained(config)
  <2>1. PICK model : model = Pretrained(config)[t.kind]
    OBVIOUS
  <2>2. CASE model.mode # "use"
    <3>1. a = [job EXCEPT !.mounts = <<ArtifactMounts(model)[1]>>, !.needs = @ \ {"train-vocab"}]
      BY <1>5, <1>8, <1>10, <2>1, <2>2 DEF AddPretrainedModelMounts
    <3>2. /\ a.mounts = <<ArtifactMounts(model)[1]>> /\ a.needs = job.needs \ {"train-vocab"}
          /\ a.parameters = job.parameters
      BY <1>8, <3>1 DEF Fields
    <3> QED BY <1>2, <1>6, <1>8, <1>10, <2>1, <2>2, <3>2 DEF StartsFrom
  <2>3. CASE model.mode = "use"
    <3>1. a = [[job EXCEPT !.mounts = <<ArtifactMounts(model)[1]>>, !.needs = @ \ {"train-vocab"}]
                  EXCEPT !.needs = {}, !.resources = {}, !.parameters = {p \in @ : p.pretrained}]
      BY <1>5, <1>8, <1>10, <2>1, <2>3 DEF AddPretrainedModelMounts
    <3>2. /\ a.mounts = <<ArtifactMounts(model)[1]>> /\ a.needs = {}
          /\ a.parameters = {p \in job.parameters : p.pretrained}
      BY <1>8, <3>1 DEF Fields
    <3> QED BY <1>2, <1>6, <1>8, <1>10, <2>1, <2>3, <3>2 DEF StartsFrom
  <2> QED BY <2>2, <2>3
<1> QED BY <1>9, <1>10

\* The path of the models of a kind.
LEMMA PretrainedIs ==
    ASSUME NEW config, NEW kind
    PROVE  /\ kind \in DOMAIN Pretrained(config) <=>
                  /\ kind \in {"train-teacher", "train-backwards"}
                  /\ DeepGet(config, PretrainedPath(kind)) # None
           /\ kind \in DOMAIN Pretrained(config) =>
                  Pretrained(config)[kind] = DeepGet(config, PretrainedPath(kind))
  BY DEF Pretrained

\* The value of a parameter that has one choice.
LEMMA OneChoice ==
    ASSUME NEW p, NEW path, p.choices = <<path>>, NEW config
    PROVE  ParameterValue(p, config) = DeepGet(config, path)
<1>1. DOMAIN p.choices = {1} /\ p.choices[1] = path
  OBVIOUS
<1>2. CASE DeepGet(config, path) = None
  <2>1. {i \in DOMAIN p.choices : DeepGet(config, p.choices[i]) # None} = {}
    BY <1>1, <1>2
  <2> QED BY <1>2, <2>1 DEF ParameterValue
<1>3. CASE DeepGet(config, path) # None
  <2>1. {i \in DOMAIN p.choices : DeepGet(config, p.choices[i]) # None} = {1}
    BY <1>1, <1>3
  <2>2. Min({1}) = 1
    BY DEF Min
  <2> QED BY <1>1, <1>3, <2>1, <2>2 DEF ParameterValue
<1> QED BY <1>2, <1>3

\* Tasks with the same digest start from the same models.
LEMMA SameModels ==
    ASSUME PretrainedInDigest,
           NEW c \in DOMAIN Configs, NEW d \in DOMAIN Configs, NEW t \in Graph(c),
           NEW u \in Graph(d),
           Kinds[t.kind].cached, t.kind = u.kind, t.digest = u.digest
    PROVE  t.mounts = u.mounts /\ t.needs = u.needs
<1>1. /\ StartsFrom(t, Pretrained(Configs[c])) /\ StartsFrom(u, Pretrained(Configs[d]))
  BY ModelsAre
<1>2. CASE t.kind \notin {"train-teacher", "train-backwards"}
  <2>1. t.kind \notin DOMAIN Pretrained(Configs[c]) /\ t.kind \notin DOMAIN Pretrained(Configs[d])
    BY <1>2, PretrainedIs
  <2> QED BY <1>1, <2>1 DEF StartsFrom
<1>3. CASE t.kind \in {"train-teacher", "train-backwards"}
  <2>1. t.kind \in DOMAIN Kinds
    BY TaskFields
  <2>2. Kinds[t.kind].fan = "none"
    BY <1>3, <2>1 DEF PretrainedInDigest
  <2>3. PICK p \in Kinds[t.kind].parameters :
              /\ p.pretrained /\ p.choices = <<PretrainedPath(t.kind)>>
              /\ \A q \in Kinds[t.kind].parameters : q.name = p.name => q = p
    BY <1>3, <2>1 DEF PretrainedInDigest
  <2>4. p \in t.parameters /\ u.parameters \subseteq Kinds[t.kind].parameters
    BY <1>1, <2>2, <2>3 DEF StartsFrom
  <2>5. <<p.name, ParameterValue(p, Configs[c])>> \in t.digest.parameters
    BY <2>4, DigestIs
  <2>6. PICK q \in u.parameters :
            <<p.name, ParameterValue(p, Configs[c])>> = <<q.name, ParameterValue(q, Configs[d])>>
    BY <2>5, DigestIs
  <2>7. q = p
    BY <2>3, <2>4, <2>6
  <2>8. ParameterValue(p, Configs[c]) = ParameterValue(p, Configs[d])
    BY <2>6, <2>7
  <2>9. DeepGet(Configs[c], PretrainedPath(t.kind)) = DeepGet(Configs[d], PretrainedPath(t.kind))
    BY <2>3, <2>8, OneChoice
  <2>10. /\ t.kind \in DOMAIN Pretrained(Configs[c]) <=> t.kind \in DOMAIN Pretrained(Configs[d])
         /\ t.kind \in DOMAIN Pretrained(Configs[c]) =>
                Pretrained(Configs[c])[t.kind] = Pretrained(Configs[d])[t.kind]
    BY <1>3, <2>9, PretrainedIs
  <2>11. CASE t.kind \notin DOMAIN Pretrained(Configs[c])
    BY <1>1, <2>10, <2>11 DEF StartsFrom
  <2>12. CASE t.kind \in DOMAIN Pretrained(Configs[c])
    <3>1. PICK model : model = Pretrained(Configs[c])[t.kind] /\ model = Pretrained(Configs[d])[u.kind]
      BY <2>10, <2>12
    <3>2. t.mounts = <<ArtifactMounts(model)[1]>> /\ u.mounts = <<ArtifactMounts(model)[1]>>
      BY <1>1, <2>10, <2>12, <3>1 DEF StartsFrom
    <3>3. /\ t.needs = IF model.mode # "use" THEN Kinds[t.kind].needs \ {"train-vocab"} ELSE {}
          /\ u.needs = IF model.mode # "use" THEN Kinds[t.kind].needs \ {"train-vocab"} ELSE {}
      BY <1>1, <2>10, <2>12, <3>1 DEF StartsFrom
    <3> QED BY <3>2, <3>3
  <2> QED BY <2>11, <2>12
<1> QED BY <1>2, <1>3

\* Each task that one of them depends on has the digest of one that the other depends on.
LEMMA SameParents ==
    ASSUME NEW c \in DOMAIN Configs, NEW d \in DOMAIN Configs, NEW t \in Graph(c),
           NEW u \in Graph(d),
           Kinds[t.kind].cached, Kinds[u.kind].cached, t.digest = u.digest,
           NEW label \in t.dependencies
    PROVE  \E v \in Graph(c), w \in Graph(d) :
               /\ v.label = label /\ w.label \in u.dependencies
               /\ Kinds[v.kind].cached /\ Kinds[w.kind].cached /\ v.digest = w.digest
<1>1. PICK v \in Graph(c) : v.label = label
  BY TaskFields
<1>2. v.digest \in t.digest.dependencies /\ Kinds[v.kind].cached
  <2>1. t.digest.dependencies = {x.digest : x \in {y \in Graph(c) : y.label \in t.dependencies}}
    BY DigestIs
  <2>2. Kinds[v.kind].cached
    BY <1>1, DigestIs
  <2> QED BY <1>1, <2>1, <2>2
<1>3. u.digest.dependencies = {x.digest : x \in {y \in Graph(d) : y.label \in u.dependencies}}
  BY DigestIs
<1>4. PICK w \in Graph(d) : w.label \in u.dependencies /\ w.digest = v.digest
  BY <1>2, <1>3
<1>5. Kinds[w.kind].cached
  BY <1>4, DigestIs
<1> QED BY <1>1, <1>2, <1>4, <1>5

\* Tasks of the same digest, of whatever decisions, make the same.
LEMMA SameDigestSameResult ==
    ASSUME LabelsTell, PretrainedInDigest,
           NEW c \in DOMAIN Configs, NEW d \in DOMAIN Configs, NEW t \in Graph(c),
           NEW u \in Graph(d),
           Kinds[t.kind].cached, Kinds[u.kind].cached, t.digest = u.digest
    PROVE  Results(Graph(c))[t.label] = Results(Graph(d))[u.label]
<1> DEFINE Same(i) ==
        \A a, b \in DOMAIN Configs : \A v \in Graph(a), w \in Graph(b) :
            /\ v.kind = KindOrder[i] /\ Kinds[v.kind].cached /\ Kinds[w.kind].cached
            /\ v.digest = w.digest
            => Results(Graph(a))[v.label] = Results(Graph(b))[w.label]
<1>1. PICK good : good = {i \in 1 .. KindCount : Same(i)}
  OBVIOUS
<1>2. ASSUME NEW i \in 1 .. KindCount, \A k \in 1 .. i - 1 : k \in good
      PROVE  i \in good
  <2>1. ASSUME NEW a \in DOMAIN Configs, NEW b \in DOMAIN Configs, NEW v \in Graph(a),
               NEW w \in Graph(b),
               v.kind = KindOrder[i], Kinds[v.kind].cached, Kinds[w.kind].cached,
               v.digest = w.digest, NEW label \in v.dependencies
        PROVE  \E x \in w.dependencies : Results(Graph(a))[label] = Results(Graph(b))[x]
    <3>1. PICK y \in Graph(a), z \in Graph(b) :
               /\ y.label = label /\ z.label \in w.dependencies
               /\ Kinds[y.kind].cached /\ Kinds[z.kind].cached /\ y.digest = z.digest
      BY <2>1, SameParents
    <3>2. PICK x \in Graph(a), j \in 1 .. KindCount, k \in 1 .. KindCount :
              x.label = label /\ x.kind = KindOrder[j] /\ v.kind = KindOrder[k] /\ j < k
      BY DependencyIs
    <3>3. x = y
      BY <3>1, <3>2, UniqueLabels
    <3>4. j \in 1 .. i - 1
      <4>1. k = i
        BY <2>1, <3>2, Places
      <4> QED BY <3>2, <4>1, Places
    <3>5. Same(j)
      BY <1>1, <1>2, <3>4
    <3> QED BY <3>1, <3>2, <3>3, <3>5
  <2>2. ASSUME NEW a \in DOMAIN Configs, NEW b \in DOMAIN Configs, NEW v \in Graph(a),
               NEW w \in Graph(b),
               v.kind = KindOrder[i], Kinds[v.kind].cached, Kinds[w.kind].cached,
               v.digest = w.digest
        PROVE  Results(Graph(a))[v.label] = Results(Graph(b))[w.label]
    <3>1. /\ v.digest.type = v.kind /\ v.digest.name = v.label /\ v.digest.command = v.command
          /\ w.digest.type = w.kind /\ w.digest.name = w.label /\ w.digest.command = w.command
      BY <2>2, DigestIs
    <3>2. v.kind = w.kind /\ v.label = w.label /\ v.command = w.command
      BY <2>2, <3>1
    <3>3. v.dataset = w.dataset /\ v.chunk = w.chunk
      BY <3>2 DEF LabelsTell
    <3>4. v.mounts = w.mounts /\ v.needs = w.needs
      BY <2>2, <3>2, SameModels
    <3>5. \A x \in v.dependencies : \E y \in w.dependencies :
              Results(Graph(a))[x] = Results(Graph(b))[y]
      BY <2>1, <2>2
    <3>6. \A y \in w.dependencies : \E x \in v.dependencies :
              Results(Graph(b))[y] = Results(Graph(a))[x]
      <4>1. w.kind = KindOrder[i] /\ w.digest = v.digest
        BY <2>2, <3>2
      <4> QED BY <2>1, <2>2, <4>1
    <3>7. {Results(Graph(a))[x] : x \in v.dependencies} = {Results(Graph(b))[y] : y \in w.dependencies}
      BY <3>5, <3>6
    <3>8. v.dependencies = {} <=> w.dependencies = {}
      BY <3>5, <3>6
    <3>9. PICK inputs : /\ inputs = {Results(Graph(a))[x] : x \in v.dependencies}
                        /\ inputs = {Results(Graph(b))[y] : y \in w.dependencies}
      BY <3>7
    <3>10. Result(v, inputs) = Result(w, inputs)
      BY <2>2, <3>2, <3>3, <3>4, <3>8 DEF Result
    <3>11. /\ Results(Graph(a))[v.label] = Result(v, inputs)
           /\ Results(Graph(b))[w.label] = Result(w, inputs)
      BY <3>9, ResultsAre
    <3> QED BY <3>10, <3>11
  <2>3. Same(i)
    BY <2>2
  <2> QED BY <1>1, <2>3
<1>3. \A i \in 1 .. KindCount : i \in good
  <2> HIDE DEF Same
  <2> QED BY <1>2, Places, Upwards
<1>4. PICK i \in 1 .. KindCount : t.kind = KindOrder[i]
  BY TaskIs
<1>5. Same(i)
  BY <1>1, <1>3
<1> QED BY <1>4, <1>5

-----------------------------------------------------------------------------
(* The state: what is known of each task, of each group and of what is     *)
(* given to the decision under way.                                        *)

\* A task is one of the graph of its config and depends on earlier tasks that have the
\* labels that it asks for.
TaskRight(id) ==
    /\ DOMAIN tasks[id] = {"label", "config", "done", "dependencies"}
    /\ tasks[id].config \in DOMAIN Configs
    /\ \E t \in Graph(tasks[id].config) : t.label = tasks[id].label
    /\ tasks[id].dependencies \subseteq 1 .. id - 1
    /\ {tasks[d].label : d \in tasks[id].dependencies} = Task(id).dependencies

\* The tasks that are given for labels have them.
Gives(ids) == \A label \in DOMAIN ids :
    ids[label] \in DOMAIN tasks /\ tasks[ids[label]].label = label

GroupRight(g) ==
    /\ g.action \in Actions
    /\ Gives(g.ids) /\ Gives(g.existing) /\ g.cached \subseteq DOMAIN g.ids
    /\ DOMAIN g.ids = TargetGraph(Graph(g.action.config), Configs[g.action.config])

TypeRight ==
    /\ tasks \in Seq(ToSet(tasks)) /\ groups \in Seq(ToSet(groups)) /\ index \in Seq(DOMAIN tasks)
    /\ input = None \/ input \in Actions
    /\ raised = None \/ raised \in Actions
TasksRight == \A id \in DOMAIN tasks : TaskRight(id)
GroupsRight == \A n \in DOMAIN groups : GroupRight(groups[n])

\* The inductive invariant of all that follows.
Right == TypeRight /\ TasksRight /\ GroupsRight /\ Gives(existing)

\* The task of an id is the one with its label in the graph of its config.
LEMMA TaskOf ==
    ASSUME NEW id \in DOMAIN tasks, TaskRight(id)
    PROVE  Task(id) \in Graph(tasks[id].config) /\ Task(id).label = tasks[id].label
<1>1. PICK t \in Graph(tasks[id].config) : t.label = tasks[id].label
  BY DEF TaskRight
<1>2. Task(id) = t
  BY <1>1, TheTaskIs DEF Task, TaskRight
<1> QED BY <1>1, <1>2

\* What replaces a task: the task that is given for its label, or one of the same digest.
Replaces(id, t) ==
    /\ id \in DOMAIN tasks /\ tasks[id].label = t.label
    /\ \/ t.label \in DOMAIN existing
       \/ Kinds[t.kind].cached /\ Task(id).digest = t.digest

\* What optimize puts in the place of a task has its label, or else its name and digest.
LEMMA ByReplaces ==
    ASSUME Gives(existing), index \in Seq(DOMAIN tasks), NEW t, Found(t)
    PROVE  Replaces(By(t), t)
<1>1. CASE t.label \in DOMAIN existing
  BY <1>1 DEF Gives, By, Replaces
<1>2. CASE t.label \notin DOMAIN existing
  <2>1. Kinds[t.kind].cached /\ Indexed(t) # {} /\ By(t) = index[Min(Indexed(t))]
    BY <1>2 DEF Found, By
  <2>2. Indexed(t) \in SUBSET Nat
    BY DEF Indexed
  <2>3. \E m \in Indexed(t) : \A k \in Indexed(t) : m <= k
    BY <2>1, <2>2, Smallest
  <2>4. Min(Indexed(t)) \in Indexed(t)
    BY <2>3 DEF Min
  <2>5. PICK i \in Indexed(t) : i = Min(Indexed(t))
    BY <2>4
  <2>6. /\ i \in DOMAIN index /\ tasks[index[i]].label = t.label
        /\ Task(index[i]).digest = t.digest
    BY DEF Indexed
  <2>7. index[i] \in DOMAIN tasks
    BY <2>6
  <2> QED BY <2>1, <2>5, <2>6, <2>7 DEF Replaces
<1> QED BY <1>1, <1>2

\* Each label that optimize replaces is needed, and is that of a task of the graph.
LEMMA ReplacementsAre ==
    ASSUME Gives(existing), index \in Seq(DOMAIN tasks),
           NEW name \in DOMAIN Configs, NEW needed,
           NEW label \in DOMAIN Replacements(Graph(name), needed)
    PROVE  /\ label \in needed
           /\ \E t \in Graph(name) : t.label = label
                                     /\ Replaces(Replacements(Graph(name), needed)[label], t)
<1>1. PICK graph : graph = Graph(name)
  OBVIOUS
<1>2. PICK n \in Nat : DOMAIN KindOrder = 1 .. n /\ n = KindCount
  BY Places
<1>3. PICK r : /\ Run(r, "replaced", [graph |-> graph, needed |-> needed], Empty, KindOrder, n)
               /\ Replacements(graph, needed) = r[n]
  BY <1>2, ReplacedRuns
<1> DEFINE Good(ids) == \A x \in DOMAIN ids :
        x \in needed /\ \E t \in graph : t.label = x /\ Replaces(ids[x], t)
<1>4. PICK good : good = {m \in 0 .. n : Good(r[m])}
  OBVIOUS
<1>5. 0 \in good
  <2>1. r[0] = Empty
    BY <1>3 DEF Run
  <2>2. Good(Empty)
    BY DEF Empty
  <2> HIDE DEF Good
  <2> QED BY <1>2, <1>4, <2>1, <2>2
<1>6. ASSUME NEW m \in 1 .. n, m - 1 \in good PROVE m \in good
  <2>1. r[m] = Step("replaced", [graph |-> graph, needed |-> needed], r[m - 1], KindOrder[m])
    BY <1>3 DEF Run
  <2>2. r[m] = WithReplaced(graph, needed, r[m - 1], KindOrder[m])
    BY <2>1 DEF Step
  <2>3. PICK ids : ids = r[m - 1]
    OBVIOUS
  <2>4. PICK new : new = [x \in {t.label : t \in Replaced(graph, needed, ids, KindOrder[m])} |->
                             By(TheTask(graph, x))]
    OBVIOUS
  <2>5. r[m] = Update(ids, new)
    BY <2>2, <2>3, <2>4 DEF WithReplaced
  <2>6. Good(ids)
    BY <1>4, <1>6, <2>3
  <2>7. ASSUME NEW x \in DOMAIN new
        PROVE  x \in needed /\ \E t \in graph : t.label = x /\ Replaces(new[x], t)
    <3>1. PICK t \in Replaced(graph, needed, ids, KindOrder[m]) : t.label = x
      BY <2>4, <2>7
    <3>2. t \in graph /\ x \in needed /\ Found(t)
      BY <3>1 DEF Replaced, OfKind
    <3>3. TheTask(graph, x) = t
      BY <1>1, <3>1, <3>2, TheTaskIs
    <3>4. new[x] = By(t)
      BY <2>4, <2>7, <3>3
    <3> QED BY <3>1, <3>2, <3>4, ByReplaces
  <2>8. ASSUME NEW x \in DOMAIN r[m]
        PROVE  \/ x \in DOMAIN new /\ r[m][x] = new[x]
               \/ x \in DOMAIN ids /\ r[m][x] = ids[x]
    BY <2>5, <2>8 DEF Update
  <2>9. Good(r[m])
    BY <2>6, <2>7, <2>8
  <2>10. m \in 0 .. n
    BY <1>2
  <2> HIDE DEF Good
  <2> QED BY <1>4, <2>9, <2>10
<1>7. \A m \in 0 .. n : m \in good
  <2> HIDE DEF Good
  <2> QED BY <1>5, <1>6, Steps
<1>8. n \in 0 .. n
  BY <1>2
<1>9. Good(r[n])
  <2> HIDE DEF Good
  <2> QED BY <1>4, <1>7, <1>8
<1> QED BY <1>1, <1>3, <1>9

-----------------------------------------------------------------------------
(* Steps: the tasks that were created stay what they are.                  *)

\* Sequences of whatever elements.
LEMMA Joined ==
    ASSUME NEW s, NEW t, s \in Seq(ToSet(s)), t \in Seq(ToSet(t))
    PROVE  /\ s \o t \in Seq(ToSet(s \o t)) /\ Len(s \o t) = Len(s) + Len(t)
           /\ DOMAIN (s \o t) = 1 .. Len(s) + Len(t)
           /\ \A i \in 1 .. Len(s) : (s \o t)[i] = s[i]
           /\ \A i \in 1 .. Len(t) : (s \o t)[Len(s) + i] = t[i]
<1>1. PICK both : both = ToSet(s) \cup ToSet(t)
  OBVIOUS
<1>2. s \in Seq(both) /\ t \in Seq(both)
  <2>1. ToSet(s) \subseteq both /\ ToSet(t) \subseteq both
    BY <1>1
  <2> QED BY <2>1
<1>3. PICK all : all = s \o t
  OBVIOUS
<1>4. /\ all \in Seq(both) /\ Len(all) = Len(s) + Len(t)
      /\ \A i \in 1 .. Len(s) : all[i] = s[i]
      /\ \A i \in 1 .. Len(t) : all[Len(s) + i] = t[i]
  BY <1>2, <1>3
<1>5. DOMAIN all = 1 .. Len(s) + Len(t) /\ \A i \in DOMAIN all : all[i] \in ToSet(all)
  BY <1>4 DEF ToSet
<1>6. all \in Seq(ToSet(all))
  BY <1>4, <1>5
<1> QED BY <1>3, <1>4, <1>5, <1>6

\* A sequence with one element more.
LEMMA Appended ==
    ASSUME NEW s, NEW e, s \in Seq(ToSet(s))
    PROVE  /\ Append(s, e) \in Seq(ToSet(Append(s, e))) /\ Len(Append(s, e)) = Len(s) + 1
           /\ DOMAIN Append(s, e) = 1 .. Len(s) + 1
           /\ \A i \in 1 .. Len(s) : Append(s, e)[i] = s[i]
           /\ Append(s, e)[Len(s) + 1] = e
<1>1. PICK both : both = ToSet(s) \cup {e}
  OBVIOUS
<1>2. s \in Seq(both) /\ e \in both
  <2>1. ToSet(s) \subseteq both
    BY <1>1
  <2> QED BY <1>1, <2>1
<1>3. PICK all : all = Append(s, e)
  OBVIOUS
<1>4. /\ all \in Seq(both) /\ Len(all) = Len(s) + 1
      /\ \A i \in 1 .. Len(s) : all[i] = s[i]
      /\ all[Len(s) + 1] = e
  BY <1>2, <1>3
<1>5. DOMAIN all = 1 .. Len(s) + 1 /\ \A i \in DOMAIN all : all[i] \in ToSet(all)
  BY <1>4 DEF ToSet
<1>6. all \in Seq(ToSet(all))
  BY <1>4, <1>5
<1> QED BY <1>3, <1>4, <1>5, <1>6

\* The tasks of a state are still there in the next one.
Kept ==
    /\ DOMAIN tasks \subseteq DOMAIN tasks'
    /\ \A id \in DOMAIN tasks :
          /\ DOMAIN tasks'[id] = DOMAIN tasks[id]
          /\ tasks'[id].label = tasks[id].label /\ tasks'[id].config = tasks[id].config
          /\ tasks'[id].dependencies = tasks[id].dependencies

\* A task that was right stays right while what it was created with stays.
LEMMA KeptRight ==
    ASSUME tasks \in Seq(ToSet(tasks)), TasksRight, Kept, NEW id \in DOMAIN tasks
    PROVE  TaskRight(id)' /\ Task(id)' = Task(id)
<1>1. /\ DOMAIN tasks'[id] = DOMAIN tasks[id]
      /\ tasks'[id].label = tasks[id].label /\ tasks'[id].config = tasks[id].config
      /\ tasks'[id].dependencies = tasks[id].dependencies
  BY DEF Kept
<1>2. TaskRight(id) /\ DOMAIN tasks = 1 .. Len(tasks) /\ Len(tasks) \in Nat
  BY DEF TasksRight
<1>3. \A d \in tasks[id].dependencies : tasks'[d].label = tasks[d].label
  BY <1>2 DEF TaskRight, Kept
<1>4. {tasks'[d].label : d \in tasks[id].dependencies} = {tasks[d].label : d \in tasks[id].dependencies}
  BY <1>3
<1>5. Task(id)' = Task(id)
  BY <1>1 DEF Task
<1>6. {tasks'[d].label : d \in tasks'[id].dependencies} = Task(id)'.dependencies
  BY <1>1, <1>2, <1>4, <1>5 DEF TaskRight
<1> QED BY <1>1, <1>2, <1>5, <1>6 DEF TaskRight

\* What they made they still made.
LEMMA KeptMade ==
    ASSUME tasks \in Seq(ToSet(tasks)), TasksRight, Kept,
           tasks' \in Seq(ToSet(tasks')), TasksRight'
    PROVE  \A id \in DOMAIN tasks : Made'[id] = Made[id]
<1>1. PICK n \in Nat : n = Len(tasks) /\ DOMAIN tasks = 1 .. n
  OBVIOUS
<1>2. PICK m \in Nat : m = Len(tasks') /\ DOMAIN tasks' = 1 .. m
  OBVIOUS
<1>3. PICK good : good = {id \in 1 .. n : Made'[id] = Made[id]}
  OBVIOUS
<1>4. \A id \in 1 .. n : tasks[id].dependencies \subseteq 1 .. id - 1
  BY <1>1 DEF TasksRight, TaskRight
<1>5. \A id \in 1 .. m : tasks'[id].dependencies \subseteq 1 .. id - 1
  BY <1>2 DEF TasksRight, TaskRight
<1>6. ASSUME NEW id \in 1 .. n, \A k \in 1 .. id - 1 : k \in good PROVE id \in good
  <2>1. PICK t : t = TheTask(Graph(tasks[id].config), tasks[id].label)
    OBVIOUS
  <2>2. PICK deps : deps = tasks[id].dependencies
    OBVIOUS
  <2>3. id \in 1 .. m
    BY <1>1, <1>2 DEF Kept
  <2>4. t = TheTask(Graph(tasks'[id].config), tasks'[id].label) /\ deps = tasks'[id].dependencies
    BY <1>1, <2>1, <2>2 DEF Kept
  <2>5. Made[id] = Result(t, {Made[d] : d \in deps})
    <3>1. PICK c : c = tasks
      OBVIOUS
    <3>2. DOMAIN c = 1 .. n /\ \A k \in 1 .. n : c[k].dependencies \subseteq 1 .. k - 1
      BY <1>1, <1>4, <3>1
    <3>3. MadeOf(c)[id] = Result(TheTask(Graph(c[id].config), c[id].label),
                                 Inputs(MadeOf(c), c[id].dependencies))
      BY <3>2, MadeIs
    <3> QED BY <2>1, <2>2, <3>1, <3>3 DEF Made, Inputs
  <2>6. Made'[id] = Result(t, {Made'[d] : d \in deps})
    <3>1. PICK c : c = tasks'
      OBVIOUS
    <3>2. DOMAIN c = 1 .. m /\ \A k \in 1 .. m : c[k].dependencies \subseteq 1 .. k - 1
      BY <1>2, <1>5, <3>1
    <3>3. MadeOf(c)[id] = Result(TheTask(Graph(c[id].config), c[id].label),
                                 Inputs(MadeOf(c), c[id].dependencies))
      BY <2>3, <3>2, MadeIs
    <3> QED BY <2>4, <3>1, <3>3 DEF Made, Inputs
  <2>7. \A d \in deps : Made'[d] = Made[d]
    BY <1>3, <1>4, <1>6, <2>2
  <2>8. {Made'[d] : d \in deps} = {Made[d] : d \in deps}
    BY <2>7
  <2> QED BY <1>3, <2>5, <2>6, <2>8
<1>7. \A id \in 1 .. n : id \in good
  BY <1>6, Upwards
<1> QED BY <1>1, <1>3, <1>7

-----------------------------------------------------------------------------
(* Decide: the tasks that it creates and the ids that it gives them.       *)

\* What a decision makes of a graph.
NewTask(graph, label, ids) ==
    [label |-> label, config |-> input.config, done |-> FALSE,
     dependencies |-> {ids[d] : d \in TheTask(graph, label).dependencies}]
NewGroup(replaced, ids) ==
    [ids |-> ids, action |-> input, existing |-> existing,
     cached |-> DOMAIN replaced \ DOMAIN existing]
Decision(graph, needed, replaced, order, ids) ==
    /\ graph = Graph(input.config)
    /\ needed = TargetGraph(graph, Configs[input.config])
    /\ replaced = Replacements(graph, needed)
    /\ order = CreationOrder(graph, needed \ DOMAIN replaced)
    /\ ids = Ids(replaced, order)
    /\ order \in Seq(needed \ DOMAIN replaced) /\ ToSet(order) = needed \ DOMAIN replaced
    /\ tasks' \in Seq(ToSet(tasks')) /\ Len(tasks') = Len(tasks) + Len(order)
    /\ \A i \in 1 .. Len(tasks) : tasks'[i] = tasks[i]
    /\ \A i \in 1 .. Len(order) : tasks'[Len(tasks) + i] = NewTask(graph, order[i], ids)
    /\ groups' = Append(groups, NewGroup(replaced, ids))
    /\ Kept

\* The names of what Decide computes, and what the tasks and groups are after it.
LEMMA Decided ==
    ASSUME tasks \in Seq(ToSet(tasks)), Gives(existing), index \in Seq(DOMAIN tasks),
           input.config \in DOMAIN Configs, Decide
    PROVE  \E graph, needed, replaced, order, ids : Decision(graph, needed, replaced, order, ids)
<1>1. PICK graph, needed, replaced, order, ids :
          /\ graph = Graph(input.config)
          /\ needed = TargetGraph(graph, Configs[input.config])
          /\ replaced = Replacements(graph, needed)
          /\ order = CreationOrder(graph, needed \ DOMAIN replaced)
          /\ ids = Ids(replaced, order)
          /\ tasks' = tasks \o [i \in DOMAIN order |->
                [label |-> order[i], config |-> input.config, done |-> FALSE,
                 dependencies |-> {ids[d] : d \in TheTask(graph, order[i]).dependencies}]]
          /\ groups' = Append(groups,
                [ids |-> ids, action |-> input, existing |-> existing,
                 cached |-> DOMAIN replaced \ DOMAIN existing])
  BY Zenon DEF Decide
<1>2. needed \ DOMAIN replaced \in SUBSET {u.label : u \in graph}
  BY <1>1, TargetsClosed
<1>3. order \in Seq(needed \ DOMAIN replaced) /\ ToSet(order) = needed \ DOMAIN replaced
  <2>1. PICK labels : labels = needed \ DOMAIN replaced
    OBVIOUS
  <2> QED BY <1>1, <1>2, <2>1, OrderIs
<1>4. PICK new : new = [i \in DOMAIN order |-> NewTask(graph, order[i], ids)]
  OBVIOUS
<1>5. tasks' = tasks \o new /\ groups' = Append(groups, NewGroup(replaced, ids))
  BY <1>1, <1>4, Zenon DEF NewTask, NewGroup
<1>6. new \in Seq(ToSet(new)) /\ Len(new) = Len(order)
  <2>1. DOMAIN order = 1 .. Len(order) /\ Len(order) \in Nat
    BY <1>3
  <2>2. \A i \in 1 .. Len(order) : new[i] \in ToSet(new)
    BY <1>4, <2>1 DEF ToSet
  <2> QED BY <1>4, <2>1, <2>2
<1>7. PICK all : all = tasks
  OBVIOUS
<1>8. /\ all \o new \in Seq(ToSet(all \o new)) /\ Len(all \o new) = Len(all) + Len(new)
      /\ \A i \in 1 .. Len(all) : (all \o new)[i] = all[i]
      /\ \A i \in 1 .. Len(new) : (all \o new)[Len(all) + i] = new[i]
  <2>1. all \in Seq(ToSet(all))
    BY <1>7
  <2>2. new \in Seq(ToSet(new))
    BY <1>6
  <2> QED BY <2>1, <2>2, Joined
<1>9. /\ tasks' \in Seq(ToSet(tasks')) /\ Len(tasks') = Len(tasks) + Len(order)
      /\ \A i \in 1 .. Len(tasks) : tasks'[i] = tasks[i]
      /\ \A i \in 1 .. Len(order) : tasks'[Len(tasks) + i] = NewTask(graph, order[i], ids)
  <2>1. \A i \in 1 .. Len(order) : new[i] = NewTask(graph, order[i], ids)
    BY <1>3, <1>4
  <2>2. tasks' = all \o new
    BY <1>5, <1>7
  <2> QED BY <1>6, <1>7, <1>8, <2>1, <2>2
<1>10. Kept
  <2>1. DOMAIN tasks = 1 .. Len(tasks) /\ DOMAIN tasks' = 1 .. Len(tasks) + Len(order)
        /\ Len(tasks) \in Nat /\ Len(order) \in Nat
    BY <1>3, <1>9
  <2> QED BY <1>9, <2>1 DEF Kept
<1>11. Decision(graph, needed, replaced, order, ids)
  BY <1>1, <1>3, <1>5, <1>9, <1>10 DEF Decision
<1> QED BY <1>11

\* Each label of the target graph gets the task that replaces its own, or its own.
LEMMA DecidedIds ==
    ASSUME tasks \in Seq(ToSet(tasks)), Gives(existing), index \in Seq(DOMAIN tasks),
           input.config \in DOMAIN Configs,
           NEW graph, NEW needed, NEW replaced, NEW order, NEW ids,
           Decision(graph, needed, replaced, order, ids)
    PROVE  /\ DOMAIN ids = needed
           /\ \A label \in needed :
                 \/ /\ label \in DOMAIN replaced /\ ids[label] = replaced[label]
                    /\ \E t \in graph : t.label = label /\ Replaces(ids[label], t)
                 \/ \E i \in 1 .. Len(order) :
                        order[i] = label /\ ids[label] = Len(tasks) + i
           /\ \A label \in needed :
                 ids[label] \in DOMAIN tasks' /\ tasks'[ids[label]].label = label
<1>1. /\ order \in Seq(needed \ DOMAIN replaced) /\ ToSet(order) = needed \ DOMAIN replaced
      /\ graph = Graph(input.config) /\ replaced = Replacements(graph, needed)
  BY DEF Decision
<1>2. PICK length \in Nat : length = Len(tasks) /\ DOMAIN tasks = 1 .. length
  OBVIOUS
<1>3. PICK count \in Nat : count = Len(order) /\ DOMAIN order = 1 .. count
  BY <1>1
<1>4. PICK new : new = [label \in ToSet(order) |->
                           length + CHOOSE i \in DOMAIN order : order[i] = label]
  OBVIOUS
<1>5. ids = Update(replaced, new)
  <2>1. ids = Ids(replaced, order)
    BY DEF Decision
  <2>2. ids = Update(replaced, [label \in ToSet(order) |->
                length + CHOOSE i \in DOMAIN order : order[i] = label])
    BY <1>2, <2>1 DEF Ids
  <2> QED BY <1>4, <2>2
<1>6. \A label \in DOMAIN replaced :
          label \in needed /\ \E t \in graph : t.label = label /\ Replaces(replaced[label], t)
  BY <1>1, ReplacementsAre
<1>7. DOMAIN ids = needed
  <2>1. DOMAIN new = needed \ DOMAIN replaced
    BY <1>1, <1>4
  <2> QED BY <1>5, <1>6, <2>1 DEF Update
<1>8. ASSUME NEW label \in needed
      PROVE  \/ label \in DOMAIN replaced /\ ids[label] = replaced[label]
             \/ \E i \in 1 .. count : order[i] = label /\ ids[label] = length + i
  <2>1. CASE label \in DOMAIN replaced
    <3>1. label \notin DOMAIN new
      BY <1>1, <1>4, <2>1
    <3> QED BY <1>5, <2>1, <3>1 DEF Update
  <2>2. CASE label \notin DOMAIN replaced
    <3>1. label \in ToSet(order)
      BY <1>1, <2>2
    <3>2. \E i \in DOMAIN order : order[i] = label
      BY <3>1 DEF ToSet
    <3>3. ids[label] = length + CHOOSE i \in DOMAIN order : order[i] = label
      BY <1>4, <1>5, <3>1 DEF Update
    <3>4. PICK i \in DOMAIN order : i = CHOOSE k \in DOMAIN order : order[k] = label
      BY <3>2
    <3>5. order[i] = label
      BY <3>2, <3>4
    <3> QED BY <1>3, <3>3, <3>4, <3>5
  <2> QED BY <2>1, <2>2
<1>9. ASSUME NEW label \in needed
      PROVE  ids[label] \in DOMAIN tasks' /\ tasks'[ids[label]].label = label
  <2>1. DOMAIN tasks' = 1 .. length + count
    BY <1>2, <1>3 DEF Decision
  <2>2. CASE label \in DOMAIN replaced /\ ids[label] = replaced[label]
    <3>1. ids[label] \in DOMAIN tasks /\ tasks[ids[label]].label = label
      BY <1>6, <2>2 DEF Replaces
    <3>2. tasks'[ids[label]] = tasks[ids[label]]
      BY <1>2, <3>1 DEF Decision
    <3> QED BY <1>2, <2>1, <3>1, <3>2
  <2>3. ASSUME NEW i \in 1 .. count, order[i] = label, ids[label] = length + i
        PROVE  ids[label] \in DOMAIN tasks' /\ tasks'[ids[label]].label = label
    <3>1. tasks'[length + i] = NewTask(graph, order[i], ids)
      BY <1>2, <1>3 DEF Decision
    <3>2. tasks'[length + i].label = label
      BY <2>3, <3>1 DEF NewTask
    <3> QED BY <2>1, <2>3, <3>2
  <2> QED BY <1>8, <2>2, <2>3
<1>10. ASSUME NEW label \in needed
       PROVE  \/ /\ label \in DOMAIN replaced /\ ids[label] = replaced[label]
                 /\ \E t \in graph : t.label = label /\ Replaces(ids[label], t)
              \/ \E i \in 1 .. Len(order) : order[i] = label /\ ids[label] = Len(tasks) + i
  BY <1>2, <1>3, <1>6, <1>8
<1> QED BY <1>7, <1>9, <1>10

\* A task that Decide creates is right.
LEMMA NewTaskRight ==
    ASSUME Right, input.config \in DOMAIN Configs,
           NEW graph, NEW needed, NEW replaced, NEW order, NEW ids,
           Decision(graph, needed, replaced, order, ids), NEW i \in 1 .. Len(order),
           NEW id, id = Len(tasks) + i
    PROVE  /\ TaskRight(id)' /\ order[i] \in needed \ DOMAIN replaced
           /\ TheTask(graph, order[i]) \in graph /\ TheTask(graph, order[i]).label = order[i]
           /\ TheTask(graph, order[i]).dependencies \subseteq needed
           /\ \A d \in TheTask(graph, order[i]).dependencies : ids[d] \in 1 .. id - 1
<1>1. PICK config : config = input.config /\ config \in DOMAIN Configs
  OBVIOUS
<1>2. /\ graph = Graph(config) /\ needed = TargetGraph(graph, Configs[config])
      /\ order = CreationOrder(graph, needed \ DOMAIN replaced)
      /\ order \in Seq(needed \ DOMAIN replaced)
  BY <1>1 DEF Decision
<1>3. PICK length \in Nat : length = Len(tasks) /\ DOMAIN tasks = 1 .. length
  BY DEF Right, TypeRight
<1>4. PICK count \in Nat : count = Len(order) /\ DOMAIN order = 1 .. count
  BY <1>2
<1>5. id = Len(tasks) + i
  OBVIOUS
<1>6. tasks'[id] = [label |-> order[i], config |-> config, done |-> FALSE,
                    dependencies |-> {ids[d] : d \in TheTask(graph, order[i]).dependencies}]
  <2>1. tasks'[Len(tasks) + i] = NewTask(graph, order[i], ids)
    BY DEF Decision
  <2> QED BY <1>1, <1>5, <2>1 DEF NewTask
<1>7. order[i] \in needed \ DOMAIN replaced
  BY <1>2, <1>4
<1>8. PICK labels : labels = needed \ DOMAIN replaced /\ labels \in SUBSET {u.label : u \in graph}
  <2>1. needed \subseteq {u.label : u \in graph}
    BY <1>1, <1>2, TargetsClosed
  <2> QED BY <2>1
<1>9. PICK t \in graph : t.label = order[i]
  BY <1>7, <1>8
<1>10. TheTask(graph, order[i]) = t /\ t.dependencies \subseteq needed
  BY <1>1, <1>2, <1>7, <1>9, TheTaskIs, TargetsClosed
<1>11. Task(id)' = t
  BY <1>2, <1>6, <1>10 DEF Task
<1>12. \A label \in needed :
           \/ /\ label \in DOMAIN replaced /\ ids[label] = replaced[label]
              /\ \E u \in graph : u.label = label /\ Replaces(ids[label], u)
           \/ \E k \in 1 .. Len(order) : order[k] = label /\ ids[label] = Len(tasks) + k
  BY DecidedIds DEF Right, TypeRight
<1>13. \A label \in needed : ids[label] \in DOMAIN tasks' /\ tasks'[ids[label]].label = label
  BY DecidedIds DEF Right, TypeRight
<1>14. ASSUME NEW d \in t.dependencies PROVE ids[d] \in 1 .. id - 1
  <2>1. d \in needed
    BY <1>10
  <2>2. CASE \E u \in graph : u.label = d /\ Replaces(ids[d], u)
    <3>1. ids[d] \in 1 .. length
      BY <1>3, <2>2 DEF Replaces
    <3> QED BY <1>3, <1>4, <1>5, <3>1
  <2>3. ASSUME NEW k \in 1 .. Len(order), order[k] = d, ids[d] = Len(tasks) + k
        PROVE  ids[d] \in 1 .. id - 1
    <3>1. PICK u \in graph, a \in 1 .. KindCount, b \in 1 .. KindCount :
              u.label = d /\ u.kind = KindOrder[a] /\ t.kind = KindOrder[b] /\ a < b
      BY <1>1, <1>2, DependencyIs
    <3>2. \A v, w \in Graph(config), x, y \in 1 .. KindCount,
             p, q \in DOMAIN CreationOrder(Graph(config), labels) :
              /\ v.kind = KindOrder[y] /\ w.kind = KindOrder[x] /\ x < y
              /\ CreationOrder(Graph(config), labels)[p] = v.label
              /\ CreationOrder(Graph(config), labels)[q] = w.label
              => q < p
      BY <1>1, <1>2, <1>8, OrderIs
    <3>3. k \in DOMAIN order /\ i \in DOMAIN order /\ order = CreationOrder(Graph(config), labels)
      BY <1>2, <1>4, <1>8
    <3>4. k < i
      BY <1>2, <1>9, <2>3, <3>1, <3>2, <3>3
    <3> QED BY <1>3, <1>4, <1>5, <2>3, <3>4
  <2> QED BY <1>12, <2>1, <2>2, <2>3
<1>15. {tasks'[x].label : x \in tasks'[id].dependencies} = t.dependencies
  <2>1. tasks'[id].dependencies = {ids[d] : d \in t.dependencies}
    BY <1>6, <1>10
  <2>2. \A d \in t.dependencies : tasks'[ids[d]].label = d
    BY <1>10, <1>13
  <2> QED BY <2>1, <2>2
<1>16. TaskRight(id)'
  <2>1. tasks'[id].dependencies \subseteq 1 .. id - 1
    BY <1>6, <1>10, <1>14
  <2>2. /\ DOMAIN tasks'[id] = {"label", "config", "done", "dependencies"}
        /\ tasks'[id].config = config /\ tasks'[id].label = order[i]
    BY <1>6
  <2> QED BY <1>1, <1>2, <1>9, <1>11, <1>15, <2>1, <2>2 DEF TaskRight
<1> QED BY <1>7, <1>9, <1>10, <1>14, <1>16

-----------------------------------------------------------------------------
(* The inductive invariant.                                                *)

LEMMA RightAtFirst ==
    ASSUME Init
    PROVE  Right
<1>1. tasks = <<>> /\ groups = <<>> /\ index = <<>> /\ existing = Empty
      /\ input = None /\ raised = None
  BY DEF Init
<1>2. TypeRight
  <2>1. <<>> \in Seq(ToSet(<<>>)) /\ <<>> \in Seq(DOMAIN <<>>)
    OBVIOUS
  <2> QED BY <1>1, <2>1 DEF TypeRight
<1>3. TasksRight /\ GroupsRight
  <2>1. DOMAIN <<>> = {}
    OBVIOUS
  <2> QED BY <1>1, <2>1 DEF TasksRight, GroupsRight
<1>4. Gives(existing)
  BY <1>1 DEF Gives, Empty
<1> QED BY <1>2, <1>3, <1>4 DEF Right

\* What is given for labels still has them.
LEMMA KeptGives ==
    ASSUME Kept
    PROVE  \A ids : Gives(ids) =>
               \A label \in DOMAIN ids :
                   ids[label] \in DOMAIN tasks' /\ tasks'[ids[label]].label = label
  BY DEF Kept, Gives

\* A step that keeps the tasks and makes no group.
LEMMA RightWithoutDecision ==
    ASSUME Right, Kept, DOMAIN tasks' = DOMAIN tasks, UNCHANGED groups, TypeRight', Gives(existing)'
    PROVE  Right'
<1>1. TasksRight'
  <2> SUFFICES ASSUME NEW id \in DOMAIN tasks' PROVE TaskRight(id)'
    BY DEF TasksRight
  <2> QED BY KeptRight DEF Right, TypeRight
<1>2. GroupsRight'
  <2> SUFFICES ASSUME NEW n \in DOMAIN groups PROVE GroupRight(groups[n])'
    BY DEF GroupsRight
  <2>1. PICK g : g = groups[n] /\ g = groups'[n]
    OBVIOUS
  <2>2. GroupRight(g)
    BY <2>1 DEF Right, GroupsRight
  <2>3. GroupRight(g)'
    BY <2>2 DEF GroupRight, Kept, Gives
  <2> QED BY <2>1, <2>3
<1> QED BY <1>1, <1>2 DEF Right

\* What a train action gives the decision: the tasks that are named by hand.
LEMMA TrainIs ==
    ASSUME NEW action \in Actions, TrainAction(action)
    PROVE  /\ UNCHANGED <<groups, tasks, index>> /\ input' = action /\ Kept
           /\ Gives(existing')
<1>1. UNCHANGED <<groups, tasks, index>> /\ input' = action /\ Kept
  BY DEF TrainAction, Kept
<1>2. PICK override \in Overrides(action.existing) : existing' = override
  BY DEF TrainAction
<1>3. Gives(override)
  BY DEF Overrides, Gives
<1> QED BY <1>1, <1>2, <1>3

\* A train action preserves the invariant.
LEMMA TrainRight ==
    ASSUME Right, NEW action \in Actions, TrainAction(action)
    PROVE  Right'
<1>1. UNCHANGED <<groups, tasks, index>> /\ input' = action /\ Kept /\ Gives(existing')
  BY TrainIs
<1>2. Gives(existing)'
  BY <1>1 DEF Gives
<1>3. TypeRight'
  BY <1>1 DEF TrainAction, Right, TypeRight
<1> QED BY <1>1, <1>2, <1>3, RightWithoutDecision

\* An action that raises, or whose decision fails, preserves the invariant.
Fails ==
    \/ \E action \in Actions : TrainActionRaises(action)
    \/ DecisionFails
LEMMA FailsRight ==
    ASSUME Right, Fails \/ UNCHANGED vars
    PROVE  Right' /\ Kept /\ UNCHANGED <<groups, tasks, existing>>
<1>1. UNCHANGED <<existing, groups, tasks, index>> /\ input' \in {None, input}
      /\ raised' \in Actions \cup {input, raised}
  BY DEF Fails, TrainActionRaises, DecisionFails, vars
<1>2. Kept
  BY <1>1 DEF Kept
<1>3. Gives(existing)'
  BY <1>1 DEF Right, Gives
<1>4. TypeRight'
  BY <1>1 DEF Right, TypeRight
<1> QED BY <1>1, <1>2, <1>3, <1>4, RightWithoutDecision

\* The completion of a task preserves the invariant.
LEMMA CompleteRight ==
    ASSUME Right, CompleteTask
    PROVE  Right' /\ Kept /\ DOMAIN tasks' = DOMAIN tasks /\ UNCHANGED <<input, existing, groups>>
<1>1. PICK id \in DOMAIN tasks :
          /\ tasks' = [tasks EXCEPT ![id].done = TRUE]
          /\ index' = IF Kinds[Task(id).kind].cached THEN <<id>> \o index ELSE index
  BY DEF CompleteTask
<1>2. UNCHANGED <<input, existing, groups>>
  BY DEF CompleteTask
<1>3. PICK length \in Nat : length = Len(tasks) /\ DOMAIN tasks = 1 .. length
  BY DEF Right, TypeRight
<1>4. tasks' = [k \in 1 .. length |-> IF k = id THEN [tasks[id] EXCEPT !.done = TRUE] ELSE tasks[k]]
  BY <1>1, <1>3 DEF Right, TypeRight
<1>5. tasks' \in Seq(ToSet(tasks')) /\ DOMAIN tasks' = DOMAIN tasks
  <2>1. DOMAIN tasks' = 1 .. length
    BY <1>4
  <2>2. PICK f : f = [k \in 1 .. length |->
                         IF k = id THEN [tasks[id] EXCEPT !.done = TRUE] ELSE tasks[k]]
    OBVIOUS
  <2>3. f \in Seq(ToSet(f))
    <3>1. DOMAIN f = 1 .. length
      BY <2>2
    <3>2. f = [k \in 1 .. length |-> f[k]]
      BY <2>2
    <3>3. \A k \in 1 .. length : f[k] \in ToSet(f)
      BY <3>1 DEF ToSet
    <3> QED BY <3>2, <3>3
  <2> QED BY <1>3, <1>4, <2>1, <2>2, <2>3
<1>6. Kept
  <2>1. DOMAIN tasks[id] = {"label", "config", "done", "dependencies"}
    BY DEF Right, TasksRight, TaskRight
  <2>2. \A k \in DOMAIN tasks : tasks'[k] = IF k = id THEN [tasks[id] EXCEPT !.done = TRUE] ELSE tasks[k]
    BY <1>3, <1>4
  <2> QED BY <1>5, <2>1, <2>2 DEF Kept
<1>7. index' \in Seq(DOMAIN tasks)
  <2>1. <<id>> \o index \in Seq(DOMAIN tasks)
    BY DEF Right, TypeRight
  <2> QED BY <1>1, <2>1 DEF Right, TypeRight
<1>8. TypeRight'
  BY <1>2, <1>5, <1>7 DEF CompleteTask, Right, TypeRight
<1>9. Gives(existing)'
  BY <1>2, <1>6 DEF Right, Gives, Kept
<1> QED BY <1>2, <1>5, <1>6, <1>8, <1>9, RightWithoutDecision

\* A decision preserves the invariant.
LEMMA DecideRight ==
    ASSUME Right, Decide
    PROVE  /\ Right'
           /\ \E graph, needed, replaced, order, ids : Decision(graph, needed, replaced, order, ids)
<1>1. input \in Actions /\ input.config \in DOMAIN Configs
  BY InputsAssumption DEF Right, TypeRight, Decide, Deciding
<1>2. PICK graph, needed, replaced, order, ids : Decision(graph, needed, replaced, order, ids)
  BY <1>1, Decided DEF Right, TypeRight
<1>3. PICK length \in Nat : length = Len(tasks) /\ DOMAIN tasks = 1 .. length
  BY DEF Right, TypeRight
<1>4. PICK count \in Nat : count = Len(order)
  BY <1>2 DEF Decision
<1>5. Kept /\ tasks' \in Seq(ToSet(tasks')) /\ DOMAIN tasks' = 1 .. length + count
  BY <1>2, <1>3, <1>4 DEF Decision
<1>6. UNCHANGED <<existing, index>> /\ input' = None
  BY DEF Decide
<1>7. groups' = Append(groups, NewGroup(replaced, ids))
  BY <1>2 DEF Decision
<1>8. PICK all : all = groups /\ all \in Seq(ToSet(all))
  BY DEF Right, TypeRight
<1>9. /\ groups' \in Seq(ToSet(groups')) /\ DOMAIN groups' = 1 .. Len(all) + 1
      /\ \A n \in 1 .. Len(all) : groups'[n] = all[n]
      /\ groups'[Len(all) + 1] = NewGroup(replaced, ids)
  <2>1. PICK g : g = NewGroup(replaced, ids)
    OBVIOUS
  <2>2. groups' = Append(all, g)
    BY <1>7, <1>8, <2>1
  <2> QED BY <1>8, <2>1, <2>2, Appended
<1>10. TypeRight'
  <2>1. index' \in Seq(DOMAIN tasks')
    <3>1. index \in Seq(DOMAIN tasks) /\ DOMAIN tasks \subseteq DOMAIN tasks'
      BY <1>5 DEF Right, TypeRight, Kept
    <3> QED BY <1>6, <3>1
  <2>2. raised' = None
    BY DEF Decide
  <2> QED BY <1>5, <1>6, <1>9, <2>1, <2>2 DEF TypeRight
<1>11. TasksRight'
  <2> SUFFICES ASSUME NEW id \in DOMAIN tasks' PROVE TaskRight(id)'
    BY DEF TasksRight
  <2>1. CASE id \in 1 .. length
    BY <1>3, <1>5, <2>1, KeptRight DEF Right, TypeRight
  <2>2. CASE id \notin 1 .. length
    <3>1. PICK i \in 1 .. count : id = length + i
      <4>1. id - length \in 1 .. count /\ id = length + (id - length)
        BY <1>3, <1>4, <1>5, <2>2
      <4> QED BY <4>1
    <3>2. i \in 1 .. Len(order) /\ id = Len(tasks) + i
      BY <1>3, <1>4, <3>1
    <3> QED BY <1>1, <1>2, <3>2, NewTaskRight
  <2> QED BY <2>1, <2>2
<1>12. ASSUME NEW f, Gives(f)
       PROVE  \A label \in DOMAIN f : f[label] \in DOMAIN tasks' /\ tasks'[f[label]].label = label
  BY <1>5, <1>12, KeptGives
<1>13. /\ DOMAIN ids = needed
       /\ \A label \in needed : ids[label] \in DOMAIN tasks' /\ tasks'[ids[label]].label = label
  BY <1>1, <1>2, DecidedIds DEF Right, TypeRight
<1>14. GroupsRight'
  <2> SUFFICES ASSUME NEW n \in DOMAIN groups' PROVE GroupRight(groups[n])'
    BY DEF GroupsRight
  <2>1. CASE n \in 1 .. Len(all)
    <3>1. PICK g : g = all[n] /\ g = groups'[n]
      BY <1>9, <2>1
    <3>2. n \in DOMAIN groups /\ g = groups[n]
      BY <1>8, <2>1, <3>1
    <3>3. GroupRight(g)
      BY <3>2 DEF Right, GroupsRight
    <3>4. GroupRight(g)'
      BY <1>5, <3>3 DEF GroupRight, Kept, Gives
    <3> QED BY <3>1, <3>4
  <2>2. CASE n = Len(all) + 1
    <3>1. PICK g : g = NewGroup(replaced, ids) /\ g = groups'[n]
      BY <1>9, <2>2
    <3>2. /\ g.ids = ids /\ g.action = input /\ g.existing = existing
          /\ g.cached = DOMAIN replaced \ DOMAIN existing
      BY <3>1 DEF NewGroup
    <3>3. g.cached \subseteq needed
      <4>1. \A label \in DOMAIN replaced : label \in needed
        BY <1>1, <1>2, ReplacementsAre DEF Decision, Right, TypeRight
      <4> QED BY <3>2, <4>1
    <3>4. DOMAIN g.ids = TargetGraph(Graph(g.action.config), Configs[g.action.config])
      BY <1>2, <1>13, <3>2 DEF Decision
    <3>5. /\ \A label \in DOMAIN g.ids :
                 g.ids[label] \in DOMAIN tasks' /\ tasks'[g.ids[label]].label = label
          /\ \A label \in DOMAIN g.existing :
                 g.existing[label] \in DOMAIN tasks' /\ tasks'[g.existing[label]].label = label
      <4>1. Gives(existing)
        BY DEF Right
      <4> QED BY <1>5, <1>13, <3>2, <4>1, KeptGives
    <3>6. GroupRight(g)'
      BY <1>1, <1>13, <3>2, <3>3, <3>4, <3>5 DEF GroupRight, Gives
    <3> QED BY <3>1, <3>6
  <2>3. n \in 1 .. Len(all) \/ n = Len(all) + 1
    BY <1>8, <1>9
  <2> QED BY <2>1, <2>2, <2>3
<1>15. Gives(existing)'
  BY <1>5, <1>6 DEF Right, Gives, Kept
<1>16. Right'
  BY <1>10, <1>11, <1>14, <1>15 DEF Right
<1> QED BY <1>2, <1>16

\* The tasks of a state are those of the graphs of their configs, depend on earlier tasks
\* with the labels that they ask for, and are the ones that the groups and what is taken
\* over give for their labels: actions/train.py and the loader behind it.
THEOREM TasksAreRight == Spec => []Right
<1>1. Init => Right
  BY RightAtFirst
<1>2. Right /\ [Next]_vars => Right'
  <2> SUFFICES ASSUME Right, [Next]_vars PROVE Right'
    OBVIOUS
  <2>1. ASSUME NEW action \in Actions, TrainAction(action) PROVE Right'
    BY <2>1, TrainRight
  <2>2. CASE Fails \/ UNCHANGED vars
    BY <2>2, FailsRight
  <2>3. CASE Decide
    BY <2>3, DecideRight
  <2>4. CASE CompleteTask
    BY <2>4, CompleteRight
  <2> QED BY <2>1, <2>2, <2>3, <2>4 DEF Next, Fails
<1> QED BY <1>1, <1>2, PTL DEF Spec

-----------------------------------------------------------------------------
(* NothingDangling: what the dummies of the last stage depend on.          *)

\* A job that is not skipped, with all its dependencies.
LEMMA GottenOf ==
    ASSUME NEW kind \in DOMAIN Kinds, NEW config, NEW sofar, IsFiniteSet(sofar),
           NEW job \in SkipForPretrainedModels(Jobs(kind, config), config)
    PROVE  /\ job \in Jobs(kind, config)
           /\ DOMAIN Gotten(job, config, sofar) = Fields
           /\ Gotten(job, config, sofar).kind = kind
           /\ Gotten(job, config, sofar).dataset = job.dataset
           /\ Gotten(job, config, sofar).needs \subseteq Kinds[kind].needs
           /\ IsFiniteSet(Gotten(job, config, sofar).dependencies)
           /\ Gotten(job, config, sofar).dependencies = Gets(Gotten(job, config, sofar), config, sofar)
<1>1. job \in Jobs(kind, config)
  BY DEF SkipForPretrainedModels
<1>2. job.kind = kind /\ DOMAIN job = Fields /\ job.dependencies = {}
  BY <1>1, JobsAre, BaseIs DEF Changed, Fields
<1>3. PICK a : a = AddPretrainedModelMounts(job, config)
  OBVIOUS
<1>4. PICK g : g = Gotten(job, config, sofar)
  OBVIOUS
<1>5. /\ Changed(job, a, {"mounts", "needs", "resources", "parameters"})
      /\ Changed(a, g, {"worker", "command", "dependencies"})
      /\ g.kind = kind
      /\ g.dependencies = Gets(a, config, sofar)
  BY <1>2, <1>3, <1>4, GottenIs
<1>6. a.dataset = job.dataset /\ a.needs \subseteq Kinds[kind].needs /\ a.kind = kind
  BY <1>1, <1>3, <1>5, MountedIs
<1>7. DOMAIN g = Fields /\ g.dataset = job.dataset /\ g.needs = a.needs
  BY <1>5, <1>6 DEF Changed, Fields
<1>8. IsFiniteSet(g.dependencies)
  <2>1. g.dependencies \in SUBSET {t.label : t \in sofar}
    BY <1>5, GetsAre
  <2> QED BY <2>1, FiniteLabels
<1>9. Gets(a, config, sofar) = Gets(g, config, sofar)
  <2>1. a.kind = g.kind /\ a.dataset = g.dataset /\ a.needs = g.needs
    BY <1>5, <1>6, <1>7
  <2> QED BY <2>1 DEF Gets, Wants, Upstreams
<1> QED BY <1>1, <1>4, <1>5, <1>6, <1>7, <1>8, <1>9

\* The dummies of a kind depend on all that it needs: add_dependencies.
LEMMA DummiesWhole ==
    ASSUME DummiesForAll, NEW name \in DOMAIN Configs, NEW t \in Graph(name),
           Kinds[t.kind].dummies, NEW u \in Graph(name), u.kind \in t.needs
    PROVE  \E v \in Graph(name) : v.kind = t.kind /\ u.label \in v.dependencies
<1>1. PICK config, kind : config = Configs[name] /\ kind = t.kind
  OBVIOUS
<1>2. PICK i \in 1 .. KindCount :
          /\ kind = KindOrder[i] /\ kind \in DOMAIN Kinds
          /\ IsFiniteSet(Earlier(Graph(name), i))
          /\ t \in Added(kind, config, Earlier(Graph(name), i))
          /\ \A w \in Added(kind, config, Earlier(Graph(name), i)) : w \in Graph(name)
  BY <1>1, TaskIs
<1>3. PICK sofar : sofar = Earlier(Graph(name), i) /\ IsFiniteSet(sofar)
  BY <1>2
<1>4. PICK x \in Transformed(kind, config, sofar) : Changed(x, t, {"digest"})
  BY <1>2, <1>3, AddedFields
<1>5. PICK job \in SkipForPretrainedModels(Jobs(kind, config), config) :
          \E y \in Several(Gotten(job, config, sofar), config) : x = [y EXCEPT !.label = Label(y)]
  BY TransformedIs
<1>6. PICK y \in Several(Gotten(job, config, sofar), config) : x = [y EXCEPT !.label = Label(y)]
  BY <1>5
<1>7. PICK g : g = Gotten(job, config, sofar)
  OBVIOUS
<1>8. /\ job \in Jobs(kind, config) /\ DOMAIN g = Fields /\ g.kind = kind
      /\ g.dataset = job.dataset /\ g.needs \subseteq Kinds[kind].needs
      /\ IsFiniteSet(g.dependencies) /\ g.dependencies = Gets(g, config, sofar)
  BY <1>2, <1>3, <1>7, GottenOf
<1>9. Changed(g, y, {"chunk", "dependencies"})
  BY <1>6, <1>7, <1>8, SeveralAre
<1>10. t.needs = g.needs
  BY <1>4, <1>6, <1>9 DEF Changed, Fields
<1>11. g.dataset = None
  <2>1. job = Base(kind, config)
    BY <1>1, <1>2, <1>8, JobsAre DEF DummiesForAll
  <2> QED BY <1>8, <2>1, BaseIs
<1>12. u \in sofar
  <2>1. u.kind \in Upto(i - 1)
    BY <1>2, <1>8, <1>10, Places
  <2> QED BY <1>3, <2>1 DEF Earlier
<1>13. u.label \in g.dependencies
  BY <1>8, <1>10, <1>11, <1>12 DEF Gets, Wants
<1>14. PICK z \in AddDependencies(g) : u.label \in z.dependencies /\ Changed(g, z, {"chunk", "dependencies"})
  BY <1>8, <1>13, DummiesTake
<1>15. PICK w : w = [z EXCEPT !.label = Label(z)]
  OBVIOUS
<1>16. w.dependencies = z.dependencies
  BY <1>14, <1>15 DEF Changed, Fields
<1>17. w \in Transformed(kind, config, sofar)
  <2>1. z \in Several(Gotten(job, config, sofar), config)
    BY <1>1, <1>7, <1>8, <1>14 DEF Several
  <2> QED BY <1>15, <2>1, TransformedIs
<1>18. w.kind = kind
  BY <1>2, <1>3, <1>17, TransformedFields
<1>19. PICK v \in Added(kind, config, sofar) : Changed(w, v, {"digest"})
  BY <1>2, <1>3, <1>17, AddedFields
<1>20. v.kind = kind /\ u.label \in v.dependencies
  BY <1>14, <1>16, <1>18, <1>19 DEF Changed, Fields
<1> QED BY <1>1, <1>2, <1>3, <1>20

\* Every decision has its targets, and each task that it creates depends on tasks with the
\* labels it asks for; the dummies of the last stage miss nothing (dependency_dummies.py:20).
THEOREM DecisionsAreWhole ==
    ASSUME DummiesForAll
    PROVE  Spec => []NothingDangling
<1>1. Right => NothingDangling
  <2> SUFFICES ASSUME Right PROVE NothingDangling
    OBVIOUS
  <2>1. ASSUME NEW g \in Range(groups)
        PROVE  /\ \A t \in Graph(g.action.config) :
                     Kinds[t.kind].stage = Configs[g.action.config].target => t.label \in DOMAIN g.ids
               /\ \A id \in Range(g.ids) :
                     {tasks[d].label : d \in tasks[id].dependencies} = Task(id).dependencies
               /\ \A t \in Graph(g.action.config) : Kinds[t.kind].dummies =>
                     {u.label : u \in {v \in Graph(g.action.config) : v.kind \in t.needs}}
                         \subseteq UNION {u.dependencies : u \in OfKind(Graph(g.action.config), t.kind)}
    <3>1. GroupRight(g)
      BY DEF Range, Right, GroupsRight
    <3>2. PICK name \in DOMAIN Configs : name = g.action.config
      BY <3>1, InputsAssumption DEF GroupRight
    <3>3. ASSUME NEW t \in Graph(name), Kinds[t.kind].stage = Configs[name].target
          PROVE  t.label \in DOMAIN g.ids
      <4>1. t.src = Configs[name].src /\ t.trg = Configs[name].trg
        BY TaskFields
      <4>2. t.label \in TargetLabels(Graph(name), Configs[name])
        BY <3>3, <4>1 DEF TargetLabels, TargetTasks
      <4>3. t.label \in TargetGraph(Graph(name), Configs[name])
        BY <4>2, TargetsClosed
      <4> QED BY <3>1, <3>2, <4>3 DEF GroupRight
    <3>4. ASSUME NEW id \in Range(g.ids)
          PROVE  {tasks[d].label : d \in tasks[id].dependencies} = Task(id).dependencies
      <4>1. id \in DOMAIN tasks
        BY <3>1 DEF GroupRight, Gives, Range
      <4> QED BY <4>1 DEF Right, TasksRight, TaskRight
    <3>5. ASSUME NEW t \in Graph(name), Kinds[t.kind].dummies,
                 NEW u \in Graph(name), u.kind \in t.needs
          PROVE  u.label \in UNION {w.dependencies : w \in OfKind(Graph(name), t.kind)}
      BY <3>5, DummiesWhole DEF OfKind
    <3> QED BY <3>2, <3>3, <3>4, <3>5
  <2> QED BY <2>1 DEF NothingDangling
<1> QED BY <1>1, TasksAreRight, PTL

-----------------------------------------------------------------------------
(* CachedIsSame: what the tasks make.                                      *)

\* What a task makes is what its place in the graph of its config would.
MadeAsIn(id) == Made[id] = Results(Graph(tasks[id].config))[tasks[id].label]

\* Until a decision takes tasks over by their label, that of every task.
MadeRight ==
    (\A m \in DOMAIN groups : groups[m].existing = Empty) => \A id \in DOMAIN tasks : MadeAsIn(id)

\* What the tasks of a group make that were found by their digest.
SameAs(g, made) == \A label \in g.cached :
    made[g.ids[label]] = Results(Graph(g.action.config))[label]

\* A task with the digest of another makes what that would.
LEMMA FoundMakes ==
    ASSUME LabelsTell, PretrainedInDigest, Right,
           NEW name \in DOMAIN Configs, NEW t \in Graph(name), NEW id \in DOMAIN tasks,
           tasks[id].label = t.label, Kinds[t.kind].cached, Task(id).digest = t.digest
    PROVE  Results(Graph(tasks[id].config))[tasks[id].label] = Results(Graph(name))[t.label]
<1>1. TaskRight(id)
  BY DEF Right, TasksRight
<1>2. PICK other \in DOMAIN Configs : other = tasks[id].config
  BY <1>1 DEF TaskRight
<1>3. PICK u \in Graph(other) : u = Task(id) /\ u.label = t.label
  BY <1>1, <1>2, TaskOf
<1>4. u.kind = t.kind
  BY <1>3 DEF LabelsTell
<1>5. Results(Graph(other))[u.label] = Results(Graph(name))[t.label]
  BY <1>3, <1>4, SameDigestSameResult
<1> QED BY <1>2, <1>3, <1>5

\* The tasks that Decide creates make what their places in the graph would, when those
\* that it found by their digest do.
LEMMA NewMade ==
    ASSUME Right, Right', input.config \in DOMAIN Configs,
           NEW graph, NEW needed, NEW replaced, NEW order, NEW ids,
           Decision(graph, needed, replaced, order, ids),
           \A label \in DOMAIN replaced : Made'[ids[label]] = Results(graph)[label]
    PROVE  \A i \in 1 .. Len(order) : Made'[Len(tasks) + i] = Results(graph)[order[i]]
<1>1. PICK config : config = input.config /\ config \in DOMAIN Configs /\ graph = Graph(config)
  BY DEF Decision
<1>2. PICK length \in Nat : length = Len(tasks) /\ DOMAIN tasks = 1 .. length
  BY DEF Right, TypeRight
<1>3. PICK count \in Nat : count = Len(order)
  BY DEF Decision
<1>4. PICK c : c = tasks' /\ DOMAIN c = 1 .. length + count
  BY <1>2, <1>3 DEF Decision
<1>5. \A id \in 1 .. length + count : c[id].dependencies \subseteq 1 .. id - 1
  BY <1>4 DEF Right, TasksRight, TaskRight
<1>6. PICK made : made = Made' /\ made = MadeOf(c)
  BY <1>4 DEF Made
<1>7. PICK good : good = {i \in 1 .. count : made[length + i] = Results(graph)[order[i]]}
  OBVIOUS
<1>8. \A label \in needed :
          \/ label \in DOMAIN replaced /\ ids[label] = replaced[label]
          \/ \E k \in 1 .. count : order[k] = label /\ ids[label] = length + k
  <2>1. \A label \in needed :
           \/ /\ label \in DOMAIN replaced /\ ids[label] = replaced[label]
              /\ \E u \in graph : u.label = label /\ Replaces(ids[label], u)
           \/ \E k \in 1 .. Len(order) : order[k] = label /\ ids[label] = Len(tasks) + k
    BY DecidedIds DEF Right, TypeRight
  <2> QED BY <1>2, <1>3, <2>1
<1>9. ASSUME NEW i \in 1 .. count, \A k \in 1 .. i - 1 : k \in good PROVE i \in good
  <2>1. PICK id : id = length + i /\ id = Len(tasks) + i /\ id \in 1 .. length + count
    BY <1>2
  <2>2. i \in 1 .. Len(order)
    BY <1>3
  <2>3. PICK t \in graph : /\ t = TheTask(graph, order[i]) /\ t.label = order[i]
                           /\ t.dependencies \subseteq needed
                           /\ \A d \in t.dependencies : ids[d] \in 1 .. id - 1
    BY <2>1, <2>2, NewTaskRight
  <2>4. c[id] = NewTask(graph, order[i], ids)
    <3>1. tasks'[Len(tasks) + i] = NewTask(graph, order[i], ids)
      BY <2>2 DEF Decision
    <3> QED BY <1>4, <2>1, <3>1
  <2>5. /\ c[id].config = config /\ c[id].label = order[i]
        /\ c[id].dependencies = {ids[d] : d \in t.dependencies}
    BY <1>1, <2>3, <2>4 DEF NewTask
  <2>6. made[id] = Result(t, Inputs(made, c[id].dependencies))
    <3>1. MadeOf(c)[id] = Result(TheTask(Graph(c[id].config), c[id].label),
                                 Inputs(MadeOf(c), c[id].dependencies))
      BY <1>4, <1>5, <2>1, MadeIs
    <3>2. TheTask(Graph(c[id].config), c[id].label) = t
      BY <1>1, <2>3, <2>5, TheTaskIs
    <3> QED BY <1>6, <3>1, <3>2
  <2>7. ASSUME NEW d \in t.dependencies PROVE made[ids[d]] = Results(graph)[d]
    <3>1. d \in needed /\ ids[d] \in 1 .. id - 1
      BY <2>3
    <3>2. CASE d \in DOMAIN replaced
      BY <1>6, <3>2
    <3>3. ASSUME NEW k \in 1 .. count, order[k] = d, ids[d] = length + k
          PROVE  made[ids[d]] = Results(graph)[d]
      <4>1. k \in 1 .. i - 1
        BY <2>1, <3>1, <3>3
      <4> QED BY <1>7, <1>9, <3>3, <4>1
    <3> QED BY <1>8, <3>1, <3>2, <3>3
  <2>8. Inputs(made, c[id].dependencies) = {Results(graph)[d] : d \in t.dependencies}
    <3>1. Inputs(made, c[id].dependencies) = {made[x] : x \in c[id].dependencies}
      BY DEF Inputs
    <3> QED BY <2>5, <2>7, <3>1
  <2>9. Results(graph)[t.label] = Result(t, Inputs(made, c[id].dependencies))
    <3>1. PICK inputs : /\ inputs = Inputs(made, c[id].dependencies)
                        /\ inputs = {Results(graph)[d] : d \in t.dependencies}
      BY <2>8
    <3>2. Results(Graph(config))[t.label] =
              Result(t, {Results(Graph(config))[d] : d \in t.dependencies})
      BY <1>1, <2>3, ResultsAre
    <3> QED BY <1>1, <3>1, <3>2
  <2> QED BY <1>7, <2>1, <2>3, <2>6, <2>9
<1>10. \A i \in 1 .. count : i \in good
  BY <1>9, Upwards
<1> QED BY <1>2, <1>3, <1>6, <1>7, <1>10

\* The decisions before one took nothing over by its label.
NothingTaken(n) == \A m \in 1 .. n - 1 : groups[m].existing = Empty

\* CachedIsSame, group by group.
LEMMA CachedIs ==
    CachedIsSame <=> \A n \in DOMAIN groups : NothingTaken(n) => SameAs(groups[n], Made)
  BY Zenon DEF CachedIsSame, NothingTaken, SameAs

\* Whatever step: the tasks that were there make what they made.
LEMMA KeptSame ==
    ASSUME Right, Right', Kept
    PROVE  /\ \A id \in DOMAIN tasks : MadeAsIn(id) => MadeAsIn(id)'
           /\ \A g : GroupRight(g) /\ SameAs(g, Made) => SameAs(g, Made')
<1>1. \A id \in DOMAIN tasks : Made'[id] = Made[id]
  BY KeptMade DEF Right, TypeRight
<1>2. ASSUME NEW id \in DOMAIN tasks, MadeAsIn(id) PROVE MadeAsIn(id)'
  <2>1. tasks'[id].label = tasks[id].label /\ tasks'[id].config = tasks[id].config
    BY DEF Kept
  <2> QED BY <1>1, <1>2, <2>1 DEF MadeAsIn
<1>3. ASSUME NEW g, GroupRight(g), SameAs(g, Made) PROVE SameAs(g, Made')
  <2>1. \A label \in g.cached : g.ids[label] \in DOMAIN tasks
    BY <1>3 DEF GroupRight, Gives
  <2> QED BY <1>1, <1>3, <2>1 DEF SameAs
<1> QED BY <1>2, <1>3

\* A step that creates no task leaves what all of them make.
LEMMA SameWithoutDecision ==
    ASSUME Right, Right', Kept, DOMAIN tasks' = DOMAIN tasks, UNCHANGED groups,
           MadeRight, CachedIsSame
    PROVE  MadeRight' /\ CachedIsSame'
<1>1. MadeRight'
  BY KeptSame DEF MadeRight
<1>2. ASSUME NEW n \in DOMAIN groups, NothingTaken(n)' PROVE SameAs(groups[n], Made)'
  <2>1. PICK g : g = groups[n] /\ g = groups'[n]
    OBVIOUS
  <2>2. NothingTaken(n)
    BY <1>2 DEF NothingTaken
  <2>3. GroupRight(g) /\ SameAs(g, Made)
    BY <2>1, <2>2, CachedIs DEF Right, GroupsRight
  <2>4. SameAs(g, Made')
    BY <2>3, KeptSame
  <2> QED BY <2>1, <2>4 DEF SameAs
<1>3. (\A n \in DOMAIN groups : NothingTaken(n) => SameAs(groups[n], Made))'
  BY <1>2
<1> QED BY <1>1, <1>3, CachedIs, PTL

\* After a decision, what it took from the index is made as it would have been.
LEMMA DecideSame ==
    ASSUME LabelsTell, PretrainedInDigest, Right, Right', MadeRight, CachedIsSame, Decide
    PROVE  MadeRight' /\ CachedIsSame'
<1>1. PICK graph, needed, replaced, order, ids : Decision(graph, needed, replaced, order, ids)
  BY DecideRight
<1>2. /\ Kept /\ groups' = Append(groups, NewGroup(replaced, ids))
      /\ graph = Graph(input.config) /\ input.config \in DOMAIN Configs
      /\ order \in Seq(needed \ DOMAIN replaced)
  BY <1>1, InputsAssumption DEF Decision, Decide, Deciding, Right, TypeRight
<1>3. PICK all : all = groups /\ all \in Seq(ToSet(all))
  BY DEF Right, TypeRight
<1>4. PICK g : g = NewGroup(replaced, ids)
  OBVIOUS
<1>5. /\ DOMAIN groups' = 1 .. Len(all) + 1
      /\ \A n \in 1 .. Len(all) : groups'[n] = all[n]
      /\ groups'[Len(all) + 1] = g
  BY <1>2, <1>3, <1>4, Appended
<1>6. DOMAIN groups = 1 .. Len(all) /\ Len(all) \in Nat
  BY <1>3
<1>7. \A label \in needed :
         \/ /\ label \in DOMAIN replaced /\ ids[label] = replaced[label]
            /\ \E t \in graph : t.label = label /\ Replaces(ids[label], t)
         \/ \E i \in 1 .. Len(order) : order[i] = label /\ ids[label] = Len(tasks) + i
  BY <1>1, <1>2, DecidedIds DEF Right, TypeRight
<1>8. \A label \in DOMAIN replaced : label \in needed
  BY <1>1, <1>2, ReplacementsAre DEF Decision, Right, TypeRight
<1>9. \A i \in 1 .. Len(order) : order[i] \notin DOMAIN replaced
  BY <1>2
<1>10. ASSUME \A m \in DOMAIN groups : groups[m].existing = Empty,
              NEW label \in DOMAIN replaced, label \notin DOMAIN existing
       PROVE  Made'[ids[label]] = Results(graph)[label]
  <2>1. PICK t \in graph : t.label = label /\ Replaces(ids[label], t)
    BY <1>7, <1>8, <1>9
  <2>2. PICK id \in DOMAIN tasks : /\ id = ids[label] /\ tasks[id].label = label
                                   /\ Kinds[t.kind].cached /\ Task(id).digest = t.digest
    BY <1>10, <2>1 DEF Replaces
  <2>3. MadeAsIn(id)'
    BY <1>2, <1>10, KeptSame DEF MadeRight
  <2>4. tasks'[id].label = tasks[id].label /\ tasks'[id].config = tasks[id].config
    BY <1>2 DEF Kept
  <2>5. Results(Graph(tasks[id].config))[tasks[id].label] = Results(graph)[t.label]
    BY <1>2, <2>1, <2>2, FoundMakes
  <2> QED BY <2>1, <2>2, <2>3, <2>4, <2>5 DEF MadeAsIn
<1>11. ASSUME NEW n \in DOMAIN groups', NothingTaken(n)' PROVE SameAs(groups[n], Made)'
  <2>1. PICK h : h = groups'[n]
    OBVIOUS
  <2>2. SameAs(h, Made')
    <3>1. CASE n \in 1 .. Len(all)
      <4>1. n \in DOMAIN groups /\ h = groups[n]
        BY <1>3, <1>5, <1>6, <2>1, <3>1
      <4>2. NothingTaken(n)
        <5>1. \A m \in 1 .. n - 1 : groups'[m] = groups[m]
          BY <1>3, <1>5, <1>6, <3>1
        <5> QED BY <1>11, <5>1 DEF NothingTaken
      <4>3. GroupRight(h) /\ SameAs(h, Made)
        BY <4>1, <4>2, CachedIs DEF Right, GroupsRight
      <4> QED BY <1>2, <4>3, KeptSame
    <3>2. CASE n = Len(all) + 1
      <4>1. \A m \in DOMAIN groups : groups[m].existing = Empty
        <5>1. \A m \in 1 .. Len(all) : m \in 1 .. n - 1 /\ groups'[m] = groups[m]
          BY <1>3, <1>5, <1>6, <3>2
        <5> QED BY <1>6, <1>11, <5>1 DEF NothingTaken
      <4>2. /\ h.cached = DOMAIN replaced \ DOMAIN existing /\ h.ids = ids
            /\ Graph(h.action.config) = graph
        BY <1>2, <1>4, <1>5, <2>1, <3>2 DEF NewGroup
      <4>3. \A label \in h.cached : Made'[h.ids[label]] = Results(graph)[label]
        BY <1>10, <4>1, <4>2
      <4> QED BY <4>2, <4>3 DEF SameAs
    <3>3. n \in 1 .. Len(all) \/ n = Len(all) + 1
      BY <1>5, <1>6
    <3> QED BY <3>1, <3>2, <3>3
  <2> QED BY <2>1, <2>2 DEF SameAs
<1>12. CachedIsSame'
  <2>1. (\A n \in DOMAIN groups : NothingTaken(n) => SameAs(groups[n], Made))'
    BY <1>11
  <2> QED BY <2>1, CachedIs, PTL
<1>13. ASSUME \A m \in DOMAIN groups' : groups'[m].existing = Empty, NEW id \in DOMAIN tasks'
       PROVE  MadeAsIn(id)'
  <2>1. \A m \in DOMAIN groups : groups[m].existing = Empty
    BY <1>3, <1>5, <1>6, <1>13
  <2>2. existing = Empty
    <3>1. Len(all) + 1 \in DOMAIN groups' /\ groups'[Len(all) + 1] = g
      BY <1>5, <1>6
    <3>2. g.existing = Empty
      BY <1>13, <3>1
    <3> QED BY <1>4, <3>2 DEF NewGroup
  <2>3. PICK length \in Nat : length = Len(tasks) /\ DOMAIN tasks = 1 .. length
    BY DEF Right, TypeRight
  <2>4. CASE id \in DOMAIN tasks
    BY <1>2, <2>1, <2>4, KeptSame DEF MadeRight
  <2>5. CASE id \notin DOMAIN tasks
    <3>1. PICK i \in 1 .. Len(order) : id = length + i
      <4>1. DOMAIN tasks' = 1 .. length + Len(order) /\ Len(order) \in Nat
        BY <1>1, <1>2, <2>3 DEF Decision
      <4>2. id - length \in 1 .. Len(order) /\ id = length + (id - length)
        BY <2>3, <2>5, <4>1
      <4> QED BY <4>2
    <3>2. \A label \in DOMAIN replaced : Made'[ids[label]] = Results(graph)[label]
      <4>1. \A label \in DOMAIN replaced : label \notin DOMAIN existing
        BY <2>2 DEF Empty
      <4> QED BY <1>10, <2>1, <4>1
    <3>3. Made'[Len(tasks) + i] = Results(graph)[order[i]]
      BY <1>1, <1>2, <3>2, NewMade
    <3>4. tasks'[Len(tasks) + i] = NewTask(graph, order[i], ids)
      BY <1>1 DEF Decision
    <3>5. tasks'[id].config = input.config /\ tasks'[id].label = order[i]
      BY <2>3, <3>1, <3>4 DEF NewTask
    <3>6. Made'[id] = Results(graph)[order[i]]
      BY <2>3, <3>1, <3>3
    <3> QED BY <1>2, <3>5, <3>6 DEF MadeAsIn
  <2> QED BY <2>4, <2>5
<1>14. MadeRight'
  BY <1>13 DEF MadeRight
<1> QED BY <1>12, <1>14

\* A task that the index gives for another is made from the same, all the way up, as
\* long as no decision took tasks over by their label (cached_tasks.py:86).
THEOREM CachedTasksAreTheSame ==
    ASSUME LabelsTell, PretrainedInDigest
    PROVE  Spec => []CachedIsSame
<1>1. Init => MadeRight /\ CachedIsSame
  <2>1. DOMAIN <<>> = {}
    OBVIOUS
  <2> QED BY <2>1, CachedIs DEF Init, MadeRight
<1>2. Right /\ Right' /\ MadeRight /\ CachedIsSame /\ [Next]_vars => MadeRight' /\ CachedIsSame'
  <2> SUFFICES ASSUME Right, Right', MadeRight, CachedIsSame, [Next]_vars
               PROVE  MadeRight' /\ CachedIsSame'
    OBVIOUS
  <2>1. ASSUME NEW action \in Actions, TrainAction(action) PROVE MadeRight' /\ CachedIsSame'
    <3>1. UNCHANGED <<groups, tasks>> /\ Kept
      BY <2>1, TrainIs
    <3> QED BY <3>1, SameWithoutDecision
  <2>2. CASE Fails \/ UNCHANGED vars
    <3>1. UNCHANGED <<groups, tasks>> /\ Kept
      BY <2>2, FailsRight
    <3> QED BY <3>1, SameWithoutDecision
  <2>3. CASE Decide
    BY <2>3, DecideSame
  <2>4. CASE CompleteTask
    BY <2>4, CompleteRight, SameWithoutDecision
  <2> QED BY <2>1, <2>2, <2>3, <2>4 DEF Next, Fails
<1> QED BY <1>1, <1>2, TasksAreRight, PTL DEF Spec

-----------------------------------------------------------------------------
(* DatasetsOnce: what a merged corpus is made from.                        *)

\* A kind that has a task for each data set, as those have that clean.
Cleans(kind) ==
    /\ kind \in DOMAIN Kinds /\ Kinds[kind].fan \in {"datasets", "mono"}
    /\ ~ Kinds[kind].chunked /\ ~ Kinds[kind].dummies
    /\ Kinds[kind].evaluates \notin {"train-teacher", "train-backwards"}

LocaleOf(kind, config) ==
    IF Kinds[kind].fan = "datasets" THEN None
    ELSE IF Kinds[kind].category = "mono-src" THEN config.src ELSE config.trg
JobFor(kind, config, d) == ForDataset(Base(kind, config), d, LocaleOf(kind, config))

\* The jobs of such a kind are those of its data sets, and none is skipped.
LEMMA JobsOfCleaner ==
    ASSUME NEW kind, Cleans(kind), NEW config, NEW job
    PROVE  job \in SkipForPretrainedModels(Jobs(kind, config), config) <=>
               ~ Excluded(kind, config)
               /\ \E d \in IncludedDatasets(kind, config) : job = JobFor(kind, config, d)
<1>1. job \in Jobs(kind, config) <=>
          ~ Excluded(kind, config)
          /\ \E d \in IncludedDatasets(kind, config) : job = JobFor(kind, config, d)
  <2>1. CASE Kinds[kind].fan = "datasets"
    BY <2>1 DEF Jobs, JobsFromDatasets, JobFor, LocaleOf
  <2>2. CASE Kinds[kind].fan = "mono"
    <3>1. Jobs(kind, config) = JobsForMonoDatasets(kind, config)
      BY <2>2 DEF Jobs
    <3>2. PICK locale : locale = LocaleOf(kind, config)
                        /\ locale = IF Kinds[kind].category = "mono-src" THEN config.src
                                    ELSE config.trg
      BY <2>2 DEF LocaleOf
    <3>3. Jobs(kind, config) =
              IF Excluded(kind, config) THEN {}
              ELSE {ForDataset(Base(kind, config), d, locale) : d \in IncludedDatasets(kind, config)}
      BY <3>1, <3>2 DEF JobsForMonoDatasets
    <3> QED BY <3>2, <3>3 DEF JobFor
  <2> QED BY <2>1, <2>2 DEF Cleans
<1>2. job \in Jobs(kind, config) => Kinds[job.kind].evaluates \notin DOMAIN Pretrained(config)
  <2>1. job \in Jobs(kind, config) => job.kind = kind
    BY JobsAre, BaseIs DEF Changed, Fields, Cleans
  <2>2. DOMAIN Pretrained(config) \subseteq {"train-teacher", "train-backwards"}
    BY PretrainedIs
  <2> QED BY <2>1, <2>2 DEF Cleans
<1> QED BY <1>1, <1>2 DEF SkipForPretrainedModels

\* What becomes of the job of a data set.
CleanTask(kind, config, sofar, d) ==
    LET gotten == Gotten(JobFor(kind, config, d), config, sofar)
    IN  [gotten EXCEPT !.label = Label(gotten)]

\* A kind that cleans has one task for each of the data sets it includes.
LEMMA CleanersTasks ==
    ASSUME NEW kind, Cleans(kind), NEW config, NEW sofar, IsFiniteSet(sofar), NEW x
    PROVE  x \in Transformed(kind, config, sofar) <=>
               ~ Excluded(kind, config)
               /\ \E d \in IncludedDatasets(kind, config) :
                     x = CleanTask(kind, config, sofar, d) /\ x.dataset = d
<1>1. ASSUME NEW d \in IncludedDatasets(kind, config), ~ Excluded(kind, config)
      PROVE  /\ JobFor(kind, config, d) \in SkipForPretrainedModels(Jobs(kind, config), config)
             /\ Several(Gotten(JobFor(kind, config, d), config, sofar), config)
                    = {Gotten(JobFor(kind, config, d), config, sofar)}
             /\ CleanTask(kind, config, sofar, d).dataset = d
  <2>1. PICK job : job = JobFor(kind, config, d)
    OBVIOUS
  <2>2. job \in SkipForPretrainedModels(Jobs(kind, config), config)
    BY <1>1, <2>1, JobsOfCleaner
  <2>3. PICK g : g = Gotten(job, config, sofar)
    OBVIOUS
  <2>4. DOMAIN g = Fields /\ g.kind = kind /\ g.dataset = job.dataset
    BY <2>2, <2>3, GottenOf DEF Cleans
  <2>5. Several(g, config) = {g}
    BY <2>4 DEF Several, Chunks, Cleans
  <2>6. job.dataset = d
    BY <2>1, BaseIs DEF JobFor, ForDataset, Fields
  <2>7. PICK y : y = [g EXCEPT !.label = Label(g)]
    OBVIOUS
  <2>8. y.dataset = d
    BY <2>4, <2>6, <2>7 DEF Fields
  <2>9. CleanTask(kind, config, sofar, d) = y
    BY <2>1, <2>3, <2>7 DEF CleanTask
  <2> QED BY <2>1, <2>2, <2>3, <2>5, <2>8, <2>9
<1>2. ASSUME x \in Transformed(kind, config, sofar)
      PROVE  /\ ~ Excluded(kind, config)
             /\ \E d \in IncludedDatasets(kind, config) :
                   x = CleanTask(kind, config, sofar, d) /\ x.dataset = d
  <2>1. PICK job \in SkipForPretrainedModels(Jobs(kind, config), config) :
            \E y \in Several(Gotten(job, config, sofar), config) : x = [y EXCEPT !.label = Label(y)]
    BY <1>2, TransformedIs
  <2>2. ~ Excluded(kind, config)
    BY <2>1, JobsOfCleaner
  <2>3. PICK d \in IncludedDatasets(kind, config) : job = JobFor(kind, config, d)
    BY <2>1, JobsOfCleaner
  <2>4. x = CleanTask(kind, config, sofar, d)
    BY <1>1, <2>1, <2>2, <2>3 DEF CleanTask
  <2> QED BY <1>1, <2>2, <2>4
<1>3. ASSUME ~ Excluded(kind, config), NEW d \in IncludedDatasets(kind, config),
             x = CleanTask(kind, config, sofar, d)
      PROVE  x \in Transformed(kind, config, sofar)
  BY <1>1, <1>3, TransformedIs DEF CleanTask
<1> QED BY <1>2, <1>3

\* In a graph: such a kind has one task for each of its data sets, if any.
LEMMA CleanersInGraph ==
    ASSUME NEW name \in DOMAIN Configs, NEW t \in Graph(name),
           NEW kind \in Kinds[t.kind].after, Cleans(kind)
    PROVE  /\ \A u \in Graph(name) : u.kind = kind => ~ Excluded(kind, Configs[name])
           /\ \A u, v \in Graph(name) :
                 u.kind = kind /\ v.kind = kind /\ u.dataset = v.dataset => u = v
           /\ ~ Excluded(kind, Configs[name]) =>
                 \A d \in IncludedDatasets(kind, Configs[name]) :
                     \E u \in Graph(name) : u.kind = kind /\ u.dataset = d
<1>1. PICK config : config = Configs[name]
  OBVIOUS
<1>2. PICK m \in 0 .. KindCount : Has(Graph(name), config, m)
  BY <1>1, GraphIs
<1>3. PICK i \in 1 .. m : t.kind = KindOrder[i]
  BY <1>2 DEF Has, Upto
<1>4. PICK j \in 1 .. i - 1 : kind = KindOrder[j]
  <2>1. i \in 1 .. KindCount
    BY Places
  <2> QED BY <1>3, <2>1, Places DEF Upto
<1>5. PICK sofar : sofar = Earlier(Graph(name), j)
  OBVIOUS
<1>6. IsFiniteSet(sofar)
  <2>1. Earlier(Graph(name), j) \in SUBSET Graph(name) /\ IsFiniteSet(Graph(name))
    BY <1>2 DEF Has, Earlier
  <2> QED BY <1>5, <2>1, FS_Subset
<1>7. OfKind(Graph(name), kind) = Added(kind, config, sofar)
  <2>1. j \in 1 .. m
    BY Places
  <2> QED BY <1>2, <1>4, <1>5, <2>1 DEF Has
<1>8. kind \in DOMAIN Kinds
  BY DEF Cleans
<1>9. ASSUME NEW u \in Graph(name), u.kind = kind
      PROVE  /\ ~ Excluded(kind, config)
             /\ \E x : x = CleanTask(kind, config, sofar, u.dataset) /\ x.label = u.label
  <2>1. u \in Added(kind, config, sofar)
    BY <1>7, <1>9 DEF OfKind
  <2>2. PICK x \in Transformed(kind, config, sofar) : Changed(x, u, {"digest"})
    BY <1>6, <1>8, <2>1, AddedFields
  <2>3. ~ Excluded(kind, config) /\ \E d \in IncludedDatasets(kind, config) :
            x = CleanTask(kind, config, sofar, d) /\ x.dataset = d
    BY <1>6, <2>2, CleanersTasks
  <2>4. x.dataset = u.dataset /\ x.label = u.label
    BY <2>2 DEF Changed, Fields
  <2> QED BY <2>3, <2>4
<1>10. ASSUME NEW u \in Graph(name), NEW v \in Graph(name), u.kind = kind, v.kind = kind,
              u.dataset = v.dataset
       PROVE  u = v
  <2>1. u.label = v.label
    BY <1>9, <1>10
  <2> QED BY <2>1, UniqueLabels
<1>11. ASSUME ~ Excluded(kind, config), NEW d \in IncludedDatasets(kind, config)
       PROVE  \E u \in Graph(name) : u.kind = kind /\ u.dataset = d
  <2>1. PICK x : x = CleanTask(kind, config, sofar, d)
    OBVIOUS
  <2>2. x.dataset = d /\ x \in Transformed(kind, config, sofar)
    <3>1. PICK job \in SkipForPretrainedModels(Jobs(kind, config), config) : job = JobFor(kind, config, d)
      BY <1>11, JobsOfCleaner
    <3>2. PICK g : g = Gotten(job, config, sofar)
      OBVIOUS
    <3>3. DOMAIN g = Fields /\ g.kind = kind /\ g.dataset = job.dataset
      BY <1>6, <1>8, <3>2, GottenOf
    <3>4. x = [g EXCEPT !.label = Label(g)]
      BY <2>1, <3>1, <3>2 DEF CleanTask
    <3>5. job.dataset = d
      BY <3>1, BaseIs DEF JobFor, ForDataset, Fields
    <3>6. x.dataset = d
      BY <3>3, <3>4, <3>5 DEF Fields
    <3> QED BY <1>6, <1>11, <2>1, <3>6, CleanersTasks
  <2>3. PICK u \in Added(kind, config, sofar) : Changed(x, u, {"digest"})
    BY <1>6, <1>8, <2>2, AddedFields
  <2>4. u.dataset = d
    BY <2>2, <2>3 DEF Changed, Fields
  <2> QED BY <1>7, <2>3, <2>4 DEF OfKind
<1> QED BY <1>1, <1>9, <1>10, <1>11

\* What a task that merges data sets takes after its needs: the tasks that are asked for.
LEMMA CleanedAre ==
    ASSUME OneCleaner, NEW name \in DOMAIN Configs, NEW t \in Graph(name),
           FetchesUpstreams(t.kind),
           NEW i \in 1 .. KindCount, t.kind = KindOrder[i],
           NEW sofar, sofar = Earlier(Graph(name), i), IsFiniteSet(sofar),
           t \in Added(t.kind, Configs[name], sofar)
    PROVE  {u \in Graph(name) : u.label \in t.dependencies /\ u.kind \in Kinds[t.kind].after}
               = Upstreams(t, Configs[name], sofar)
<1>1. PICK config, kind : config = Configs[name] /\ kind = t.kind /\ kind \in DOMAIN Kinds
  BY Places
<1>2. Kinds[kind].needs \cap Kinds[kind].after = {} /\ ~ Kinds[kind].dummies
  BY <1>1 DEF OneCleaner
<1>3. PICK x \in Transformed(kind, config, sofar) : Changed(x, t, {"digest"})
  BY <1>1, AddedFields
<1>4. PICK job \in Jobs(kind, config) :
               LET mounted == AddPretrainedModelMounts(job, config)
               IN  /\ Changed(job, mounted, {"mounts", "needs", "resources", "parameters"})
                   /\ ~ Kinds[kind].dummies => x.dependencies = Gets(mounted, config, sofar)
  BY <1>1, <1>3, AddedIs
<1>5. PICK a : a = AddPretrainedModelMounts(job, config)
  OBVIOUS
<1>6. /\ Changed(job, a, {"mounts", "needs", "resources", "parameters"})
      /\ x.dependencies = Gets(a, config, sofar)
  BY <1>2, <1>4, <1>5
<1>7. a.kind = kind /\ a.needs \subseteq Kinds[kind].needs
  BY <1>1, <1>5, <1>6, MountedIs
<1>8. t.dependencies = Wants(a, sofar) \cup {u.label : u \in Upstreams(t, config, sofar)}
  <2>1. t.dependencies = x.dependencies
    BY <1>3 DEF Changed, Fields
  <2>2. Upstreams(a, config, sofar) = Upstreams(t, config, sofar)
    BY <1>1, <1>7 DEF Upstreams
  <2> QED BY <1>1, <1>6, <1>7, <2>1, <2>2 DEF Gets
<1>9. sofar \subseteq Graph(name)
  BY DEF Earlier
<1>10. \A u \in Upstreams(t, config, sofar) : u \in sofar /\ u.kind \in Kinds[kind].after
  BY <1>1 DEF Upstreams, DependencyTasks
<1>11. ASSUME NEW u \in Graph(name), u.label \in t.dependencies, u.kind \in Kinds[kind].after
       PROVE  u \in Upstreams(t, config, sofar)
  <2>1. ASSUME u.label \in Wants(a, sofar) PROVE FALSE
    <3>1. PICK v \in sofar : v.label = u.label /\ v.kind \in a.needs
      BY <2>1 DEF Wants
    <3>2. u = v
      BY <1>9, <3>1, UniqueLabels
    <3> QED BY <1>2, <1>7, <1>11, <3>1, <3>2
  <2>2. PICK v \in Upstreams(t, config, sofar) : v.label = u.label
    BY <1>8, <1>11, <2>1
  <2>3. u = v
    BY <1>9, <1>10, <2>2, UniqueLabels
  <2> QED BY <2>2, <2>3
<1> QED BY <1>1, <1>8, <1>9, <1>10, <1>11

\* The way of cleaning that is asked for.
WantedType(kind, config, sofar) ==
    IF Kinds[kind].byCleaningType
    THEN GetCleaningType(config, DependencyTasks(kind, config, sofar))
    ELSE Kinds[kind].upstreamCleaning

\* The upstreams of a task, each by what makes it one.
LEMMA UpstreamsAre ==
    ASSUME NEW t, NEW config, NEW sofar, NEW u
    PROVE  u \in Upstreams(t, config, sofar) <=>
               /\ u \in sofar /\ u.kind \in Kinds[t.kind].after
               /\ Kinds[u.kind].cleaningType = WantedType(t.kind, config, sofar)
               /\ u.dataset # None /\ u.dataset \in config.datasets[Kinds[t.kind].category]
  BY DEF Upstreams, WantedType, DependencyTasks

\* A task that merges data sets depends on one cleaned task for each of its category.
LEMMA MergesOnce ==
    ASSUME OneCleaner, NEW name \in DOMAIN Configs, NEW t \in Graph(name),
           FetchesUpstreams(t.kind),
           NEW cleaned, cleaned = {u \in Graph(name) :
                u.label \in t.dependencies /\ u.kind \in Kinds[t.kind].after}
    PROVE  /\ {u.dataset : u \in cleaned} = Configs[name].datasets[Kinds[t.kind].category]
           /\ Cardinality(cleaned) = Cardinality(Configs[name].datasets[Kinds[t.kind].category])
<1>1. PICK config, kind : config = Configs[name] /\ kind = t.kind
  OBVIOUS
<1>2. PICK i \in 1 .. KindCount :
          /\ kind = KindOrder[i] /\ kind \in DOMAIN Kinds
          /\ IsFiniteSet(Earlier(Graph(name), i))
          /\ ~ Raises(kind, config, Earlier(Graph(name), i))
          /\ t \in Added(kind, config, Earlier(Graph(name), i))
  BY <1>1, TaskIs
<1>3. PICK sofar : sofar = Earlier(Graph(name), i) /\ IsFiniteSet(sofar) /\ sofar \subseteq Graph(name)
  BY <1>2 DEF Earlier
<1>4. PICK type : type = WantedType(kind, config, sofar)
  OBVIOUS
<1>5. PICK wanted : wanted = config.datasets[Kinds[kind].category]
  OBVIOUS
<1>6. \A u : u \in cleaned <=> /\ u \in sofar /\ u.kind \in Kinds[kind].after
                               /\ Kinds[u.kind].cleaningType = type
                               /\ u.dataset # None /\ u.dataset \in wanted
  <2>1. cleaned = Upstreams(t, config, sofar)
    BY <1>1, <1>2, <1>3, CleanedAre
  <2> QED BY <1>1, <1>4, <1>5, <2>1, UpstreamsAre
<1>7. Kinds[kind].category \in DOMAIN config.datasets /\ Kinds[kind].category # None
  <2>1. ~ CategoryMissing(kind, config)
    BY <1>2 DEF Raises
  <2>2. Kinds[kind].category # None
    BY <1>1, <1>2 DEF OneCleaner
  <2> QED BY <2>1, <2>2 DEF CategoryMissing
<1>8. \A other \in Kinds[kind].after :
          /\ Cleans(other) /\ Kinds[other].provider = None
          /\ Kinds[other].category \in {None, Kinds[kind].category}
  <2>1. Kinds[kind].after \subseteq DOMAIN Kinds
    BY <1>2, Places DEF Upto
  <2> QED BY <1>1, <1>2, <2>1 DEF OneCleaner, Cleans
<1>9. PICK cleaner \in Kinds[kind].after :
          Kinds[cleaner].cleaningType = type /\ ~ Excluded(cleaner, config)
  <2>1. CASE Kinds[kind].byCleaningType
    <3>1. /\ type = GetCleaningType(config, DependencyTasks(kind, config, sofar))
          /\ type # None
      BY <1>2, <1>3, <1>4, <2>1 DEF WantedType, Raises
    <3>2. \E u \in DependencyTasks(kind, config, sofar) : Kinds[u.kind].cleaningType = type
      BY <3>1 DEF GetCleaningType
    <3>3. PICK u \in sofar : u.kind \in Kinds[kind].after /\ Kinds[u.kind].cleaningType = type
      BY <3>2 DEF DependencyTasks
    <3>4. Cleans(u.kind) /\ u \in Graph(name)
      BY <1>3, <1>8, <3>3
    <3>5. ~ Excluded(u.kind, config)
      BY <1>1, <3>3, <3>4, CleanersInGraph
    <3> QED BY <3>3, <3>5
  <2>2. CASE ~ Kinds[kind].byCleaningType
    <3>1. Kinds[kind].upstreamCleaning # None /\ type = Kinds[kind].upstreamCleaning
      BY <1>1, <1>4, <2>2 DEF FetchesUpstreams, WantedType
    <3>2. PICK cleaner \in Kinds[kind].after :
              /\ Kinds[cleaner].cleaningType = type /\ Kinds[cleaner].excludeLocales = {}
      BY <1>1, <1>2, <2>2, <3>1 DEF OneCleaner
    <3> QED BY <3>2 DEF Excluded
  <2> QED BY <2>1, <2>2
<1>10. \A other \in Kinds[kind].after : Kinds[other].cleaningType = type => other = cleaner
  BY <1>1, <1>2, <1>9 DEF OneCleaner
<1>11. wanted \subseteq IncludedDatasets(cleaner, config)
  BY <1>5, <1>7, <1>8 DEF IncludedDatasets
<1>12. ASSUME NEW d \in wanted PROVE \E u \in cleaned : u.dataset = d
  <2>1. PICK u \in Graph(name) : u.kind = cleaner /\ u.dataset = d
    BY <1>1, <1>8, <1>9, <1>11, CleanersInGraph
  <2>2. u \in sofar
    <3>1. cleaner \in Upto(i - 1)
      BY <1>2, <1>9, Places
    <3> QED BY <1>3, <2>1, <3>1 DEF Earlier
  <2>3. d # None
    BY <1>1, <1>5, <1>7, InputsAssumption
  <2> QED BY <1>6, <1>9, <2>1, <2>2, <2>3
<1>13. ASSUME NEW u \in cleaned, NEW v \in cleaned, u.dataset = v.dataset PROVE u = v
  <2>1. u.kind = cleaner /\ v.kind = cleaner /\ u \in Graph(name) /\ v \in Graph(name)
    BY <1>3, <1>6, <1>10
  <2> QED BY <1>1, <1>8, <1>9, <1>13, <2>1, CleanersInGraph
<1>14. {u.dataset : u \in cleaned} = wanted
  BY <1>6, <1>12
<1>15. Cardinality(cleaned) = Cardinality(wanted)
  <2>1. PICK f : f = [u \in cleaned |-> u.dataset]
    OBVIOUS
  <2>2. f \in [cleaned -> wanted] /\ IsInjective(f)
    BY <1>6, <1>13, <2>1 DEF IsInjective
  <2>3. \A d \in wanted : \E u \in cleaned : f[u] = d
    BY <1>12, <2>1
  <2>4. f \in Bijection(cleaned, wanted)
    BY <2>2, <2>3 DEF Bijection, Injection, Surjection
  <2>5. ExistsBijection(cleaned, wanted)
    BY <2>4 DEF ExistsBijection
  <2>6. IsFiniteSet(cleaned)
    <3>1. cleaned \in SUBSET sofar
      BY <1>6
    <3> QED BY <1>3, <3>1, FS_Subset
  <2> QED BY <2>5, <2>6, FS_Bijection
<1> QED BY <1>1, <1>5, <1>14, <1>15

\* A merged corpus is made from every data set of its category once, cleaned in one way
\* (find_upstreams.py:100).
THEOREM DatasetsAreMergedOnce ==
    ASSUME OneCleaner
    PROVE  Spec => []DatasetsOnce
<1>1. Right => DatasetsOnce
  <2> SUFFICES ASSUME Right, Deciding PROVE DatasetsOnce
    BY DEF DatasetsOnce
  <2>1. PICK name \in DOMAIN Configs : name = input.config
    BY InputsAssumption DEF Right, TypeRight, Deciding
  <2>2. ASSUME NEW t \in Graph(name), FetchesUpstreams(t.kind), NEW cleaned,
               cleaned = {u \in Graph(name) :
                   u.label \in t.dependencies /\ u.kind \in Kinds[t.kind].after}
        PROVE  /\ {u.dataset : u \in cleaned} = Configs[name].datasets[Kinds[t.kind].category]
               /\ Cardinality(cleaned) = Cardinality(Configs[name].datasets[Kinds[t.kind].category])
    BY <2>2, MergesOnce
  <2> QED BY <2>1, <2>2 DEF DatasetsOnce
<1> QED BY <1>1, TasksAreRight, PTL
=============================================================================
