------------------------- MODULE GroupTracking_proofs -------------------------
(***************************************************************************)
(* Proofs about GroupTracking, for any groups, tasks, archives and calls,  *)
(* any number of evaluations at once, preemptions, crashes and faults: a   *)
(* metric is shown where it belongs, whoever published it, and none that   *)
(* a script listed is lost without a word.                                 *)
(***************************************************************************)
EXTENDS GroupTracking, TLAPS

-----------------------------------------------------------------------------
(* The invariant.                                                          *)

\* The names of runs that may show a metric.
Directories == UNION {Archive[g] : g \in DOMAIN Archive}
RunNames    == {MetricOf[e].model : e \in Parsed} \cup {ModelOfMetrics(dir) : dir \in Directories}
NameOf(e, name) == \/ name = MetricOf[e].model
                   \/ name.base = "speed" /\ MetricOf[e].model.base = "quantized"

RowsOf(g) == {Row(p[1], p[2], MetricOf[p[1]]) :
                 p \in {q \in EvaluationsOf(g) \X RunNames : NameOf(q[1], q[2])}}

RunParts == {"group", "charts", "trainings", "table"}

\* A run of a group has the suffix of the group, and shows metrics and trainings of its name.
RunOf(g, id, run) ==
    /\ DOMAIN run = RunParts
    /\ g \in Groups /\ id.suffix = SuffixFromGroup(g)
    /\ \A title \in DOMAIN run.charts :
          /\ run.charts[title] \in EvaluationsOf(g)
          /\ MetricTitle(MetricOf[run.charts[title]]) = title
          /\ NameOf(run.charts[title], id.name)
    /\ \A t \in run.trainings : t \in TrainingsOf(g) /\ Named[t].name = id.name
    /\ run.table \subseteq RowsOf(g)
    /\ run.table # {} => id.name = GroupLogs

RunsRight(store) == \A id \in DOMAIN store : RunOf(store[id].group[2], id, store[id])

\* What an evaluation has read of the table of its group.
RowsRight ==
    /\ DOMAIN rows = Live
    /\ \A e \in Live : rows[e] \subseteq RowsOf(Task[e].group)

\* What the script still has to publish is of the group it is at.
ScriptRight ==
    /\ todo \subseteq Groups /\ (archive => todo = {})
    /\ phase \in {"training", "archive", "missing"} =>
          /\ group \in Groups
          /\ archive  => /\ group \in DOMAIN Archive
                         /\ trainings \subseteq {dir \in Archive[group] : dir.training # None}
          /\ ~archive => /\ metrics \subseteq EvaluationsOf(group)
                         /\ trainings \subseteq TrainingsOf(group)
    /\ phase \in {"groups", "training"} => ~archive
    /\ phase = "archive" => archive

TrackingInv == RunsRight(runs) /\ RowsRight /\ ScriptRight

\* The run that is to show a metric, and whether it does.
RunOfMetric(e)  == ScriptRun(Task[e].group, MetricOf[e].model)
IsShown(store, e) ==
    /\ RunOfMetric(e) \in DOMAIN store
    /\ MetricTitle(MetricOf[e]) \in DOMAIN store[RunOfMetric(e)].charts
    /\ store[RunOfMetric(e)].charts[MetricTitle(MetricOf[e])] = e

\* What the script still has to publish of a group, before publish_group_logs.
Left(e) == /\ phase \in {"training", "archive"} /\ Task[e].group = group
           /\ archive  => e \in ArchivedMetrics(group) /\ MetricOf[e].model \notin existing
           /\ ~archive => e \in metrics /\ HasMetrics(e)

\* Evaluations that were listed are of groups that are not to come, and are accounted for.
ListedRight ==
    /\ phase \in {"training", "missing"} /\ ~archive => group \notin todo
    /\ ~archive => existing = {}
    /\ \A e \in listed :
          /\ e \in EvaluationsOf(Task[e].group)
          /\ Task[e].group \in Groups \ todo
          /\ RunOfMetric(e) \in reported \/ IsShown(runs, e) \/ Left(e)

AccountInv == TrackingInv /\ ListedRight

-----------------------------------------------------------------------------
(* Names and sets.                                                         *)

\* The suffix of a run tells its group.
LEMMA OneGroup ==
    ASSUME NEW g \in Groups, NEW h \in Groups, SuffixFromGroup(g) = SuffixFromGroup(h)
    PROVE  g = h
BY LabelsAssumption, TasksAssumption DEF SuffixFromGroup, Groups, IsInjective

\* Whatever a metric is made from, the label, the tag or a file, it has the model and the title
\* of the label.
LEMMA MetricsAgree ==
    ASSUME NEW e \in Parsed
    PROVE  /\ MetricOf[e].model = Named[e].name /\ MetricFromFile[e].model = MetricOf[e].model
           /\ MetricTitle(MetricFromFile[e]) = MetricTitle(MetricOf[e])
           /\ MetricTitle(MetricFromTag[e]) = MetricTitle(MetricOf[e])
           /\ MetricTitle(MetricFromArchive[e]) = MetricTitle(MetricOf[e])
<1>1. PICK l : l = Task[e].label
  OBVIOUS
<1>2. DOMAIN l = LabelParts
  BY <1>1, TasksAssumption DEF Parsed
<1>3. /\ WithChunk(l).model = l.model /\ WithChunk(l).suffix = l.suffix
      /\ WithChunk(l).chunk = l.chunk /\ WithChunk(l).importer = l.importer
      /\ WithChunk(l).aug = l.aug /\ WithChunk(l).dataset = l.dataset
  BY <1>2 DEF LabelParts, WithChunk
<1>4. /\ WithoutChunk(l).importer = l.importer /\ WithoutChunk(l).aug = l.aug
      /\ WithoutChunk(l).dataset = l.dataset
  BY <1>2 DEF LabelParts, WithoutChunk
<1>5. MetricOf[e].model = Named[e].name
  BY DEF MetricOf, Named, BuildTaskName
<1>6. /\ MetricOf[e] = ParseTaskLabel(l) /\ MetricFromFile[e] = ParseTaskLabel(WithChunk(l))
      /\ MetricFromTag[e] = ParseTaskLabel(WithoutChunk(l))
      /\ MetricFromArchive[e] = ParseGcpMetric(l)
  BY <1>1 DEF MetricOf, MetricFromFile, MetricFromTag, MetricFromArchive
<1>7. MetricFromFile[e] = MetricOf[e]
  BY <1>3, <1>6 DEF ParseTaskLabel
<1>8. MetricTitle(MetricFromTag[e]) = MetricTitle(MetricOf[e])
  BY <1>4, <1>6 DEF ParseTaskLabel, MetricTitle
<1>9. MetricTitle(MetricFromArchive[e]) = MetricTitle(MetricOf[e])
  BY <1>6 DEF ParseTaskLabel, ParseGcpMetric, MetricTitle
<1> QED BY <1>5, <1>7, <1>8, <1>9

\* No training is named "speed", only a directory with metrics.
LEMMA TrainingNotSpeed ==
    ASSUME NEW t \in Parsed
    PROVE  Named[t].name.base # "speed"
<1>1. Task[t].label.model \in Models
  BY DEF Parsed, Parsable, IsTrainLabel, IsEvalLabel
<1>2. Named[t].name.base = Canonical(Task[t].label.model)
  BY DEF Named, BuildTaskName, ParseTaskLabel, PatchModelName
<1> QED BY <1>1, <1>2 DEF Models, Canonical

-----------------------------------------------------------------------------
(* Weights & Biases.                                                       *)

\* A new run shows nothing.
LEMMA NewRunRight ==
    ASSUME NEW g \in Groups, NEW name, name[2] = g, NEW id, id.suffix = SuffixFromGroup(g)
    PROVE  RunOf(g, id, NewRun(name)) /\ NewRun(name).group[2] = g
BY DEF RunOf, NewRun, RunParts

\* A run that is opened belongs to its group, also when it was there.
LEMMA OpenedRight ==
    ASSUME NEW store, RunsRight(store), NEW id, NEW name, name[2] \in Groups,
           id.suffix = SuffixFromGroup(name[2])
    PROVE  /\ RunsRight(Opened(store, id, name)) /\ id \in DOMAIN Opened(store, id, name)
           /\ Opened(store, id, name)[id].group[2] = name[2]
<1>1. PICK g, new : g = name[2] /\ new = Opened(store, id, name)
  OBVIOUS
<1>2. g \in Groups /\ id.suffix = SuffixFromGroup(g)
  BY <1>1
<1>3. CASE id \in DOMAIN store
  <2>1. new = store
    BY <1>1, <1>3 DEF Opened
  <2>2. RunOf(store[id].group[2], id, store[id])
    BY <1>3 DEF RunsRight
  <2>3. store[id].group[2] = g
    BY <1>2, <2>2, OneGroup DEF RunOf
  <2> QED BY <1>1, <1>3, <2>1, <2>3
<1>4. CASE id \notin DOMAIN store
  <2>1. new = [i \in DOMAIN store \cup {id} |-> IF i = id THEN NewRun(name) ELSE store[i]]
    BY <1>1, <1>4 DEF Opened
  <2>2. RunOf(g, id, new[id]) /\ new[id].group[2] = g
    BY <1>1, <1>2, <2>1, NewRunRight
  <2>3. \A i \in DOMAIN new : RunOf(new[i].group[2], i, new[i])
    <3> TAKE i \in DOMAIN new
    <3>1. CASE i = id
      BY <2>2, <3>1
    <3>2. CASE i # id
      BY <2>1, <3>2 DEF RunsRight
    <3> QED BY <3>1, <3>2
  <2> QED BY <1>1, <2>1, <2>2, <2>3 DEF RunsRight
<1> QED BY <1>1, <1>3, <1>4

\* Charts take the place of those with their titles, and change nothing else.
LEMMA ChartedIs ==
    ASSUME NEW store, NEW id \in DOMAIN store, DOMAIN store[id] = RunParts,
           NEW tasks, NEW metric, NEW new, new = Charted(store, id, tasks, metric)
    PROVE  /\ DOMAIN new = DOMAIN store /\ \A i \in DOMAIN store \ {id} : new[i] = store[i]
           /\ DOMAIN new[id] = RunParts /\ new[id].group = store[id].group
           /\ new[id].trainings = store[id].trainings /\ new[id].table = store[id].table
           /\ DOMAIN new[id].charts =
                  DOMAIN store[id].charts \cup {MetricTitle(metric[t]) : t \in tasks}
           /\ \A title \in DOMAIN new[id].charts :
                 IF title \in {MetricTitle(metric[t]) : t \in tasks}
                   THEN /\ new[id].charts[title] \in tasks
                        /\ MetricTitle(metric[new[id].charts[title]]) = title
                   ELSE new[id].charts[title] = store[id].charts[title]
<1>1. PICK run : run = store[id]
  OBVIOUS
<1>2. PICK titles : titles = {MetricTitle(metric[t]) : t \in tasks}
  OBVIOUS
<1>3. PICK chart : chart = [title \in titles |->
                               CHOOSE t \in tasks : MetricTitle(metric[t]) = title]
  OBVIOUS
<1>4. \A title \in titles : chart[title] \in tasks /\ MetricTitle(metric[chart[title]]) = title
  BY <1>2, <1>3
<1>5. PICK charts : charts = [title \in DOMAIN run.charts \cup titles |->
                                 IF title \in titles THEN chart[title] ELSE run.charts[title]]
  OBVIOUS
<1>6. new = [store EXCEPT ![id].charts = charts]
  <2>1. charts = [title \in DOMAIN run.charts \cup titles |->
                     IF title \in titles THEN CHOOSE t \in tasks : MetricTitle(metric[t]) = title
                                         ELSE run.charts[title]]
    BY <1>3, <1>5
  <2> QED BY <1>1, <1>2, <2>1 DEF Charted
<1>7. /\ DOMAIN new = DOMAIN store /\ \A i \in DOMAIN store \ {id} : new[i] = store[i]
      /\ new[id] = [run EXCEPT !.charts = charts]
  BY <1>1, <1>6
<1>8. /\ DOMAIN new[id] = RunParts /\ new[id].charts = charts
      /\ new[id].group = run.group /\ new[id].trainings = run.trainings
      /\ new[id].table = run.table
  BY <1>1, <1>7 DEF RunParts
<1>9. DOMAIN charts = DOMAIN run.charts \cup titles
  BY <1>5
<1>10. ASSUME NEW title \in DOMAIN charts
       PROVE  IF title \in titles
                THEN charts[title] \in tasks /\ MetricTitle(metric[charts[title]]) = title
                ELSE charts[title] = run.charts[title]
  BY <1>4, <1>5
<1> QED BY <1>1, <1>2, <1>7, <1>8, <1>9, <1>10

\* A run of a group stays one when metrics of its evaluations are shown on it.
LEMMA ChartedRight ==
    ASSUME NEW store, RunsRight(store), NEW id \in DOMAIN store, NEW g, store[id].group[2] = g,
           NEW tasks, \A e \in tasks : e \in EvaluationsOf(g) /\ NameOf(e, id.name),
           NEW metric, \A e \in tasks : MetricTitle(metric[e]) = MetricTitle(MetricOf[e])
    PROVE  /\ RunsRight(Charted(store, id, tasks, metric))
           /\ DOMAIN Charted(store, id, tasks, metric) = DOMAIN store
           /\ Charted(store, id, tasks, metric)[id].group[2] = g
<1>1. PICK new, run : new = Charted(store, id, tasks, metric) /\ run = store[id]
  OBVIOUS
<1>2. RunOf(g, id, run)
  BY <1>1 DEF RunsRight
<1>3. DOMAIN store[id] = RunParts
  BY <1>1, <1>2 DEF RunOf
<1>4. PICK charts, titles : /\ charts = new[id].charts
                            /\ titles = {MetricTitle(metric[t]) : t \in tasks}
  OBVIOUS
<1>5. /\ DOMAIN new = DOMAIN store /\ \A i \in DOMAIN store \ {id} : new[i] = store[i]
      /\ DOMAIN new[id] = RunParts /\ new[id].group = run.group
      /\ new[id].trainings = run.trainings /\ new[id].table = run.table
      /\ DOMAIN charts = DOMAIN run.charts \cup titles
  BY <1>1, <1>3, <1>4, ChartedIs
<1>6. ASSUME NEW title \in DOMAIN charts
      PROVE  IF title \in titles
               THEN charts[title] \in tasks /\ MetricTitle(metric[charts[title]]) = title
               ELSE charts[title] = run.charts[title]
  BY <1>1, <1>3, <1>4, ChartedIs
<1>7. ASSUME NEW title \in DOMAIN charts
      PROVE  /\ charts[title] \in EvaluationsOf(g)
             /\ MetricTitle(MetricOf[charts[title]]) = title /\ NameOf(charts[title], id.name)
  <2>1. CASE title \in titles
    BY <1>6, <2>1
  <2>2. CASE title \notin titles
    BY <1>2, <1>5, <1>6, <2>2 DEF RunOf
  <2> QED BY <2>1, <2>2
<1>8. RunOf(g, id, new[id])
  BY <1>2, <1>4, <1>5, <1>7 DEF RunOf
<1>9. RunsRight(new)
  BY <1>1, <1>5, <1>8 DEF RunsRight
<1> QED BY <1>1, <1>5, <1>9

-----------------------------------------------------------------------------
(* The evaluations.                                                        *)

\* The names of a task are of its group.
LEMMA OwnNames ==
    ASSUME NEW t \in Parsed
    PROVE  /\ Task[t].group \in Groups
           /\ OwnRun(t).suffix = SuffixFromGroup(Task[t].group) /\ OwnRun(t).name = Named[t].name
           /\ SummaryRun(t).suffix = SuffixFromGroup(Task[t].group)
           /\ SummaryRun(t).name = GroupLogs
           /\ WandbNames(t).group[2] = Task[t].group
BY TasksAssumption
DEF Parsed, Groups, OwnRun, SummaryRun, RunId, WandbNames

\* The row and the chart of a metric belong to its group and name.
LEMMA OwnRow ==
    ASSUME NEW e \in Parsed, IsEvaluation(e)
    PROVE  /\ e \in EvaluationsOf(Task[e].group) /\ NameOf(e, Named[e].name)
           /\ Row(e, Named[e].name, MetricOf[e]) \in RowsOf(Task[e].group)
<1>1. e \in EvaluationsOf(Task[e].group)
  BY DEF EvaluationsOf, Evaluates
<1>2. Named[e].name = MetricOf[e].model
  BY MetricsAgree
<1>3. NameOf(e, Named[e].name) /\ Named[e].name \in RunNames
  BY <1>2 DEF NameOf, RunNames
<1>4. <<e, Named[e].name>> \in {q \in EvaluationsOf(Task[e].group) \X RunNames : NameOf(q[1], q[2])}
  BY <1>1, <1>3
<1> QED BY <1>1, <1>3, <1>4 DEF RowsOf

\* A live evaluation is one.
LEMMA LiveEvaluates ==
    ASSUME NEW e \in Live
    PROVE  e \in Parsed /\ IsEvaluation(e)
BY TasksAssumption DEF Parsed, Parsable, IsEvaluation

\* The first runs have what finished tasks published.
LEMMA FinishedRight == RunsRight(RunsOfFinished)
<1> DEFINE tasks       == {t \in Finished : Task[t].group \in Online}
           evaluations == {t \in tasks : IsEvaluation(t)}
           OfTask(t) == IF IsEvaluation(t) THEN {OwnRun(t), SummaryRun(t)} ELSE {OwnRun(t)}
           ids == UNION {OfTask(t) : t \in tasks}
           Opener(id) == CHOOSE t \in tasks : id \in OfTask(t)
           Shown(id)  == Charted([i \in {id} |-> NewRun(WandbNames(Opener(id)).group)], id,
                                 {t \in evaluations : OwnRun(t) = id}, MetricOf)
           Run(id) == [Shown(id)[id] EXCEPT
                          !.trainings = {t \in tasks \ evaluations : OwnRun(t) = id},
                          !.table = {Row(t, Named[t].name, MetricOf[t]) :
                                        t \in {e \in evaluations : SummaryRun(e) = id}}]
<1>1. RunsOfFinished = [id \in ids |-> Run(id)]
  BY DEF RunsOfFinished
<1>2. ASSUME NEW t \in tasks
      PROVE  t \in Parsed /\ (t \notin evaluations => t \in TrainingsOf(Task[t].group))
  <2>1. t \in Parsed
    BY DEF Finished, Parsed, Parsable, IsEvaluation, IsTraining
  <2>2. IsEvaluation(t) \/ IsTraining(t)
    BY DEF Finished
  <2> QED BY <2>1, <2>2 DEF TrainingsOf, Trains
<1>3. ASSUME NEW id \in ids PROVE RunOf(Run(id).group[2], id, Run(id))
  <2>1. PICK t \in tasks : t = Opener(id) /\ id \in OfTask(t)
    OBVIOUS
  <2>2. PICK g, name : /\ g \in Groups
                       /\ g = Task[t].group /\ WandbNames(t).group = name /\ name[2] = g
                       /\ id.suffix = SuffixFromGroup(g)
    <3>1. t \in Parsed /\ (id = OwnRun(t) \/ id = SummaryRun(t))
      BY <1>2, <2>1
    <3> HIDE DEF OfTask, Opener, tasks
    <3> QED BY <3>1, OwnNames
  <2>3. PICK store : store = [i \in {id} |-> NewRun(name)]
    OBVIOUS
  <2>4. RunsRight(store) /\ id \in DOMAIN store /\ store[id].group[2] = g
    BY <2>2, <2>3, NewRunRight DEF RunsRight
  <2>5. PICK shown : shown = {e \in evaluations : OwnRun(e) = id}
    OBVIOUS
  <2>6. ASSUME NEW e \in tasks, OwnRun(e) = id \/ SummaryRun(e) = id PROVE Task[e].group = g
    BY <1>2, <2>2, <2>6, OwnNames, OneGroup
  <2>7. \A e \in shown : e \in EvaluationsOf(g) /\ NameOf(e, id.name)
    BY <1>2, <2>5, <2>6, OwnNames, OwnRow
  <2>8. PICK new : new = Charted(store, id, shown, MetricOf)
    OBVIOUS
  <2>9. RunsRight(new) /\ id \in DOMAIN new /\ new[id].group[2] = g
    BY <2>4, <2>7, <2>8, ChartedRight
  <2>10. RunOf(g, id, new[id])
    BY <2>9 DEF RunsRight
  <2>11. PICK learnt : learnt = {e \in tasks \ evaluations : OwnRun(e) = id}
    OBVIOUS
  <2>12. \A e \in learnt : e \in TrainingsOf(g) /\ Named[e].name = id.name
    BY <1>2, <2>6, <2>11, OwnNames
  <2>13. PICK scored : scored = {e \in evaluations : SummaryRun(e) = id}
    OBVIOUS
  <2>14. PICK table : table = {Row(e, Named[e].name, MetricOf[e]) : e \in scored}
    OBVIOUS
  <2>15. table \subseteq RowsOf(g) /\ (scored = {} => table = {})
    <3>1. \A e \in scored : e \in Parsed /\ IsEvaluation(e) /\ Task[e].group = g
      BY <1>2, <2>6, <2>13
    <3> HIDE DEF tasks, evaluations
    <3> QED BY <2>14, <3>1, OwnRow
  <2>16. scored # {} => id.name = GroupLogs
    BY <1>2, <2>13, OwnNames
  <2>17. Run(id) = [new[id] EXCEPT !.trainings = learnt, !.table = table]
    BY <2>1, <2>2, <2>3, <2>5, <2>8, <2>11, <2>13, <2>14
  <2>18. PICK run : run = [new[id] EXCEPT !.trainings = learnt, !.table = table]
    OBVIOUS
  <2>19. /\ DOMAIN run = RunParts /\ run.group = new[id].group /\ run.charts = new[id].charts
         /\ run.trainings = learnt /\ run.table = table
    BY <2>10, <2>18 DEF RunOf, RunParts
  <2>20. RunOf(g, id, run) /\ run.group[2] = g
    BY <2>9, <2>10, <2>12, <2>15, <2>16, <2>19 DEF RunOf
  <2> QED BY <2>17, <2>18, <2>20
<1> HIDE DEF ids, Run
<1> QED BY <1>1, <1>3 DEF RunsRight

\* An evaluation shows its metric on its own run.
LEMMA PublishMetricRight ==
    ASSUME RunsRight(runs), NEW e \in Live, PublishMetric(e)
    PROVE  RunsRight(runs')
<1>1. e \in Parsed /\ IsEvaluation(e)
  BY LiveEvaluates
<1>2. PICK g, name, id : /\ g \in Groups
                         /\ g = Task[e].group
                         /\ name = WandbNames(e).group /\ name[2] = g
                         /\ id = OwnRun(e) /\ id.suffix = SuffixFromGroup(g)
  BY <1>1, OwnNames
<1>3. PICK store : store = Opened(runs, id, name)
  OBVIOUS
<1>4. RunsRight(store) /\ id \in DOMAIN store /\ store[id].group[2] = g
  <2>1. RunsRight(runs) /\ name[2] \in Groups /\ id.suffix = SuffixFromGroup(name[2])
    BY <1>2
  <2> QED BY <1>2, <1>3, <2>1, OpenedRight
<1>5. e \in EvaluationsOf(g) /\ NameOf(e, id.name)
  BY <1>1, <1>2, OwnNames, OwnRow
<1>6. RunsRight(Charted(store, id, {e}, MetricOf))
  BY <1>4, <1>5, ChartedRight
<1> QED BY <1>2, <1>3, <1>6 DEF PublishMetric

\* The table that an evaluation reads is of its group.
LEMMA ReadSummaryRight ==
    ASSUME RunsRight(runs), RowsRight, NEW e \in Live, ReadSummary(e)
    PROVE  RunsRight(runs') /\ RowsRight'
<1>1. e \in Parsed /\ IsEvaluation(e)
  BY LiveEvaluates
<1>2. PICK g, name, id : /\ g \in Groups
                         /\ g = Task[e].group
                         /\ name = WandbNames(e).group /\ name[2] = g
                         /\ id = SummaryRun(e) /\ id.suffix = SuffixFromGroup(g)
  BY <1>1, OwnNames
<1>3. PICK store : store = Opened(runs, id, name)
  OBVIOUS
<1>4. RunsRight(store) /\ id \in DOMAIN store /\ store[id].group[2] = g
  <2>1. RunsRight(runs) /\ name[2] \in Groups /\ id.suffix = SuffixFromGroup(name[2])
    BY <1>2
  <2> QED BY <1>2, <1>3, <2>1, OpenedRight
<1>5. runs' = store /\ rows' = [rows EXCEPT ![e] = store[id].table]
  BY <1>2, <1>3 DEF ReadSummary
<1>6. store[id].table \subseteq RowsOf(g)
  BY <1>4 DEF RunsRight, RunOf
<1> QED BY <1>2, <1>4, <1>5, <1>6 DEF RowsRight

\* An evaluation adds its row to the table of its group.
LEMMA WriteSummaryRight ==
    ASSUME RunsRight(runs), RowsRight, NEW e \in Live, WriteSummary(e)
    PROVE  RunsRight(runs') /\ RowsRight'
<1>1. e \in Parsed /\ IsEvaluation(e)
  BY LiveEvaluates
<1>2. PICK g, id, row : /\ g \in Groups
                        /\ g = Task[e].group
                        /\ id = SummaryRun(e) /\ id.suffix = SuffixFromGroup(g)
                        /\ id.name = GroupLogs
                        /\ row = Row(e, Named[e].name, MetricOf[e])
  BY <1>1, OwnNames
<1>3. PICK table : table = rows[e] \cup {row}
  OBVIOUS
<1>4. table \subseteq RowsOf(g)
  <2>1. rows[e] \subseteq RowsOf(g) /\ row \in RowsOf(g)
    BY <1>1, <1>2, OwnRow DEF RowsRight
  <2> QED BY <1>3, <2>1
<1>5. RunsRight(runs')
  <2>1. CASE id \notin DOMAIN runs
    BY <1>2, <2>1 DEF WriteSummary
  <2>2. CASE id \in DOMAIN runs
    <3>1. runs' = [runs EXCEPT ![id].table = table]
      BY <1>2, <1>3, <2>2 DEF WriteSummary
    <3>2. PICK run : run = runs[id]
      OBVIOUS
    <3>3. RunOf(run.group[2], id, run)
      BY <2>2, <3>2 DEF RunsRight
    <3>4. run.group[2] = g
      BY <1>2, <3>3, OneGroup DEF RunOf
    <3>5. PICK new : new = [run EXCEPT !.table = table]
      OBVIOUS
    <3>6. /\ DOMAIN new = RunParts /\ new.group = run.group /\ new.charts = run.charts
          /\ new.trainings = run.trainings /\ new.table = table
      BY <3>3, <3>5 DEF RunOf, RunParts
    <3>7. RunOf(g, id, new) /\ new.group[2] = g
      BY <1>2, <1>4, <3>3, <3>4, <3>6 DEF RunOf
    <3>8. /\ DOMAIN runs' = DOMAIN runs /\ runs'[id] = new
          /\ \A i \in DOMAIN runs \ {id} : runs'[i] = runs[i]
      <4>1. runs' = [runs EXCEPT ![id] = new]
        BY <3>1, <3>2, <3>5
      <4> QED BY <2>2, <4>1
    <3> QED BY <3>7, <3>8 DEF RunsRight
  <2> QED BY <2>1, <2>2
<1>6. RowsRight'
  <2>1. rows' = [rows EXCEPT ![e] = {}]
    BY DEF WriteSummary
  <2> QED BY <1>2, <2>1 DEF RowsRight
<1> QED BY <1>5, <1>6

\* Evaluations run at once with each other and with the scripts.
LEMMA EvalNextRight ==
    ASSUME RunsRight(runs), RowsRight, EvalNext
    PROVE  RunsRight(runs') /\ RowsRight'
<1>1. PICK e \in Live : \/ Evaluate(e) \/ SkipPublication(e) \/ ClientFails(e) \/ PublishMetric(e)
                        \/ ReadSummary(e) \/ WriteSummary(e) \/ Preempt(e)
  BY DEF EvalNext
<1>2. CASE Evaluate(e) \/ SkipPublication(e) \/ ClientFails(e)
  BY <1>2 DEF Evaluate, SkipPublication, ClientFails, RowsRight
<1>3. CASE PublishMetric(e)
  BY <1>3, PublishMetricRight DEF PublishMetric, RowsRight
<1>4. CASE ReadSummary(e)
  BY <1>4, ReadSummaryRight
<1>5. CASE WriteSummary(e)
  BY <1>5, WriteSummaryRight
<1>6. CASE Preempt(e)
  <2>1. rows' = [rows EXCEPT ![e] = {}]
    BY <1>6 DEF Preempt
  <2> QED BY <1>6, <2>1 DEF Preempt, RowsRight
<1> QED BY <1>1, <1>2, <1>3, <1>4, <1>5, <1>6

-----------------------------------------------------------------------------
(* The scripts.                                                            *)

\* The runs of a script are of the group that it publishes.
LEMMA ScriptNames ==
    ASSUME NEW g \in Groups, NEW n
    PROVE  /\ ScriptRun(g, n).suffix = SuffixFromGroup(g) /\ ScriptRun(g, n).name = n
           /\ GroupName(g)[2] = g
BY DEF ScriptRun, RunId, GroupName

\* A run takes trainings and metrics of its group and its name.
LEMMA PublishRunRight ==
    ASSUME RunsRight(runs), group \in Groups, NEW id, id.suffix = SuffixFromGroup(group),
           NEW shown, \A t \in shown : t \in TrainingsOf(group) /\ Named[t].name = id.name,
           NEW tasks, \A e \in tasks : e \in EvaluationsOf(group) /\ NameOf(e, id.name),
           NEW metric, \A e \in tasks : MetricTitle(metric[e]) = MetricTitle(MetricOf[e]),
           PublishRun(id, shown, tasks, metric)
    PROVE  RunsRight(runs')
<1>1. PICK g, name : /\ g \in Groups
                     /\ g = group /\ name = GroupName(group) /\ name[2] = g
  BY ScriptNames
<1>2. PICK store : store = Opened(runs, id, name)
  OBVIOUS
<1>3. RunsRight(store) /\ id \in DOMAIN store /\ store[id].group[2] = g
  <2>1. RunsRight(runs) /\ name[2] \in Groups /\ id.suffix = SuffixFromGroup(name[2])
    BY <1>1
  <2> QED BY <1>1, <1>2, <2>1, OpenedRight
<1>4. PICK charted : charted = Charted(store, id, tasks, metric)
  OBVIOUS
<1>5. /\ RunsRight(charted) /\ DOMAIN charted = DOMAIN store
      /\ charted[id].group[2] = g
  <2>1. id \in DOMAIN store /\ store[id].group[2] = g /\ RunsRight(store)
    BY <1>3
  <2>2. \A e \in tasks : e \in EvaluationsOf(g) /\ NameOf(e, id.name)
    BY <1>1
  <2>3. \A e \in tasks : MetricTitle(metric[e]) = MetricTitle(MetricOf[e])
    OBVIOUS
  <2> QED BY <1>4, <2>1, <2>2, <2>3, ChartedRight
<1>6. PICK run : run = charted[id]
  OBVIOUS
<1>7. id \in DOMAIN charted /\ RunOf(g, id, run)
  BY <1>3, <1>5, <1>6 DEF RunsRight
<1>8. PICK new : new = [run EXCEPT !.trainings = @ \cup shown]
  OBVIOUS
<1>9. /\ DOMAIN new = RunParts /\ new.group = run.group /\ new.charts = run.charts
      /\ new.trainings = run.trainings \cup shown /\ new.table = run.table
  BY <1>7, <1>8 DEF RunOf, RunParts
<1>10. \A t \in new.trainings : t \in TrainingsOf(g) /\ Named[t].name = id.name
  BY <1>1, <1>7, <1>9 DEF RunOf
<1>11. RunOf(g, id, new) /\ new.group[2] = g
  BY <1>5, <1>6, <1>7, <1>9, <1>10 DEF RunOf
<1>12. runs' = [charted EXCEPT ![id] = new]
  BY <1>1, <1>2, <1>4, <1>6, <1>8 DEF PublishRun
<1>13. /\ DOMAIN runs' = DOMAIN charted /\ runs'[id] = new
       /\ \A i \in DOMAIN charted \ {id} : runs'[i] = charted[i]
  BY <1>7, <1>12
<1> QED BY <1>5, <1>11, <1>13 DEF RunsRight

\* Runs that are deleted leave the others as they are.
LEMMA PublishGroupRight ==
    ASSUME RunsRight(runs), ScriptRight, PublishGroup
    PROVE  RunsRight(runs') /\ ScriptRight'
<1>1. PICK g \in todo :
         /\ todo' = todo \ {g} /\ group' = g
         /\ trainings' = TrainingTasks(g) /\ metrics' = MetricsTasks(g)
         /\ \/ runs' = runs
            \/ runs' = Without(runs, {id \in DOMAIN runs : id.project = Project(g)
                                                   /\ runs[id].group = GroupName(g)})
  BY DEF PublishGroup
<1>2. RunsRight(runs')
  BY <1>1 DEF RunsRight, Without
<1>3. g \in Groups
  BY <1>1 DEF ScriptRight
<1>4. ASSUME NEW t \in CompletedTasks(g) PROVE t \in Parsed /\ Task[t].group = g
  BY <1>3, ListingAssumption DEF CompletedTasks, FilterTask, Parsed
<1>5. TrainingTasks(g) \subseteq TrainingsOf(g)
  BY <1>4 DEF TrainingTasks, TrainingsOf, Trains
<1>6. MetricsTasks(g) \subseteq EvaluationsOf(g)
  BY <1>4 DEF MetricsTasks, EvaluationsOf, Evaluates
<1>7. phase' = "training" /\ archive' = archive /\ ~archive'
  BY DEF PublishGroup, ScriptRight
<1> QED BY <1>1, <1>2, <1>3, <1>5, <1>6, <1>7 DEF ScriptRight

\* The evaluations that depend on a training are shown on its run.
LEMMA PublishTrainingRight ==
    ASSUME RunsRight(runs), ScriptRight, PublishTraining
    PROVE  RunsRight(runs') /\ ScriptRight'
<1>1. /\ group \in Groups /\ ~archive
      /\ metrics \subseteq EvaluationsOf(group) /\ trainings \subseteq TrainingsOf(group)
  BY DEF ScriptRight, PublishTraining
<1>2. PICK t, id, tasks :
         /\ t \in trainings
         /\ id = ScriptRun(group, Named[t].name)
         /\ tasks \subseteq DependentTasks(t)
         /\ trainings' = trainings \ {t} /\ metrics' = metrics \ DependentTasks(t)
         /\ PublishRun(id, {t}, tasks, MetricFromTag) \/ UNCHANGED runs
  BY DEF PublishTraining, PublishSome, Refuse
<1>3. RunsRight(runs')
  <2>1. CASE PublishRun(id, {t}, tasks, MetricFromTag)
    <3>1. id.suffix = SuffixFromGroup(group) /\ id.name = Named[t].name
      BY <1>1, <1>2, ScriptNames
    <3>2. \A u \in {t} : u \in TrainingsOf(group) /\ Named[u].name = id.name
      BY <1>1, <1>2, <3>1
    <3>3. ASSUME NEW e \in tasks
          PROVE  /\ e \in EvaluationsOf(group) /\ NameOf(e, id.name)
                 /\ MetricTitle(MetricFromTag[e]) = MetricTitle(MetricOf[e])
      <4>1. e \in EvaluationsOf(group) /\ MetricOf[e].model = Named[t].name
        BY <1>1, <1>2 DEF DependentTasks
      <4>2. e \in Parsed
        BY <4>1 DEF EvaluationsOf
      <4> QED BY <3>1, <4>1, <4>2, MetricsAgree DEF NameOf
    <3> QED BY <1>1, <2>1, <3>1, <3>2, <3>3, PublishRunRight
  <2>2. CASE UNCHANGED runs
    BY <2>2
  <2> QED BY <1>2, <2>1, <2>2
<1>4. ScriptRight'
  BY <1>1, <1>2 DEF ScriptRight, PublishTraining, call
<1> QED BY <1>3, <1>4

\* The metrics of a directory are those of its model, and of "speed" those of the quantized one.
LEMMA DirectoryRight ==
    ASSUME ArchivesAgree, NEW g \in DOMAIN Archive, NEW dir \in Archive[g],
           NEW e \in MetricsIn(dir), NEW m \in ModelsOf(dir)
    PROVE  /\ e \in EvaluationsOf(g) /\ NameOf(e, m) /\ m \in RunNames
           /\ MetricTitle(MetricFromArchive[e]) = MetricTitle(MetricOf[e])
<1>1. e \in EvaluationsOf(g) /\ e \in Parsed
  BY DEF ArchivesAgree, EvaluationsOf
<1>2. /\ dir.model = "speed" => MetricOf[e].model = PatchModelName("quantized", -1)
      /\ dir.model # "speed" => MetricOf[e].model = ModelOfMetrics(dir)
  BY DEF ArchivesAgree
<1>3. CASE m = ModelOfMetrics(dir)
  <2>1. m \in RunNames
    BY <1>3 DEF RunNames, Directories
  <2>2. CASE dir.model = "speed"
    <3>1. m.base = "speed" /\ MetricOf[e].model.base = "quantized"
      BY <1>2, <1>3, <2>2 DEF ModelOfMetrics, PatchModelName, Canonical
    <3> QED BY <1>1, <2>1, <3>1, MetricsAgree DEF NameOf
  <2>3. CASE dir.model # "speed"
    BY <1>1, <1>2, <1>3, <2>1, <2>3, MetricsAgree DEF NameOf
  <2> QED BY <2>2, <2>3
<1>4. CASE dir.model = "speed" /\ m = PatchModelName("quantized", -1)
  <2>1. m = MetricOf[e].model
    BY <1>2, <1>4
  <2> QED BY <1>1, <2>1, MetricsAgree DEF NameOf, RunNames
<1> QED BY <1>3, <1>4 DEF ModelsOf

\* A directory with a log is published to the run of its training.
LEMMA PublishArchivedRight ==
    ASSUME ArchivesAgree, RunsRight(runs), ScriptRight, PublishArchived
    PROVE  RunsRight(runs') /\ ScriptRight'
<1>1. /\ group \in Groups /\ archive /\ group \in DOMAIN Archive
      /\ trainings \subseteq {dir \in Archive[group] : dir.training # None}
  BY DEF ScriptRight, PublishArchived
<1>2. PICK dir, id, tasks :
         /\ dir \in trainings /\ tasks \subseteq MetricsIn(dir)
         /\ id = ScriptRun(group, ModelOfLogs(dir)) /\ trainings' = trainings \ {dir}
         /\ PublishRun(id, {dir.training}, tasks, MetricFromArchive) \/ UNCHANGED runs
  BY DEF PublishArchived, PublishSome, Refuse
<1>3. RunsRight(runs')
  <2>1. CASE PublishRun(id, {dir.training}, tasks, MetricFromArchive)
    <3>1. id.suffix = SuffixFromGroup(group) /\ id.name = ModelOfLogs(dir)
      BY <1>1, <1>2, ScriptNames
    <3>2. \A t \in {dir.training} : t \in TrainingsOf(group) /\ Named[t].name = id.name
      BY <1>1, <1>2, <3>1 DEF ArchivesAgree
    <3>3. ASSUME NEW e \in tasks
          PROVE  /\ e \in EvaluationsOf(group) /\ NameOf(e, id.name)
                 /\ MetricTitle(MetricFromArchive[e]) = MetricTitle(MetricOf[e])
      <4>1. dir \in Archive[group] /\ id.name = ModelOfMetrics(dir)
        BY <1>1, <1>2, <3>1 DEF ModelOfLogs, ModelOfMetrics
      <4>2. id.name \in ModelsOf(dir)
        BY <4>1 DEF ModelsOf
      <4> QED BY <1>1, <1>2, <4>1, <4>2, DirectoryRight
    <3> QED BY <1>1, <2>1, <3>1, <3>2, <3>3, PublishRunRight
  <2>2. CASE UNCHANGED runs
    BY <2>2
  <2> QED BY <1>2, <2>1, <2>2
<1>4. ScriptRight'
  BY <1>1, <1>2 DEF ScriptRight, PublishArchived, call
<1> QED BY <1>3, <1>4

\* Whatever is left to publish, metrics of a group or of its archive, is for runs that may show it.
LEMMA FilesRight ==
    ASSUME ArchivesAgree, ScriptRight, phase \in {"training", "archive", "missing"},
           NEW f \in Files
    PROVE  /\ f.task \in EvaluationsOf(group) /\ NameOf(f.task, f.model)
           /\ f.model \in RunNames
           /\ MetricTitle(Metric[f.task]) = MetricTitle(MetricOf[f.task])
<1>1. CASE archive
  <2>1. group \in DOMAIN Archive
    BY <1>1 DEF ScriptRight
  <2>2. PICK dir \in Archive[group] :
           \E e \in MetricsIn(dir), m \in ModelsOf(dir) : f = [task |-> e, model |-> m]
    BY <1>1 DEF Files
  <2>3. PICK e \in MetricsIn(dir), m \in ModelsOf(dir) :
           f.task = e /\ f.model = m /\ Metric = MetricFromArchive
    BY <1>1, <2>2 DEF Metric
  <2>4. /\ e \in EvaluationsOf(group) /\ NameOf(e, m) /\ m \in RunNames
        /\ MetricTitle(MetricFromArchive[e]) = MetricTitle(MetricOf[e])
    BY <2>1, DirectoryRight
  <2> QED BY <2>3, <2>4
<1>2. CASE ~archive
  <2>1. metrics \subseteq EvaluationsOf(group)
    BY <1>2 DEF ScriptRight
  <2>2. PICK e \in metrics : f = [task |-> e, model |-> MetricFromFile[e].model]
    BY <1>2 DEF Files
  <2>3. f.task = e /\ f.model = MetricFromFile[e].model /\ Metric = MetricFromFile
    BY <1>2, <2>2 DEF Metric
  <2>4. e \in EvaluationsOf(group) /\ e \in Parsed
    BY <2>1 DEF EvaluationsOf
  <2>5. f.model = MetricOf[e].model /\ MetricTitle(MetricFromFile[e]) = MetricTitle(MetricOf[e])
    BY <2>3, <2>4, MetricsAgree
  <2> QED BY <2>3, <2>4, <2>5 DEF NameOf, RunNames
<1> QED BY <1>1, <1>2

\* What is left of the metrics is shown on runs of their models.
LEMMA PublishMissingRight ==
    ASSUME ArchivesAgree, RunsRight(runs), ScriptRight, PublishMissing
    PROVE  RunsRight(runs') /\ ScriptRight'
<1> DEFINE Published(id) == Charted(Opened(runs, id, GroupName(group)), id,
                                    MetricsOf(id.name), Metric)[id]
<1>1. group \in Groups
  BY DEF ScriptRight, PublishMissing
<1>2. PICK models : runs' = [id \in DOMAIN runs \cup {ScriptRun(group, m) : m \in models} |->
                                IF id \in {ScriptRun(group, m) : m \in models}
                                  THEN Published(id) ELSE runs[id]]
  BY DEF PublishMissing
<1>3. PICK ids : ids = {ScriptRun(group, m) : m \in models}
  OBVIOUS
<1>4. ASSUME NEW id \in ids PROVE RunOf(Published(id).group[2], id, Published(id))
  <2>1. PICK g, name : g = group /\ name = GroupName(group) /\ name[2] = g
    BY <1>1, ScriptNames
  <2>2. id.suffix = SuffixFromGroup(g)
    BY <1>1, <1>3, <2>1, ScriptNames
  <2>3. PICK store : store = Opened(runs, id, name)
    OBVIOUS
  <2>4. RunsRight(store) /\ id \in DOMAIN store /\ store[id].group[2] = g
    <3>1. RunsRight(runs) /\ name[2] \in Groups /\ id.suffix = SuffixFromGroup(name[2])
      BY <1>1, <2>1, <2>2
    <3> QED BY <2>1, <2>3, <3>1, OpenedRight
  <2>5. PICK tasks : tasks = MetricsOf(id.name)
    OBVIOUS
  <2>6. ASSUME NEW e \in tasks
        PROVE  /\ e \in EvaluationsOf(g) /\ NameOf(e, id.name)
               /\ MetricTitle(Metric[e]) = MetricTitle(MetricOf[e])
    <3>1. PICK f \in Files : f.task = e /\ f.model = id.name
      BY <2>5 DEF MetricsOf
    <3>2. phase \in {"training", "archive", "missing"}
      BY DEF PublishMissing
    <3> QED BY <2>1, <3>1, <3>2, FilesRight
  <2>7. PICK charted : charted = Charted(store, id, tasks, Metric)
    OBVIOUS
  <2>8. RunsRight(charted) /\ id \in DOMAIN charted
    BY <2>4, <2>6, <2>7, ChartedRight
  <2>9. Published(id) = charted[id]
    BY <2>1, <2>3, <2>5, <2>7
  <2> HIDE DEF Published
  <2> QED BY <2>8, <2>9 DEF RunsRight
<1> HIDE DEF Published
<1>5. RunsRight(runs')
  <2>1. /\ DOMAIN runs' = DOMAIN runs \cup ids
        /\ \A id \in DOMAIN runs' : runs'[id] = IF id \in ids THEN Published(id) ELSE runs[id]
    BY <1>2, <1>3
  <2>2. ASSUME NEW id \in DOMAIN runs' PROVE RunOf(runs'[id].group[2], id, runs'[id])
    <3>1. CASE id \in ids
      BY <1>4, <2>1, <3>1
    <3>2. CASE id \notin ids
      BY <2>1, <3>2 DEF RunsRight
    <3> QED BY <3>1, <3>2
  <2> QED BY <2>2 DEF RunsRight
<1>6. ScriptRight'
  BY DEF ScriptRight, PublishMissing, call
<1> QED BY <1>5, <1>6

\* The summary is of the group and has its metrics.
LEMMA PublishSummaryRight ==
    ASSUME ArchivesAgree, RunsRight(runs), ScriptRight, PublishSummary
    PROVE  RunsRight(runs') /\ ScriptRight'
<1>1. group \in Groups /\ phase \in {"training", "archive", "missing"}
  BY DEF ScriptRight, PublishSummary
<1>2. PICK table : table = {Row(f.task, f.model, Metric[f.task]) : f \in Files}
  OBVIOUS
<1>3. PICK id : id = ScriptRun(group, GroupLogs)
  OBVIOUS
<1>4. ASSUME NEW row \in table
      PROVE  row \in RowsOf(group)
  <2>1. PICK f \in Files : row = Row(f.task, f.model, Metric[f.task])
    BY <1>2
  <2>2. /\ f.task \in EvaluationsOf(group) /\ NameOf(f.task, f.model) /\ f.model \in RunNames
        /\ MetricTitle(Metric[f.task]) = MetricTitle(MetricOf[f.task])
    BY <1>1, FilesRight
  <2>3. row = Row(f.task, f.model, MetricOf[f.task])
    BY <2>1, <2>2 DEF Row
  <2>4. <<f.task, f.model>> \in {q \in EvaluationsOf(group) \X RunNames : NameOf(q[1], q[2])}
    BY <2>2
  <2> QED BY <2>3, <2>4 DEF RowsOf
<1>5. table \subseteq RowsOf(group)
  BY <1>4
<1>6. PICK name, new : name = GroupName(group) /\ new = [NewRun(name) EXCEPT !.table = table]
  OBVIOUS
<1>7. name[2] = group /\ id.suffix = SuffixFromGroup(group) /\ id.name = GroupLogs
  BY <1>1, <1>3, <1>6, ScriptNames
<1>8. RunOf(group, id, NewRun(name)) /\ NewRun(name).group[2] = group
  BY <1>1, <1>7, NewRunRight
<1>9. /\ DOMAIN new = RunParts /\ new.group = NewRun(name).group
      /\ new.charts = NewRun(name).charts /\ new.trainings = NewRun(name).trainings
      /\ new.table = table
  BY <1>6, <1>8 DEF RunOf, RunParts
<1>10. RunOf(group, id, new) /\ new.group[2] = group
  BY <1>5, <1>7, <1>8, <1>9 DEF RunOf
<1>11. runs' = [i \in DOMAIN runs \cup {id} |-> IF i = id THEN new ELSE runs[i]]
  BY <1>2, <1>3, <1>6 DEF PublishSummary
<1>12. RunsRight(runs')
  <2>1. ASSUME NEW i \in DOMAIN runs' PROVE RunOf(runs'[i].group[2], i, runs'[i])
    <3>1. CASE i = id
      BY <1>10, <1>11, <3>1
    <3>2. CASE i # id
      BY <1>11, <3>2 DEF RunsRight
    <3> QED BY <3>1, <3>2
  <2> QED BY <2>1 DEF RunsRight
<1>13. ScriptRight'
  <2>1. /\ phase' \in {"idle", "groups"} /\ archive' = FALSE /\ todo' = todo
    BY DEF PublishSummary
  <2> QED BY <2>1 DEF ScriptRight
<1> QED BY <1>12, <1>13

-----------------------------------------------------------------------------
(* The theorem.                                                            *)

\* The steps of the script that publish nothing keep what is to be published of its group.
LEMMA OtherSteps ==
    ASSUME RunsRight(runs), ScriptRight,
           Start \/ SkipGroup \/ StartArchive \/ EndScript \/ Crash
    PROVE  RunsRight(runs') /\ ScriptRight'
<1>1. runs' = runs
  BY DEF Start, SkipGroup, StartArchive, EndScript, Crash, evalVars
<1>2. CASE Start
  <2>1. PICK c \in Starts : todo' = GroupIds(c.group, c.recursive)
    BY <1>2 DEF Start
  <2>2. todo' \subseteq Groups
    BY <2>1 DEF GroupIds
  <2>3. phase' = "groups" /\ archive' = FALSE
    BY <1>2 DEF Start
  <2> QED BY <1>1, <2>2, <2>3 DEF ScriptRight
<1>3. CASE SkipGroup
  <2>1. todo' \subseteq todo /\ phase = "groups" /\ phase' = "groups" /\ archive' = archive
    BY <1>3 DEF SkipGroup, call
  <2> QED BY <1>1, <2>1 DEF ScriptRight
<1>4. CASE StartArchive
  <2>1. PICK c \in Starts :
          /\ c.archive /\ group' = c.group
          /\ trainings' = {dir \in Archive[c.group] : dir.training # None}
    BY <1>4 DEF StartArchive
  <2>2. c.group \in Groups /\ c.group \in DOMAIN Archive
    BY <2>1, ListingAssumption
  <2>3. phase' = "archive" /\ archive' = TRUE /\ todo' = {}
    BY <1>4 DEF StartArchive
  <2> QED BY <1>1, <2>1, <2>2, <2>3 DEF ScriptRight
<1>5. CASE EndScript
  BY <1>1, <1>5 DEF EndScript, call, ScriptRight
<1>6. CASE Crash
  BY <1>1, <1>6 DEF Crash, ScriptRight
<1> QED BY <1>2, <1>3, <1>4, <1>5, <1>6

\* At the start the runs are those of the finished tasks.
LEMMA TrackingInit ==
    ASSUME Init
    PROVE  TrackingInv
<1>1. RunsRight(runs)
  BY FinishedRight DEF Init, EvalInit
<1>2. RowsRight
  BY DEF Init, EvalInit, RowsRight
<1>3. ScriptRight
  BY DEF Init, ScriptInit, ScriptRight
<1> QED BY <1>1, <1>2, <1>3 DEF TrackingInv

\* Every step of an evaluation or of the script keeps the invariant.
LEMMA TrackingStep ==
    ASSUME ArchivesAgree, TrackingInv, [Next]_vars
    PROVE  TrackingInv'
<1>1. RunsRight(runs) /\ RowsRight /\ ScriptRight
  BY DEF TrackingInv
<1>2. CASE EvalNext /\ UNCHANGED scriptVars
  <2>1. RunsRight(runs') /\ RowsRight'
    BY <1>1, <1>2, EvalNextRight
  <2>2. ScriptRight'
    BY <1>1, <1>2 DEF ScriptRight, scriptVars, call
  <2> QED BY <2>1, <2>2 DEF TrackingInv
<1>3. CASE Script
  <2>1. rows' = rows
    BY <1>3 DEF Script, Start, SkipGroup, PublishGroup, PublishTraining, StartArchive,
                PublishArchived, PublishMissing, PublishSummary, EndScript, Crash, evalVars
  <2>2. RowsRight'
    BY <1>1, <2>1 DEF RowsRight
  <2>3. RunsRight(runs') /\ ScriptRight'
    BY <1>1, <1>3, PublishGroupRight, PublishTrainingRight, PublishArchivedRight,
       PublishMissingRight, PublishSummaryRight, OtherSteps
    DEF Script
  <2> QED BY <2>2, <2>3 DEF TrackingInv
<1>4. CASE UNCHANGED vars
  BY <1>1, <1>4 DEF TrackingInv, RowsRight, ScriptRight, vars, evalVars, scriptVars, call
<1> QED BY <1>2, <1>3, <1>4 DEF Next

\* A run that shows a training has only metrics of evaluations that depend on it.
LEMMA TrackingSafe ==
    ASSUME EvaluationsDepend, TrackingInv
    PROVE  MetricsInPlace
<1>1. ASSUME NEW id \in DOMAIN runs, NEW title \in DOMAIN runs[id].charts
      PROVE  LET e == runs[id].charts[title]
             IN  /\ Task[e].group = runs[id].group[2] /\ MetricTitle(MetricOf[e]) = title
                 /\ \/ id.name = MetricOf[e].model
                    \/ id.name.base = "speed" /\ MetricOf[e].model.base = "quantized"
                 /\ runs[id].trainings \subseteq ToSet(Task[e].dependencies)
  <2>1. PICK run, g, e : run = runs[id] /\ g = run.group[2] /\ e = run.charts[title]
    OBVIOUS
  <2>2. RunOf(g, id, run)
    BY <2>1 DEF TrackingInv, RunsRight
  <2>3. /\ g \in Groups /\ e \in EvaluationsOf(g) /\ MetricTitle(MetricOf[e]) = title
        /\ NameOf(e, id.name)
    BY <2>1, <2>2 DEF RunOf
  <2>4. Task[e].group = g
    BY <2>3 DEF EvaluationsOf
  <2>5. ASSUME NEW t \in run.trainings PROVE t \in ToSet(Task[e].dependencies)
    <3>1. t \in TrainingsOf(g) /\ Named[t].name = id.name
      BY <2>2 DEF RunOf
    <3>2. id.name.base # "speed"
      BY <3>1, TrainingNotSpeed DEF TrainingsOf
    <3>3. MetricOf[e].model = Named[t].name
      BY <2>3, <3>1, <3>2 DEF NameOf
    <3> QED BY <2>3, <3>1, <3>3 DEF EvaluationsDepend
  <2> QED BY <2>1, <2>3, <2>4, <2>5 DEF NameOf
<1>2. ASSUME NEW id \in DOMAIN runs, NEW row \in runs[id].table
      PROVE  LET e == row.task
             IN  /\ id.name = GroupLogs
                 /\ Task[e].group = runs[id].group[2] /\ MetricTitle(MetricOf[e]) = row.title
                 /\ \/ row.name = MetricOf[e].model
                    \/ row.name.base = "speed" /\ MetricOf[e].model.base = "quantized"
  <2>1. PICK run, g, table : run = runs[id] /\ g = run.group[2] /\ table = run.table
    OBVIOUS
  <2>2. RunOf(g, id, run)
    BY <2>1 DEF TrackingInv, RunsRight
  <2>3. table \subseteq RowsOf(g) /\ row \in table
    BY <2>1, <2>2 DEF RunOf
  <2>4. row \in RowsOf(g) /\ table # {}
    BY <2>3
  <2>5. PICK p \in EvaluationsOf(g) \X RunNames :
           NameOf(p[1], p[2]) /\ row = Row(p[1], p[2], MetricOf[p[1]])
    BY <2>4 DEF RowsOf
  <2>6. /\ row.task = p[1] /\ row.name = p[2] /\ row.title = MetricTitle(MetricOf[p[1]])
        /\ Task[p[1]].group = g
    BY <2>5 DEF Row, EvaluationsOf
  <2>7. id.name = GroupLogs
    BY <2>1, <2>2, <2>4 DEF RunOf
  <2> QED BY <2>1, <2>5, <2>6, <2>7 DEF NameOf
<1> QED BY <1>1, <1>2 DEF MetricsInPlace

\* Whoever publishes a metric, and however evaluations, their preemptions, scripts, faults and
\* crashes interleave, it is shown in the group of its task, on the run of the model it
\* evaluates, under the name of its data set (utils.py 125-164, taskcluster_group.py 117-126 and
\* 241-253, publishers.py 260-402).
THEOREM MetricsWhereTheyBelong ==
    ASSUME EvaluationsDepend, ArchivesAgree
    PROVE  Spec => []MetricsInPlace
<1>1. Init => TrackingInv
  BY TrackingInit
<1>2. TrackingInv /\ [Next]_vars => TrackingInv'
  BY TrackingStep
<1>3. TrackingInv => MetricsInPlace
  BY TrackingSafe
<1> QED BY <1>1, <1>2, <1>3, PTL DEF Spec

-----------------------------------------------------------------------------
(* Nothing that was listed is lost.                                        *)

\* Only a run "speed" shows metrics of models that have another name.
LEMMA ModelsAgree ==
    ASSUME NEW e \in Parsed, NEW f \in Parsed, NameOf(f, MetricOf[e].model)
    PROVE  MetricOf[f].model = MetricOf[e].model
BY MetricsAgree, TrainingNotSpeed DEF NameOf

\* The run of a metric is not the one of the summary.
LEMMA ModelNotSummary ==
    ASSUME NEW e \in Parsed
    PROVE  MetricOf[e].model # GroupLogs
<1>1. Task[e].label.model \in Models
  BY DEF Parsed, Parsable, IsTrainLabel, IsEvalLabel
<1>2. MetricOf[e].model.base = Canonical(Task[e].label.model)
  BY DEF MetricOf, ParseTaskLabel, PatchModelName
<1> QED BY <1>1, <1>2 DEF Models, Canonical, GroupLogs

\* A metric that is shown is still shown when a run is opened.
LEMMA ShownOpened ==
    ASSUME NEW store, NEW e, IsShown(store, e), NEW id, NEW name
    PROVE  IsShown(Opened(store, id, name), e)
BY DEF IsShown, Opened

\* A metric is shown when it is charted on its run, and no other one takes its place.
LEMMA ShownCharted ==
    ASSUME EvaluationsDiffer, NEW store, RunsRight(store), NEW id \in DOMAIN store,
           NEW g, store[id].group[2] = g,
           NEW tasks, \A f \in tasks : f \in EvaluationsOf(g) /\ NameOf(f, id.name),
           NEW metric, \A f \in tasks : MetricTitle(metric[f]) = MetricTitle(MetricOf[f]),
           NEW e, Task[e].group \in Groups, e \in EvaluationsOf(Task[e].group),
           IsShown(store, e) \/ (id = RunOfMetric(e) /\ e \in tasks)
    PROVE  IsShown(Charted(store, id, tasks, metric), e)
<1>1. PICK new, run : new = Charted(store, id, tasks, metric) /\ run = store[id]
  OBVIOUS
<1>2. RunOf(g, id, run)
  BY <1>1 DEF RunsRight
<1>3. DOMAIN store[id] = RunParts
  BY <1>1, <1>2 DEF RunOf
<1>4. DOMAIN new = DOMAIN store /\ \A i \in DOMAIN store \ {id} : new[i] = store[i]
  BY <1>1, <1>3, ChartedIs
<1>5. CASE id # RunOfMetric(e)
  BY <1>1, <1>4, <1>5 DEF IsShown
<1>6. CASE id = RunOfMetric(e)
  <2>1. PICK charts, titles, title : /\ charts = new[id].charts
                                     /\ titles = {MetricTitle(metric[t]) : t \in tasks}
                                     /\ title = MetricTitle(MetricOf[e])
    OBVIOUS
  <2>2. DOMAIN charts = DOMAIN run.charts \cup titles
    BY <1>1, <1>3, <2>1, ChartedIs
  <2>3. id.suffix = SuffixFromGroup(Task[e].group) /\ id.name = MetricOf[e].model
    BY <1>6, ScriptNames DEF RunOfMetric
  <2>4. Task[e].group = g
    BY <1>2, <2>3, OneGroup DEF RunOf
  <2>5. title \in DOMAIN charts
    <3>1. CASE IsShown(store, e)
      BY <1>1, <1>6, <2>1, <2>2, <3>1 DEF IsShown
    <3>2. CASE e \in tasks
      BY <2>1, <2>2, <3>2
    <3> QED BY <3>1, <3>2
  <2>6. charts[title] = e
    <3>1. CASE title \in titles
      <4>1. PICK f : f = charts[title]
        OBVIOUS
      <4>2. f \in tasks /\ MetricTitle(metric[f]) = title
        BY <1>1, <1>3, <2>1, <2>5, <3>1, <4>1, ChartedIs
      <4>3. f \in EvaluationsOf(g) /\ NameOf(f, MetricOf[e].model) /\ e \in EvaluationsOf(g)
        BY <2>3, <2>4, <4>2
      <4>4. MetricOf[f].model = MetricOf[e].model
        BY <4>3, ModelsAgree DEF EvaluationsOf
      <4>5. MetricTitle(MetricOf[f]) = MetricTitle(MetricOf[e])
        BY <2>1, <4>2
      <4> QED BY <2>4, <4>1, <4>3, <4>4, <4>5 DEF EvaluationsDiffer
    <3>2. CASE title \notin titles
      <4>1. charts[title] = run.charts[title]
        BY <1>1, <1>3, <2>1, <2>5, <3>2, ChartedIs
      <4>2. IsShown(store, e)
        BY <2>1, <3>2
      <4> QED BY <1>1, <1>6, <2>1, <4>1, <4>2 DEF IsShown
    <3> QED BY <3>1, <3>2
  <2> QED BY <1>1, <1>4, <1>6, <2>1, <2>5, <2>6 DEF IsShown
<1> QED BY <1>5, <1>6

\* Evaluations that go on take no metric away.
LEMMA EvalKeepsShown ==
    ASSUME EvaluationsDiffer, RunsRight(runs), EvalNext,
           NEW e, Task[e].group \in Groups, e \in EvaluationsOf(Task[e].group), IsShown(runs, e)
    PROVE  IsShown(runs', e)
<1>1. PICK f \in Live : \/ Evaluate(f) \/ SkipPublication(f) \/ ClientFails(f) \/ PublishMetric(f)
                        \/ ReadSummary(f) \/ WriteSummary(f) \/ Preempt(f)
  BY DEF EvalNext
<1>2. CASE Evaluate(f) \/ SkipPublication(f) \/ ClientFails(f) \/ Preempt(f)
  BY <1>2 DEF Evaluate, SkipPublication, ClientFails, Preempt
<1>3. f \in Parsed /\ IsEvaluation(f)
  BY LiveEvaluates
<1>4. CASE PublishMetric(f)
  <2>1. PICK g, name, id : /\ g \in Groups /\ g = Task[f].group
                           /\ name = WandbNames(f).group /\ name[2] = g
                           /\ id = OwnRun(f) /\ id.suffix = SuffixFromGroup(g)
    BY <1>3, OwnNames
  <2>2. PICK store : store = Opened(runs, id, name)
    OBVIOUS
  <2>3. RunsRight(store) /\ id \in DOMAIN store /\ store[id].group[2] = g
    <3>1. RunsRight(runs) /\ name[2] \in Groups /\ id.suffix = SuffixFromGroup(name[2])
      BY <2>1
    <3> QED BY <2>1, <2>2, <3>1, OpenedRight
  <2>4. f \in EvaluationsOf(g) /\ NameOf(f, id.name)
    BY <1>3, <2>1, OwnNames, OwnRow
  <2>5. IsShown(store, e)
    BY <2>2, ShownOpened
  <2>6. IsShown(Charted(store, id, {f}, MetricOf), e)
    BY <2>3, <2>4, <2>5, ShownCharted
  <2> QED BY <1>4, <2>1, <2>2, <2>6 DEF PublishMetric
<1>5. CASE ReadSummary(f)
  BY <1>5, ShownOpened DEF ReadSummary
<1>6. CASE WriteSummary(f)
  <2>1. PICK id, table : id = SummaryRun(f) /\ id.name = GroupLogs
                         /\ (runs' = runs \/ runs' = [runs EXCEPT ![id].table = table])
    BY <1>3, <1>6, OwnNames DEF WriteSummary
  <2>2. RunOfMetric(e).name = MetricOf[e].model /\ e \in Parsed
    BY ScriptNames DEF RunOfMetric, EvaluationsOf
  <2>3. id # RunOfMetric(e)
    BY <2>1, <2>2, ModelNotSummary
  <2> QED BY <2>1, <2>3 DEF IsShown
<1> QED BY <1>1, <1>2, <1>4, <1>5, <1>6

\* A run that takes metrics shows them, and still shows what it did.
LEMMA ShownPublishRun ==
    ASSUME EvaluationsDiffer, RunsRight(runs), group \in Groups,
           NEW id, id.suffix = SuffixFromGroup(group),
           NEW tasks, \A f \in tasks : f \in EvaluationsOf(group) /\ NameOf(f, id.name),
           NEW metric, \A f \in tasks : MetricTitle(metric[f]) = MetricTitle(MetricOf[f]),
           NEW shown, PublishRun(id, shown, tasks, metric),
           NEW e, Task[e].group \in Groups, e \in EvaluationsOf(Task[e].group),
           IsShown(runs, e) \/ (id = RunOfMetric(e) /\ e \in tasks)
    PROVE  IsShown(runs', e)
<1>1. PICK g, name : g = group /\ name = GroupName(group) /\ name[2] = g
  BY ScriptNames
<1>2. PICK store : store = Opened(runs, id, name)
  OBVIOUS
<1>3. RunsRight(store) /\ id \in DOMAIN store /\ store[id].group[2] = g
  <2>1. RunsRight(runs) /\ name[2] \in Groups /\ id.suffix = SuffixFromGroup(name[2])
    BY <1>1
  <2> QED BY <1>1, <1>2, <2>1, OpenedRight
<1>4. IsShown(store, e) \/ (id = RunOfMetric(e) /\ e \in tasks)
  BY <1>2, ShownOpened
<1>5. PICK charted : charted = Charted(store, id, tasks, metric)
  OBVIOUS
<1>6. \A f \in tasks : f \in EvaluationsOf(g) /\ NameOf(f, id.name)
  BY <1>1
<1>7. IsShown(charted, e)
  BY <1>3, <1>4, <1>5, <1>6, ShownCharted
<1>8. RunsRight(charted) /\ id \in DOMAIN charted
  BY <1>3, <1>5, <1>6, ChartedRight
<1>9. PICK new : new = [charted[id] EXCEPT !.trainings = @ \cup shown]
  OBVIOUS
<1>10. new.charts = charted[id].charts
  <2>1. DOMAIN charted[id] = RunParts
    BY <1>8 DEF RunsRight, RunOf
  <2> QED BY <1>9, <2>1 DEF RunParts
<1>11. runs' = [charted EXCEPT ![id] = new]
  BY <1>1, <1>2, <1>5, <1>9 DEF PublishRun
<1>12. /\ DOMAIN runs' = DOMAIN charted /\ runs'[id] = new
       /\ \A i \in DOMAIN charted \ {id} : runs'[i] = charted[i]
  BY <1>8, <1>11
<1> QED BY <1>7, <1>10, <1>12 DEF IsShown

\* What a listed evaluation is, by the phase of the script.
LEMMA ListedMeans ==
    ASSUME ListedRight, NEW e \in listed
    PROVE  /\ e \in EvaluationsOf(Task[e].group) /\ e \in Parsed
           /\ Task[e].group \in Groups /\ Task[e].group \notin todo
           /\ RunOfMetric(e) \in reported \/ IsShown(runs, e) \/ Left(e)
BY DEF ListedRight, EvaluationsOf

\* A group that is listed does not lose what was shown of the groups before it.
LEMMA PublishGroupAccounts ==
    ASSUME RunsRight(runs), ScriptRight, ListedRight, PublishGroup
    PROVE  ListedRight'
<1>1. PICK g \in todo :
         /\ todo' = todo \ {g} /\ group' = g /\ metrics' = MetricsTasks(g)
         /\ listed' = listed \cup {e \in metrics' : HasMetrics(e)}
         /\ \/ runs' = runs
            \/ runs' = Without(runs, {id \in DOMAIN runs : id.project = Project(g)
                                                   /\ runs[id].group = GroupName(g)})
  BY DEF PublishGroup
<1>2. /\ phase = "groups" /\ phase' = "training" /\ ~archive' /\ archive' = archive
      /\ existing' = existing /\ reported' = reported
  BY DEF PublishGroup, ScriptRight
<1>3. g \in Groups /\ existing' = {} /\ group' \notin todo'
  BY <1>1, <1>2 DEF ScriptRight, ListedRight
<1>4. ASSUME NEW e \in listed
      PROVE  /\ e \in EvaluationsOf(Task[e].group) /\ Task[e].group \in Groups \ todo'
             /\ RunOfMetric(e) \in reported' \/ IsShown(runs', e)
  <2>1. /\ e \in EvaluationsOf(Task[e].group) /\ Task[e].group \in Groups
        /\ Task[e].group \notin todo
    BY ListedMeans
  <2>2. RunOfMetric(e) \in reported \/ IsShown(runs, e)
    BY <1>2, ListedMeans DEF Left
  <2>3. CASE IsShown(runs, e)
    <3>1. PICK id : id = RunOfMetric(e) /\ id \in DOMAIN runs
      BY <2>3 DEF IsShown
    <3>2. RunOf(runs[id].group[2], id, runs[id])
      BY <3>1 DEF RunsRight
    <3>3. id.suffix = SuffixFromGroup(Task[e].group)
      BY <2>1, <3>1, ScriptNames DEF RunOfMetric
    <3>4. runs[id].group[2] = Task[e].group
      BY <2>1, <3>2, <3>3, OneGroup DEF RunOf
    <3>5. runs[id].group # GroupName(g)
      BY <1>1, <1>3, <2>1, <3>4, ScriptNames
    <3>6. id \in DOMAIN runs' /\ runs'[id] = runs[id]
      BY <1>1, <3>1, <3>5 DEF Without
    <3> QED BY <2>1, <2>3, <3>1, <3>6, <1>1 DEF IsShown
  <2> QED BY <1>1, <1>2, <2>1, <2>2, <2>3
<1>5. ASSUME NEW e \in MetricsTasks(g), HasMetrics(e)
      PROVE  /\ e \in EvaluationsOf(Task[e].group) /\ Task[e].group \in Groups \ todo'
             /\ Left(e)'
  <2>1. e \in Parsed /\ Task[e].group = g
    BY <1>3, ListingAssumption DEF MetricsTasks, CompletedTasks, FilterTask, Parsed
  <2>2. e \in EvaluationsOf(g)
    BY <2>1 DEF MetricsTasks, EvaluationsOf, Evaluates
  <2>3. Left(e)'
    BY <1>1, <1>2, <1>5, <2>1 DEF Left
  <2> QED BY <1>1, <1>3, <2>1, <2>2, <2>3
<1>6. \A e \in listed' : /\ e \in EvaluationsOf(Task[e].group)
                         /\ Task[e].group \in Groups \ todo'
                         /\ RunOfMetric(e) \in reported' \/ IsShown(runs', e) \/ Left(e)'
  BY <1>1, <1>4, <1>5
<1> QED BY <1>2, <1>3, <1>6 DEF ListedRight

\* The metrics that are popped for a training are shown on its run, or the run is reported.
LEMMA PublishTrainingAccounts ==
    ASSUME EvaluationsDiffer, RunsRight(runs), ScriptRight, ListedRight, PublishTraining
    PROVE  ListedRight'
<1>1. /\ group \in Groups /\ ~archive /\ phase = "training"
      /\ metrics \subseteq EvaluationsOf(group) /\ trainings \subseteq TrainingsOf(group)
  BY DEF ScriptRight, PublishTraining
<1>2. PICK t, id, tasks :
         /\ t \in trainings
         /\ id = ScriptRun(group, Named[t].name)
         /\ tasks \subseteq DependentTasks(t)
         /\ metrics' = metrics \ DependentTasks(t)
         /\ PublishRun(id, {t}, tasks, MetricFromTag) \/ runs' = runs
         /\ \/ reported' = reported \cup {id}
            \/ /\ PublishRun(id, {t}, tasks, MetricFromTag) /\ reported' = reported
               /\ tasks = {e \in DependentTasks(t) : HasMetrics(e)}
  BY DEF PublishTraining, PublishSome, Refuse
<1>3. /\ phase' = phase /\ archive' = archive /\ group' = group /\ todo' = todo
      /\ existing' = existing /\ listed' = listed
  BY DEF PublishTraining, call
<1>4. id.suffix = SuffixFromGroup(group) /\ id.name = Named[t].name
  BY <1>1, <1>2, ScriptNames
<1>5. ASSUME NEW e \in tasks
      PROVE  /\ e \in EvaluationsOf(group) /\ NameOf(e, id.name)
             /\ MetricTitle(MetricFromTag[e]) = MetricTitle(MetricOf[e])
  <2>1. e \in EvaluationsOf(group) /\ MetricOf[e].model = Named[t].name
    BY <1>1, <1>2 DEF DependentTasks
  <2>2. e \in Parsed
    BY <2>1 DEF EvaluationsOf
  <2> QED BY <1>4, <2>1, <2>2, MetricsAgree DEF NameOf
<1>6. ASSUME NEW e \in listed
      PROVE  RunOfMetric(e) \in reported' \/ IsShown(runs', e) \/ Left(e)'
  <2>1. e \in EvaluationsOf(Task[e].group) /\ Task[e].group \in Groups
    BY ListedMeans
  <2>2. CASE RunOfMetric(e) \in reported
    BY <1>2, <2>2
  <2>3. CASE IsShown(runs, e)
    <3>1. CASE PublishRun(id, {t}, tasks, MetricFromTag)
      BY <1>1, <1>4, <1>5, <2>1, <2>3, <3>1, ShownPublishRun
    <3>2. CASE runs' = runs
      BY <2>3, <3>2
    <3> QED BY <1>2, <3>1, <3>2
  <2>4. CASE Left(e)
    <3>1. Task[e].group = group /\ e \in metrics /\ HasMetrics(e)
      BY <1>1, <2>4 DEF Left
    <3>2. CASE e \in DependentTasks(t)
      <4>1. id = RunOfMetric(e)
        BY <1>2, <3>1, <3>2 DEF DependentTasks, RunOfMetric
      <4>2. CASE PublishRun(id, {t}, tasks, MetricFromTag) /\ e \in tasks
        BY <1>1, <1>4, <1>5, <2>1, <4>1, <4>2, ShownPublishRun
      <4>3. CASE reported' = reported \cup {id}
        BY <4>1, <4>3
      <4> QED BY <1>2, <3>1, <3>2, <4>2, <4>3
    <3>3. CASE e \notin DependentTasks(t)
      BY <1>1, <1>2, <1>3, <3>1, <3>3 DEF Left
    <3> QED BY <3>2, <3>3
  <2> QED BY <2>2, <2>3, <2>4, ListedMeans
<1>7. \A e \in listed' : /\ e \in EvaluationsOf(Task[e].group)
                         /\ Task[e].group \in Groups \ todo'
                         /\ RunOfMetric(e) \in reported' \/ IsShown(runs', e) \/ Left(e)'
  BY <1>3, <1>6, ListedMeans
<1> QED BY <1>3, <1>7 DEF ListedRight

\* What remains of an evaluation when only the runs and the reports change.
LEMMA ListedKept ==
    ASSUME ListedRight, listed' \subseteq listed, todo' \subseteq todo,
           \A e \in listed' : RunOfMetric(e) \in reported' \/ IsShown(runs', e) \/ Left(e)',
           phase' \in {"training", "missing"} /\ ~archive' => group' \notin todo',
           ~archive' => existing' = {}
    PROVE  ListedRight'
<1>1. \A e \in listed' : /\ e \in EvaluationsOf(Task[e].group)
                         /\ Task[e].group \in Groups \ todo'
                         /\ RunOfMetric(e) \in reported' \/ IsShown(runs', e) \/ Left(e)'
  BY ListedMeans
<1> QED BY <1>1 DEF ListedRight

\* All metrics of the model of a log are published with it, or its run is reported, or the run
\* is left to publish_group_logs.
LEMMA PublishArchivedAccounts ==
    ASSUME EvaluationsDiffer, ArchivesAgree, MetricsTogether,
           RunsRight(runs), ScriptRight, ListedRight, PublishArchived
    PROVE  ListedRight'
<1>1. /\ group \in Groups /\ archive /\ group \in DOMAIN Archive /\ phase = "archive"
      /\ trainings \subseteq {dir \in Archive[group] : dir.training # None}
  BY DEF ScriptRight, PublishArchived
<1>2. PICK dir, id, model, tasks :
         /\ dir \in trainings /\ tasks \subseteq MetricsIn(dir)
         /\ model = ModelOfLogs(dir) /\ id = ScriptRun(group, model)
         /\ PublishRun(id, {dir.training}, tasks, MetricFromArchive) \/ runs' = runs
         /\ \/ /\ PublishRun(id, {dir.training}, tasks, MetricFromArchive)
               /\ tasks = MetricsIn(dir)
               /\ existing' = existing \cup {model} /\ reported' = reported
            \/ reported' = reported \cup {id} /\ existing' = existing \cup {model}
            \/ runs' = runs /\ reported' = reported /\ existing' = existing
  BY DEF PublishArchived, PublishSome, Refuse
<1>3. /\ phase' = phase /\ archive' = archive /\ group' = group /\ todo' = todo
      /\ listed' = listed
  BY DEF PublishArchived, call
<1>4. id.suffix = SuffixFromGroup(group) /\ id.name = model
  BY <1>1, <1>2, ScriptNames
<1>5. dir \in Archive[group] /\ dir.training # None
  BY <1>1, <1>2
<1>6. ASSUME NEW e \in tasks
      PROVE  /\ e \in EvaluationsOf(group) /\ NameOf(e, id.name)
             /\ MetricTitle(MetricFromArchive[e]) = MetricTitle(MetricOf[e])
  <2>1. id.name \in ModelsOf(dir)
    BY <1>2, <1>4 DEF ModelOfLogs, ModelOfMetrics, ModelsOf
  <2> QED BY <1>1, <1>2, <1>5, <2>1, DirectoryRight
<1>7. ASSUME NEW e \in listed
      PROVE  RunOfMetric(e) \in reported' \/ IsShown(runs', e) \/ Left(e)'
  <2>1. e \in EvaluationsOf(Task[e].group) /\ Task[e].group \in Groups
    BY ListedMeans
  <2>2. CASE RunOfMetric(e) \in reported
    BY <1>2, <2>2
  <2>3. CASE IsShown(runs, e)
    <3>1. CASE PublishRun(id, {dir.training}, tasks, MetricFromArchive)
      BY <1>1, <1>4, <1>6, <2>1, <2>3, <3>1, ShownPublishRun
    <3>2. CASE runs' = runs
      BY <2>3, <3>2
    <3> QED BY <1>2, <3>1, <3>2
  <2>4. CASE Left(e)
    <3>1. Task[e].group = group /\ e \in ArchivedMetrics(group) /\ MetricOf[e].model \notin existing
      BY <1>1, <2>4 DEF Left
    <3>2. CASE MetricOf[e].model = model
      <4>1. e \in MetricsIn(dir)
        <5>1. PICK other \in Archive[group] : e \in MetricsIn(other)
          BY <3>1 DEF ArchivedMetrics
        <5> QED BY <1>1, <1>2, <1>5, <3>2, <5>1 DEF MetricsTogether
      <4>2. id = RunOfMetric(e)
        BY <1>2, <3>1, <3>2 DEF RunOfMetric
      <4>3. CASE PublishRun(id, {dir.training}, tasks, MetricFromArchive) /\ e \in tasks
        BY <1>1, <1>4, <1>6, <2>1, <4>1, <4>2, <4>3, ShownPublishRun
      <4>4. CASE reported' = reported \cup {id}
        BY <4>2, <4>4
      <4>5. CASE existing' = existing
        BY <1>1, <1>3, <3>1, <4>5 DEF Left
      <4> QED BY <1>2, <4>1, <4>3, <4>4, <4>5
    <3>3. CASE MetricOf[e].model # model
      <4>1. MetricOf[e].model \notin existing'
        BY <1>2, <3>1, <3>3
      <4> QED BY <1>1, <1>3, <3>1, <4>1 DEF Left
    <3> QED BY <3>2, <3>3
  <2> QED BY <2>2, <2>3, <2>4, ListedMeans
<1> QED BY <1>1, <1>3, <1>7, ListedKept

\* What is left of a group has a file under the name of its model.
LEMMA LeftHasFile ==
    ASSUME ArchivesAgree, ScriptRight, ListedRight, NEW e \in listed, Left(e)
    PROVE  e \in MetricsOf(MetricOf[e].model) /\ MetricOf[e].model \in MissingModels
<1>1. Task[e].group = group /\ phase \in {"training", "archive"} /\ e \in Parsed
  BY ListedMeans DEF Left
<1>2. PICK f : f = [task |-> e, model |-> MetricOf[e].model]
  OBVIOUS
<1>3. f \in Files
  <2>1. CASE archive
    <3>1. group \in DOMAIN Archive
      BY <1>1, <2>1 DEF ScriptRight
    <3>2. PICK dir \in Archive[group] : e \in MetricsIn(dir)
      BY <2>1 DEF Left, ArchivedMetrics
    <3>3. MetricOf[e].model \in ModelsOf(dir)
      BY <3>1, <3>2 DEF ArchivesAgree, ModelsOf
    <3> QED BY <1>2, <2>1, <3>2, <3>3 DEF Files
  <2>2. CASE ~archive
    <3>1. e \in metrics /\ HasMetrics(e)
      BY <2>2 DEF Left
    <3>2. f = [task |-> e, model |-> MetricFromFile[e].model]
      BY <1>1, <1>2, MetricsAgree
    <3> QED BY <2>2, <3>1, <3>2 DEF Files
  <2> QED BY <2>1, <2>2
<1>4. MetricOf[e].model \notin existing
  BY DEF Left, ListedRight
<1>5. f.task = e /\ f.model = MetricOf[e].model
  BY <1>2
<1> QED BY <1>3, <1>4, <1>5 DEF MetricsOf, MissingModels

\* What is left of a group is shown on the runs of its models, or these are reported.
LEMMA PublishMissingAccounts ==
    ASSUME EvaluationsDiffer, ArchivesAgree, RunsRight(runs), ScriptRight, ListedRight,
           PublishMissing
    PROVE  ListedRight'
<1> DEFINE Published(id) == Charted(Opened(runs, id, GroupName(group)), id,
                                    MetricsOf(id.name), Metric)[id]
<1>1. group \in Groups /\ phase \in {"training", "archive", "missing"}
  BY DEF ScriptRight, PublishMissing
<1>2. PICK refused \in SUBSET MissingModels :
         /\ reported' = reported \cup {ScriptRun(group, m) : m \in refused}
         /\ runs' = [id \in DOMAIN runs \cup
                               {ScriptRun(group, m) : m \in MissingModels \ refused} |->
                        IF id \in {ScriptRun(group, m) : m \in MissingModels \ refused}
                          THEN Published(id) ELSE runs[id]]
  BY DEF PublishMissing
<1>3. PICK ids : ids = {ScriptRun(group, m) : m \in MissingModels \ refused}
  OBVIOUS
<1>4. ASSUME NEW e, Task[e].group \in Groups, e \in EvaluationsOf(Task[e].group),
             NEW id \in ids, id = RunOfMetric(e),
             IsShown(runs, e) \/ e \in MetricsOf(id.name)
      PROVE  /\ MetricTitle(MetricOf[e]) \in DOMAIN Published(id).charts
             /\ Published(id).charts[MetricTitle(MetricOf[e])] = e
  <2>1. PICK g, name : g = group /\ name = GroupName(group) /\ name[2] = g
    BY <1>1, ScriptNames
  <2>2. id.suffix = SuffixFromGroup(g)
    BY <1>1, <1>3, <2>1, ScriptNames
  <2>3. PICK store : store = Opened(runs, id, name)
    OBVIOUS
  <2>4. RunsRight(store) /\ id \in DOMAIN store /\ store[id].group[2] = g
    <3>1. RunsRight(runs) /\ name[2] \in Groups /\ id.suffix = SuffixFromGroup(name[2])
      BY <1>1, <2>1, <2>2
    <3> QED BY <2>1, <2>3, <3>1, OpenedRight
  <2>5. PICK tasks : tasks = MetricsOf(id.name)
    OBVIOUS
  <2>6. ASSUME NEW f \in tasks
        PROVE  /\ f \in EvaluationsOf(g) /\ NameOf(f, id.name)
               /\ MetricTitle(Metric[f]) = MetricTitle(MetricOf[f])
    <3>1. PICK file \in Files : file.task = f /\ file.model = id.name
      BY <2>5 DEF MetricsOf
    <3> QED BY <1>1, <2>1, <3>1, FilesRight
  <2>7. PICK charted : charted = Charted(store, id, tasks, Metric)
    OBVIOUS
  <2>8. IsShown(store, e) \/ (id = RunOfMetric(e) /\ e \in tasks)
    BY <1>4, <2>3, <2>5, ShownOpened
  <2>9. IsShown(charted, e)
    BY <1>4, <2>4, <2>6, <2>7, <2>8, ShownCharted
  <2>10. Published(id) = charted[id]
    BY <2>1, <2>3, <2>5, <2>7
  <2> HIDE DEF Published
  <2> QED BY <1>4, <2>9, <2>10 DEF IsShown
<1> HIDE DEF Published
<1>5. /\ DOMAIN runs' = DOMAIN runs \cup ids
      /\ \A id \in DOMAIN runs' : runs'[id] = IF id \in ids THEN Published(id) ELSE runs[id]
  BY <1>2, <1>3
<1>6. ASSUME NEW e \in listed
      PROVE  RunOfMetric(e) \in reported' \/ IsShown(runs', e)
  <2>1. PICK id : id = RunOfMetric(e)
    OBVIOUS
  <2>2. e \in EvaluationsOf(Task[e].group) /\ Task[e].group \in Groups
    BY ListedMeans
  <2>3. id.name = MetricOf[e].model
    BY <2>1, <2>2, ScriptNames DEF RunOfMetric
  <2>4. CASE id \in reported
    BY <1>2, <2>1, <2>4
  <2>5. CASE IsShown(runs, e)
    <3>1. CASE id \in ids
      BY <1>4, <1>5, <2>1, <2>2, <2>5, <3>1 DEF IsShown
    <3>2. CASE id \notin ids
      BY <1>5, <2>1, <2>5, <3>2 DEF IsShown
    <3> QED BY <3>1, <3>2
  <2>6. CASE Left(e)
    <3>1. e \in MetricsOf(MetricOf[e].model) /\ MetricOf[e].model \in MissingModels
      BY <2>6, LeftHasFile
    <3>2. id = ScriptRun(group, MetricOf[e].model)
      BY <2>1, <2>6 DEF Left, RunOfMetric
    <3>3. CASE MetricOf[e].model \in refused
      BY <1>2, <2>1, <3>2, <3>3
    <3>4. CASE MetricOf[e].model \notin refused
      <4>1. id \in ids
        BY <1>3, <3>1, <3>2, <3>4
      <4> QED BY <1>4, <1>5, <2>1, <2>2, <2>3, <3>1, <4>1 DEF IsShown
    <3> QED BY <3>3, <3>4
  <2> QED BY <2>1, <2>4, <2>5, <2>6, ListedMeans
<1>7. /\ phase' = "missing" /\ archive' = archive /\ group' = group /\ todo' = todo
      /\ existing' = existing /\ listed' = listed
  BY DEF PublishMissing, call
<1>8. group \notin todo \/ archive
  BY DEF ScriptRight, ListedRight, PublishMissing
<1> QED BY <1>6, <1>7, <1>8, ListedKept DEF ListedRight

\* The summary takes the place of no run that shows a metric.
LEMMA PublishSummaryAccounts ==
    ASSUME ScriptRight, ListedRight, PublishSummary
    PROVE  ListedRight'
<1>1. group \in Groups /\ phase = "missing"
  BY DEF ScriptRight, PublishSummary
<1>2. PICK id, new : /\ id = ScriptRun(group, GroupLogs)
                     /\ runs' = [i \in DOMAIN runs \cup {id} |-> IF i = id THEN new ELSE runs[i]]
  BY DEF PublishSummary
<1>3. ASSUME NEW e \in listed
      PROVE  RunOfMetric(e) \in reported \/ IsShown(runs', e)
  <2>1. e \in Parsed /\ Task[e].group \in Groups
    BY ListedMeans
  <2>2. RunOfMetric(e).name = MetricOf[e].model /\ id.name = GroupLogs
    BY <1>1, <1>2, <2>1, ScriptNames DEF RunOfMetric
  <2>3. id # RunOfMetric(e)
    BY <2>1, <2>2, ModelNotSummary
  <2>4. RunOfMetric(e) \in reported \/ IsShown(runs, e)
    BY <1>1, ListedMeans DEF Left
  <2> QED BY <1>2, <2>3, <2>4 DEF IsShown
<1>4. /\ phase' \in {"idle", "groups"} /\ todo' = todo /\ existing' = {}
      /\ listed' = listed /\ reported' = reported
  BY DEF PublishSummary
<1> QED BY <1>3, <1>4, ListedKept DEF ListedRight

\* A script that is started, and one that ends, has nothing that is not accounted for.
LEMMA OtherAccounts ==
    ASSUME ArchivesAgree, ScriptRight, ListedRight,
           Start \/ SkipGroup \/ StartArchive \/ EndScript \/ Crash
    PROVE  ListedRight'
<1>1. CASE Start
  BY <1>1 DEF Start, Begin, ListedRight
<1>2. CASE SkipGroup
  <2>1. /\ phase = "groups" /\ phase' = phase /\ archive' = archive /\ todo' \subseteq todo
        /\ existing' = existing /\ listed' = listed /\ reported' = reported /\ runs' = runs
    BY <1>2 DEF SkipGroup, call, evalVars
  <2>2. \A e \in listed' : RunOfMetric(e) \in reported' \/ IsShown(runs', e)
    BY <2>1, ListedMeans DEF Left
  <2> QED BY <2>1, <2>2, ListedKept DEF ListedRight
<1>3. CASE StartArchive
  <2>1. PICK c \in Starts :
          c.archive /\ group' = c.group /\ listed' = ArchivedMetrics(c.group)
    BY <1>3 DEF StartArchive
  <2>2. c.group \in Groups /\ c.group \in DOMAIN Archive
    BY <2>1, ListingAssumption
  <2>3. phase' = "archive" /\ archive' = TRUE /\ todo' = {} /\ existing' = {}
    BY <1>3 DEF StartArchive, Begin
  <2>4. ASSUME NEW e \in listed'
        PROVE  /\ e \in EvaluationsOf(Task[e].group) /\ Task[e].group \in Groups /\ Left(e)'
    <3>1. PICK dir \in Archive[c.group] : e \in MetricsIn(dir)
      BY <2>1 DEF ArchivedMetrics
    <3>2. e \in EvaluationsOf(c.group)
      BY <2>2, <3>1 DEF ArchivesAgree
    <3>3. Task[e].group = c.group
      BY <3>2 DEF EvaluationsOf
    <3>4. e \in ArchivedMetrics(c.group)
      BY <2>1
    <3> QED BY <2>1, <2>2, <2>3, <3>2, <3>3, <3>4 DEF Left
  <2> QED BY <2>3, <2>4 DEF ListedRight
<1>4. CASE EndScript
  <2>1. /\ phase = "groups" /\ phase' = "idle" /\ archive' = archive /\ todo' = todo
        /\ existing' = existing /\ listed' = listed /\ reported' = reported /\ runs' = runs
    BY <1>4 DEF EndScript, call, evalVars
  <2>2. \A e \in listed' : RunOfMetric(e) \in reported' \/ IsShown(runs', e)
    BY <2>1, ListedMeans DEF Left
  <2> QED BY <2>1, <2>2, ListedKept DEF ListedRight
<1>5. CASE Crash
  BY <1>5 DEF Crash, ListedRight
<1> QED BY <1>1, <1>2, <1>3, <1>4, <1>5

\* At the start nothing is listed.
LEMMA AccountInit ==
    ASSUME Init
    PROVE  AccountInv
<1>1. ListedRight
  BY DEF Init, ScriptInit, ListedRight
<1> QED BY <1>1, TrackingInit DEF AccountInv

\* Every step accounts for what was listed.
LEMMA AccountStep ==
    ASSUME EvaluationsDiffer, ArchivesAgree, MetricsTogether, AccountInv, [Next]_vars
    PROVE  AccountInv'
<1>1. TrackingInv /\ RunsRight(runs) /\ ScriptRight /\ ListedRight
  BY DEF AccountInv, TrackingInv
<1>2. TrackingInv'
  BY <1>1, TrackingStep
<1>3. CASE EvalNext /\ UNCHANGED scriptVars
  <2>1. /\ phase' = phase /\ archive' = archive /\ group' = group /\ todo' = todo
        /\ metrics' = metrics /\ existing' = existing /\ listed' = listed /\ reported' = reported
    BY <1>3 DEF scriptVars, call
  <2>2. \A e \in listed' : RunOfMetric(e) \in reported' \/ IsShown(runs', e) \/ Left(e)'
    <3> TAKE e \in listed'
    <3>1. CASE IsShown(runs, e)
      BY <1>1, <1>3, <2>1, <3>1, ListedMeans, EvalKeepsShown
    <3>2. CASE Left(e)
      BY <2>1, <3>2 DEF Left
    <3> QED BY <1>1, <2>1, <3>1, <3>2, ListedMeans
  <2>3. /\ phase \in {"training", "missing"} /\ ~archive => group \notin todo
        /\ ~archive => existing = {}
    BY <1>1 DEF ListedRight
  <2>4. ListedRight'
    BY <1>1, <2>1, <2>2, <2>3, ListedKept
  <2> QED BY <1>2, <2>4 DEF AccountInv
<1>4. CASE Script
  <2>1. ListedRight'
    <3>1. CASE PublishGroup
      BY <1>1, <3>1, PublishGroupAccounts
    <3>2. CASE PublishTraining
      BY <1>1, <3>2, PublishTrainingAccounts
    <3>3. CASE PublishArchived
      BY <1>1, <3>3, PublishArchivedAccounts
    <3>4. CASE PublishMissing
      BY <1>1, <3>4, PublishMissingAccounts
    <3>5. CASE PublishSummary
      BY <1>1, <3>5, PublishSummaryAccounts
    <3>6. CASE Start \/ SkipGroup \/ StartArchive \/ EndScript \/ Crash
      BY <1>1, <3>6, OtherAccounts
    <3> QED BY <1>4, <3>1, <3>2, <3>3, <3>4, <3>5, <3>6 DEF Script
  <2> QED BY <1>2, <2>1 DEF AccountInv
<1>5. CASE UNCHANGED vars
  <2>1. /\ phase' = phase /\ archive' = archive /\ group' = group /\ todo' = todo
        /\ metrics' = metrics /\ existing' = existing /\ listed' = listed /\ reported' = reported
        /\ runs' = runs
    BY <1>5 DEF vars, evalVars, scriptVars, call
  <2>2. \A e \in listed' : RunOfMetric(e) \in reported' \/ IsShown(runs', e) \/ Left(e)'
    BY <1>1, <2>1, ListedMeans DEF Left
  <2>3. /\ phase \in {"training", "missing"} /\ ~archive => group \notin todo
        /\ ~archive => existing = {}
    BY <1>1 DEF ListedRight
  <2>4. ListedRight'
    BY <1>1, <2>1, <2>2, <2>3, ListedKept
  <2> QED BY <1>2, <2>4 DEF AccountInv
<1> QED BY <1>3, <1>4, <1>5 DEF Next

\* When the script ends by itself, every evaluation that was completed when its group was listed
\* is on the run of its model, or the log says that this run is not published, whatever ran,
\* failed or was preempted meanwhile (taskcluster_group.py 63-79 and 236-277, publishers.py
\* 306-323).
THEOREM NothingListedIsLost ==
    ASSUME EvaluationsDiffer, ArchivesAgree, MetricsTogether
    PROVE  Spec => []NothingSilentlyLost
<1>1. Init => AccountInv
  BY AccountInit
<1>2. AccountInv /\ [Next]_vars => AccountInv'
  BY AccountStep
<1>3. AccountInv => NothingSilentlyLost
  BY ListedMeans DEF AccountInv, Left, NothingSilentlyLost, IsShown, RunOfMetric
<1> QED BY <1>1, <1>2, <1>3, PTL DEF Spec
=============================================================================
