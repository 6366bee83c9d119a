---------------------------- MODULE GroupTracking ----------------------------
(***************************************************************************)
(* parse_tc_group (tracking/translations_parser/cli/taskcluster_group.py): *)
(* an operator publishes a group of tasks and the groups they depend on,   *)
(* while evaluations may still run; and parse_experiment_dir               *)
(* (cli/experiments.py): a group is published from an archive.             *)
(***************************************************************************)
EXTENDS Evaluation

CONSTANTS
    Listing,        \* groups: their tasks in the order of listTaskGroup
    Expired,        \* tasks whose artifacts are gone
    Archive,        \* groups: the directories of their archive, if they have one
    Starts,         \* the calls: a group, its archive or not, recursive lookup, --override-runs
    MaxScripts,     \* how often the script is called
    MaxFaults       \* how often a log or a run cannot be had, or a request fails

ASSUME ListingAssumption ==
    /\ \A g \in Groups : /\ Listing[g] \in Seq(DOMAIN Task)
                          /\ ToSet(Listing[g]) = {t \in DOMAIN Task : Task[t].group = g}
    /\ \A c \in Starts : c.group \in Groups /\ (c.archive => c.group \in DOMAIN Archive)
    /\ Expired \subseteq DOMAIN Task \ Live
    /\ MaxScripts \in Nat /\ MaxFaults \in Nat

VARIABLES
    phase,      \* "idle", "groups", "training", "archive", "missing" or "crashed"
    override,   \* --override-runs
    todo,       \* groups_ids
    group,      \* the group that is published
    trainings,  \* training_tasks that are left, or directories with a train.log
    metrics,    \* metrics_tasks
    archive,    \* whether an archive is published
    existing,   \* existing_runs: the models that are published
    listed,     \* the evaluations that were completed, with metrics, when a group was listed
    reported,   \* the runs of which the log says that they are not published
    scripts, faults

call       == <<override, group, archive>>
scriptVars == <<phase, call, todo, trainings, metrics, existing, listed, reported, scripts,
                faults>>

-----------------------------------------------------------------------------
(* Listing.                                                                *)

FilterTask(t) == t \in Parsed /\ Completed(t) /\ "vocab" \notin ToSet(Task[t].kind)

CompletedTasks(g) == {t \in ToSet(Listing[g]) : FilterTask(t)}

TrainingTasks(g) == {t \in CompletedTasks(g) : Named[t].prefix \in {"train", "finetune"}}
MetricsTasks(g)  == {t \in CompletedTasks(g) : Named[t].prefix = "evaluate"}

\* Of a group only the task that led to it is looked into.
DependentGroups[t \in DOMAIN Task, known \in SUBSET Groups] ==
    FoldLeft(LAMBDA k, d : IF Task[d].group \in k THEN k
                           ELSE DependentGroups[d, k \cup {Task[d].group}],
             known, Task[t].dependencies)

RelatedGroups(g) ==
    FoldLeft(LAMBDA k, t : DependentGroups[t, k], {g},
             SelectSeq(Listing[g], LAMBDA t : t \in TrainingTasks(g)))

GroupIds(g, recursive) == {id \in Groups : id = g \/ (recursive /\ id \in RelatedGroups(g))}

-----------------------------------------------------------------------------
(* Names of what the script publishes: the id of a group is in the name of *)
(* the group and in the suffix, and the project has the languages.         *)

Project(g)      == Config[g].languages
GroupName(g)    == <<Config[g].name, g>>
ScriptRun(g, n) == RunId(Project(g), n, g)

\* The file of a metric has the label as its name, without the slash.
MetricFromTag  == [t \in Parsed |-> ParseTaskLabel(WithoutChunk(Task[t].label))]
MetricFromFile == [t \in Parsed |-> ParseTaskLabel(WithChunk(Task[t].label))]

MetricFromArchive == [t \in Parsed |-> ParseGcpMetric(Task[t].label)]

HasMetrics(t) == t \notin Expired

MetricsIn(dir)     == {e \in dir.metrics : IsGcpMetric(Task[e].label)}
ArchivedMetrics(g) == UNION {MetricsIn(dir) : dir \in Archive[g]}

\* The metrics of a directory "speed" are those of the quantized model, and as those of every
\* directory they are taken for a model of its name as well.
ModelsOf(dir) == {ModelOfMetrics(dir)} \cup
                 (IF dir.model = "speed" THEN {PatchModelName("quantized", -1)} ELSE {})

-----------------------------------------------------------------------------
(* What the task configurations and the archives provide.                  *)

Trains(t) == /\ t \in Parsed
             /\ IsTraining(t) \/ Named[t].prefix \in {"train", "finetune"}

Evaluates(e) == /\ e \in Parsed
                /\ IsEvaluation(e) \/ Named[e].prefix = "evaluate"

TrainingsOf(g)   == {t \in Parsed : Trains(t) /\ Task[t].group = g}
EvaluationsOf(g) == {e \in Parsed : Evaluates(e) /\ Task[e].group = g}

\* An evaluation depends on the training of its group that has the name of its model: the kinds
\* "evaluate..." take the model they evaluate as a dependency.
EvaluationsDepend ==
    \A g \in Groups : \A e \in EvaluationsOf(g), t \in TrainingsOf(g) :
        MetricOf[e].model = Named[t].name => t \in ToSet(Task[e].dependencies)

\* A directory of an archive has the log and the metrics of tasks of its group for its model, the
\* directory "speed" those of the quantized model.
ArchivesAgree ==
    \A g \in DOMAIN Archive : \A dir \in Archive[g] :
        /\ dir.training # None => /\ dir.training \in TrainingsOf(g)
                                  /\ Named[dir.training].name = ModelOfLogs(dir)
        /\ \A e \in MetricsIn(dir) :
              /\ e \in EvaluationsOf(g)
              /\ MetricOf[e].model = IF dir.model = "speed" THEN PatchModelName("quantized", -1)
                                                            ELSE ModelOfMetrics(dir)

\* A group evaluates a model once on a data set.
EvaluationsDiffer ==
    \A g \in Groups : \A e, f \in EvaluationsOf(g) :
        /\ MetricOf[e].model = MetricOf[f].model
        /\ MetricTitle(MetricOf[e]) = MetricTitle(MetricOf[f])
        => e = f

\* All metrics of a model with a log are in one directory.
MetricsTogether ==
    \A g \in DOMAIN Archive : \A dir, other \in Archive[g] : \A e \in MetricsIn(other) :
        dir.training # None /\ MetricOf[e].model = ModelOfLogs(dir) => e \in MetricsIn(dir)

-----------------------------------------------------------------------------
ScriptInit ==
    /\ phase = "idle" /\ override = FALSE /\ group = None /\ archive = FALSE /\ todo = {}
    /\ trainings = {} /\ metrics = {} /\ existing = {} /\ listed = {} /\ reported = {}
    /\ scripts = 0 /\ faults = 0

Begin ==
    /\ phase \in {"idle", "crashed"} /\ scripts < MaxScripts
    /\ scripts' = scripts + 1
    /\ metrics' = {} /\ existing' = {} /\ reported' = {}

Start ==
    /\ Begin
    /\ \E c \in Starts :
          /\ ~c.archive
          /\ todo' = GroupIds(c.group, c.recursive) /\ override' = c.override
    /\ phase' = "groups" /\ archive' = FALSE /\ group' = None
    /\ trainings' = {} /\ listed' = {}
    /\ UNCHANGED <<faults, evalVars>>

\* A group without a configuration, or without a completed training, is skipped.
SkipGroup ==
    /\ phase = "groups"
    /\ \E g \in todo :
          /\ Config[g] = None \/ TrainingTasks(g) = {}
          /\ todo' = todo \ {g}
    /\ UNCHANGED <<phase, call, trainings, metrics, existing, listed, reported, scripts,
                   faults, evalVars>>

Without(store, ids) == [id \in DOMAIN store \ ids |-> store[id]]

\* --override-runs deletes every run of the group, its summary included.
PublishGroup ==
    /\ phase = "groups"
    /\ \E g \in todo :
          /\ Config[g] # None
          /\ todo' = todo \ {g} /\ group' = g
          /\ trainings' = TrainingTasks(g) /\ trainings' # {} /\ metrics' = MetricsTasks(g)
          /\ listed' = listed \cup {e \in metrics' : HasMetrics(e)}
          /\ runs' = IF override
                       THEN Without(runs, {id \in DOMAIN runs : id.project = Project(g)
                                                    /\ runs[id].group = GroupName(g)})
                       ELSE runs
    /\ phase' = "training"
    /\ UNCHANGED <<override, archive, existing, reported, scripts, faults, step, rows, reruns>>

\* Slip: the name of the model is not compared.
DependentTasksAnyName(t) ==
    {e \in metrics : t \in ToSet(Task[e].dependencies)}

\* The evaluations of a training depend on it and have the name of its model.
DependentTasks(t) ==
    {e \in metrics : /\ t \in ToSet(Task[e].dependencies)
                     /\ MetricOf[e].model = Named[t].name}

\* A training is published to its run, with the metrics that were found for it.
PublishRun(id, shown, tasks, metric) ==
    runs' = [Charted(Opened(runs, id, GroupName(group)), id, tasks, metric)
                EXCEPT ![id].trainings = @ \cup shown]

\* Nothing is published to a run whose client cannot be initialized, which is logged.
Refuse(id) == reported' = reported \cup {id} /\ UNCHANGED runs

\* What raises while the metrics are shown is logged; those before it are on the run
\* (parser.py 424-429).
PublishSome(id, shown, tasks, metric) ==
    /\ \E some \in SUBSET tasks : PublishRun(id, shown, some, metric)
    /\ reported' = reported \cup {id}

\* The metrics are popped, and then the log of the training and a run are asked for.  The order
\* is that of the kinds and the pages of listTaskGroup, here any.
PublishTraining ==
    /\ phase = "training"
    /\ \E t \in trainings :
          LET id == ScriptRun(group, Named[t].name)
              found == {e \in DependentTasks(t) : HasMetrics(e)}
          IN  /\ trainings' = trainings \ {t}
              /\ metrics' = metrics \ DependentTasks(t)
              /\ \/ /\ t \notin Expired
                    /\ PublishRun(id, {t}, found, MetricFromTag)
                    /\ UNCHANGED <<reported, faults>>
                 \/ /\ t \in Expired /\ Refuse(id) /\ UNCHANGED faults
                 \/ /\ faults < MaxFaults /\ faults' = faults + 1
                    /\ \/ Refuse(id)
                       \/ t \notin Expired /\ PublishSome(id, {t}, found, MetricFromTag)
    /\ UNCHANGED <<phase, call, todo, existing, listed, scripts, step, rows, reruns>>

-----------------------------------------------------------------------------
(* An archive has the logs and the metrics of a group in directories named *)
(* for the models; those of quantized models may be in one named "speed".  *)

StartArchive ==
    /\ Begin
    /\ \E c \in Starts :
          /\ c.archive
          /\ group' = c.group
          /\ trainings' = {dir \in Archive[c.group] : dir.training # None}
          /\ listed' = ArchivedMetrics(c.group)
    /\ phase' = "archive" /\ archive' = TRUE /\ override' = FALSE /\ todo' = {}
    /\ UNCHANGED <<faults, evalVars>>

\* The run of a log that cannot be parsed is left to publish_group_logs; a refused one is not.
\* The order is that of the names, here any.
PublishArchived ==
    /\ phase = "archive"
    /\ \E dir \in trainings :
          LET id == ScriptRun(group, ModelOfLogs(dir))
          IN  /\ trainings' = trainings \ {dir}
              /\ \/ /\ PublishRun(id, {dir.training}, MetricsIn(dir), MetricFromArchive)
                    /\ existing' = existing \cup {ModelOfLogs(dir)}
                    /\ UNCHANGED <<reported, faults>>
                 \/ /\ faults < MaxFaults /\ faults' = faults + 1
                    /\ \/ /\ existing' = existing \cup {ModelOfLogs(dir)}
                          /\ \/ Refuse(id)
                             \/ PublishSome(id, {dir.training}, MetricsIn(dir),
                                            MetricFromArchive)
                       \/ UNCHANGED <<runs, reported, existing>>
    /\ UNCHANGED <<phase, call, todo, metrics, listed, scripts, step, rows, reruns>>

-----------------------------------------------------------------------------
(* publish_group_logs: the metrics that are left, or all of an archive.    *)

\* The files with metrics, and the model each is for.
Files ==
    IF archive
      THEN UNION {{[task |-> e, model |-> m] : e \in MetricsIn(dir), m \in ModelsOf(dir)} :
                     dir \in Archive[group]}
      ELSE {[task |-> e, model |-> MetricFromFile[e].model] :
              e \in {m \in metrics : HasMetrics(m)}}

Metric == IF archive THEN MetricFromArchive ELSE MetricFromFile

MissingModels    == {f.model : f \in Files} \ existing
MetricsOf(model) == {f.task : f \in {g \in Files : g.model = model}}

\* A run that has no suffix would be found, and end the publication.
SummaryExists ==
    \E id \in DOMAIN runs : /\ id.project = Project(group) /\ runs[id].group = GroupName(group)
                            /\ id.name = GroupLogs /\ id.suffix = ""

PublishMissing ==
    /\ phase \in {"training", "archive"} /\ trainings = {} /\ ~SummaryExists
    /\ \E refused \in SUBSET MissingModels :
          /\ faults + Cardinality(refused) <= MaxFaults
          /\ faults' = faults + Cardinality(refused)
          /\ reported' = reported \cup {ScriptRun(group, m) : m \in refused}
          /\ LET ids == {ScriptRun(group, m) : m \in MissingModels \ refused}
                 Published(id) == Charted(Opened(runs, id, GroupName(group)), id,
                                          MetricsOf(id.name), Metric)[id]
             IN  runs' = [id \in DOMAIN runs \cup ids |->
                             IF id \in ids THEN Published(id) ELSE runs[id]]
    /\ phase' = "missing"
    /\ UNCHANGED <<call, todo, trainings, metrics, existing, listed, scripts, step, rows, reruns>>

\* The run of the group is made anew, whatever it was, with a row for each file.
PublishSummary ==
    /\ phase = "missing"
    /\ LET id == ScriptRun(group, GroupLogs)
           table == {Row(f.task, f.model, Metric[f.task]) : f \in Files}
       IN  runs' = [i \in DOMAIN runs \cup {id} |->
                       IF i = id THEN [NewRun(GroupName(group)) EXCEPT !.table = table]
                                 ELSE runs[i]]
    /\ phase' = (IF todo = {} THEN "idle" ELSE "groups")
    /\ group' = None /\ archive' = FALSE /\ metrics' = {} /\ existing' = {}
    /\ UNCHANGED <<override, todo, trainings, listed, reported, scripts, faults, step, rows,
                   reruns>>

\* A request to Taskcluster or for the runs, or wandb.init for the summary, raises; what raises
\* while a log of an archive is parsed is caught.
Crash ==
    /\ phase \notin {"idle", "crashed"} /\ (phase = "archive" => trainings = {})
    /\ faults < MaxFaults /\ faults' = faults + 1
    /\ phase' = "crashed" /\ group' = None /\ todo' = {} /\ trainings' = {}
    /\ metrics' = {} /\ existing' = {} /\ listed' = {} /\ reported' = {}
    /\ UNCHANGED <<override, archive, scripts, evalVars>>

\* The last group was skipped.
EndScript ==
    /\ phase = "groups" /\ todo = {}
    /\ phase' = "idle"
    /\ UNCHANGED <<call, todo, trainings, metrics, existing, listed, reported, scripts,
                   faults, evalVars>>

Script == \/ Start \/ SkipGroup \/ PublishGroup \/ PublishTraining
          \/ StartArchive \/ PublishArchived
          \/ PublishMissing \/ PublishSummary \/ EndScript \/ Crash

Init == EvalInit /\ ScriptInit

Next == \/ EvalNext /\ UNCHANGED scriptVars
        \/ Script

vars == <<evalVars, scriptVars>>

Spec == Init /\ [][Next]_vars

-----------------------------------------------------------------------------
\* Whoever published it - the task itself, the training it depends on, the rest of the group or
\* an archive - a metric is in the group of its task, on the run of the model it evaluates, under
\* the name of its data set, but for the run "speed" of quantized metrics; and a run that shows a
\* training has only metrics of evaluations of this training (utils.py 125-164,
\* taskcluster_group.py 117-126 and 241-253).
MetricsInPlace ==
    LET IsPlace(e, g, title, name) ==
            /\ Task[e].group = g /\ MetricTitle(MetricOf[e]) = title
            /\ \/ name = MetricOf[e].model
               \/ name.base = "speed" /\ MetricOf[e].model.base = "quantized"
    IN  \A id \in DOMAIN runs :
            /\ \A title \in DOMAIN runs[id].charts :
                  LET e == runs[id].charts[title]
                  IN  /\ IsPlace(e, runs[id].group[2], title, id.name)
                      /\ runs[id].trainings \subseteq ToSet(Task[e].dependencies)
            /\ \A row \in runs[id].table :
                  /\ id.name = GroupLogs
                  /\ IsPlace(row.task, runs[id].group[2], row.title, row.name)

\* When the script has ended by itself, every evaluation that was completed when its group was
\* listed is on the run of its model, or the log says that its publication failed
\* (taskcluster_group.py 63-79 and 236-277, publishers.py 306-323).
NothingSilentlyLost ==
    phase = "idle" => \A e \in listed :
        LET id == ScriptRun(Task[e].group, MetricOf[e].model)
            title == MetricTitle(MetricOf[e])
        IN  \/ id \in reported
            \/ /\ id \in DOMAIN runs /\ title \in DOMAIN runs[id].charts
               /\ runs[id].charts[title] = e

\* "This run also contain a table published as artifact, with a summary of all evaluation
\* metrics" (docs/training/tracking.md 140): once the evaluations of a group are completed, and
\* before the script republishes them, its table has a row for each (eval.py 362-393).
SummaryComplete ==
    scripts = 0 => \A g \in Online :
        LET evaluations == {t \in ToSet(Listing[g]) : IsEvaluation(t)}
        IN  (\A e \in evaluations : Completed(e)) =>
                \A e \in evaluations : \E row \in runs[SummaryRun(e)].table : row.task = e
=============================================================================
