------------------------------ MODULE Evaluation ------------------------------
(***************************************************************************)
(* Evaluation tasks (pipeline/eval/eval.py): each translates a data set,   *)
(* scores it and publishes the metric to the run of its model, and then    *)
(* adds a row to the table of the run "group_logs" of its group.  The runs *)
(* of Weights & Biases are a function of their ids; of a metric they hold  *)
(* which task it is from.  A table is the set of its rows: that a task     *)
(* which runs again adds its row twice is left out.                        *)
(***************************************************************************)
EXTENDS TaskLabels, FiniteSetsExt

CONSTANTS
    None,
    Task,           \* tasks: their group, kind, label and dependencies
    Config,         \* groups: the experiment in the action that made them, or None
    Online,         \* the groups with WANDB_PUBLICATION
    Live,           \* evaluations that are not finished at the start
    MaxReruns       \* how often tasks may be preempted

ASSUME TasksAssumption ==
    /\ \A t \in DOMAIN Task : /\ Task[t].group \in DOMAIN Config
                              /\ DOMAIN Task[t].label = LabelParts
    /\ DOMAIN Config \subseteq DOMAIN FirstFive
    /\ Online \subseteq DOMAIN Config /\ MaxReruns \in Nat
    /\ Live \subseteq {t \in DOMAIN Task : IsEvalLabel(Task[t].label)}

VARIABLES
    runs,       \* the runs: group, charts by title, trainings shown, table
    step,       \* of each live evaluation
    rows,       \* the rows of the table it has read
    reruns      \* how often one was preempted

evalVars == <<runs, step, rows, reruns>>

Groups    == DOMAIN Config
GroupLogs == [base |-> "group_logs", index |-> -1]
Parsed    == {t \in DOMAIN Task : Parsable(Task[t].label)}
Named     == [t \in Parsed |-> BuildTaskName(Task[t])]
MetricOf  == [t \in Parsed |-> ParseTaskLabel(Task[t].label)]

\* The names of a run that a task publishes itself.
WandbNames(t) ==
    LET g == Task[t].group
        experiment == IF Config[g] = None THEN [languages |-> "ru-en", name |-> "ci"] ELSE Config[g]
    IN  [project |-> IF experiment.name = "ci" THEN "ci" ELSE experiment.languages,
         group |-> <<experiment.name, g>>, name |-> Named[t].name]

OwnRun(t)     == RunId(WandbNames(t).project, WandbNames(t).name, Task[t].group)
SummaryRun(t) == RunId(WandbNames(t).project, GroupLogs, Task[t].group)

-----------------------------------------------------------------------------
(* Weights & Biases.                                                       *)

NewRun(group) == [group |-> group, charts |-> << >>, trainings |-> {}, table |-> {}]

\* wandb.init with resume="allow": the run goes on when it is there.
Opened(store, id, group) ==
    IF id \in DOMAIN store THEN store
                           ELSE [i \in DOMAIN store \cup {id} |->
                                    IF i = id THEN NewRun(group) ELSE store[i]]

\* A chart of a title takes the place of the last one.
Charted(store, id, tasks, metric) ==
    LET titles == {MetricTitle(metric[t]) : t \in tasks}
        charts == store[id].charts
    IN  [store EXCEPT ![id].charts =
            [title \in DOMAIN charts \cup titles |->
                IF title \in titles THEN CHOOSE t \in tasks : MetricTitle(metric[t]) = title
                                    ELSE charts[title]]]

Row(t, name, metric) == [task |-> t, name |-> name, title |-> MetricTitle(metric)]

\* Finished tasks have published as they ran.
IsEvaluation(t) == IsEvalLabel(Task[t].label)
IsTraining(t)   == IsTrainLabel(Task[t].label) /\ "vocab" \notin ToSet(Task[t].kind)
Finished == {t \in DOMAIN Task \ Live : IsEvaluation(t) \/ IsTraining(t)}
RunsOfFinished ==
    LET tasks       == {t \in Finished : Task[t].group \in Online}
        evaluations == {t \in tasks : IsEvaluation(t)}
        OfTask(t) == IF IsEvaluation(t) THEN {OwnRun(t), SummaryRun(t)} ELSE {OwnRun(t)}
        Run(id) ==
            LET new    == NewRun(WandbNames(CHOOSE t \in tasks : id \in OfTask(t)).group)
                charts == Charted([i \in {id} |-> new], id,
                                  {t \in evaluations : OwnRun(t) = id}, MetricOf)
            IN  [charts[id] EXCEPT
                    !.trainings = {t \in tasks \ evaluations : OwnRun(t) = id},
                    !.table = {Row(t, Named[t].name, MetricOf[t]) :
                                  t \in {e \in evaluations : SummaryRun(e) = id}}]
    IN  [id \in UNION {OfTask(t) : t \in tasks} |-> Run(id)]

EvalInit ==
    /\ runs = RunsOfFinished
    /\ step = [e \in Live |-> "pending"]
    /\ rows = [e \in Live |-> {}]
    /\ reruns = 0

-----------------------------------------------------------------------------
Goes(e, to) == step' = [step EXCEPT ![e] = to]

\* The source is piped through tee, the decoder and tee again; a decoder that stops early is
\* noticed by the scores, which want as many lines as there are references.  The metrics are
\* in two files before anything is published.
Evaluate(e) ==
    /\ step[e] = "pending"
    /\ Goes(e, "scored") \/ Goes(e, "failed")
    /\ UNCHANGED <<runs, rows, reruns>>

SkipPublication(e) ==
    /\ step[e] = "scored" /\ Task[e].group \notin Online
    /\ Goes(e, "completed")
    /\ UNCHANGED <<runs, rows, reruns>>

\* A client that cannot be initialized logs that, and the run it does not have is used next.
ClientFails(e) ==
    /\ step[e] \in {"scored", "published"} /\ Task[e].group \in Online
    /\ Goes(e, "failed")
    /\ UNCHANGED <<runs, rows, reruns>>

PublishMetric(e) ==
    /\ step[e] = "scored" /\ Task[e].group \in Online
    /\ runs' = Charted(Opened(runs, OwnRun(e), WandbNames(e).group), OwnRun(e), {e}, MetricOf)
    /\ Goes(e, "published")
    /\ UNCHANGED <<rows, reruns>>

\* The run of the group is resumed and its table read.
ReadSummary(e) ==
    /\ step[e] = "published"
    /\ runs' = Opened(runs, SummaryRun(e), WandbNames(e).group)
    /\ rows' = [rows EXCEPT ![e] = runs'[SummaryRun(e)].table]
    /\ Goes(e, "read")
    /\ UNCHANGED reruns

\* A run that was deleted since takes no more data.
WriteSummary(e) ==
    /\ step[e] = "read"
    /\ runs' = (IF SummaryRun(e) \notin DOMAIN runs THEN runs
                ELSE [runs EXCEPT ![SummaryRun(e)].table =
                         rows[e] \cup {Row(e, Named[e].name, MetricOf[e])}])
    /\ rows' = [rows EXCEPT ![e] = {}]
    /\ Goes(e, "completed")
    /\ UNCHANGED reruns

\* The machine is taken away; Taskcluster runs the task again from its start.
Preempt(e) ==
    /\ step[e] \in {"scored", "published", "read"} /\ reruns < MaxReruns
    /\ reruns' = reruns + 1
    /\ rows' = [rows EXCEPT ![e] = {}]
    /\ Goes(e, "pending")
    /\ UNCHANGED runs

EvalNext == \E e \in Live :
    \/ Evaluate(e) \/ SkipPublication(e) \/ ClientFails(e) \/ PublishMetric(e)
    \/ ReadSummary(e) \/ WriteSummary(e) \/ Preempt(e)

\* What Taskcluster says of a task.
Completed(t) == t \in Live => step[t] = "completed"

=============================================================================
