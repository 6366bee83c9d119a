------------------------------ MODULE TaskGraph ------------------------------
(***************************************************************************)
(* Train actions one after the other: actions/train.py starts a decision,  *)
(* the kinds are loaded in the order of their dependencies, the target     *)
(* tasks and what they need are taken from the full graph, those that      *)
(* exist already are replaced, the others are created and run, and the     *)
(* index learns of each that completes.  Any number of decisions may be    *)
(* made while tasks of earlier ones still run or after they were cancelled.*)
(*                                                                         *)
(* The loader, the optimization and the index are those of Taskgraph and   *)
(* Taskcluster: external, as the code of the repository uses them.         *)
(***************************************************************************)
EXTENDS TaskTransforms, Functions

CONSTANTS
    KindOrder,         \* the kinds, each after those it depends on
    Configs,           \* [name -> training_config]
    Actions,           \* inputs of train actions, with the name of a config
    TrainProjects,     \* TRAIN_ON_PROJECTS
    MaxDecisions       \* bound on the number of train actions

\* Each kind once, after those whose tasks it depends on; Jobs knows three fans.
ASSUME KindsAssumption ==
    /\ KindOrder \in Seq(DOMAIN Kinds) /\ ToSet(KindOrder) = DOMAIN Kinds
    /\ \A i, j \in DOMAIN KindOrder : KindOrder[i] = KindOrder[j] => i = j
    /\ \A i \in DOMAIN KindOrder :
          Kinds[KindOrder[i]].needs \cup Kinds[KindOrder[i]].after
              \subseteq {KindOrder[j] : j \in 1..(i - 1)}
    /\ \A kind \in DOMAIN Kinds : Kinds[kind].fan \in {"none", "datasets", "mono"}
ASSUME InputsAssumption ==
    /\ MaxDependencies \in Nat \ {0}
    /\ \A name \in DOMAIN Configs :
          /\ Configs[name].ensemble \in Nat
          /\ IsFiniteSet(DOMAIN Configs[name].datasets)
          /\ \A c \in DOMAIN Configs[name].datasets :
                IsFiniteSet(Configs[name].datasets[c]) /\ None \notin Configs[name].datasets[c]
    /\ \A action \in Actions : action.config \in DOMAIN Configs /\ action.previous \in Seq(Nat)

VARIABLES
    input,             \* of the decision under way, or None
    raised,            \* the action that the last step failed, or None
    existing,          \* existing_tasks: [label -> id of a task]
    groups,            \* the decisions that are made
    tasks,             \* all tasks that were created; their place is their id
    index              \* the ids of the tasks in the index, the latest first

vars == <<input, raised, existing, groups, tasks, index>>

Empty == [x \in {} |-> None]
\* dict.update
Update(f, g) == [x \in DOMAIN f \cup DOMAIN g |-> IF x \in DOMAIN g THEN g[x] ELSE f[x]]

Init ==
    /\ input = None /\ raised = None /\ existing = Empty
    /\ groups = <<>> /\ tasks = <<>> /\ index = <<>>

-----------------------------------------------------------------------------
(* The kinds in their order: the transforms of each, as in its kind.yml.   *)

Label(job) ==
    Join(<<job.kind>>
         \o (IF job.dataset = None THEN <<>>
             ELSE <<"-", job.dataset.provider, "-", SanitizeDatasetName(job.dataset.name)>>)
         \o <<"-", job.src, "-", job.trg>>
         \o (IF job.chunk = 0 THEN <<>> ELSE <<"-", ToString(job.chunk)>>))

\* The edges of a kind to other kinds: to the task of the same dataset, or to all.
ResolveNeeds(job, sofar) ==
    [job EXCEPT !.dependencies = @ \cup
        {t.label : t \in {u \in sofar : u.kind \in job.needs
                              /\ (None \in {u.dataset, job.dataset} \/ u.dataset = job.dataset)}}]

\* taskgraph.transforms.chunking
Chunks(job, config) ==
    IF Kinds[job.kind].chunked THEN {[job EXCEPT !.chunk = i] : i \in 1..config.ensemble}
    ELSE {job}

Jobs(kind, config) ==
    CASE Kinds[kind].fan = "none" -> {Base(kind, config)}
      [] Kinds[kind].fan = "datasets" -> JobsFromDatasets(kind, config)
      [] Kinds[kind].fan = "mono" -> JobsForMonoDatasets(kind, config)

\* The transforms in their order, and what one job becomes at the end.
Linked(kind, config, sofar) ==
    {ResolveNeeds(RenderCommand(SetWorkerType(AddPretrainedModelMounts(job, config), config),
                                config), sofar) :
        job \in SkipForPretrainedModels(Jobs(kind, config), config)}
FetchesUpstreams(kind) == Kinds[kind].upstreamCleaning # None \/ Kinds[kind].byCleaningType
Fetching(job, config, sofar) ==
    IF FetchesUpstreams(job.kind) THEN FindUpstreams(job, config, sofar) ELSE job
Several(job, config) ==
    IF Kinds[job.kind].dummies THEN AddDependencies(job) ELSE Chunks(job, config)
Transformed(kind, config, sofar) ==
    {[job EXCEPT !.label = Label(job)] :
        job \in UNION {Several(Fetching(j, config, sofar), config) :
                          j \in Linked(kind, config, sofar)}}

\* Where a transform or the loader raises.
Raises(kind, config, sofar) ==
    LET declared == Kinds[kind]
        jobs == Transformed(kind, config, sofar)
    IN  \/ declared.fan = "mono" /\ declared.category \notin {"mono-src", "mono-trg"}
        \/ CategoryMissing(kind, config)
        \/ /\ declared.byCleaningType
           /\ GetCleaningType(config, DependencyTasks(kind, config, sofar)) = None
        \/ \E j \in jobs : WorkerMisconfigured(j)
        \/ declared.cached /\ \E j \in jobs : UncachedParent(j, sofar)
        \/ \E i \in jobs, j \in jobs \cup sofar : i # j /\ i.label = j.label

\* The tasks of one kind more.
Added(kind, config, sofar) ==
    {[job EXCEPT !.digest = IF Kinds[kind].cached THEN TaskDigest(job, config, sofar) ELSE None] :
        job \in Transformed(kind, config, sofar)}

\* The next kind, unless one has failed.
LoadKind(load, kind) ==
    IF load.failed \/ Raises(kind, load.config, load.graph)
    THEN [load EXCEPT !.failed = TRUE]
    ELSE [load EXCEPT !.graph = @ \cup Added(kind, load.config, load.graph)]

\* The full task graph depends on the config alone.
Unloaded(config) == [config |-> config, graph |-> {}, failed |-> FALSE]
Load(config) == FoldLeft(LoadKind, Unloaded(config), KindOrder)
Loaded == [name \in DOMAIN Configs |-> Load(Configs[name])]
Graph(name) == Loaded[name].graph
DecisionRaises(name) == Loaded[name].failed

TheTask(g, label) == CHOOSE t \in g : t.label = label
Task(id) == TheTask(Graph(tasks[id].config), tasks[id].label)
Deciding == input # None

-----------------------------------------------------------------------------
(* actions/train.py                                                        *)

\* can_train
CanTrain(action) ==
    \/ action.headRepository \in TrainProjects
    \/ action.baseRepository \in TrainProjects /\ action.pullRequest

\* validate_pretrained_models, where it does not raise.
ValidPretrainedModels(config) ==
    /\ "train-teacher" \in DOMAIN Pretrained(config) =>
           Len(Pretrained(config)["train-teacher"].urls) = config.ensemble
    /\ "train-backwards" \in DOMAIN Pretrained(config) =>
           Len(Pretrained(config)["train-backwards"].urls) = 1

\* The schema of the input, where its values are told apart here.
Stages == {Kinds[k].stage : k \in DOMAIN Kinds}
ValidConfig(config) ==
    /\ config.target \in Stages
    /\ <<"default-threshold">> \in DOMAIN config.settings
    /\ DeepGet(config, <<"teacher-mode">>) \in {None, "one-stage", "two-stage"}
    /\ DOMAIN config.datasets \subseteq {"train", "devtest", "test", "mono-src", "mono-trg"}
    /\ \A model \in Range(Pretrained(config)) :
           model.mode \in {"continue", "init", "use"} /\ model.urls # <<>>
    /\ Range(config.workerClasses) \subseteq {"gcp-standard", "gcp-spot"}
ValidInput(action) ==
    /\ ValidConfig(Configs[action.config])
    /\ action.start \in Stages \cup {None}

\* The tasks of the stage in the full graphs of earlier groups.
StartLabels(previous, stage) ==
    {t.label : t \in {u \in UNION {Graph(groups[g].action.config) : g \in ToSet(previous)} :
                          Kinds[u.kind].stage = stage}}

\* The task that is given for a label in the input has this label.
Overrides(labels) ==
    {ids \in [labels -> DOMAIN tasks] : \A label \in labels : tasks[ids[label]].label = label}

Startable(action) ==
    /\ ~Deciding
    /\ Len(groups) < MaxDecisions
    /\ CanTrain(action) /\ ValidInput(action)
    /\ ToSet(action.previous) \subseteq DOMAIN groups

\* With a start stage: a task of it that was not scheduled has no id (train.py:474).
\* One that was has ancestors, at least the decision that created it, which
\* get_ancestors gives by their ids; the ids, of 22 characters, are then taken apart
\* into two names (train.py:482).  Only if there is no such task does this not raise.
StartRaises(action) ==
    action.start # None /\ StartLabels(action.previous, action.start) # {}
ActionRaises(action) ==
    StartRaises(action) \/ ~ValidPretrainedModels(Configs[action.config])

\* train_action up to the decision.  What is taken over by its label is what the
\* input names; from a start stage there is nothing to add to it.
TrainAction(action) ==
    /\ Startable(action)
    /\ ~ActionRaises(action)
    /\ input' = action
    /\ raised' = None
    /\ existing' \in Overrides(action.existing)
    /\ UNCHANGED <<groups, tasks, index>>

TrainActionRaises(action) ==
    /\ Startable(action)
    /\ ActionRaises(action)
    /\ raised' = action
    /\ UNCHANGED <<input, existing, groups, tasks, index>>

-----------------------------------------------------------------------------
(* The targets, what is replaced, and the tasks that are created.          *)

\* train_target_tasks.  The loop over the datasets at its end decides nothing.
TargetTasks(graph, config) ==
    {t \in graph : /\ Kinds[t.kind].stage = config.target
                   /\ t.src = config.src /\ t.trg = config.trg}

OfKind(graph, kind) == {t \in graph : t.kind = kind}

\* The targets and all that is upstream of them.
WithUpstream(graph, needed, kind) ==
    needed \cup UNION {t.dependencies : t \in {u \in OfKind(graph, kind) : u.label \in needed}}
TargetLabels(graph, config) == {t.label : t \in TargetTasks(graph, config)}
TargetGraph(graph, config) ==
    FoldLeft(LAMBDA needed, kind : WithUpstream(graph, needed, kind),
             TargetLabels(graph, config), Reverse(KindOrder))

\* Where the index has a task under its name and digest.
Indexed(t) ==
    {i \in DOMAIN index : tasks[index[i]].label = t.label /\ Task(index[i]).digest = t.digest}

\* A task is replaced when all before it are, by the task that was given for its
\* label or else by the latest of the same digest.
Found(t) ==
    \/ t.label \in DOMAIN existing
    \/ Kinds[t.kind].cached /\ Indexed(t) # {}
By(t) == IF t.label \in DOMAIN existing THEN existing[t.label] ELSE index[Min(Indexed(t))]
Replaced(graph, needed, ids, kind) ==
    {t \in OfKind(graph, kind) : /\ t.label \in needed
                                /\ t.dependencies \subseteq DOMAIN ids
                                /\ Found(t)}
WithReplaced(graph, needed, ids, kind) ==
    Update(ids, [label \in {t.label : t \in Replaced(graph, needed, ids, kind)} |->
                    By(TheTask(graph, label))])
Replacements(graph, needed) ==
    FoldLeft(LAMBDA ids, kind : WithReplaced(graph, needed, ids, kind), Empty, KindOrder)

\* The tasks to create, those a task depends on before it.
LabelsOf(graph, kind, labels) == {t.label : t \in OfKind(graph, kind)} \cap labels
CreationOrder(graph, labels) ==
    FoldLeft(LAMBDA order, kind : order \o SetToSeq(LabelsOf(graph, kind, labels)),
             <<>>, KindOrder)

\* The decision task fails, and nothing is created.
DecisionFails ==
    /\ Deciding
    /\ DecisionRaises(input.config)
    /\ input' = None
    /\ raised' = input
    /\ UNCHANGED <<existing, groups, tasks, index>>

\* The ids of the tasks of a group: of those that replace one, and of the new ones.
Ids(replaced, order) ==
    Update(replaced, [label \in ToSet(order) |->
                         Len(tasks) + CHOOSE i \in DOMAIN order : order[i] = label])

\* The sets with one element make TLC evaluate what they bind once.
Decide ==
    /\ Deciding
    /\ ~DecisionRaises(input.config)
    /\ \E graph \in {Graph(input.config)} :
       \E needed \in {TargetGraph(graph, Configs[input.config])} :
       \E replaced \in {Replacements(graph, needed)} :
       \E order \in {CreationOrder(graph, needed \ DOMAIN replaced)} :
       \E ids \in {Ids(replaced, order)} :
           /\ tasks' = tasks \o [i \in DOMAIN order |->
                  [label |-> order[i], config |-> input.config, done |-> FALSE,
                   dependencies |-> {ids[d] : d \in TheTask(graph, order[i]).dependencies}]]
           /\ groups' = Append(groups,
                  [ids |-> ids, action |-> input, existing |-> existing,
                   cached |-> DOMAIN replaced \ DOMAIN existing])
    /\ input' = None
    /\ raised' = None
    /\ UNCHANGED <<existing, index>>

\* Tasks that are ready run in any order; here in that of their ids.
CompleteTask ==
    /\ \E id \in DOMAIN tasks :
           /\ ~tasks[id].done /\ \A i \in 1..(id - 1) : tasks[i].done
           /\ tasks' = [tasks EXCEPT ![id].done = TRUE]
           /\ index' = IF Kinds[Task(id).kind].cached THEN <<id>> \o index ELSE index
    /\ raised' = None
    /\ UNCHANGED <<input, existing, groups>>

Next ==
    \/ \E action \in Actions : TrainAction(action) \/ TrainActionRaises(action)
    \/ DecisionFails
    \/ Decide
    \/ CompleteTask

Spec == Init /\ [][Next]_vars

-----------------------------------------------------------------------------
(* Properties.                                                             *)

\* What the artifacts of a task are made from, given those of its upstream tasks.
\* In use mode they are the files that were mounted.
Result(t, inputs) ==
    IF t.mounts # <<>> /\ t.needs = {} /\ t.dependencies = {} THEN [mounts |-> t.mounts]
    ELSE [kind |-> t.kind, dataset |-> t.dataset, chunk |-> t.chunk, command |-> t.command,
          parameters |-> IF Kinds[t.kind].cached THEN t.digest.parameters ELSE {},
          mounts |-> t.mounts, inputs |-> inputs]

\* What the tasks that were created make.
WithMade(made, t) ==
    Append(made, Result(TheTask(Graph(t.config), t.label), {made[d] : d \in t.dependencies}))
MadeOf(created) == FoldLeft(WithMade, <<>>, created)
Made == MadeOf(tasks)

\* What each task of a graph would make if all were run.
ResultIn(graph, made, label) ==
    Result(TheTask(graph, label), {made[d] : d \in TheTask(graph, label).dependencies})
WithResults(graph, made, kind) ==
    Update(made, [label \in {t.label : t \in OfKind(graph, kind)} |->
                     ResultIn(graph, made, label)])
Results(graph) ==
    FoldLeft(LAMBDA made, kind : WithResults(graph, made, kind), Empty, KindOrder)

\* A task that the index gives for another is made from the same: the same data
\* sets, values and models all the way up, whatever the decisions between them
\* were (cached_tasks.py:86).  Not so after a decision that took tasks over by
\* their label, whose own tasks are in the index with what they did not use.
CachedIsSame ==
    LET Same(g, results, made) == \A label \in g.cached : made[g.ids[label]] = results[label]
    IN  \A n \in DOMAIN groups :
            (\A m \in 1..(n - 1) : groups[m].existing = Empty) =>
                Same(groups[n], Results(Graph(groups[n].action.config)), Made)

\* A merged corpus is made from every data set of its category once, cleaned in
\* one way (find_upstreams.py:100).
DatasetsOnce ==
    LET Cleaned(graph, t) ==
            {u \in graph : u.label \in t.dependencies /\ u.kind \in Kinds[t.kind].after}
        Once(graph, sets) ==
            \A t \in graph : FetchesUpstreams(t.kind) =>
                LET wanted == sets[Kinds[t.kind].category]
                IN  /\ {u.dataset : u \in Cleaned(graph, t)} = wanted
                    /\ Cardinality(Cleaned(graph, t)) = Cardinality(wanted)
    IN  Deciding => Once(Graph(input.config), Configs[input.config].datasets)

\* Every decision has its targets, and each task it creates depends on tasks with
\* the labels it asks for; what the dummies of the last stage depend on is all
\* that there is to depend on (dependency_dummies.py:20, train.py:515).
NothingDangling ==
    LET Upstream(kind, graph) == UNION {u.dependencies : u \in OfKind(graph, kind)}
        Whole(g, graph) ==
            /\ \A t \in graph : Kinds[t.kind].stage = Configs[g.action.config].target =>
                   t.label \in DOMAIN g.ids
            /\ \A id \in Range(g.ids) :
                   {tasks[d].label : d \in tasks[id].dependencies} = Task(id).dependencies
            /\ \A t \in graph : Kinds[t.kind].dummies =>
                   {u.label : u \in {v \in graph : v.kind \in t.needs}}
                       \subseteq Upstream(t.kind, graph)
    IN  \A g \in Range(groups) : Whole(g, Graph(g.action.config))

-----------------------------------------------------------------------------
(* What the properties rest on beyond the code: the kinds of the repository *)
(* and the names of data sets.                                              *)

\* A label is that of one kind, data set and chunk, in whatever decision.
LabelsTell ==
    \A c, d \in DOMAIN Configs : \A t \in Graph(c), u \in Graph(d) :
        t.label = u.label => t.kind = u.kind /\ t.dataset = u.dataset /\ t.chunk = u.chunk

\* What dummies depend on, they depend on whole.
DummiesForAll ==
    \A k \in DOMAIN Kinds : Kinds[k].dummies => Kinds[k].fan = "none"

\* A kind that merges data sets takes, for each way of cleaning, the tasks of one kind
\* that has a task for each data set of the category.
OneCleaner ==
    \A k \in DOMAIN Kinds : FetchesUpstreams(k) =>
        /\ Kinds[k].needs \cap Kinds[k].after = {} /\ Kinds[k].category # None
        /\ ~Kinds[k].dummies
        /\ \A cleaner, other \in Kinds[k].after :
              Kinds[cleaner].cleaningType = Kinds[other].cleaningType => cleaner = other
        /\ Kinds[k].upstreamCleaning # None /\ ~Kinds[k].byCleaningType =>
              \E cleaner \in Kinds[k].after :
                  /\ Kinds[cleaner].cleaningType = Kinds[k].upstreamCleaning
                  /\ Kinds[cleaner].excludeLocales = {}
        /\ \A cleaner \in Kinds[k].after :
              /\ Kinds[cleaner].fan \in {"datasets", "mono"} /\ Kinds[cleaner].provider = None
              /\ Kinds[cleaner].category \in {None, Kinds[k].category}
              /\ ~Kinds[cleaner].chunked /\ ~Kinds[cleaner].dummies
              /\ Kinds[cleaner].evaluates \notin {"train-teacher", "train-backwards"}

\* The models that a training starts from are in its digest.
PretrainedInDigest ==
    \A k \in {"train-teacher", "train-backwards"} \cap DOMAIN Kinds :
        /\ Kinds[k].fan = "none"
        /\ \E p \in Kinds[k].parameters :
              /\ p.pretrained /\ p.choices = <<PretrainedPath(k)>>
              /\ \A q \in Kinds[k].parameters : q.name = p.name => q = p

=============================================================================
