--------------------------- MODULE TaskTransforms ---------------------------
(***************************************************************************)
(* From the kinds to the tasks of the full task graph: the transforms of   *)
(* taskcluster/translations_taskgraph, as functions on jobs.  A kind is    *)
(* what its kind.yml declares.  A config is what a transform is given      *)
(* beside the job: the training_config of one decision.  A                 *)
(* job is a record; what the transforms of Taskgraph itself do to it       *)
(* (labels, chunks, the edges between kinds) is external.                  *)
(***************************************************************************)
EXTENDS Integers, Sequences, FiniteSets, FiniteSetsExt, SequencesExt

CONSTANTS
    None,
    Kinds,             \* [kind -> what kind.yml says], see MCTaskGraph
    WorkerAliases,     \* local-worker-aliases: [alias -> [class -> worker type]]
    WorkerEnv,         \* worker-configuration: the worker types with GPUS and WORKSPACE
    GpuWorkers,        \* the worker types with "gpu" in their name
    NameLength,        \* DATASET_NAME_MAX_LENGTH
    MaxDependencies    \* taskgraph.MAX_DEPENDENCIES

-----------------------------------------------------------------------------
(* util/: names of datasets, substitution, values of the parameters.       *)

Join(parts) == FoldLeft(LAMBDA joined, part : joined \o part, "", parts)

\* md5 cut to six digits: different for the names of an instance.
Hash(name) == "#" \o Join(name)

\* sanitize_dataset_name.  A name is a sequence of parts; a URL starts with its
\* scheme, then has the host, the directories and the stem of the file.
SanitizeDatasetName(name) ==
    LET isUrl == name[1] \in {"https://", "http://"}
        host == IF name[2] = "storage.googleapis.com" THEN "gcp" ELSE name[2]
        short == CASE isUrl -> <<host, "_", Last(name), "_", Hash(name)>>
                   [] ~isUrl /\ Len(name) > NameLength ->
                          SubSeq(name, 1, NameLength) \o <<"_", Hash(name)>>
                   [] OTHER -> name
    IN  Join([i \in DOMAIN short |->
                 IF short[i] \in {"://", "/", ".", ":", "[", "]"} THEN "_" ELSE short[i]])

\* substitute: the fields that are given are filled in, the others stay.
Substitute(item, subs) ==
    [i \in DOMAIN item |-> IF item[i] \in DOMAIN subs THEN subs[item[i]] ELSE item[i]]

\* deep_get, of a path in the parameters.
DeepGet(config, path) == IF path \in DOMAIN config.settings THEN config.settings[path] ELSE None

-----------------------------------------------------------------------------
(* from_datasets.py                                                        *)

Base(kind, config) ==
    [kind |-> kind, dataset |-> None, chunk |-> 0, src |-> config.src, trg |-> config.trg,
     needs |-> Kinds[kind].needs, dependencies |-> {},
     mounts |-> <<>>, command |-> Kinds[kind].command,
     resources |-> Kinds[kind].resources,
     parameters |-> Kinds[kind].parameters, worker |-> None, label |-> None, digest |-> None]

Excluded(kind, config) == <<config.src, config.trg>> \in Kinds[kind].excludeLocales

IncludedDatasets(kind, config) ==
    LET categories == {c \in DOMAIN config.datasets : Kinds[kind].category \in {None, c}}
    IN  {d \in UNION {config.datasets[c] : c \in categories} :
            Kinds[kind].provider \in {None, d.provider}}

\* Where both raise: datasets[category].
CategoryMissing(kind, config) ==
    /\ Kinds[kind].category # None
    /\ Kinds[kind].category \notin DOMAIN config.datasets

\* The job for one dataset.  Fetches go with dependencies and are left out.
ForDataset(job, dataset, locale) ==
    LET subs == [provider |-> dataset.provider,
                 dataset_sanitized |-> SanitizeDatasetName(dataset.name),
                 locale |-> locale]
    IN  [job EXCEPT
            !.dataset = dataset,
            !.command = Substitute(@, subs),
            !.parameters = {[p EXCEPT !.choices = [i \in DOMAIN @ |-> Substitute(@[i], subs)]] :
                                p \in @}]

\* jobs_from_datasets
JobsFromDatasets(kind, config) ==
    IF Excluded(kind, config) THEN {}
    ELSE {ForDataset(Base(kind, config), d, None) : d \in IncludedDatasets(kind, config)}

\* jobs_for_mono_datasets
JobsForMonoDatasets(kind, config) ==
    LET locale == IF Kinds[kind].category = "mono-src" THEN config.src ELSE config.trg
    IN  IF Excluded(kind, config) THEN {}
        ELSE {ForDataset(Base(kind, config), d, locale) : d \in IncludedDatasets(kind, config)}

-----------------------------------------------------------------------------
(* training_continuation.py                                                *)

\* The models that a config starts from: experiment.pretrained-models, for the two
\* kinds that its schema has (actions/train.py:262).
PretrainedPath(kind) == <<"pretrained-models", kind>>
Pretrained(config) ==
    [kind \in {k \in {"train-teacher", "train-backwards"} :
                  DeepGet(config, PretrainedPath(k)) # None} |->
        DeepGet(config, PretrainedPath(kind))]

ContinueTrainingArtifacts == {"model", "best", "optimizer", "progress", "log", "vocab"}
InitializeModelArtifacts == {"best"}

\* get_artifact_mounts: for each URL the files that are put into ./artifacts.
ArtifactMounts(pretrained) ==
    LET names == IF pretrained.mode = "init" THEN InitializeModelArtifacts
                 ELSE ContinueTrainingArtifacts
    IN  [i \in DOMAIN pretrained.urls |-> [url |-> pretrained.urls[i], files |-> names]]

\* add_pretrained_model_mounts.  The generator is made anew for each job, whose
\* chunks do not exist yet, and next() takes its first element.
AddPretrainedModelMounts(job, config) ==
    LET pretrained == Pretrained(config)[job.kind]
        mounted == [job EXCEPT !.mounts = <<ArtifactMounts(pretrained)[1]>>,
                               !.needs = @ \ {"train-vocab"}]
    IN  CASE job.kind \notin DOMAIN Pretrained(config) -> job
          [] job.kind \in DOMAIN Pretrained(config) /\ pretrained.mode # "use" -> mounted
          [] OTHER -> [mounted EXCEPT
                          !.needs = {}, !.resources = {}, !.parameters = {p \in @ : p.pretrained}]

\* skip_for_pretrained_models: the evaluations of a model that is not trained here.
SkipForPretrainedModels(jobs, config) ==
    {job \in jobs : Kinds[job.kind].evaluates \notin DOMAIN Pretrained(config)}

-----------------------------------------------------------------------------
(* find_upstreams.py                                                       *)

DependencyTasks(kind, config, graph) ==
    {t \in graph : t.kind \in Kinds[kind].after}

\* get_cleaning_type
GetCleaningType(config, upstreams) ==
    LET candidates == {Kinds[t.kind].cleaningType :
                          t \in {u \in upstreams : u.kind \in {"bicleaner", "clean-corpus"}}}
    IN  CASE "bicleaner-ai" \in candidates -> "bicleaner-ai"
          [] "bicleaner-ai" \notin candidates /\ "clean-corpus" \in candidates -> "clean-corpus"
          [] OTHER -> None

\* Slip: all tasks of a dataset, cleaned in whatever way.
UpstreamsAnyCleaning(job, config, graph) ==
    {t \in DependencyTasks(job.kind, config, graph) :
        t.dataset # None /\ t.dataset \in config.datasets[Kinds[job.kind].category]}

\* upstreams_for_locales and upstreams_for_mono: the tasks with the attributes
\* asked for, of a dataset of the category.
Upstreams(job, config, graph) ==
    LET wanted == IF Kinds[job.kind].byCleaningType
                  THEN GetCleaningType(config, DependencyTasks(job.kind, config, graph))
                  ELSE Kinds[job.kind].upstreamCleaning
    IN  {t \in DependencyTasks(job.kind, config, graph) :
            /\ Kinds[t.kind].cleaningType = wanted
            /\ t.dataset # None /\ t.dataset \in config.datasets[Kinds[job.kind].category]}

FindUpstreams(job, config, graph) ==
    LET labels == {t.label : t \in Upstreams(job, config, graph)}
    IN  [job EXCEPT !.dependencies = @ \cup labels]

-----------------------------------------------------------------------------
(* worker_selection.py                                                     *)

\* set_worker_type
SetWorkerType(job, config) ==
    LET class == IF job.kind \in DOMAIN config.workerClasses THEN config.workerClasses[job.kind]
                 ELSE config.workerClasses["default"]
        alias == IF config.tasksFor \in DOMAIN Kinds[job.kind].workerType
                 THEN Kinds[job.kind].workerType[config.tasksFor]
                 ELSE Kinds[job.kind].workerType["default"]
        types == WorkerAliases[alias]
    IN  [job EXCEPT !.worker = IF class \in DOMAIN types THEN types[class] ELSE types["default"]]

\* inject_worker_env, where it raises.
WorkerMisconfigured(job) == job.worker \in GpuWorkers /\ job.worker \notin WorkerEnv

-----------------------------------------------------------------------------
(* marian_args.py, dependency_dummies.py                                   *)

\* render_command: the arguments become a part of the command.
RenderCommand(job, config) ==
    IF Kinds[job.kind].marianArgs = None THEN job
    ELSE [job EXCEPT !.command = Append(@, DeepGet(config, Kinds[job.kind].marianArgs))]

\* Slip: what is left over when no dummy is full gets none.
AddDependenciesFull(job) ==
    LET all == SetToSeq(job.dependencies)
        count == Len(all) \div MaxDependencies
        Part(i) == ToSet(SubSeq(all, (i - 1) * MaxDependencies + 1,
                                IF i * MaxDependencies < Len(all) THEN i * MaxDependencies
                                ELSE Len(all)))
    IN  {[job EXCEPT !.dependencies = Part(i), !.chunk = i] : i \in 1..count}

\* add_dependencies: as many dummies as it takes for all dependencies.
AddDependencies(job) ==
    LET all == SetToSeq(job.dependencies)
        count == (Len(all) + MaxDependencies - 1) \div MaxDependencies
        Part(i) == ToSet(SubSeq(all, (i - 1) * MaxDependencies + 1,
                                IF i * MaxDependencies < Len(all) THEN i * MaxDependencies
                                ELSE Len(all)))
    IN  {[job EXCEPT !.dependencies = Part(i), !.chunk = i] : i \in 1..count}

-----------------------------------------------------------------------------
(* cached_tasks.py                                                         *)

\* The value of a parameter of the cache: the first of its choices that is set.
ParameterValue(p, config) ==
    LET set == {i \in DOMAIN p.choices : DeepGet(config, p.choices[i]) # None}
    IN  IF set = {} THEN None ELSE DeepGet(config, p.choices[Min(set)])

\* Slip: without the digests of the parents.
TaskDigestAlone(job, config, graph) ==
    [type |-> job.kind, name |-> job.label, command |-> job.command,
     resources |-> job.resources,
     parameters |-> {<<p.name, ParameterValue(p, config)>> : p \in job.parameters},
     dependencies |-> {}]

\* add_cache and cache_task
TaskDigest(job, config, graph) ==
    [type |-> job.kind, name |-> job.label, command |-> job.command,
     resources |-> job.resources,
     parameters |-> {<<p.name, ParameterValue(p, config)>> : p \in job.parameters},
     dependencies |-> {t.digest : t \in {u \in graph : u.label \in job.dependencies}}]

\* cache_task, where it raises.
UncachedParent(job, graph) ==
    \E label \in job.dependencies :
        \A t \in graph : t.label = label => ~Kinds[t.kind].cached
=============================================================================
