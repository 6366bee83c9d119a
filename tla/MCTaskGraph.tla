---------------------------- MODULE MCTaskGraph ----------------------------
(***************************************************************************)
(* Twelve of the kinds, with the edges, caches and transforms of their     *)
(* kind.yml, where merge comes after both ways of cleaning, so that        *)
(* get_cleaning_type has a choice; and configs that differ in what can     *)
(* make a task another one: data sets, a threshold, the models to start    *)
(* from.                                                                   *)
(***************************************************************************)
EXTENDS TaskGraph

Declared ==
    [after |-> {}, fan |-> "none", category |-> None, provider |-> None, excludeLocales |-> {},
     needs |-> {}, upstreamCleaning |-> None, byCleaningType |-> FALSE, cleaningType |-> "none",
     command |-> <<>>, resources |-> {}, parameters |-> {}, chunked |-> FALSE,
     evaluates |-> "none", workerType |-> [default |-> "b-cpu"], marianArgs |-> None,
     dummies |-> FALSE, cached |-> TRUE, stage |-> "none"]

Parameter(name, choices) == [name |-> name, choices |-> choices, pretrained |-> FALSE]
PretrainedParameter(kind) ==
    [name |-> "pretrained", choices |-> <<PretrainedPath(kind)>>, pretrained |-> TRUE]
Gpu == [default |-> "b-largegpu-largedisk", cron |-> "b-largegpu"]

MCKinds ==
    [dataset |-> [Declared EXCEPT !.fan = "datasets", !.stage = "dataset",
                      !.command = <<"dataset_sanitized">>, !.resources = {"importer"}],
     clean |-> [Declared EXCEPT !.fan = "datasets", !.category = "train", !.stage = "clean-corpus",
                      !.needs = {"dataset"}, !.cleaningType = "clean-corpus"],
     bicleaner |-> [Declared EXCEPT !.fan = "datasets", !.category = "train",
                      !.stage = "bicleaner", !.needs = {"clean"}, !.cleaningType = "bicleaner-ai",
                      !.workerType = Gpu, !.parameters =
                          {Parameter("threshold", <<<<"thresholds", "provider">>,
                                                    <<"default-threshold">>>>)}],
     merge |-> [Declared EXCEPT !.after = {"bicleaner", "clean"}, !.category = "train",
                      !.byCleaningType = TRUE, !.stage = "merge-corpus",
                      !.parameters = {Parameter("max", <<<<"max-sentences">>>>)}],
     mono |-> [Declared EXCEPT !.fan = "mono", !.category = "mono-src", !.stage = "clean-mono",
                      !.needs = {"dataset"}, !.cleaningType = "clean-mono",
                      !.command = <<"locale">>],
     mergeMono |-> [Declared EXCEPT !.after = {"mono"}, !.category = "mono-src",
                      !.needs = {"merge"}, !.upstreamCleaning = "clean-mono",
                      !.stage = "merge-mono"],
     vocab |-> [Declared EXCEPT !.needs = {"merge"}, !.stage = "train-vocab"],
     backwards |-> [Declared EXCEPT !.needs = {"merge", "train-vocab"}, !.stage = "train-backwards",
                      !.workerType = Gpu, !.marianArgs = <<"marian-args">>,
                      !.parameters = {PretrainedParameter("train-backwards")}],
     teacher |-> [Declared EXCEPT !.needs = {"merge", "train-vocab"}, !.stage = "train-teacher",
                      !.chunked = TRUE, !.workerType = Gpu, !.marianArgs = <<"marian-args">>,
                      !.parameters = {PretrainedParameter("train-teacher"),
                                      Parameter("mode", <<<<"teacher-mode">>>>)}],
     evaluate |-> [Declared EXCEPT !.fan = "datasets", !.category = "test",
                      !.evaluates = "train-teacher", !.needs = {"dataset", "train-teacher"},
                      !.stage = "evaluate-teacher"],
     student |-> [Declared EXCEPT !.needs = {"train-teacher", "mergeMono", "train-backwards"},
                      !.stage = "train-student", !.workerType = Gpu],
     all |-> [Declared EXCEPT !.needs = {"evaluate", "student", "train-backwards", "mergeMono"},
                      !.stage = "all-pipeline", !.dummies = TRUE, !.cached = FALSE]]

MCWorkerAliases ==
    ("b-cpu" :> [default |-> "b-linux-large-gcp"])
    @@ ("b-largegpu" :> [default |-> "b-linux-v100-gpu-4"])
    @@ ("b-largegpu-largedisk" :> ("default" :> "b-linux-v100-gpu-4-300gb")
                               @@ ("gcp-standard" :> "b-linux-v100-gpu-4-300gb-standard"))
MCGpuWorkers == {"b-linux-v100-gpu-4", "b-linux-v100-gpu-4-300gb",
                 "b-linux-v100-gpu-4-300gb-standard"}

\* The kinds under the names that the transforms know.
Renamed(k) == CASE k = "clean" -> "clean-corpus" [] k = "vocab" -> "train-vocab"
                [] k = "backwards" -> "train-backwards" [] k = "teacher" -> "train-teacher"
                [] OTHER -> k
Names(S) == {Renamed(k) : k \in S}
NamedKinds ==
    LET WithNames(kinds) ==
            [n \in Names(DOMAIN kinds) |->
                LET k == CHOOSE k \in DOMAIN kinds : Renamed(k) = n
                IN  [kinds[k] EXCEPT !.after = Names(@), !.needs = Names(@)]]
    IN  WithNames(MCKinds)
MCKindOrder == <<"dataset", "clean-corpus", "bicleaner", "merge", "mono", "mergeMono",
                 "train-vocab", "train-backwards", "train-teacher", "evaluate", "student", "all">>

Data(p, n) == [provider |-> p, name |-> n]
Books == Data("opus", <<"Books", "/">>)
Url == Data("url", <<"https://", "storage.googleapis.com", "corpus">>)
LongName == Data("mtdata", <<"ELRC", "convention", "eng">>)
\* A name that is sanitized to that of Books.
Books2 == Data("opus", <<"Books", ":">>)
Flores == Data("flores", <<"devtest">>)
News == Data("news", <<"2020">>)

Settings == (<<"default-threshold">> :> "0.5") @@ (<<"marian-args">> :> "args")
            @@ (<<"teacher-mode">> :> "two-stage") @@ (<<"max-sentences">> :> "10")
Config ==
    [src |-> "ru", trg |-> "en", target |-> "all-pipeline", tasksFor |-> "action", ensemble |-> 1,
     datasets |-> ("train" :> {Books, Url}) @@ ("test" :> {Flores}) @@ ("mono-src" :> {News}),
     workerClasses |-> ("default" :> "gcp-spot"), settings |-> Settings]
\* A config with pretrained models.
From(kind, mode, urls) ==
    [Config EXCEPT !.ensemble = IF kind = "train-teacher" THEN Len(urls) ELSE 1,
                   !.settings = (PretrainedPath(kind) :> [mode |-> mode, urls |-> urls]) @@ @]

MCConfigs ==
    [plain |-> Config,
     longName |-> [Config EXCEPT !.datasets["train"] = {Books, LongName}],
     threshold |-> [Config EXCEPT !.settings = @ @@ (<<"thresholds", "opus">> :> "0.8")],
     ensemble |-> [Config EXCEPT !.ensemble = 2],
     teachers |-> [Config EXCEPT !.ensemble = 2, !.target = "train-teacher"],
     sameName |-> [Config EXCEPT !.datasets["train"] = {Books, Books2}],
     nightly |-> [Config EXCEPT !.workerClasses["default"] = "gcp-standard", !.tasksFor = "cron"],
     useTeacher |-> From("train-teacher", "use", <<"u">>),
     continueTeachers |-> From("train-teacher", "continue", <<"u", "v">>),
     useBackwards |-> From("train-backwards", "use", <<"u">>),
     initBackwards |-> From("train-backwards", "init", <<"u">>)]
Action(config, start, previous) ==
    [config |-> config, start |-> start, previous |-> previous, existing |-> {},
     headRepository |-> "mozilla", baseRepository |-> "mozilla", pullRequest |-> FALSE]
MCActions ==
    {Action(c, None, <<>>) : c \in DOMAIN MCConfigs}
    \cup {Action(c, start, <<1>>) : c \in {"plain", "ensemble"},
                                   start \in {"train-teacher", "train-student"}}
    \cup {Action("plain", "evaluate-teacher", <<1>>)}  \* a stage that useTeacher skips
    \cup {[Action("continueTeachers", None, <<>>) EXCEPT !.existing = {"train-teacher-ru-en-1"}],
          [Action("threshold", None, <<>>) EXCEPT !.existing =
              {t.label : t \in OfKind(Graph("plain"), "bicleaner")}]}
ASSUME MCKindsAssumption ==
    LabelsTell /\ DummiesForAll /\ OneCleaner /\ PretrainedInDigest
=============================================================================
