# Verification of the translations training pipeline and inference engine

This directory holds TLA+ models of the code of this repository, TLC
configurations that check them on small instances, and proofs checked by TLAPS.
Every definition is translated from the source; `PROJECT.json` names, for each
one, the lines it stands for.

## Inventory of the system

The repository trains machine translation models and ships the engine that runs
them. Five parts carry logic of their own.

| part | where | state it keeps | operations |
| --- | --- | --- | --- |
| inference engine | `inference/src/translator` | requests with a completion counter and histories, per-model length buckets, the monitor around them, a direct-mapped cache, worker threads | `translate`, `pivot`, `clear`, destructor, the worker loop |
| text structures of the engine | `inference/src/translator/{text_processor,annotation,html,xh_scanner,response}.cpp` | byte ranges of sentences and words, the spans of HTML markup | scanning, wrapping, annotation, markup removal and restoration, alignments over a pivot |
| training pipeline | `pipeline/` | files: corpora, vocabularies, checkpoints | download, import, clean, merge, shuffle, translate, filter, align, train, quantize, evaluate |
| orchestration | `taskcluster/` | the task graph, the index of cached tasks, artifacts of runs | transforms, the `train` action, resuming of interrupted training |
| tracking | `tracking/translations_parser`, the end of `pipeline/eval/eval.py` | the training under construction, publishers, the runs on Weights & Biases | log parsing, CSV and W&B publication, publication of finished groups and of archives |

How they interact: `taskcluster` builds a graph of tasks whose scripts are those
of `pipeline`; the tasks read and write artifacts, a task made before may stand in for a
new one, and a training task may be run several times and picks up what an earlier run
left. `tracking` reads the log of a training (live, through a pipe, or from the artifacts
of a finished group) and publishes it. The models that come out run in the inference
engine, where clients call an asynchronous service that shares its batches, threads and
cache among all requests; around each call the text is taken out of its markup, cut into
segments, and put together again.

What is hard, and what makes each part correct:

* **Asynchronous service**: clients, workers and callbacks interleave at every lock
  and atomic operation; the second half of a pivot is enqueued from a callback, at
  any time, also while the destructor runs. Correct means: each call is answered
  once, with the translation of its own text; nothing pending is forgotten; no
  worker sleeps on work; the destructor waits for the last answer.
* **Text structures of the engine**: sequential, with byte positions in five
  coordinate systems (markup, text, tokens, words, spans) that have to agree after every
  insertion. Correct means: the markup comes back whole and well formed around the
  translation, no text and no tag is lost, and alignments are distributions.
* **Task graph**: the digests of cached tasks say which task of another action may stand
  in for one of this action; data sets fan out and in by names and attributes. Correct
  means: a task that stands in was made from the same; every data set is used once; no
  dependency is lost.
* **Corpus of the student**: chunks are translated by tasks, and tokenized by processes,
  that end in any order. Correct means: each line keeps its own best translation and its
  own alignment.
* **Resumed training**: a run is killed at any time and a new one downloads what
  the old one uploaded, file by file, with failures between files. Correct means: a
  training that continues does so from one run, the newest it can have.
* **Streaming downloads**: connections break at any byte and are resumed by range
  requests. Correct means: the consumer sees the bytes of the file, once, in order, and
  takes no part of a file for the whole.
* **Corpus algorithms** (importing, shuffling, merging, deduplication): no concurrency,
  but boundaries: buffers at their limit, empty inputs, state reset on one path and not on
  another, both sides of a corpus staying aligned.
* **Training and its tracking**: `train.py` prepares the rows and the configuration that
  the trainer has to agree on; the trainer and the log parser share a pipe, and
  the end of one ends the other; the parser assembles validations from several lines in
  an order the trainer does not fix. Correct means: the rows are what the configuration
  says, no line is lost or used twice, and the task ends.
* **Tracking of evaluations and groups**: evaluation tasks run at once and are preempted,
  and an operator publishes their group from outside while they do; each finds the run of a
  metric by names that are put together in four ways, and all write one summary per group.
  Correct means: a metric is shown once, on the run of its model, and nothing that was
  computed is left out unnoticed.

The other parts (configuration generators, documentation, the Docker images,
snakemake profiles) are listed in `PROJECT.json` as not modelled, with the reason.

## Modules

| module | models | role |
| --- | --- | --- |
| `Batching` | `batching_pool.cpp`, `operator<` in `request.cpp` | the order of the sentences in the buckets and what one `generateBatch` takes, as operators |
| `AsyncService` | `service.cpp`, `request.cpp`, `cache.h`, the three batching pools | the service with its clients and workers, one action per critical section or atomic operation |
| `TranslationPromise` | the interface in `service.h` | the abstract specification: calls, answers, destructor |
| `AsyncService_proofs` | | the inductive invariants of the requests and of the whole service, their theorems, and that it keeps the safety of `TranslationPromise` |
| `MarkupScanner` | `xh_scanner.cpp` | the scanner, one operator per reader (`scanBody`, `scanTag`, ...) |
| `AnnotatedText` | `annotation.h`, `annotation.cpp` | texts with the boundaries of sentences and tokens |
| `TextProcessor` | `text_processor.cpp` | sentences, tokens and segments |
| `TranslationResponse` | `response_builder.cpp`, `response.cpp`, `quality_estimator.cpp` | the target text, words and chained alignments |
| `HtmlMarkup` | `html.cpp` | the class `HTML`: constructor and `restore()` |
| `EngineText` | the steps of `translate` and `pivot` around a model | composes the five above |
| `TaskTransforms` | `taskcluster/translations_taskgraph/{util,transforms}` | the transforms, as functions on jobs |
| `TaskGraph` | `actions/train.py`, `target_tasks.py`, the optimization by index | decisions, one after the other, and the index they share |
| `TaskGraph_proofs` | | the folds over the kinds, what the tasks of a graph are, the invariant of the decisions, and their theorems |
| `CorpusTranslation` | `pipeline/translate`, `pipeline/cefilter` | the scripts, as functions on files |
| `Alignments` | `pipeline/alignments` | tokenization, alignment, remapping, the shortlist |
| `StudentCorpus` | the tasks of these scripts, `tokenizer.py` and its pools, `build_dataset_tsv` | composes the two above: tasks and processes in any order |
| `StudentCorpus_proofs` | | lemmas about the scripts, the invariant of the artifacts and of the pools, and their theorems |
| `TrainingSetup` | `train.py` up to the start of the training | arguments, TSV files, the configuration of OpusTrainer, commands |
| `TrainingParser` | `parser.py`, `publishers.py`, `cli/taskcluster.py` of the tracking | the parser and its publishers, fed through a pipe |
| `TrainPipeline` | `run_training` in `train.py`, `command_runner.py` | composes the set-up, the trainer, the pipe and the parser |
| `TrainPipeline_proofs` | | the invariants of the parser and of the set-up, and their theorems |
| `TrainTaskcluster` | `train_taskcluster.py`, `train-taskcluster.sh`, the mounts of `training_continuation.py` | the runs of one training task, and what each resumes from |
| `TrainTaskcluster_proofs` | | the invariant of the search and its theorems |
| `ChunkStreamer` | `DownloadChunkStreamer` in `common/downloads.py` | a download that is broken and resumed, and the reads it serves |
| `LineShuffler` | `shuffle_with_max_lines` in `common/datasets.py` | shuffling with a ring of at most `max_lines` |
| `DownloadMono` | `download-mono.py`, `stream_download_to_file` and the remote line readers | composes the streamer, a decoder and the shuffler |
| `CorpusMerge` | `merge-corpus.py`, `merge-mono.py` | composes two uses of the shuffler with deduplication and truncation |
| `CorpusMerge_proofs` | | the invariant of the files and its theorems |
| `HpltDownloader` | `importers/mono/hplt.py` | documents to paragraphs, with filters, limit and statistics |
| `MonoImport` | `main` of `download-mono.py` | composes `DownloadMono` and `HpltDownloader` |
| `MonoImport_proofs` | | the invariants of the stream, of the paragraphs, of a download to a file and of the sample of one, and their theorems |
| `TaskLabels` | `tracking/translations_parser/utils.py` | names of tasks, models and runs, as functions on the parts of a label |
| `Evaluation` | `pipeline/eval/eval.py`, `wandb.py`, `WandB` in `publishers.py` | evaluation tasks and the runs they publish to |
| `GroupTracking` | `cli/taskcluster_group.py`, `cli/experiments.py`, `publish_group_logs` | composes evaluations with the scripts that publish a group |
| `GroupTracking_proofs` | | the invariants of the runs and of what a script listed, and their theorems |
| `MC...` | | instances for TLC |

Operators whose comment starts with "Slip:" are mistakes the code does not make: each
is a mutated form of the definition below it, and a property is shown to notice it.

### AsyncService

The state of the code and its counterpart in the model:

| code | variable |
| --- | --- |
| `Request::Id_`, `model_`, `segments_`, and who will get its response | `req` |
| where the thread is in `translateRaw` for a request | `stage` |
| the index of the loop in the constructor of `Request` | `cursor` |
| `histories_`, `counter_` | `histories`, `counter` |
| the calls of `responseBuilder_` and what they were given | `answers` |
| `requestId_`, the `records_` of the cache | `requestId`, `cache` |
| the `bucket_`s of all models, `maxActiveBucketLength_` | `pool`, `maxActive` |
| `aggregateQueue_`, `enqueued_`, `shutdown_` | the same names |
| program counter, batch, and current sentence of a worker | `pc`, `batch`, `current` |

Actions follow the atomic steps of the code: `Translate`/`Pivot` (a client enters,
`requestId_` is read), `Number` (it is written, and the constructor starts),
`Prefill` (one cache look-up), `RespondEarly`/`ReturnRequest` (end of the
constructor), `EnqueueRequest` (one critical section of the monitor), `Clear`,
`Shutdown`, `Destroy`, and for a worker `Wait`, `SpuriousWakeup`, `GenerateBatch`,
`Exit`, `ProcessHistory`, `Store`, `CountDown`, `RespondLast`, `EndBatch`. A response
may enter the callback of `pivot`, which makes a second request on the same thread;
the thread goes on with what it was doing only when that request was handed over
(`Idle`, `OnTop`).

The code is modelled as the default build makes it, with `NDEBUG`
(`inference/CMakeLists.txt`): an `assert` does nothing. The order of an
`unordered_set` and of addresses is nondeterministic. A translation is a function of
the model and the segment.

### EngineText and the modules below it

A text is a sequence of characters and a range a pair of offsets, as in the code. Four
modules hold pure functions; `EngineText` has the steps of one call in their order:
`ReadToken` (one turn of the loop in the constructor of `HTML`) or `ReadPlain`,
`Translate`, `TranslatePivot`, and `Deliver`, which restores the markup. What a model
answers, tokens and alignment, is chosen for each segment.

* `MarkupScanner`: the member `scanFun_` is a field, each reader an operator, `Next` one
  call of `next()`.
* `HtmlMarkup`: the locals and members of the constructor are a record `Html`, with one
  operator for each case of its loop. `Restore` runs `restoreSource`, the hard alignments, the
  taints of the target tokens (`Annotate`) and `restoreTarget` with its stragglers.
  Tags are indices in `pool`, as they are pointers in the code.
* `AnnotatedText`: `Annotation::apply` and `appendSentence` on two vectors of positions.
  Gaps get spaces, newlines or only their tags, as the target language says.
* `TranslationResponse`: rows of an alignment are whole parts of `Unit`, a number that
  every length of the instance divides, so that no rounding hides a lost part.

The sentence splitter and SentencePiece are not in the repository. A sentence ends at a
full stop or an empty line and a piece is a character with the space before it; three
vocabularies cut the same text differently (`pieces`, `long`, `lone`), which is what the
functions behind them can tell apart.

### TaskTransforms and TaskGraph

A kind is a record of what its `kind.yml` declares (edges, cache resources, parameters,
cleaning stage, worker types), and a job is the record that a transform receives;
`TaskTransforms` has one operator per transform of the repository. `TaskGraph` keeps what
outlives a decision: the tasks that were created, the groups and the index. `TrainAction`
is `train_action`, with `start-stage`, `previous_group_ids` and `existing_tasks`, when it gets
as far as the decision, and `TrainActionRaises` when it does not (`raised` is the action): its
pretrained models are refused, or it has a start stage with tasks (`StartRaises`, see "What does
not agree"). A start stage without `previous_group_ids` raises at once and is not among the
actions. `Decide`
generates the full graph kind by kind, selects the targets and their closure, replaces
what exists or what the index has, and creates the rest in the order of their
dependencies; `DecisionFails` is an exception in a transform, which `raised` keeps too.
`CompleteTask` runs a task and tells the index. A second action may come at any moment of the first, also when it
was only half run. The loader, the closure and the index are those of Taskgraph and are
external.

### CorpusTranslation, Alignments and StudentCorpus

A text is a sequence of words and a word a sequence of pieces; the numbers of lines and
chunks are small, but with ten chunks, so that the order by name is not the order by
number. Scripts that fail leave `Failed` and stop the tasks behind them. What Marian,
CTranslate2, eflomal, the scorer and `extract_lex` compute is given by functions of the
text alone (`Hypotheses`, `Score`, `AlignForward`), so a line that got mixed up with
another is visible. The alignment task and its pools of processes go from `StartAlignment` to
`FinishAlignment`: `WorkOnChunk` takes the chunks in any order, and `WriteResult` writes
their results in the order in which `Pool.imap` returns them.

### TrainTaskcluster

| code | variable |
| --- | --- |
| argument 13, `pretrained_model_mode` | `given`, `mode` |
| `RUN_ID`, `prev_run_id` | `run`, `prev` |
| the artifacts of the loop still to be fetched, and the one being written | `todo`, `file` |
| `model_dir`, per file a step of training and whether it is whole | `dir` |
| what Taskcluster keeps of earlier runs | `published` |
| exit status, and the last answer of Taskcluster | `exit`, `answer` |

A run publishes its directory when it ends, also when `Interrupt` takes the machine
away between any two steps, in the middle of a file included (`FetchArtifact` and
`WriteChunks` are two steps). `source` and `refused` record which run was resumed and
which were refused; no guard reads them. Training (`Save`) writes one file at a time and
is external.

### TrainingSetup, TrainingParser and TrainPipeline

`TrainingSetup` is the constructor and the first half of `main` in `train.py`: a prefix has
files for its sides, a row of a TSV is a sequence of fields `<<prefix, side, line>>`, so it
is visible when fields of one row come from different lines. Lines with an empty alignment
are dropped as the code drops them.

The log is a sequence of lines, of which only the kind, the position (epoch and update)
and the metric matter. `written`, `read` and `seen` are positions: written to the pipe,
taken from it, and parsed as data; between `seen` and `read` are the lines that
`itertools.tee` keeps for the second pass after the context was read from a copy of
the iterator. `PipeSize` bounds the pipe, so the trainer can be blocked by the parser
and is killed by `SIGPIPE` when the parser is gone. Without the tracking, `cat` stands in
the place of the parser (`LogParserCommand`). `CopyBest` is `check_call` with the status of
the last command of the shell pipeline.

### ChunkStreamer and DownloadMono

The generator `download_chunks` (`phase`, `retry`, `downloaded`, `next`) and the
`read()` that pulls it (`reader`, `size`, `buffer`) are one process in two parts: the
generator only moves while a read wants bytes. A connection may break before the
answer and after any chunk. Bytes are numbers, so what the consumer got is compared
with the file itself.

`DownloadMono` adds who reads: any caller of `read()`, `stream_download_to_file`, or the
readers of `read_lines` with their decoder, which asks for blocks of a size of its own, and
`shuffle_with_max_lines`. A location is what an importer and a server say of a file
(type, extension, true format, whether its size is given); `Decoder` chooses as
`get_remote_reader` does, and a decoder that meets another format raises. A decoder is
external: what it returns stands for the bytes of the file.

### HpltDownloader

A document is its verdict (score, language) and its lines; a paragraph is the sequence
of positions of its lines, so the text that is written can be traced to the stream.
`Write` is `_maybe_write_accumulated_text` and is part of every action that calls it.
Blank lines are kept (`Stripped`), because `strip()` in `WeakStringSet` makes texts
that end in them equal.

### LineShuffler and CorpusMerge

`shuffle_with_max_lines` samples by byte sizes with a seeded generator: the model lets
every line be sampled or not and every shuffle have any result, so what holds does not
depend on the seed. Its two loops over one parameter are kept: an iterator goes on in
the second loop and a list starts over (`isList`). `CorpusMerge` reads the data sets
through deduplication, shuffles and truncates them, writes them, and shuffles again for
the sample. `job` chooses between the two scripts, whose order of data sets differs:
`merge-corpus.py` sorts the list of `glob`, `merge-mono.py` does not. A line is a pair
of positions, one for each side, so a pair that was torn apart is visible. The files of
a data set are assumed to have the same number of lines on both sides, as the cleaning
writes them; nothing in the merge checks it.

### MonoImport

`main` of `download-mono.py` chooses by the name of the importer: `StartHplt` and `EndHplt`
bracket the steps of `HpltDownloader`, and every other data set takes the actions of
`DownloadMono`. One run therefore checks the streams, their consumers and the paragraphs.

### TaskLabels, Evaluation and GroupTracking

| code | counterpart |
| --- | --- |
| a label, as the groups of `TRAIN_LABEL_REGEX` and `EVAL_REGEX` | a record, with -1 for an index that is not there and `sep` for the `/` of `-1/2` |
| the project, name and suffix of a run, which are its id | `RunId` |
| what Weights & Biases keeps of a project | `runs`: by id, the group, the chart of each title, the trainings shown, the table as the set of its rows |
| where an evaluation is in `main`, and the rows it has read | `step`, `rows` |
| `groups_ids`, `training_tasks`, `metrics_tasks`, `existing_runs` | `todo`, `trainings`, `metrics`, `existing` |
| lines of the log that a run is not published | `reported` |

An evaluation scores (`Evaluate`), publishes its metric (`PublishMetric`), reads the table
of `group_logs` (`ReadSummary`) and writes it with one more row (`WriteSummary`); it may be
preempted between any two of these and starts over, with what it published still there.
The row it adds again is in the table twice, which the set of rows does not tell.
`wandb.init` with `resume="allow"` goes on with a run that exists (`Opened`) and a chart
replaces the one of its title (`Charted`); a run that was deleted in between takes no more
data. `eval.py` fails when it cannot open a run (`ClientFails`), the scripts go on
(`Refuse`), also when showing the metrics raises halfway (`PublishSome`).

`parse_tc_group` is `Start`, one `SkipGroup` or `PublishGroup` for each group in any order
(`groups_ids` is a set), `PublishTraining` for each training with the
evaluations that depend on it, in any order as the listings of Taskcluster come in pages,
`PublishMissing` for what is left, and `PublishSummary`, which makes `group_logs` anew.
Tasks are listed once per group, so an evaluation may end between the listing and the
summary. `parse_experiment_dir` is `StartArchive` and
`PublishArchived`. Of an archive the directories of a Taskcluster group are modelled, the
directory `speed` included; the logs of Snakemake evaluations are not.

## What the runs check

| run | what it shows | distinct states |
| --- | --- | --- |
| `async_workers` | no lost wake-up, nothing pending out of reach of `generateBatch`, the backlog counter is the number of pending sentences, the destructor drops no request | 1,294,842 |
| `async_cache` | with a cache of one record shared by both models and `clear()` at any moment: all of `IInv`, responses complete and unique | 161,729 |
| `async_promise` | the service implements `TranslationPromise`, its liveness included | 82,225 |
| `engine_text` | the source gets its own markup back; the translation is markup that the scanner accepts, has every tag of the document, and the translation between the tags; the annotations have no holes and segments fit a batch; chained alignments keep their mass | 20,152 |
| `task_graph` | a task from the index is made from the same all the way up; merges take every data set once; no dependency is lost, by the dummies of large groups neither | 35,330 |
| `student_corpus` | each line gets its own best translation, whatever order tasks end in; no chunk is forgotten; the filter drops the worst; each row of the training data has the links of its own line | 5,567 |
| `train_pipeline` | the rows fit the configuration and drop no line but the unaligned; training lines are used once although the iterator is copied; validations are assembled from interleaved lines; the task ends | 19,024 |
| `train_resume` | a training resumes from one run, the newest it can have; progress is not lost; the task ends | 114,941 |
| `mono_import` | the bytes of the file, once, in order, through breaks and reads of any size; a file is whole or the call raises; the monolingual sample is one of the whole file; every read returns; paragraphs of HPLT are contiguous and no accepted line is lost | 442,923 |
| `corpus_merge` | sides stay aligned, also in the sample; the result has no text twice | 202,518 |
| `tracking` | every metric is on the run of its model in the group of its task, whoever published it; what a script listed is published or reported | 236,912 |
| `group_logs_lost` | a disagreement, see below | |

### Bounds, and why they are enough

* Engine: two workers, two models, a short segment (one token) and a long one (two),
  batches of two words. Two workers are enough for every race on one request (the last
  two segments, store against look-up, end against enqueue); two models for the erasure
  of a model from the aggregate queue while another has work; two requests make a
  pivot, three a pivot that competes with a plain request. `SizeMod` (16) stands for
  2^64: large enough that only the underflow after `clear()` wraps. The symmetry of
  threads is used for safety runs only.
* Text: documents of a text, one of fourteen pieces of markup and a text, also inside an
  element; two elements of a kind around a sentence break; and some thirty documents that
  are not well formed or use attributes and entities. Segments of at most three tokens
  including EOS, so that sentences are below, at and above the break; answers of one or
  two tokens, aligned in order or crossing. That is each case of the constructor with each
  case of its neighbour, and stragglers before, between and behind tokens.
* Task graph: twelve kinds, among them every form of edge, eleven configs that differ in
  one thing each (a data set, a long name, two names that are sanitized to one, a
  threshold, the ensemble, pretrained models, the kind of decision, the last stage), and any
  two train actions, the second also with a start stage or existing tasks. Two
  decisions are enough for a stale task: one makes it and one takes it. `MaxDependencies`
  is 2, so that the dummies overflow.
* Corpus of the student: seven corpora of two to ten lines in two to ten chunks; an
  ensemble and a single model, both decoders, both tokenizations, an override of the beam;
  a line that is translated to nothing. Tasks of a kind run at most `MaxAhead` (1) before an
  earlier chunk's, because chunks do not share state and the order only shows when they are
  collected.
* Resuming: three runs (one that is resumed, one that may be skipped, one that resumes),
  two files beside the vocabulary and the final model, two saves, all four modes.
* Download (`mono_import`): six bytes in four lines (one blank, the last without newline) in chunks of at
  most two, three attempts, reads of one to three bytes and of everything: reads below, at
  and above a chunk, and breaks at every byte. Samples of two, four and five lines: below,
  at and above the number of lines. Six locations: right, without a size, with a
  format the server or the extension misstates.
* Pipeline: ten calls of `train.py` (the four kinds of training, and calls that lack a mode,
  a data set, an alignment or a vocabulary), six logs (see `MCTrainPipeline`), two metrics, a
  pipe of two lines, so that either side blocks.
* HPLT (`mono_import`): every document of up to three lines of six kinds, followed by every one of up
  to two lines, or by a filtered document and the same lines again; paragraphs of up to
  three characters and limits of two and three.
* Merging: three data sets of zero to three lines with repeated lines, sources and a
  tab; no limit, a limit below the number of lines and one at it; a sample of two.
* Tracking: a group with two teachers, an ensemble and a lost artifact, a second group that
  starts from these teachers (student, fine-tuned and quantized model), and a group of
  continuous integration without a configuration. One evaluation that publishes itself and
  one whose group has the publication switched off are still to run; one preemption,
  one fault (a refused log or run, a publication that breaks off, or a request that raises), two
  calls of the scripts. Two calls are enough for a second publication over the first and for one after a crash.
  `group_logs_lost` has two evaluations of one group and no call.

### Fairness

* `async_promise`: weak fairness of every thread that can take a step in the making of
  a request or in the worker loop, and of the join in the destructor: the operating
  system runs every runnable thread. Clients are not obliged to call, and the condition
  variable does not wake anybody without a notification.
* `train_resume`: weak fairness of the program of a run and of the queue (`Main`);
  interruptions may come or not, at most `MaxRun` of them as Taskcluster bounds the
  retries.
* `mono_import`: weak fairness of the generator and of who waits for it, one thread; that a
  connection may also break is not fair, and the attempts are bounded by the code.
* `train_pipeline`: weak fairness of `train.py` (`Prepare`, `CopyBest`), the trainer and
  the parser, three processes; a crash and a save of the best model are never obliged to
  happen.

The other runs state safety only: their systems are sequential or may stop at any time.

## What is proved

Each theorem holds for every value of the constants that the assumptions of its module
allow. Where it needs more than these, its statement says so, and this is what the code
or the configurations beside it justify:

| theorem | says | needs |
| --- | --- | --- |
| `AsyncService_proofs!TypeCorrect`, `Inductive`, `EveryResponseComplete`, `AtMostOneResponse`, `CounterCounts`, `NoSentenceLost`, `NoWorkerSleepsOnWork` | types and `IInv`; `ResponseComplete`, `OneResponse`, `CounterExact`, `SentencesPlaced`, `NoLostWakeup` | no collision of cache keys (`HashAssumption`) |
| `AsyncService_proofs!ServiceInvariant`, `BacklogIsExact`, `NoSentenceStranded`, `DestructorAnswersAll` | `SInv`; `BacklogExact`, `NoStrandedSentence`, `DestroyedAnswered` | no `clear()`; a worker; segments that fit a batch; a backlog that fits `size_t` |
| `AsyncService_proofs!PromiseKept` | every step is one of `TranslationPromise` or a stutter | the same |
| `TrainTaskcluster_proofs!ResumeInvariant`, `ResumedWhole`, `ResumedFromNewest`, `TrainingKeepsStep` | `IInv`; `ResumedFromOneRun`, `NewestTaken`, and the action property `NoStepBack` | nothing |
| `TrainPipeline_proofs!TrainingLinesParsed` | `EveryTrainingLine` | nothing |
| `TrainPipeline_proofs!ValidationsPublished` | `ValidationAssembled` | metrics in rounds (`InRounds`) |
| `TrainPipeline_proofs!RowsFitConfig` | `RowsForTrainer` | `TasksAgree` |
| `CorpusMerge_proofs!CorpusAligned`, `NoTextTwice` | `PairsAligned`, `OutputDistinct` | nothing |
| `MonoImport_proofs!StreamInOrder`, `ImportInOrder` | `BytesInOrder`, of the stream and under its consumers | a server that honours `Range` |
| `MonoImport_proofs!FileIsWhole`, `SampleIsOfFile` | `DownloadWhole`, `SampleOfFile` | the same |
| `MonoImport_proofs!RunsOnly`, `NoLineLost` | `ParagraphsContiguous`, `NothingLost` | nothing |
| `StudentCorpus_proofs!ArtifactsAlwaysRight`, `BestIsOfItsLine`, `NothingIsLeftOut`, `WorstAreLeftOut`, `LinksAreOfTheirLine` | `CorpusInv`; `BestOfItsLine`, `NothingLeftOut`, `WorstLeftOut`, `LinksOfTheirLine` | nothing |
| `TaskGraph_proofs!TasksAreRight` | the invariant `Right` of tasks, groups and ids | nothing |
| `TaskGraph_proofs!DecisionsAreWhole` | `NothingDangling` | `DummiesForAll` |
| `TaskGraph_proofs!CachedTasksAreTheSame` | `CachedIsSame` | `LabelsTell`, `PretrainedInDigest` |
| `TaskGraph_proofs!DatasetsAreMergedOnce` | `DatasetsOnce` | `OneCleaner` |
| `GroupTracking_proofs!MetricsWhereTheyBelong` | `MetricsInPlace` | `EvaluationsDepend`, `ArchivesAgree` |
| `GroupTracking_proofs!NothingListedIsLost` | `NothingSilentlyLost` | `EvaluationsDiffer`, `ArchivesAgree`, `MetricsTogether` |

### The service

`ResponseComplete` and `OneResponse` are not inductive. The invariant `IInv` adds
what they rest on: the histories of a request are translations of its own segments
(`HistoriesRight`), also when they come from the cache (`CacheRight`); the counter
is the number of segments whose completion was not counted (`CounterExact`), which
needs that every sentence is in one place (`SentencesPlaced`, `BatchUsed`), that two
workers never process one segment and that the one at 0 is alone (`CurrentRight`);
and a request was answered only at counter 0 (`AnsweredOnce`). One lemma per action
shows that it is preserved; `RespondStep` carries the two callers of
`responseBuilder_`. TLC checks the same `IInv` in `async_cache`. `IInv` holds with
`clear()` at any moment.

`SInv` is `IInv` with four parts more, which hold only as long as no client calls `clear()`:

* `Backlog`: `enqueued_` is the number of sentences in the pools, and each of them is in the
  pool of a model that the aggregate queue has. A model is erased from the queue when it
  gave no batch, so it must be shown that a pool with sentences gives one
  (`FirstExists`: the order of the sentences has a first one; it fits by `SegmentsFit`).
* `Pairing`: the two requests of a `pivot()` belong to each other, and the second has the
  text that the first was answered with. The refinement mapping needs it to say which
  call an answer is for.
* `Control`: a request in the making has a thread, and a worker is one only inside its
  callback (`MakersKnown`); a request without an answer has something to count down, or
  the worker that counted it to 0 is about to respond (`ResponseDue`); a worker ends only
  after `shutdown()`, and the last one leaves nothing behind (`WorkersEnd`).
  `DestructorAnswersAll` follows: when all have ended, no pool, no batch and no callback
  is left, so nothing can be due.

The hypotheses are needed. After `clear()` the counter does not count the pools. The
constructor of the service aborts without workers (`service.cpp:138`), and a destructor that
joins nobody would return at once. `BatchingPool` aborts when `max-length-break` exceeds
`mini-batch-words` (`batching_pool.cpp:19`), which justifies `SegmentsFit` for texts that are
wrapped; the second text of a pivot is not, and the first item under "What does not agree"
is exactly this hypothesis failing. `BacklogFits(n)`: all the segments there can be are
fewer than the values of `size_t`, or the counter would be 0 with work in the pools.
Every instance that has no `clear()` satisfies all four.

`PromiseKept` is the safety half of the property `Promise` of the run `async_promise`: the
initial states map to an initial state, and each action to a call, an answer, the
destructor or a stutter. The fairness of `TranslationPromise` is left to TLC.

### Resuming

The invariant follows the loop: every run above the candidate is incomplete or was refused
(`SearchState`); of the candidate, each file that was fetched is in the directory as it was
published, whatever a download that was given up left there (`DownloadState`,
`WriteState`); at the start of the training this holds for all files it needs
(`LaunchState`). `NoStepBack` then compares two states: a launch takes files of a run that
was not passed over.

### The pipeline

`EveryTrainingLine` needs the positions in the log to be ordered, `seen <= read <= written`,
with nothing published while the context is still read (`Positions`): then the lines
taken are the training lines among the first `seen` of the log (`Trained`).

`ValidationAssembled` needs to know what the entry of an update holds when some metrics of
it were reported: those reported once more than the validation was published
(`Assembled`). This is only so when metrics come in rounds (`InRounds`), as Marian reports
all metrics of a validation before the next; a log in which one comes twice before
another loses the first.

`RowsForTrainer` is about the set-up: each TSV is that of the data set at its place, joined
with the alignments at that place (`Built`), and the configuration was filled in for the
same task. `TasksAgree` says what the kinds `train-*` pass: teachers and students have the
alignments of their data sets in the same order, other models have none. With another
order the rows would be joined with the wrong alignments; `train.py` does not check it.

### Corpora and downloads

`MergeInv` holds for what is kept, for the ring of the shuffler and for the output: lines
with both sides of one position, no text twice, and for monolingual data none of the
parallel corpus; the sample is drawn from the output (`SampleInv`). That a line put into the ring
is a new one rests on `Ring`: all that is in the ring comes from before the position of the iterator, which does not start over here (the
sample of `merge-mono.py`, which does, is a file of its own).

`StreamInv` says that what was returned and buffered is the file up to `downloaded_bytes`,
and that the open response goes on there; that a chunk continues the file and that a read
splits the buffer are lemmas about sequences. `FileInv` adds that a stream which is over
has yielded every byte. `HpltInv` says that the text gathered ends at the line before the
next (`Gathered`), is empty where no line can be added (`LeftOver`), that the texts in
`strings_seen` were written (`Outputs`), and that each line that was accepted is gathered or
its text was written (`AllKept`).

`SampleInv` is `FileInv` with three parts for `download-mono.py`. `Reading`: a generator
that is gone while nobody raised has yielded the file, and an empty answer means that the
buffer is empty too, so end of file is the end of the file. `Decoded`: the decoder gave the
lines of what was returned. `Sampling`: the lines in the ring differ and come from before the
position of the iterator, which leaves the first loop with `max_lines` lines or with all of
the file. The lines themselves are stated by their ends (`LineEnds`, `EndOf`), so that the
lemmas `LinesAgree` (more bytes leave whole lines what they are) and `LinesDiffer` need only
counting (`CountNext`, `CountReaches`). The attempt to prove this showed that the model was wrong about
a `read()` of a generator that is gone: it ended the file without the last line, when that
has no newline. `ReadBlock` now decodes it.

### The corpus of the student

The four properties speak of the end of a chain of tasks, so the invariant, `CorpusInv`, says
for each task that completed what its artifacts are (`AllRight`): the parts of a split put
together are the file (`PartsGive`), an n-best file has the hypotheses of its lines in their
order, the best of a part are those of its lines, the collected file has one line for each
line of the corpus, the scores are those of the merged lines, and so on to the links. It adds
that the inputs stay where they are (`Given`), that no task of a chunk takes a part that a
split did not make (`OnlyParts`), and of the pool that the results written so far are a
beginning of the results of the whole file, in its order, whichever process is done with what
(`PoolRight`, `PoolInOrder`). A step writes only artifacts of its own task, so most conjuncts
survive it unread (`KeepsOthers`); each task then needs one lemma about its script. These
lemmas are where the work is: the cut of a file into parts gives the file back for any
number of parts (`splitter.py`, `_read_file_in_chunks`, `split --lines`); the reader of
n-best lists consumes exactly the group of each line; sorting by a key is a permutation,
stable, in order of the key; the cut of `ce-filter.sh` drops at most its percentage; and
`map_indices` finds the word of every token, so that `remap_line` never raises `KeyError`.
What a fold computes is shown by the least input on which it would compute something else
(`Smallest`), which takes the place of the induction theorems.

`CorpusAssumption` is about constants only, and TLC evaluates it. A share to remove is a percentage;
a decoder has at least as many hypotheses as the beam asks for; and the tokens of ICU are put
out as they are (every `alignments-*` kind gives `--output_tokenized` beside `--tokenization=icu`),
because with words joined by its own mark for spaces the tokens of a line do not spell the
words of the line and remapping would raise. The proof led to two changes of the model: sorting
is stated by ranks, as a chain of `CHOOSE` could not be reasoned about, and a file is published
under its own name in every task, where one was a function union that kept an old value.

### The task graph

Everything a decision computes is a fold over the kinds: the graph (`Load`), the closure of the
targets, the replacements, the order of creation, what the tasks make. `FoldLeft` is recursive
and no induction theorem can be used, so each fold is shown to be a *run*, a function on
`0 .. n` whose value at a place comes from the one before by a step (`FoldExists`, `LoadRuns`,
`TargetRuns`, ...), and what holds for a run at every place is shown by the first place at which
it would not (`Smallest`, `Upwards`). Out of these come the lemmas about a graph: each of its
tasks is one of those that its kind adds to the kinds before (`TaskIs`), one label is of one
task, a task depends on tasks of earlier kinds, the closure of the targets is closed
(`TargetsClosed`), and an order of creation has the labels to be created, each once, after
those it depends on (`OrderIs`).

`Right` is the inductive invariant: a task that was created is one of the graph of its config
and depends on earlier tasks with the labels that this graph asks for (`TaskRight`); the ids of
a group are those of its target graph, and each is of a task with its label; so are those
handed to the decision under way (`Gives`). No hypothesis is needed: a task taken from another
group is found by its label. The three properties then take these steps.

* `NothingDangling`: the first two parts follow from `Right`. For the dummies it is shown that
  the parts cut off for each dummy are all of the sequence, for any `MaxDependencies`.
* `CachedIsSame`: tasks of one label and digest make the same, in whatever two graphs they are
  (`SameDigestSameResult`), by induction over the kinds: the digest has the command, the
  parameters and the digests of the parents, and the models that are mounted are one of the
  parameters. `MadeRight` adds that, until a decision takes tasks over by label, every task
  makes what it would in its own graph.
* `DatasetsOnce` is about the graphs alone (`MergesOnce`): a kind that cleans has one task for
  each data set (`CleanersTasks`), and upstreams are selected by the way of cleaning, which is that of
  one kind.

The hypotheses are about the kinds of the repository, and TLC evaluates all of them on the
instance in each run of `task_graph` (`MCKindsAssumption`). `DummiesForAll`: the two kinds with
`dependency_dummies` have a single job (`all-pipeline`, `all-pr-pipeline`); one job for each data
set would leave the others out. `OneCleaner`: `merge-corpus`, `merge-devset` and `merge-mono`
name one kind for each way of cleaning among their `kind-dependencies`, which is expanded over
the data sets and leaves no pair of languages out (no `kind.yml` has `exclude-locales`).
`PretrainedInDigest`: `train-teacher` and `train-backwards` have the pretrained models among their
`from-parameters` (`train-teacher/kind.yml:80`, `train-backwards/kind.yml:42`); the mounts are
not in the digest otherwise. `LabelsTell`: the name of a
data set, as cleaned for a label, with a hash where it was shortened, belongs to one data set
(names that are cleaned to the same one make a decision fail, which the model has; across two
decisions nothing compares them).

The proofs changed the model where it could not be reasoned about or said too little: a missing
category of data sets and two tasks of one label raise, as `datasets[category]` and the
loader do; `pretrained-models` is read from the parameters, like every other value of a
digest; `dict.update` is stated key by key; and a folded step is an operator of its own.

### The tracking

`TrackingInv` is about every run at once: a run has the suffix of its group, its charts are
of evaluations of that group under their titles, of the model that the run is named for
(`RunsRight`), and so are the rows of a table, the rows an evaluation has read (`RowsRight`)
and what a script has still to publish (`ScriptRight`). A run is opened, resumed, deleted,
republished and written to by an evaluation that read it long before, and each of these
keeps it. What makes different names agree is in `MetricsAgree`: the model and the title are
the same whether a metric is made from a label, a tag, the name of a file or an archive.
What `publish_group_logs` takes of tasks or of an archive is for runs that may show it
(`FilesRight`).

`ListedRight` adds, for each evaluation that was listed, that its run was reported, or shows
it, or that it is still to be published (`Left`). The third goes away with
`publish_group_logs`, where each of these has a file of its model (`LeftHasFile`), and no
later step takes a shown metric away: the titles of a run belong to one evaluation each
(`ShownCharted`), deletion is of the group that is listed next, and the summary is a run of
its own name.

The hypotheses are about tasks and archives, and TLC evaluates them on the instance
(`MCGroupsAssumption`). `EvaluationsDepend`: an evaluation depends on the training of its
group whose name is its model's, as the kinds `evaluate*` say. `EvaluationsDiffer`: a group
evaluates a model once on a data set, which is what the labels of the kinds amount to; a
second one would take the chart of the first. `ArchivesAgree`: a directory of an archive has
the log and the metrics of tasks of its group. `MetricsTogether`: the metrics of a model
with a log are in one directory. `parse_experiment_dir` publishes the directories with a
log and leaves the runs it published out of `publish_group_logs`, so metrics of such a model
in a second directory would be dropped without a word.

### What is only model-checked

* Liveness: the fairness of `Promise`, `TaskEnds` of the trainings and of the resuming, and
  `ReadReturns`. tlapm proves neither fairness nor `ENABLED`.
* `EngineText` rests on recursive operators (the scanner of markup), which are outside of
  what tlapm can reason about.
* `SummaryComplete` is false, as `group_logs_lost` shows. That a recursive lookup finds every
  group a training rests on is not stated: the theorems hold for whatever groups it finds.
* That labels tell tasks apart (`LabelsTell`): a label is a string put together from names, about
  which the provers know nothing. It is a hypothesis of the proofs and checked on the instance.
* `IInv` of a run with `clear()` is proved; what `clear()` leaves of the promise is only
  described (see below).

## What does not agree

One run finds a disagreement: `group_logs_lost`. `eval.py:368` reads the rows of the table
of `group_logs`, appends its own and publishes the table; the evaluations of a group run at
the same time, and when two read before either has written, the row of one is lost.
`tracking.md:140` says that the table is a summary of all evaluation metrics.

Other disagreements were seen while modelling. The models behave as the code does; where
a property would not hold, its comment names the exception or the instance leaves it out
as said here.

Engine:

* A sentence of a pivot is tokenized again without a length break
  (`processFromAnnotation`); one longer than `mini-batch-words` fits no batch
  (`batching_pool.cpp:47`) and is never translated, against `threadsafe_batching_pool.h:50`
  ("all enqueued requests will be processed"). The instances have no such segment.
* `requestId_++` is applied to a plain `size_t` by several threads, so ids are not
  unique (`service.cpp:218` against `service.h:136` and `translation_model.h:66`).
* `clear()` forgets which models have work but keeps their buckets, and zeroes
  `enqueued_`, which then wraps around below zero; a worker may end after `clear()`
  and a shutdown while another still holds sentences (`threadsafe_batching_pool.cpp:51`,
  `aggregate_batching_pool.cpp:33`).
* The callback of `pivot` enqueues after `shutdown()`, where an assertion of the pool
  says that nothing does.
* Sentences of one length are ordered by the address of their request, not by its id,
  and the aggregate queue, said to be in order of arrival, is an `unordered_set`.
* Between sentences of a language without spaces only the tags of a gap are kept
  (`annotation.cpp:72`); the data of a copied element, as in `<code>x</code>`, is lost.
  The documents with these languages have no such gap.
* An attribute value without quotes at the end of the input makes `scanAttribute` run for
  ever, although its comment promises the end token; the scanner returns `endless` there.
* A token that is only a space inserted by the vocabulary and lies in the span of a void
  or copied tag duplicates the tag and can pull the next word into a copied element
  (vocabulary `lone`; `TextKept` excludes it).
* An attribute value in single quotes that has a double quote comes out unescaped.
* `mapWords` makes an empty first word when the first piece begins with a space.
* `wrap` never ends for `max-length-break` 1, hence `MaxLengthAssumption`.
* In the WebAssembly bindings the target language is registered at the source of a
  response too.

Training tasks:

* A run that cannot resume starts over with the files of the runs that were refused still in its
  directory (`train_taskcluster.py:99-117` removes nothing, `ResumedFromOneRun` speaks of resumed
  trainings only), where Marian looks for a checkpoint.
* A run interrupted in its last download publishes all names, one of them truncated, and
  the next run resumes from it (`train_taskcluster.py:80` against `:120`).
* The status of the training is lost in the shell pipeline, which has no `pipefail`
  (`command_runner.py:97` against its docstring, `:54`); the best model of a failed training
  is published as the final one.
* `train-backwards` gives `retry-exit-status` twice, `[17]` and `[128]`
  (`kind.yml:70` and `86`); YAML keeps the last. A refusal with status 500, and an
  exception of the request, are not retried with 17 at all (`train_taskcluster.py:105`).
* A teacher that is to be `finetune`d has no training configuration
  (`configs/training/teacher.finetune.yml`), so Marian cannot start.
* `generic_log` removes `up` from the entry that `CSVExport` writes later
  (`publishers.py:183`): the column is empty whenever W&B is on.

* In every mode but the normal one `training_continuation.py:80` drops the dependency on the
  vocabulary, and mode `init` mounts the best model only, so `train.py:210` refuses to start;
  `using-pretrained-models.md:74` says that the training starts from the given weights.

Tracking:

* After `parse_tc_group` the table of `group_logs` has only the metrics that belong to no
  published training, and the rows of the evaluations themselves are gone: its run is made
  without `resume` (`publishers.py:376`).
* The search for an earlier `group_logs` (`publishers.py:248`) has no suffix, and all
  runs have one, so it finds none (`SummaryExists`).
* `experiments.py:176` compares the mode with `ExperimentMode.SNAKEMAKE.value`, a string, so
  `snakemake` is always `False`, and metrics of Snakemake experiments are read from the
  models directory as well, against `publishers.py:274`.
* A directory `speed` of an archive gives a run `speed` beside `quantized`
  (`publishers.py:264` and `321`), hence the exception in `MetricsInPlace`.
* An evaluation fails when Weights & Biases cannot be reached, after its scores are written
  (`eval.py:359`); a training goes on without it.
* With `COMET_SKIP` the score is the text `skipped`, which `metric_from_tc_context`
  repeats a hundred times.
* Of a group found before, `list_dependent_group_ids` follows no other task: groups that only
  such a task leads to are not published.

Task graph:

* With several pretrained URLs and an ensemble every member mounts the first URL.
* `train.py:482` inverts the ancestors of the start stage with
  `{v: k for k, v in get_ancestors(start_task_ids)}`. As the comment above it says, `get_ancestors`
  gives a mapping of ids to labels as of taskgraph 13, which `pyproject.toml:47` and `:66` ask
  for. Without `.items()` the comprehension runs over its keys, ids of 22 characters, and raises
  `ValueError`. Every created task has an ancestor, its decision at least, so each action with a
  start stage that has tasks in the groups it is given fails (`TrainActionRaises`), and one with a
  start stage that has none takes nothing over; `task-cluster.md:113` describes the stage being run
  with everything upstream of it replaced. What an action takes over by label is therefore only
  what `existing_tasks` names.
* The kinds `alignments-original` and `alignments-backtranslated` are both of the stage
  `alignments-teacher` (`kind.yml:26` and `:27`), and the second depends on the first. With
  `start-stage: alignments-teacher` the first is therefore an ancestor of a task of the stage:
  with the mapping inverted as its comment means it, it would be taken over from the earlier
  group, although `task-cluster.md:113` says that the stage itself and all tasks after it are run.
* After an action with `existing_tasks`, new tasks are indexed under digests of upstream
  tasks that they did not use (`task-cluster.md:115`, of start stages); `CachedIsSame` speaks
  of the decisions before.
* The loop over the data sets in `target_tasks.py` decides nothing;
  `deep_setdefault` overwrites scalars that were given with defaults; a start stage that is
  in the full graph but was not scheduled ends in a `KeyError`.

Corpora:

* `get_beam_size` returns the string of the command line, so the check of the number of
  n-best lines fails for Marian with `--beam-size` (`translate.py:244`).
* Few lines make fewer chunks than `split-chunks` (five lines in four parts are three), and
  the translation of the others finds no artifact; `ce-filter.sh` with fewer than twenty
  lines passes an empty number to `tail`.
* An empty reference divides by zero for BLEU in `extract_best.py`; `" ||| "` in a
  translation cuts it; a word that `map_indices` does not find takes all later tokens;
  `prune_shortlist` prints duplicates; the size of a chunk of `tokenizer.py` is in bytes,
  against its name.
* `merge-mono.py:156` gives the shuffler a list: the second loop starts over
  (`datasets.py:147`), and the sample has lines twice.
* `final_truncated.kept` counts the lines that were skipped for a tab
  (`merge-corpus.py:99`), and `FilteringStep.update_derived_data` computes `visited` once.
* A server that ignores `Range` and answers 200 makes the stream repeat its beginning
  (`downloads.py:283`); `HonoursRange = FALSE` in `ChunkStreamer` shows it.
* A file without `Content-Length` ends in a division by zero at the first line past the
  limit; with one, the size of the compressed file is compared with bytes of lines that
  are not, which biases the sample. Reading a local zip passes an `encoding` that
  `ZipFile.open` does not take.
* `--hplt_merge_lines` has `type=bool`, so that any text, `False` too, turns it on
  (`download-mono.py`).

## Not modelled

Beam search and the neural network, the arithmetic of the quality scores, memory
management, the blocking service and the WebAssembly bindings, and the exceptions of the
engine, which end the process. Hash collisions of cache keys, of digests and of
`WeakStringSet` are excluded by assumption. What Taskcluster, Taskgraph, W&B, Marian,
CTranslate2, eflomal and OpusTrainer do is external and reduced to how the code uses it.

Of the tracking, `publish_group_logs` stops between two runs only before the first or after the
last of them (`PublishMissing` is one step), and `handle_metrics` is not in the pipeline of a
training, whose parser is given no metrics.

The cleaning scripts, the Bicleaner scripts and quantization are commands in a
fixed order over whole files, one line at a time, and keep no state that a model could get
wrong. The configuration generator, the preflight check, the search of corpora and the
tools for operators are interactive reports over remote catalogues: pure I/O. The
snakemake pipeline is kept in the repository for reference. Each is listed in
`PROJECT.json`.

## Plan

Done, in this order: the engine (state, runs, proofs), resuming, downloads, the training
pipeline with its parser and its set-up, the HPLT importer, merging and shuffling, the text
structures of the engine, the task graph, the corpus of the student, the consumers of
downloads, and the tracking of evaluations and groups. Models that could still be added:
`BlockingService` as a second refinement of `TranslationPromise`, the conversion of Chinese
in `download-mono.py`, the scores of Snakemake experiments.

Proofs done: the requests of the service, its pools and threads with the safety of the
refinement, resuming, the parser and the set-up of a training, merging, downloads, the HPLT
importer and the monolingual sample, the corpus of the student, the decisions of the
task graph, and the tracking of groups. What could still be proved: lemmas on the ranges of
`AnnotatedText`, and the properties of `EngineText` for markup of any length, if its scanner
were stated without recursive operators.
