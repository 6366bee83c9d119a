--------------------------- MODULE TrainingParser ---------------------------
(***************************************************************************)
(* TrainingParser and its publishers (tracking/translations_parser), fed   *)
(* through a pipe with the log of a training.  The log is a sequence of    *)
(* lines; written, read and seen are positions in it: what the trainer     *)
(* wrote, what the parser took from the pipe, and what it parsed for data. *)
(* The lines between seen and read are those tee() keeps: the context is   *)
(* read from a copy of the iterator, and read again as data.               *)
(***************************************************************************)
EXTENDS Integers, FiniteSets, Sequences, SequencesExt

CONSTANTS
    Logs,         \* the logs a training may write
    Metrics,      \* the metrics of a ValidationEpoch
    WandBGiven,   \* whether a WandB publisher comes after CSVExport
    DatasetsKnown \* whether the context holds the sizes of the datasets

VARIABLES
    log,         \* the log of this training
    written,     \* lines the trainer wrote into the pipe
    closed,      \* whether the trainer closed its end
    parser,      \* control of the parser
    read,        \* lines taken from the pipe (and echoed)
    seen,        \* lines parse_data went through
    training,    \* self.training
    entries,     \* _validation_entries
    validation,  \* self.validation
    wandb,       \* WandB.wandb: "none" or "run"
    logged,      \* the steps handed to W&B
    csv,         \* rows of training.csv, <<>> before publish()
    status       \* exit status of the process, -1 while it runs

parserVars == <<parser, read, seen, training, entries, validation, wandb, logged, csv, status>>

Kinds  == {"other", "marian", "config", "created", "train", "valid"}
\* A line of the log; up stands for the pair of epoch and update that identifies an entry.
Line   == [kind : Kinds, up : Nat, key : Metrics \cup {"unknown"}]

ASSUME ParserAssumption ==
    /\ \A l \in Logs : l \in Seq(Line)
    /\ Metrics # {}
    /\ WandBGiven \in BOOLEAN /\ DatasetsKnown \in BOOLEAN

ParserInit ==
    /\ read = 0 /\ seen = 0
    /\ training = <<>> /\ entries = <<>> /\ validation = <<>>
    /\ wandb = "none" /\ logged = <<>> /\ csv = <<>> /\ status = -1

-----------------------------------------------------------------------------
\* boot() raised: main() exits with 0 outside of CI, so that training goes on, and with 1
\* in CI or when the group of the task cannot be read.
Die == parser' = "exited" /\ status' \in {0, 1}

\* The publishers are made, and with --publish-group-logs the group is read and published:
\* calls to Taskcluster and to W&B.
Boot ==
    /\ parser = "boot"
    /\ \/ parser' = "header" /\ UNCHANGED status
       \/ Die
    /\ UNCHANGED <<read, seen, training, entries, validation, wandb, logged, csv>>

-----------------------------------------------------------------------------
HasLine == read < written
AtEnd   == read = written /\ closed

(* parse_marian_context, on a copy of the iterator.                        *)

\* A step of the context that takes the next line; its kind decides where to go on.
TakeContext(phase, next) ==
    /\ parser = phase /\ HasLine
    /\ read' = read + 1
    /\ parser' = next[log[read + 1].kind]
    /\ UNCHANGED <<seen, training, entries, validation, wandb, logged, csv, status>>

ReadHeader ==
    TakeContext("header", [k \in Kinds |-> IF k = "marian" THEN "description" ELSE "header"])

ReadDescription ==
    TakeContext("description",
        [k \in Kinds |-> IF k \in {"config", "created"} THEN k ELSE "description"])

\* "Model is being created" has a config header and ends the configuration.
ReadConfig ==
    TakeContext("config", [k \in Kinds |-> IF k \in {"config", "created"} THEN k ELSE "open"])

SkipCreated == TakeContext("created", [k \in Kinds |-> "open"])

\* Slip: the end of the log is ignored while the context is looked for.
NoContextLoops ==
    /\ parser \in {"header", "description", "config", "created"} /\ AtEnd
    /\ UNCHANGED parserVars

\* The log ends inside the context: an error, but for the for loop over the description.
NoContext ==
    /\ parser \in {"header", "description", "config", "created"} /\ AtEnd
    /\ IF parser = "description" THEN parser' = "open" /\ UNCHANGED status ELSE Die
    /\ UNCHANGED <<read, seen, training, entries, validation, wandb, logged, csv>>

-----------------------------------------------------------------------------
(* publisher.open for all publishers: wandb.init may fail, which is caught; logging the *)
(* sizes of the datasets to a run that is not there is not.                *)
Open ==
    /\ parser = "open"
    /\ \E ok \in IF WandBGiven THEN BOOLEAN ELSE {FALSE} :
          /\ wandb' = IF ok THEN "run" ELSE "none"
          /\ IF WandBGiven /\ ~ok /\ DatasetsKnown
               THEN Die
               ELSE parser' = "data" /\ UNCHANGED status
    /\ UNCHANGED <<read, seen, training, entries, validation, logged, csv>>

\* generic_log pops "up" from the entry itself; an exception of W&B is caught.
GenericLog(up) ==
    \/ wandb = "run" /\ logged' = Append(logged, up)
    \/ UNCHANGED logged

\* Slip: after the context the parser goes on with the lines it has not read.
NextDataFresh == IF seen < read /\ HasLine THEN read + 1 ELSE seen + 1

\* The next line of the iterator: again a line of the context, or one from the pipe.
NextData == seen + 1

DataLine == parser = "data" /\ (seen < read \/ HasLine)

TakeData ==
    /\ read' = IF NextData > read THEN NextData ELSE read
    /\ seen' = NextData

ReadOther ==
    /\ DataLine /\ log[NextData].kind \notin {"train", "valid"}
    /\ TakeData
    /\ UNCHANGED <<parser, training, entries, validation, wandb, logged, csv, status>>

ReadTraining ==
    /\ DataLine /\ log[NextData].kind = "train"
    /\ TakeData
    /\ training' = Append(training, [up |-> log[NextData].up, popped |-> wandb = "run"])
    /\ GenericLog(log[NextData].up)
    /\ UNCHANGED <<parser, entries, validation, wandb, csv, status>>

EntryOf(up) == IF up \in DOMAIN entries THEN entries[up] ELSE {}

Emit(up) ==
    /\ validation' = Append(validation, up)
    /\ entries' = [u \in DOMAIN entries \ {up} |-> entries[u]]

\* Slip: an entry is emitted when it has two metrics.
CompleteEarly(e) == e # {} /\ \E k \in Metrics : e \cup {k} = Metrics

CompleteEntry(e) == Metrics \subseteq e

ReadValidation ==
    /\ DataLine /\ log[NextData].kind = "valid" /\ log[NextData].key \in Metrics
    /\ TakeData
    /\ LET up    == log[NextData].up
           entry == EntryOf(up) \cup {log[NextData].key}
       IN  IF CompleteEntry(entry)
             THEN Emit(up) /\ GenericLog(up)
             ELSE /\ entries' = [u \in DOMAIN entries \cup {up} |->
                                    IF u = up THEN entry ELSE entries[u]]
                  /\ UNCHANGED <<validation, logged>>
    /\ UNCHANGED <<parser, training, wandb, csv, status>>

\* ValidationEpoch.__annotations__[key] of a metric that is not in it raises.
UnknownMetric ==
    /\ DataLine /\ log[NextData].kind = "valid" /\ log[NextData].key \notin Metrics
    /\ TakeData /\ Die
    /\ UNCHANGED <<training, entries, validation, wandb, logged, csv>>

DataEnds ==
    /\ parser = "data" /\ seen = read /\ AtEnd
    /\ parser' = "publish"
    /\ UNCHANGED <<read, seen, training, entries, validation, wandb, logged, csv, status>>

\* The rows of training.csv; vars(entry) is the dictionary "up" was popped from.
Rows == [i \in 1 .. Len(training) |-> IF training[i].popped THEN -1 ELSE training[i].up]

\* CSVExport.publish; what it raises is caught.
Publish ==
    /\ parser = "publish"
    /\ csv' \in {Rows, <<>>}
    /\ parser' = "close"
    /\ UNCHANGED <<read, seen, training, entries, validation, wandb, logged, status>>

\* publisher.close for all publishers; what WandB.close raises is not caught.
CloseAll ==
    /\ parser = "close"
    /\ \/ parser' = "exited" /\ status' = 0
       \/ wandb = "run" /\ Die
    /\ UNCHANGED <<read, seen, training, entries, validation, wandb, logged, csv>>

Parse == \/ Boot \/ ReadHeader \/ ReadDescription \/ ReadConfig \/ SkipCreated \/ NoContext
         \/ Open \/ ReadOther \/ ReadTraining \/ ReadValidation \/ UnknownMetric \/ DataEnds
         \/ Publish \/ CloseAll

-----------------------------------------------------------------------------
\* How many of the first n lines are training lines.
TrainingLines(n) == Cardinality({i \in 1 .. n : log[i].kind = "train"})

\* How many of the lines seen report a metric of an update.
Reports(up, key) == Cardinality({i \in 1 .. seen :
                        log[i].kind = "valid" /\ log[i].up = up /\ log[i].key = key})

Times(up) == Cardinality({i \in 1 .. Len(validation) : validation[i] = up})

\* Every training line is parsed once and in order, those among the lines that were read
\* for the context included: the copy made by tee() loses none and repeats none. What is
\* published at the end is everything the trainer wrote (parser.py 382-389, 405-432).
EveryTrainingLine ==
    /\ Len(training) = TrainingLines(seen)
    /\ \A i \in 1 .. seen :
           log[i].kind = "train" => training[TrainingLines(i)].up = log[i].up
    /\ parser \in {"publish", "close"} => closed /\ seen = written

\* A validation is published when and only when all its metrics were reported, whatever
\* other lines came between them, and again when a log repeats it (parser.py 149-186).
\* Of logs that report the metrics of an update in rounds, each metric once in a round, as
\* Marian does: of others the slots may be filled by the metrics of two rounds.
ValidationAssembled ==
    \A u \in {log[i].up : i \in 1 .. seen} :
        \E k \in Metrics : /\ Times(u) = Reports(u, k)
                           /\ \A j \in Metrics : Reports(u, k) <= Reports(u, j)

=============================================================================
