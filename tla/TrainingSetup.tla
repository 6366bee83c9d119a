---------------------------- MODULE TrainingSetup ----------------------------
(***************************************************************************)
(* train.py up to the start of the training: it checks its arguments,      *)
(* joins the sides of each data set to a TSV and removes them, writes the  *)
(* configuration of OpusTrainer, and puts the commands together.  The lines*)
(* of a file are numbers; a field of a row is a line of one of the files.  *)
(***************************************************************************)
EXTENDS Integers, FiniteSets, Sequences, SequencesExt

CONSTANTS
    Tasks,          \* the arguments of train.py, and what the worker has fetched
    LinesOf,        \* per prefix, the number of lines of its files
    Unaligned,      \* per prefix, the lines with an empty alignment
    ModelConfigs,   \* the files of configs/model
    TrainingConfigs \* the files of configs/training

ASSUME SetupAssumption ==
    /\ \A t \in Tasks : t.prefixes \in Seq(DOMAIN LinesOf) /\ t.alignments \in Seq(DOMAIN LinesOf)
    /\ \A p \in DOMAIN LinesOf : LinesOf[p] \in Nat /\ Unaligned[p] \subseteq 1 .. LinesOf[p]

VARIABLES
    task,           \* the arguments
    setup,          \* "validate", "build", "config", "commands", "ready" or "failed"
    files,          \* files that are there, as <<prefix, side>>
    datasets,       \* config_variables["dataset0"], ...: rows of a TSV
    opusConfig      \* the configuration of OpusTrainer that was filled in

setupVars == <<task, setup, files, datasets, opusConfig>>

NoConfig == [fields |-> 0, datasets |-> 0]

SetupInit ==
    /\ task \in Tasks /\ setup = "validate"
    /\ files = task.fetched
    /\ datasets = <<>> /\ opusConfig = NoConfig

Raise == setup' = "failed" /\ UNCHANGED <<files, datasets, opusConfig>>

-----------------------------------------------------------------------------
Alignment(prefix) == <<prefix, "aln">>

\* validate_args.  task.vocab stands for all that does not depend on the data: the
\* vocabulary and the Marian binary are there, and the extra arguments follow a "--".
ValidateArgs ==
    /\ setup = "validate"
    /\ IF task.vocab /\ \A i \in DOMAIN task.alignments : Alignment(task.alignments[i]) \in files
         THEN setup' = "build" /\ UNCHANGED <<files, datasets, opusConfig>>
         ELSE Raise
    /\ UNCHANGED task

\* Slip: a row without an alignment is written too.
KeepUnaligned(aln, line) == TRUE

Keep(aln, line) == line \notin Unaligned[aln]

\* Some lines, in the order of the file.
InOrder(some) ==
    CHOOSE s \in [1 .. Cardinality(some) -> some] : \A i, j \in DOMAIN s : i < j => s[i] < s[j]

Sides(prefix) == {<<prefix, "src">>, <<prefix, "trg">>}

\* build_dataset_tsv without an alignments file, and with that of a prefix: the shortest
\* file ends the loop.
Tsv(prefix) ==
    [line \in 1 .. LinesOf[prefix] |-> <<<<prefix, "src", line>>, <<prefix, "trg", line>>>>]

AlignedTsv(prefix, aln) ==
    LET n == IF LinesOf[prefix] < LinesOf[aln] THEN LinesOf[prefix] ELSE LinesOf[aln]
        kept == InOrder({line \in 1 .. n : Keep(aln, line)})
    IN  [i \in DOMAIN kept |-> Append(Tsv(prefix)[kept[i]], <<aln, "aln", kept[i]>>)]

\* The TSV is written, then the files it was made of are removed.
Join(sides, rows) ==
    IF sides \subseteq files
      THEN /\ datasets' = Append(datasets, rows) /\ files' = files \ sides
           /\ UNCHANGED <<setup, opusConfig>>
      ELSE Raise

\* The alignments of a data set are those at its place in their list, if there is a list.
BuildDataset ==
    /\ setup = "build" /\ Len(datasets) < Len(task.prefixes)
    /\ LET index  == Len(datasets) + 1
           prefix == task.prefixes[index]
       IN  IF task.alignments = <<>>
             THEN Join(Sides(prefix), Tsv(prefix))
             ELSE IF index > Len(task.alignments)
                    THEN Raise
                    ELSE LET aln == task.alignments[index]
                         IN  Join(Sides(prefix) \cup {Alignment(aln)}, AlignedTsv(prefix, aln))
    /\ UNCHANGED task

BuildValidationSet ==
    /\ setup = "build" /\ Len(datasets) = Len(task.prefixes)
    /\ IF Sides("devset") \subseteq files
         THEN /\ setup' = "config" /\ files' = files \ Sides("devset")
              /\ UNCHANGED <<datasets, opusConfig>>
         ELSE Raise
    /\ UNCHANGED task

-----------------------------------------------------------------------------
(* configs/opustrainer: how many fields a row has, and the data sets of the stages. *)

TeacherConfig(mode) == [fields |-> 3, datasets |-> 2]
StudentConfig       == [fields |-> 3, datasets |-> 1]
BackwardConfig      == [fields |-> 2, datasets |-> 1]

\* The configuration for Chinese, Japanese and Korean of each has the same two numbers.
ConfigInput ==
    CASE task.model = "teacher" -> TeacherConfig(task.teacherMode)
      [] task.model = "student" -> StudentConfig
      [] OTHER                  -> BackwardConfig

\* A teacher without a mode, or a configuration that names a data set that is not there.
GenerateConfig ==
    /\ setup = "config"
    /\ IF (task.model = "teacher" => task.teacherMode # "None")
          /\ ConfigInput.datasets <= Len(datasets)
         THEN setup' = "commands" /\ opusConfig' = ConfigInput /\ UNCHANGED <<files, datasets>>
         ELSE Raise
    /\ UNCHANGED task

ModelName == IF task.model = "student" THEN <<"student", task.student>> ELSE <<task.model>>

\* Whether Marian finds the configurations it is given.
MarianConfigured ==
    /\ ModelName \in ModelConfigs
    /\ <<task.model, task.training>> \in TrainingConfigs

MakeCommands ==
    /\ setup = "commands"
    /\ IF task.model = "student" /\ task.student = "None"
         THEN Raise
         ELSE setup' = "ready" /\ UNCHANGED <<files, datasets, opusConfig>>
    /\ UNCHANGED task

SetUp == ValidateArgs \/ BuildDataset \/ BuildValidationSet \/ GenerateConfig \/ MakeCommands

-----------------------------------------------------------------------------
\* The rows OpusTrainer is given have the fields its configuration says; the fields of a
\* row are of the same line of the two sides and the alignments, no alignment is empty,
\* and no line that has one is left out (train.py 91-125, 233-250, 276-285,
\* configs/opustrainer/*.yml, kinds/train-*/kind.yml).
RowsForTrainer ==
    setup \in {"commands", "ready"} =>
        \A d \in 1 .. opusConfig.datasets :
            LET rows   == datasets[d]
                prefix == task.prefixes[d]
                with   == IF opusConfig.fields = 3 THEN 1 .. LinesOf[prefix] \ Unaligned[prefix]
                                                   ELSE 1 .. LinesOf[prefix]
            IN  /\ \A r \in DOMAIN rows : Len(rows[r]) = opusConfig.fields
                /\ \A r \in DOMAIN rows : \A f \in DOMAIN rows[r] :
                       rows[r][f][1] = prefix /\ rows[r][f][3] = rows[r][1][3]
                /\ {rows[r][1][3] : r \in DOMAIN rows} = with
                /\ \A r, s \in DOMAIN rows : r < s => rows[r][1][3] < rows[s][1][3]

=============================================================================
