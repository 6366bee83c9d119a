--------------------------- MODULE MCTrainPipeline ---------------------------
EXTENDS TrainPipeline

L(k)     == [kind |-> k, up |-> 0, key |-> "unknown"]
T(u)     == [kind |-> "train", up |-> u, key |-> "unknown"]
V(u, m)  == [kind |-> "valid", up |-> u, key |-> m]
MCMetrics == {"chrf", "bleu_detok"}
Context  == <<L("other"), L("marian"), L("config"), L("created")>>

\* A training, one whose first training line ends its context and whose log repeats a
\* validation, one whose validations overlap, one with a metric the parser does not know,
\* and logs that end inside the context.
MCLogs == {
    Context \o <<L("other"), T(1), V(1, "chrf"), V(1, "bleu_detok"),
                 T(2), V(2, "bleu_detok"), V(2, "chrf")>>,
    <<L("marian"), L("other"), L("config"), T(1), V(1, "bleu_detok"), L("other"),
      V(1, "chrf"), V(1, "chrf"), V(1, "bleu_detok")>>,
    Context \o <<T(1), T(2), V(1, "chrf"), V(2, "chrf"), V(2, "bleu_detok"), V(1, "bleu_detok")>>,
    Context \o <<T(1), V(1, "chrf"), V(1, "unknown"), T(2)>>,
    <<L("marian"), L("created"), T(1), T(2)>>,
    <<L("other"), L("marian"), L("config")>> }

\* The files of configs/model and configs/training.
MCModelConfigs == {<<"teacher">>, <<"backward">>, <<"student", "tiny">>, <<"student", "base">>}
MCTrainingConfigs ==
    {<<"teacher", "train">>, <<"backward", "train">>,
     <<"student", "train">>, <<"student", "finetune">>}

MCLinesOf   == [corpus |-> 3, mono |-> 2, devset |-> 1]
MCUnaligned == [corpus |-> {2}, mono |-> {1}, devset |-> {}]

Job(model, trained, mode, student, prefixes, alignments, vocab) ==
    [model |-> model, training |-> trained, teacherMode |-> mode, student |-> student,
     prefixes |-> prefixes, alignments |-> alignments, vocab |-> vocab,
     fetched |-> (ToSet(prefixes) \cup {"devset"}) \X {"src", "trg"}
                     \cup ToSet(alignments) \X {"aln"}]

\* The four kinds of training; a teacher that starts from a model and has no vocabulary;
\* a teacher that is to be finetuned, for which there is no configuration; and teachers
\* and a student without a mode, a second data set, its alignments or a name.
MCTasks == {
    Job("teacher", "train", "two-stage", "None", <<"corpus", "mono">>, <<"corpus", "mono">>, TRUE),
    Job("backward", "train", "None", "None", <<"corpus">>, <<>>, TRUE),
    Job("student", "train", "None", "tiny", <<"corpus">>, <<"corpus">>, TRUE),
    Job("student", "finetune", "None", "base", <<"corpus">>, <<"corpus">>, TRUE),
    Job("teacher", "train", "one-stage", "None", <<"corpus", "mono">>, <<"corpus", "mono">>, FALSE),
    Job("teacher", "finetune", "one-stage", "None", <<"corpus", "mono">>, <<"corpus", "mono">>,
        TRUE),
    Job("teacher", "train", "None", "None", <<"corpus", "mono">>, <<"corpus", "mono">>, TRUE),
    Job("teacher", "train", "one-stage", "None", <<"corpus">>, <<"corpus">>, TRUE),
    Job("teacher", "train", "one-stage", "None", <<"corpus", "mono">>, <<"corpus">>, TRUE),
    Job("student", "train", "None", "None", <<"corpus">>, <<"corpus">>, TRUE) }
=============================================================================
