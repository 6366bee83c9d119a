------------------------------ MODULE TaskLabels ------------------------------
(***************************************************************************)
(* The names of tasks, models and runs (tracking/translations_parser,      *)
(* utils.py).  A label is the record of the parts that the two regular     *)
(* expressions find in it; an index that is not there is -1, as 0 is one.  *)
(***************************************************************************)
EXTENDS Integers, Sequences, SequencesExt

CONSTANT FirstFive      \* the first characters of the ids of groups

\* They tell the groups of a project apart, which the comment in suffix_from_group assumes.
ASSUME LabelsAssumption == IsInjective(FirstFive)

Models == {"finetuned-student", "finetune-student", "student-finetuned", "teacher-ensemble",
           "teacher", "teacher-base", "teacher-finetuned", "finetune-teacher", "teacher-all",
           "teacher-parallel", "student", "quantized", "backwards", "backward"}

LabelParts == {"stage", "model", "suffix", "chunk", "sep", "importer", "aug", "dataset"}

IsTrainLabel(l) == l.stage \in {"train", ""} /\ l.model \in Models /\ l.importer = ""
IsEvalLabel(l)  == /\ l.stage \in {"evaluate", "eval"} /\ l.model \in Models
                   /\ l.importer \in {"flores", "mtdata", "sacrebleu", "url"}
Parsable(l)     == IsTrainLabel(l) \/ IsEvalLabel(l)

\* "finetuned" becomes "finetune", and "backward" is "backwards".
Canonical(model) ==
    CASE model = "finetuned-student" -> "finetune-student"
      [] model = "student-finetuned" -> "student-finetune"
      [] model = "teacher-finetuned" -> "teacher-finetune"
      [] model = "backward"          -> "backwards"
      [] OTHER                       -> model

PatchModelName(model, suffix) ==
    [base |-> Canonical(model), index |-> IF suffix < 0 /\ model = "teacher" THEN 1 ELSE suffix]

ParseTaskLabel(l) ==
    [model |-> PatchModelName(l.model, IF l.suffix >= 0 THEN l.suffix ELSE l.chunk),
     importer |-> l.importer, dataset |-> l.dataset, augmentation |-> l.aug]

BuildTaskName(task) == [prefix |-> task.kind[1], name |-> ParseTaskLabel(task.label).model]

\* MULTIPLE_TRAIN_SUFFIX: "-1/2" at the end of a label goes away, or leaves "-1".
WithoutChunk(l) == IF l.sep = "/" THEN [l EXCEPT !.chunk = -1, !.sep = ""] ELSE l

\* Slip: the chunk goes away with its slash.
WithChunkLost(l) == IF l.sep = "/" THEN [l EXCEPT !.chunk = -1, !.sep = ""] ELSE l

WithChunk(l) == IF l.sep = "/" THEN [l EXCEPT !.sep = ""] ELSE l

\* The name of a file in an archive begins with the importer; url is none of DATASET_KEYWORDS.
IsGcpMetric(l)    == l.importer \in {"flores", "mtdata", "sacrebleu"}
ParseGcpMetric(l) == [importer |-> l.importer, dataset |-> l.dataset, augmentation |-> l.aug]

\* The models of a directory of logs, which is parsed as a label, and of one of metrics.
ModelOfLogs(dir)    == PatchModelName(dir.model, dir.index)
ModelOfMetrics(dir) == PatchModelName(dir.model, dir.index)

SuffixFromGroup(group) == FirstFive[group]

\* The id of a run is unique in its project, and is its display name too.
RunId(project, name, group) ==
    [project |-> project, name |-> name, suffix |-> SuffixFromGroup(group)]

\* The title of the chart of a metric.
MetricTitle(metric) == <<metric.importer, metric.augmentation, metric.dataset>>

=============================================================================
