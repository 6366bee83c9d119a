------------------------------ MODULE MCTracking ------------------------------
(***************************************************************************)
(* Two groups of one experiment, the second made from the teachers of the  *)
(* first, and one of continuous integration that has no configuration.     *)
(***************************************************************************)
EXTENDS GroupTracking

Label(stage, model, chunk, sep) ==
    [stage |-> stage, model |-> model, suffix |-> -1, chunk |-> chunk, sep |-> sep,
     importer |-> "", aug |-> "", dataset |-> ""]
Of(g, kind, label, dependencies) ==
    [group |-> g, kind |-> kind, label |-> label, dependencies |-> dependencies]
Train(g, model, chunk, dependencies) ==
    Of(g, <<"train", model>>, Label("train", model, chunk, ""), dependencies)
Eval(g, kind, model, chunk, sep, data, dependencies) ==
    Of(g, kind, [Label("evaluate", model, chunk, sep) EXCEPT
                    !.importer = data[1], !.aug = data[2], !.dataset = data[3]], dependencies)

Devtest == <<"flores", "", "devtest">>
Title   == <<"flores", "aug-title", "devtest">>
Wmt     == <<"sacrebleu", "", "wmt19">>
Pytest  == <<"url", "", "gcp_pytest">>
Plain   == <<"evaluate">>

MCTask ==
    [corpus   |-> Of("C", <<"merge", "corpus">>, Label("merge", "corpus", -1, ""), <<>>),
     ci       |-> Train("C", "backwards", -1, <<"corpus">>),
     ciEval   |-> Eval("C", Plain, "backward", -1, "", Pytest, <<"ci">>),
     vocab    |-> Of("A", <<"train", "vocab">>, Label("train", "vocab", -1, ""), <<"corpus">>),
     teacher1 |-> Train("A", "teacher", 1, <<"vocab">>),
     teacher2 |-> Train("A", "teacher", 2, <<"vocab">>),
     eval1    |-> Eval("A", Plain, "teacher", 1, "/", Devtest, <<"teacher1">>),
     eval2    |-> Eval("A", Plain, "teacher", 2, "/", Devtest, <<"teacher2">>),
     align    |-> Of("B", <<"alignments", "student">>, Label("alignments", "student", -1, ""),
                     <<"teacher1">>),
     student  |-> Train("B", "student", -1, <<"align", "vocab">>),
     tuned    |-> Of("B", <<"finetune", "student">>, Label("", "finetune-student", -1, ""),
                     <<"student">>),
     again2   |-> Eval("B", Plain, "teacher", 2, "/", Title, <<"teacher2">>),
     tunedEval |-> Eval("B", Plain, "finetuned-student", -1, "", Title, <<"tuned">>),
     quantEval |-> Eval("B", <<"evaluate", "quantized">>, "quantized", -1, "", Wmt, <<>>),
     studentEval |-> Eval("B", Plain, "student", -1, "", Devtest, <<"student">>),
     ensemble |-> Eval("A", <<"evaluate", "teacher", "ensemble">>, "teacher-ensemble", -1, "",
                       Wmt, <<"teacher1", "teacher2">>)]

MCListing ==
    [A |-> <<"vocab", "teacher1", "teacher2", "eval1", "eval2", "ensemble">>,
     B |-> <<"align", "student", "tuned", "again2", "tunedEval", "quantEval", "studentEval">>,
     C |-> <<"corpus", "ci", "ciEval">>]

MCConfig == [A |-> [languages |-> "ru-en", name |-> "base"],
             B |-> [languages |-> "ru-en", name |-> "base"],
             C |-> None]
MCFirstFive == [A |-> "aaaaa", B |-> "bbbbb", C |-> "ccccc"]

Dir(model, index, training, tasks) ==
    [model |-> model, index |-> index, training |-> training, metrics |-> tasks]
MCArchive ==
    [B |-> {Dir("finetuned-student", -1, "tuned", {"tunedEval"}),
             Dir("speed", -1, None, {"quantEval"}),
             Dir("student", -1, "student", {}), Dir("teacher", 2, None, {"again2"})}]

Call(g, fromArchive, recursive, over) ==
    [group |-> g, archive |-> fromArchive, recursive |-> recursive, override |-> over]
MCStarts == {Call("B", FALSE, TRUE, TRUE), Call("B", FALSE, FALSE, FALSE),
             Call("B", TRUE, FALSE, FALSE)}
NoStarts == {}

ASSUME MCGroupsAssumption ==
    EvaluationsDepend /\ ArchivesAgree /\ EvaluationsDiffer /\ MetricsTogether
=============================================================================
