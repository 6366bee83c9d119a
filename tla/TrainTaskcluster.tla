-------------------------- MODULE TrainTaskcluster --------------------------
(***************************************************************************)
(* The runs of one training task: train_taskcluster.py looks for an earlier*)
(* run of the task to resume from, downloads what that run published into  *)
(* the directory of the model, and starts train-taskcluster.sh, which      *)
(* starts train.py.  A run publishes its directory when it ends, also when *)
(* the machine is taken away in the middle of a step.                      *)
(***************************************************************************)
EXTENDS Integers, FiniteSets

CONSTANTS
    Required,         \* CONTINUATION_ARTIFACTS, without the vocabulary
    Modes,            \* what argument 13 may be: "None", "continue", "init", "use"
    Mounted,          \* per mode, the files of a pretrained model the worker puts in place
    RetryExitStatus,  \* exit statuses after which Taskcluster starts a new run
    MaxRun,           \* bound: the last run id (Taskcluster's retries)
    MaxStep           \* bound: how often training saves a file

ASSUME RunsAssumption == MaxRun \in Nat /\ MaxStep \in Nat
ASSUME ModeAssumption == Modes \subseteq {"None", "continue", "init", "use"}

Runs     == 0 .. MaxRun
Vocab    == "vocab.spm"
Final    == "final.model.npz"
Files    == Required \cup {Vocab, Final}
Needed   == Required \cup {Vocab}            \* CONTINUATION_ARTIFACTS
NoFile   == [step |-> -1, whole |-> FALSE]
Failed   == 1
DOWNLOAD_ERROR_EXIT_CODE == 17

ASSUME FilesAssumption ==
    /\ {Vocab, Final} \cap Required = {} /\ "model.npz" \in Required
    /\ Mounted \in [Modes -> SUBSET Files]

VARIABLES
    given,      \* argument 13 as the task passes it, the same in every run
    run,        \* RUN_ID
    pc,         \* where the program of this run is
    prev,       \* prev_run_id
    todo,       \* artifacts of prev still to be fetched
    file,       \* the artifact that is being written
    mode,       \* pretrained_model_mode
    dir,        \* model_dir, published as public/build
    published,  \* what each earlier run published
    source,     \* the run this one resumed from, -1 for none
    refused,    \* earlier runs whose artifacts answered 4xx or 500
    answer,     \* the last answer of Taskcluster
    exit        \* exit status of the last run that ended by itself, -1 for none

vars == <<given, run, pc, prev, todo, file, mode, dir, published, source, refused, answer, exit>>

\* Without a step of -1 the file is not there; whole is false while it is being written.
Present(d)  == {f \in Files : d[f] # NoFile}
\* Slip: one artifact is enough.
CompleteSome(d) == Needed \cap Present(d) # {}

Complete(d) == Needed \subseteq Present(d)
Fresh       == [f \in Files |-> IF f \in Mounted[given] THEN [step |-> 0, whole |-> TRUE]
                                                        ELSE NoFile]
Write(f, c) == dir' = [dir EXCEPT ![f] = c]

Init ==
    /\ given \in Modes
    /\ run = 0 /\ pc = "launch" /\ prev = -1 /\ todo = {} /\ file = Vocab
    /\ mode = given /\ dir = Fresh
    /\ published = [r \in Runs |-> [f \in Files |-> NoFile]]
    /\ source = -1 /\ refused = {} /\ answer = "ok" /\ exit = -1

-----------------------------------------------------------------------------
(* The end of a run: its directory is published, and another run starts on *)
(* a fresh worker when Taskcluster retries.                                *)

\* Slip: the next run looks at run 0 only.
StartRunFromFirst ==
    /\ run' = run + 1 /\ prev' = 0 /\ pc' = "list"
    /\ dir' = Fresh /\ mode' = given /\ source' = -1 /\ refused' = {}

StartRun ==
    /\ run' = run + 1 /\ prev' = run /\ pc' = "list"
    /\ dir' = Fresh /\ mode' = given /\ source' = -1 /\ refused' = {}

Publish == published' = [published EXCEPT ![run] = dir]

Over(status) ==
    /\ Publish /\ exit' = status /\ todo' = {}
    /\ IF status \in RetryExitStatus /\ run < MaxRun
         THEN StartRun
         ELSE pc' = "over" /\ UNCHANGED <<run, prev, dir, mode, source, refused>>
    /\ UNCHANGED file

\* The machine goes away: whatever the directory holds is published.
Interrupt ==
    /\ pc # "over" /\ run < MaxRun
    /\ Publish /\ StartRun
    /\ todo' = {} /\ answer' = "ok" /\ exit' = -1
    /\ UNCHANGED <<given, file>>

-----------------------------------------------------------------------------
(* The loop over earlier runs.                                             *)

\* Slip: prev_run_id is not decremented.
NextEarlierStays == prev' = prev /\ pc' = "list"

NextEarlier == prev' = prev - 1 /\ pc' = IF prev = 0 THEN "launch" ELSE "list"

ListArtifacts ==
    /\ pc = "list" /\ answer' = "ok"
    /\ IF Complete(published[prev])
         THEN /\ pc' = "fetch" /\ todo' = Present(published[prev])
              /\ UNCHANGED prev
         ELSE NextEarlier /\ UNCHANGED todo
    /\ UNCHANGED <<run, file, mode, dir, published, source, refused, exit>>

ListFails ==
    /\ pc = "list" /\ answer' = "error"
    /\ Over(DOWNLOAD_ERROR_EXIT_CODE)

\* 200: open(..., "wb+") truncates the file before the first chunk.
FetchArtifact ==
    /\ pc = "fetch" /\ answer' = "ok"
    /\ \E f \in todo :
          /\ file' = f /\ todo' = todo \ {f}
          /\ Write(f, [step |-> 0, whole |-> FALSE])
    /\ pc' = "write"
    /\ UNCHANGED <<run, prev, mode, published, source, refused, exit>>

WriteChunks ==
    /\ pc = "write"
    /\ Write(file, published[prev][file])
    /\ pc' = "fetch"
    /\ UNCHANGED <<run, prev, todo, file, mode, published, source, refused, answer, exit>>

\* Slip: the loop ends at the first run that is refused.
FetchRefusedStops ==
    /\ pc = "fetch" /\ todo # {}
    /\ \E a \in {"refused", "500"} : answer' = a
    /\ refused' = refused \cup {prev}
    /\ prev' = -1 /\ pc' = "launch" /\ todo' = {}
    /\ UNCHANGED <<run, file, mode, dir, published, source, exit>>

\* 400 <= status <= 500: the run is not resumable, its files stay in place.
FetchRefused ==
    /\ pc = "fetch" /\ todo # {}
    /\ \E a \in {"refused", "500"} : answer' = a
    /\ refused' = refused \cup {prev}
    /\ NextEarlier /\ todo' = {}
    /\ UNCHANGED <<run, file, mode, dir, published, source, exit>>

\* A status above 500.
FetchFails ==
    /\ pc = "fetch" /\ todo # {} /\ answer' = "error"
    /\ Over(DOWNLOAD_ERROR_EXIT_CODE)

\* The request for an artifact or its body raises, or the list that came is not what
\* resp.json() reads (train_taskcluster.py:78): nothing catches it.
ConnectionLost ==
    /\ (pc = "fetch" /\ todo # {}) \/ pc \in {"list", "write"}
    /\ answer' = "lost"
    /\ Over(Failed)

AllFetched ==
    /\ pc = "fetch" /\ todo = {}
    /\ mode' = "continue" /\ source' = prev /\ pc' = "launch"
    /\ UNCHANGED <<run, prev, todo, file, dir, published, refused, answer, exit>>

-----------------------------------------------------------------------------
(* train-taskcluster.sh and train.py.                                      *)

\* "None" publishes the vocabulary early; train.py insists on having one.
Launch ==
    /\ pc = "launch" /\ mode # "use"
    /\ IF mode = "None" THEN Write(Vocab, [step |-> 0, whole |-> TRUE]) ELSE UNCHANGED dir
    /\ dir'[Vocab] # NoFile
    /\ pc' = "train"
    /\ UNCHANGED <<run, prev, todo, file, mode, published, source, refused, answer, exit>>

NoVocab ==
    /\ pc = "launch" /\ mode \notin {"use", "None"} /\ dir[Vocab] = NoFile
    /\ Over(Failed) /\ UNCHANGED answer

UseModel ==
    /\ pc = "launch" /\ mode = "use"
    /\ Over(0) /\ UNCHANGED answer

\* Marian and OpusTrainer write one file of a checkpoint after the other.
Save ==
    /\ pc = "train"
    /\ \E f \in Required :
          /\ dir[f].step < MaxStep
          /\ Write(f, [step |-> IF dir[f].step < 1 THEN 1 ELSE dir[f].step + 1, whole |-> TRUE])
    /\ UNCHANGED <<run, pc, prev, todo, file, mode, published, source, refused, answer, exit>>

\* Training ended: the best model, if there is one, is copied to its final name.
Finish ==
    /\ pc = "train" /\ dir["model.npz"] # NoFile
    /\ pc' = "over" /\ exit' = 0
    /\ Write(Final, dir["model.npz"])
    /\ published' = [published EXCEPT ![run] = dir']
    /\ UNCHANGED <<run, prev, todo, file, mode, source, refused, answer>>

TrainFails ==
    /\ pc = "train"
    /\ Over(Failed) /\ UNCHANGED answer

Main == /\ UNCHANGED given
        /\ \/ ListArtifacts \/ ListFails \/ FetchArtifact \/ WriteChunks \/ FetchRefused
           \/ FetchFails \/ ConnectionLost \/ AllFetched \/ Launch \/ NoVocab \/ UseModel
           \/ Save \/ Finish \/ TrainFails

Ended == pc = "over" /\ UNCHANGED vars

Next == Main \/ Interrupt \/ Ended

Spec     == Init /\ [][Next]_vars
FairSpec == Spec /\ WF_vars(Main)

-----------------------------------------------------------------------------


\* A resumed training starts from the files of one run, all of them as that run published
\* them, although downloads from later runs may have been given up halfway
\* (train_taskcluster.py 80-117).
ResumedFromOneRun ==
    pc = "launch" /\ source >= 0 =>
        \A f \in Needed : dir[f] # NoFile /\ dir[f] = published[source][f]

\* No progress is thrown away: a later run than the one resumed from lacks an artifact
\* or one of its artifacts was refused (train_taskcluster.py 65-126).
NewestTaken ==
    pc \in {"launch", "train"} =>
        \A r \in source + 1 .. run - 1 : ~Complete(published[r]) \/ r \in refused

\* Between two runs of a task that resume, training never goes back: what a run
\* launches with is at least as far as the newest complete run, unless it was refused it.
NoStepBack ==
    [][pc = "launch" /\ pc' = "train" =>
          \A r \in 0 .. run - 1 \ refused :
              Complete(published[r]) /\ (\A s \in r + 1 .. run - 1 : ~Complete(published[s]))
                  => \A f \in Required : dir'[f].step >= published[r][f].step]_vars

\* The search over earlier runs, the downloads and the retries end.
TaskEnds == <>(pc = "over")

=============================================================================
