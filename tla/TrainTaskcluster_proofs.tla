----------------------- MODULE TrainTaskcluster_proofs -----------------------
(***************************************************************************)
(* What resuming a training task guarantees for any set of artifacts, any  *)
(* number of runs and any retry statuses: the inductive invariant of the   *)
(* search over earlier runs and the theorems that follow from it.          *)
(***************************************************************************)
EXTENDS TrainTaskcluster, TLAPS

FileState == [step : Int, whole : BOOLEAN]

Searching   == pc \in {"list", "fetch", "write"}
Downloading == pc \in {"fetch", "write"}

TypeOK ==
    /\ given \in Modes
    /\ run \in Runs
    /\ pc \in {"list", "fetch", "write", "launch", "train", "over"}
    /\ prev \in -1 .. run - 1
    /\ todo \subseteq Files
    /\ file \in Files
    /\ mode \in {"None", "continue", "init", "use"}
    /\ dir \in [Files -> FileState]
    /\ published \in [Runs -> [Files -> FileState]]
    /\ source \in -1 .. run - 1

\* A run that can no longer be chosen.
PassedOver(r) == ~Complete(published[r]) \/ r \in refused

\* While earlier runs are searched none is chosen, and every run above the candidate is out.
SearchState ==
    Searching =>
        /\ prev >= 0
        /\ source = -1
        /\ \A r \in prev + 1 .. run - 1 : PassedOver(r)

\* A candidate was complete when it was listed; what was fetched of it is in place as it
\* was published, whatever an abandoned download left in the directory before.
DownloadState ==
    Downloading =>
        /\ Complete(published[prev])
        /\ todo \subseteq Present(published[prev])
        /\ \A f \in Present(published[prev]) \ todo :
              (pc = "write" => f # file) => dir[f] = published[prev][f]

WriteState == pc = "write" => file \in Present(published[prev]) \ todo

\* What the program starts training with.
LaunchState ==
    pc = "launch" /\ source >= 0 =>
        /\ Complete(published[source])
        /\ \A f \in Needed : dir[f] = published[source][f]

IInv ==
    /\ TypeOK
    /\ SearchState
    /\ DownloadState
    /\ WriteState
    /\ LaunchState
    /\ NewestTaken

-----------------------------------------------------------------------------
\* In a fresh directory there is no file, which is a state of a file as well.
LEMMA FreshType == given \in Modes => Fresh \in [Files -> FileState]
  <1>1. NoFile \in FileState
    BY DEF NoFile, FileState
  <1>2. [step |-> 0, whole |-> TRUE] \in FileState
    BY DEF FileState
  <1> QED BY <1>1, <1>2 DEF Fresh

\* The first run starts with nothing to search.
LEMMA InitIInv == Init => IInv
  <1> SUFFICES ASSUME Init PROVE IInv
    OBVIOUS
  <1>1. dir \in [Files -> FileState]
    BY FreshType DEF Init
  <1>2. published \in [Runs -> [Files -> FileState]]
    BY DEF Init, FileState, NoFile
  <1>3. TypeOK
    BY <1>1, <1>2, RunsAssumption, ModeAssumption DEF Init, TypeOK, Runs, Files
  <1> QED BY <1>3 DEF Init, IInv, SearchState, DownloadState, WriteState, LaunchState,
                      NewestTaken, Searching, Downloading

\* The directory of the run is published under its own number: what earlier runs
\* published stays.
LEMMA PublishKeeps ==
    ASSUME TypeOK, Publish
    PROVE  /\ published' \in [Runs -> [Files -> FileState]]
           /\ \A r \in 0 .. run - 1 : published'[r] = published[r]
  BY RunsAssumption DEF TypeOK, Publish, Runs

\* A new run starts on a fresh directory, its search at the run before it.
LEMMA StartRunIInv ==
    ASSUME IInv, Publish, StartRun, run < MaxRun, UNCHANGED <<given, file>>, todo' = {}
    PROVE  IInv'
  <1>1. published' \in [Runs -> [Files -> FileState]]
    BY PublishKeeps DEF IInv
  <1>2. dir' \in [Files -> FileState]
    BY FreshType DEF StartRun, IInv, TypeOK
  <1>3. mode' \in {"None", "continue", "init", "use"}
    BY ModeAssumption DEF StartRun, IInv, TypeOK
  <1>4. TypeOK'
    BY <1>1, <1>2, <1>3, RunsAssumption DEF StartRun, IInv, TypeOK, Runs
  <1>5. SearchState'
    BY RunsAssumption DEF StartRun, IInv, TypeOK, Runs, SearchState
  <1> QED BY <1>4, <1>5 DEF StartRun, IInv, DownloadState, WriteState, LaunchState, NewestTaken,
                            Downloading

\* A run that ends by itself either starts the next or is the last.
LEMMA OverIInv ==
    ASSUME IInv, NEW status, Over(status), UNCHANGED given
    PROVE  IInv'
  <1>1. CASE status \in RetryExitStatus /\ run < MaxRun
    BY <1>1, StartRunIInv DEF Over
  <1>2. CASE ~(status \in RetryExitStatus /\ run < MaxRun)
    <2>1. pc' = "over" /\ UNCHANGED <<given, run, prev, dir, mode, source, refused, file>>
      BY <1>2 DEF Over
    <2>2. published' \in [Runs -> [Files -> FileState]] /\ todo' = {}
      BY PublishKeeps DEF IInv, Over
    <2> QED BY <2>1, <2>2 DEF IInv, TypeOK, SearchState, DownloadState, WriteState,
                              LaunchState, NewestTaken, Searching, Downloading
  <1> QED BY <1>1, <1>2

\* Going on to the run before the candidate, once the candidate is out.
LEMMA NextEarlierIInv ==
    ASSUME IInv, Searching, NextEarlier, todo' \subseteq Files,
           UNCHANGED <<given, run, file, mode, dir, published, source>>,
           refused \subseteq refused',
           ~Complete(published[prev]) \/ prev \in refused'
    PROVE  IInv'
  <1>1. prev \in 0 .. run - 1 /\ run \in Nat /\ source = -1
    BY RunsAssumption DEF IInv, TypeOK, SearchState, Runs
  <1>2. TypeOK'
    BY <1>1 DEF IInv, TypeOK, NextEarlier
  <1>3. \A r \in prev .. run - 1 : PassedOver(r)'
    BY <1>1 DEF IInv, SearchState, PassedOver, Complete, Present
  <1>4. CASE prev = 0
    <2>1. pc' = "launch" /\ source' = -1 /\ run' = run
      BY <1>1, <1>4 DEF NextEarlier
    <2>2. NewestTaken'
      BY <1>1, <1>3, <1>4, <2>1 DEF NewestTaken, PassedOver
    <2> QED BY <1>2, <2>1, <2>2 DEF IInv, SearchState, DownloadState, WriteState, LaunchState,
                                    Searching, Downloading
  <1>5. CASE prev # 0
    <2>1. pc' = "list" /\ source' = -1 /\ run' = run /\ prev' = prev - 1 /\ prev' >= 0
      BY <1>1, <1>5 DEF NextEarlier
    <2>2. SearchState'
      BY <1>1, <1>3, <2>1 DEF SearchState
    <2> QED BY <1>2, <2>1, <2>2 DEF IInv, DownloadState, WriteState, LaunchState, NewestTaken,
                                    Downloading
  <1> QED BY <1>4, <1>5

-----------------------------------------------------------------------------
\* Listing a complete candidate opens the download with nothing fetched yet.
LEMMA ListArtifactsIInv ==
    ASSUME IInv, ListArtifacts, UNCHANGED given
    PROVE  IInv'
  <1> Searching
    BY DEF ListArtifacts, Searching
  <1>1. CASE Complete(published[prev])
    <2>1. pc' = "fetch" /\ todo' = Present(published[prev])
          /\ UNCHANGED <<given, run, prev, file, mode, dir, published, source, refused>>
      BY <1>1 DEF ListArtifacts
    <2>2. TypeOK'
      BY <2>1 DEF IInv, TypeOK, Present
    <2>3. SearchState'
      BY <2>1 DEF IInv, SearchState, Searching, PassedOver, Complete, Present
    <2>4. DownloadState'
      BY <1>1, <2>1 DEF DownloadState, Complete, Present
    <2> QED BY <2>1, <2>2, <2>3, <2>4 DEF IInv, WriteState, LaunchState, NewestTaken
  <1>2. CASE ~Complete(published[prev])
    <2>1. NextEarlier /\ UNCHANGED <<given, run, todo, file, mode, dir, published, source, refused>>
      BY <1>2 DEF ListArtifacts
    <2> QED BY <1>2, <2>1, NextEarlierIInv DEF IInv, TypeOK
  <1> QED BY <1>1, <1>2

\* Opening a file truncates it: until its body is written it is the one file that differs.
LEMMA FetchArtifactIInv ==
    ASSUME IInv, FetchArtifact, UNCHANGED given
    PROVE  IInv'
  <1> PICK f \in todo : /\ file' = f /\ todo' = todo \ {f}
                        /\ Write(f, [step |-> 0, whole |-> FALSE])
    BY DEF FetchArtifact
  <1>1. /\ pc = "fetch" /\ pc' = "write"
        /\ UNCHANGED <<given, run, prev, mode, published, source, refused>>
    BY DEF FetchArtifact
  <1>2. f \in Files /\ f \in Present(published[prev]) /\ dir \in [Files -> FileState]
    BY <1>1 DEF IInv, TypeOK, DownloadState, Downloading
  <1>3. dir' \in [Files -> FileState] /\ \A g \in Files \ {f} : dir'[g] = dir[g]
    BY <1>2 DEF Write, FileState
  <1>4. TypeOK'
    BY <1>1, <1>2, <1>3 DEF IInv, TypeOK
  <1>5. SearchState'
    BY <1>1 DEF IInv, SearchState, Searching, PassedOver, Complete, Present
  <1>6. DownloadState' /\ WriteState'
    BY <1>1, <1>2, <1>3 DEF IInv, DownloadState, WriteState, Downloading, Complete, Present
  <1> QED BY <1>1, <1>4, <1>5, <1>6 DEF IInv, LaunchState, NewestTaken

\* Once its body is written the file is the one the candidate published.
LEMMA WriteChunksIInv ==
    ASSUME IInv, WriteChunks, UNCHANGED given
    PROVE  IInv'
  <1>1. /\ pc = "write" /\ pc' = "fetch" /\ dir' = [dir EXCEPT ![file] = published[prev][file]]
        /\ UNCHANGED <<given, run, prev, todo, file, mode, published, source, refused>>
    BY DEF WriteChunks, Write
  <1>2. file \in Files /\ dir \in [Files -> FileState] /\ prev \in Runs
    BY <1>1, RunsAssumption DEF IInv, TypeOK, SearchState, Searching, Runs
  <1>3. dir' \in [Files -> FileState]
    BY <1>1, <1>2 DEF IInv, TypeOK
  <1>4. TypeOK'
    BY <1>1, <1>3 DEF IInv, TypeOK
  <1>5. SearchState'
    BY <1>1 DEF IInv, SearchState, Searching, PassedOver, Complete, Present
  <1>6. DownloadState'
    BY <1>1, <1>2 DEF IInv, DownloadState, Downloading, Complete, Present
  <1> QED BY <1>1, <1>4, <1>5, <1>6 DEF IInv, WriteState, LaunchState, NewestTaken

\* A refused artifact puts the candidate out and the search goes on.
LEMMA FetchRefusedIInv ==
    ASSUME IInv, FetchRefused, UNCHANGED given
    PROVE  IInv'
  <1>1. Searching /\ NextEarlier /\ todo' = {} /\ refused' = refused \cup {prev}
        /\ UNCHANGED <<given, run, file, mode, dir, published, source>>
    BY DEF FetchRefused, Searching
  <1> QED BY <1>1, NextEarlierIInv

\* With nothing left to fetch the directory holds the candidate, which is chosen.
LEMMA AllFetchedIInv ==
    ASSUME IInv, AllFetched, UNCHANGED given
    PROVE  IInv'
  <1>1. /\ pc = "fetch" /\ todo = {} /\ pc' = "launch" /\ source' = prev /\ mode' = "continue"
        /\ UNCHANGED <<given, run, prev, todo, file, dir, published, refused>>
    BY DEF AllFetched
  <1>2. TypeOK'
    BY <1>1 DEF IInv, TypeOK
  <1>3. Complete(published[prev]) /\ \A f \in Needed : dir[f] = published[prev][f]
    BY <1>1 DEF IInv, DownloadState, Downloading, Complete
  <1>4. LaunchState'
    BY <1>1, <1>3 DEF LaunchState, Complete, Present
  <1>5. NewestTaken'
    BY <1>1 DEF IInv, SearchState, Searching, PassedOver, NewestTaken, Complete, Present
  <1> QED BY <1>1, <1>2, <1>4, <1>5 DEF IInv, SearchState, DownloadState, WriteState, Searching,
                                        Downloading

\* Starting to train does not move the run it started from.
LEMMA LaunchIInv ==
    ASSUME IInv, Launch, UNCHANGED given
    PROVE  IInv'
  <1>1. /\ pc = "launch" /\ pc' = "train"
        /\ UNCHANGED <<given, run, prev, todo, file, mode, published, source, refused>>
        /\ \/ dir' = [dir EXCEPT ![Vocab] = [step |-> 0, whole |-> TRUE]]
           \/ dir' = dir
    BY DEF Launch, Write
  <1>2. dir' \in [Files -> FileState]
    <2>1. [step |-> 0, whole |-> TRUE] \in FileState
      BY DEF FileState
    <2> QED BY <1>1, <2>1 DEF IInv, TypeOK
  <1>3. TypeOK'
    BY <1>1, <1>2 DEF IInv, TypeOK
  <1>4. NewestTaken'
    BY <1>1 DEF IInv, NewestTaken, Complete, Present
  <1> QED BY <1>1, <1>3, <1>4 DEF IInv, SearchState, DownloadState, WriteState, LaunchState,
                                  Searching, Downloading

\* Training writes its own files only.
LEMMA SaveIInv ==
    ASSUME IInv, Save, UNCHANGED given
    PROVE  IInv'
  <1> PICK f \in Required :
        Write(f, [step |-> IF dir[f].step < 1 THEN 1 ELSE dir[f].step + 1, whole |-> TRUE])
    BY DEF Save
  <1>1. /\ pc = "train"
        /\ UNCHANGED <<given, run, pc, prev, todo, file, mode, published, source, refused>>
    BY DEF Save
  <1>2. f \in Files /\ dir[f].step \in Int
    BY DEF IInv, TypeOK, FileState, Files
  <1>3. dir' \in [Files -> FileState]
    <2> DEFINE saved == IF dir[f].step < 1 THEN 1 ELSE dir[f].step + 1
    <2>1. saved \in Int
      BY <1>2
    <2>2. dir' = [dir EXCEPT ![f] = [step |-> saved, whole |-> TRUE]]
      BY DEF Write
    <2> HIDE DEF saved
    <2>3. [step |-> saved, whole |-> TRUE] \in FileState
      BY <2>1 DEF FileState
    <2> QED BY <1>2, <2>2, <2>3 DEF IInv, TypeOK
  <1>4. TypeOK'
    BY <1>1, <1>3 DEF IInv, TypeOK
  <1>5. NewestTaken'
    BY <1>1 DEF IInv, NewestTaken, Complete, Present
  <1> QED BY <1>1, <1>4, <1>5 DEF IInv, SearchState, DownloadState, WriteState, LaunchState,
                                  Searching, Downloading

\* A finished training publishes its directory with the final model in it.
LEMMA FinishIInv ==
    ASSUME IInv, Finish, UNCHANGED given
    PROVE  IInv'
  <1>1. /\ pc' = "over" /\ dir' = [dir EXCEPT ![Final] = dir["model.npz"]]
        /\ published' = [published EXCEPT ![run] = dir']
        /\ UNCHANGED <<given, run, prev, todo, file, mode, source, refused>>
    BY DEF Finish, Write
  <1>2. Final \in Files /\ "model.npz" \in Files
    BY FilesAssumption DEF Files
  <1>3. dir' \in [Files -> FileState]
    BY <1>1, <1>2 DEF IInv, TypeOK
  <1>4. TypeOK'
    BY <1>1, <1>3 DEF IInv, TypeOK
  <1> QED BY <1>1, <1>4 DEF IInv, SearchState, DownloadState, WriteState, LaunchState,
                            NewestTaken, Searching, Downloading

\* Every step of a run keeps the invariant.
LEMMA NextIInv == IInv /\ [Next]_vars => IInv'
  <1> SUFFICES ASSUME IInv, [Next]_vars PROVE IInv'
    OBVIOUS
  <1>1. CASE Main
    <2> UNCHANGED given
      BY <1>1 DEF Main
    <2>1. CASE ListArtifacts   BY <2>1, ListArtifactsIInv
    <2>2. CASE ListFails       BY <2>2, OverIInv DEF ListFails
    <2>3. CASE FetchArtifact   BY <2>3, FetchArtifactIInv
    <2>4. CASE WriteChunks     BY <2>4, WriteChunksIInv
    <2>5. CASE FetchRefused    BY <2>5, FetchRefusedIInv
    <2>6. CASE FetchFails      BY <2>6, OverIInv DEF FetchFails
    <2>7. CASE ConnectionLost  BY <2>7, OverIInv DEF ConnectionLost
    <2>8. CASE AllFetched      BY <2>8, AllFetchedIInv
    <2>9. CASE Launch          BY <2>9, LaunchIInv
    <2>10. CASE NoVocab        BY <2>10, OverIInv DEF NoVocab
    <2>11. CASE UseModel       BY <2>11, OverIInv DEF UseModel
    <2>12. CASE Save           BY <2>12, SaveIInv
    <2>13. CASE Finish         BY <2>13, FinishIInv
    <2>14. CASE TrainFails     BY <2>14, OverIInv DEF TrainFails
    <2> QED BY <1>1, <2>1, <2>2, <2>3, <2>4, <2>5, <2>6, <2>7, <2>8, <2>9, <2>10, <2>11, <2>12,
               <2>13, <2>14 DEF Main
  <1>2. CASE Interrupt
    BY <1>2, StartRunIInv DEF Interrupt
  <1>3. CASE UNCHANGED vars
    BY <1>3 DEF vars, IInv, TypeOK, SearchState, DownloadState, WriteState, LaunchState,
                NewestTaken, Searching, Downloading, PassedOver, Complete, Present
  <1> QED BY <1>1, <1>2, <1>3 DEF Next, Ended

-----------------------------------------------------------------------------
\* In every state of a task the search over its earlier runs is where the loop of
\* train_taskcluster.py leaves it, and what it fetched is in place.
THEOREM ResumeInvariant == Spec => []IInv
  BY InitIInv, NextIInv, PTL DEF Spec

\* A resumed training starts from the files of one run as that run published them,
\* for any list of artifacts and any number of runs, whatever was given up halfway.
THEOREM ResumedWhole == Spec => []ResumedFromOneRun
  <1>1. IInv => ResumedFromOneRun
    BY DEF IInv, LaunchState, ResumedFromOneRun, Complete, Present
  <1> QED BY <1>1, ResumeInvariant, PTL

\* No later run than the one resumed from was complete and downloadable.
THEOREM ResumedFromNewest == Spec => []NewestTaken
  <1>1. IInv => NewestTaken
    BY DEF IInv
  <1> QED BY <1>1, ResumeInvariant, PTL

\* What a run launches with is at least as far as the newest complete run that it was
\* not refused: the chosen run is that one, and its checkpoint is not touched before.
THEOREM TrainingKeepsStep == Spec => NoStepBack
  <1>1. ASSUME IInv, [Next]_vars, pc = "launch", pc' = "train",
               NEW r \in 0 .. run - 1 \ refused, Complete(published[r]),
               \A s \in r + 1 .. run - 1 : ~Complete(published[s]),
               NEW f \in Required
        PROVE  dir'[f].step >= published[r][f].step
    <2>1. Launch
      BY <1>1 DEF Next, Main, Interrupt, StartRun, Ended, vars, ListArtifacts, ListFails,
                  FetchArtifact, WriteChunks, FetchRefused, FetchFails, ConnectionLost, AllFetched,
                  NoVocab, UseModel, Over, Save, Finish, TrainFails
    <2>2. run \in Int /\ source \in -1 .. run - 1 /\ r \in Runs /\ f \in Files /\ f \in Needed
      BY RunsAssumption, <1>1 DEF IInv, TypeOK, Runs, Files, Needed
    <2>3. r <= source
      BY <1>1, <2>2 DEF IInv, NewestTaken
    <2>4. Complete(published[source]) /\ dir[f] = published[source][f]
      BY <1>1, <2>2, <2>3 DEF IInv, LaunchState
    <2>5. source = r
      BY <1>1, <2>2, <2>3, <2>4
    <2>6. dir'[f] = dir[f]
      <3>1. f # Vocab
        BY FilesAssumption, <1>1
      <3>2. dir \in [Files -> FileState]
        BY <1>1 DEF IInv, TypeOK
      <3>3. \/ dir' = [dir EXCEPT ![Vocab] = [step |-> 0, whole |-> TRUE]]
            \/ dir' = dir
        BY <2>1 DEF Launch, Write
      <3> QED BY <2>2, <3>1, <3>2, <3>3
    <2>7. published[r][f].step \in Int
      BY <1>1, <2>2 DEF IInv, TypeOK, FileState
    <2> QED BY <2>4, <2>5, <2>6, <2>7
  <1>2. IInv /\ [Next]_vars =>
          [pc = "launch" /\ pc' = "train" =>
              \A r \in 0 .. run - 1 \ refused :
                 Complete(published[r]) /\ (\A s \in r + 1 .. run - 1 : ~Complete(published[s]))
                    => \A f \in Required : dir'[f].step >= published[r][f].step]_vars
    BY <1>1
  <1> QED BY <1>2, ResumeInvariant, PTL DEF Spec, NoStepBack

=============================================================================
