---------------------------- MODULE TrainPipeline ----------------------------
(***************************************************************************)
(* One training on a worker: train.py prepares the data and starts         *)
(*     opustrainer-train ... marian ... 2>&1 | parse_tc_logs ...           *)
(* in a shell, waits, and copies the best model to its final name.         *)
(* Composes TrainingSetup and TrainingParser with the trainer and the pipe.*)
(***************************************************************************)
EXTENDS TrainingParser, TrainingSetup

CONSTANT PipeSize   \* lines the pipe holds

ASSUME PipeAssumption == PipeSize \in Nat \ {0}

VARIABLES
    trainer,     \* "running", "ok", "failed" or "killed" (by SIGPIPE)
    best,        \* whether the best model of a validation was saved
    train        \* train.py: "waiting", "copied" or "raised"

running == <<log, written, closed, parserVars, trainer, best>>
vars    == <<setupVars, running, train>>

\* parse_tc_logs, or cat where it is not installed and in tests.
LogParserCommand == {"boot", "cat"}

Init ==
    /\ SetupInit
    /\ log \in Logs /\ written = 0 /\ closed = FALSE
    /\ ParserInit /\ parser \in LogParserCommand
    /\ trainer = "running" /\ best = FALSE /\ train = "waiting"

Prepare ==
    /\ SetUp
    /\ train' = IF setup' = "failed" THEN "raised" ELSE train
    /\ UNCHANGED running

-----------------------------------------------------------------------------
(* The trainer, once train.py has started it.                              *)

Training == setup = "ready" /\ trainer = "running"

\* A configuration that Marian is given is not there.
NotConfigured ==
    /\ Training /\ ~MarianConfigured
    /\ trainer' = "failed" /\ closed' = TRUE
    /\ UNCHANGED <<setupVars, log, written, parserVars, best, train>>

Write ==
    /\ Training /\ MarianConfigured
    /\ written < Len(log)
    /\ written - read < PipeSize /\ parser # "exited"
    /\ written' = written + 1
    /\ UNCHANGED <<setupVars, log, closed, parserVars, trainer, best, train>>

\* A write into the pipe that nobody reads any more.
BrokenPipe ==
    /\ Training /\ written < Len(log) /\ parser = "exited"
    /\ trainer' = "killed" /\ closed' = TRUE
    /\ UNCHANGED <<setupVars, log, written, parserVars, best, train>>

SaveBest ==
    /\ Training /\ written > 0 /\ log[written].kind = "valid"
    /\ best' = TRUE
    /\ UNCHANGED <<setupVars, log, written, closed, parserVars, trainer, train>>

Crash ==
    /\ Training
    /\ trainer' = "failed" /\ closed' = TRUE
    /\ UNCHANGED <<setupVars, log, written, parserVars, best, train>>

FinishTraining ==
    /\ Training /\ written = Len(log)
    /\ trainer' = "ok" /\ closed' = TRUE
    /\ UNCHANGED <<setupVars, log, written, parserVars, best, train>>

-----------------------------------------------------------------------------
\* The shell waits for both processes; its status is that of the last command.
PipelineStatus == status

\* check_call, then shutil.copy of the best model.
CopyBest ==
    /\ train = "waiting" /\ setup = "ready" /\ trainer # "running" /\ parser = "exited"
    /\ train' = IF PipelineStatus = 0 /\ best THEN "copied" ELSE "raised"
    /\ UNCHANGED <<setupVars, log, written, closed, parserVars, trainer, best>>

Done == train # "waiting" /\ UNCHANGED vars

\* cat copies what it reads; nothing is parsed.
Copy ==
    /\ parser = "cat"
    /\ \/ HasLine /\ read' = read + 1 /\ UNCHANGED <<parser, status>>
       \/ AtEnd /\ parser' = "exited" /\ status' = 0 /\ UNCHANGED read
    /\ UNCHANGED <<seen, training, entries, validation, wandb, logged, csv>>

ParserStep ==
    /\ setup = "ready" /\ (Parse \/ Copy)
    /\ UNCHANGED <<setupVars, log, written, closed, trainer, best, train>>

Trainer == NotConfigured \/ Write \/ BrokenPipe \/ FinishTraining

Next == Prepare \/ Trainer \/ SaveBest \/ Crash \/ ParserStep \/ CopyBest \/ Done

Spec     == Init /\ [][Next]_vars
FairSpec == Spec /\ WF_vars(Prepare) /\ WF_vars(Trainer) /\ WF_vars(ParserStep) /\ WF_vars(CopyBest)

-----------------------------------------------------------------------------
\* The task ends, whatever the parser meets in the log: no process waits for the other
\* across the pipe (command_runner.py 97, parser.py 323-432).
TaskEnds == <>(train # "waiting")

=============================================================================
