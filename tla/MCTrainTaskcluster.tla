------------------------- MODULE MCTrainTaskcluster -------------------------
EXTENDS TrainTaskcluster
\* Model and optimizer state stand for the sixteen other names of CONTINUATION_ARTIFACTS.
MCRequired == {"model.npz", "model.npz.optimizer.npz"}
MCMounted ==
    [m \in Modes |->
        CASE m = "None" -> {}
          [] m = "init" -> {"model.npz", Final}                    \* INITIALIZE_MODEL_ARTIFACTS
          [] OTHER      -> {"model.npz", Vocab, Final}]             \* CONTINUE_TRAINING_ARTIFACTS
MCModes == {"None", "continue", "init", "use"}
=============================================================================
