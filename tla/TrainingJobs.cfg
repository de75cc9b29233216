\* Two workers of either job, started in time or early; workers may die.
SPECIFICATION FairTraining
CONSTANTS
    nworkers = 2
    num_batches = 2
    LoadedBatches = 2
    READ_AHEAD = 1
    VersionSpace = 4
    MaxVersion = 3
    Setups <- AllSetups
INVARIANTS
    AppliedOnce
    BatchesMatch
    LossCoversLoaded
PROPERTIES
    GradientsUsed
    WorkersStart
