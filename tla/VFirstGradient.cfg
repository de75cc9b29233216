\* The gradient with which a worker starts.
SPECIFICATION TrainingSpec
CONSTANTS
    nworkers = 2
    num_batches = 2
    LoadedBatches = 2
    READ_AHEAD = 1
    VersionSpace = 4
    MaxVersion = 3
    Setups <- SafeSetups
PROPERTIES
    FirstGradientUsed
