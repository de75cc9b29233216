\* A worker of the logistic job that starts before the loader is done.
SPECIFICATION FairTraining
CONSTANTS
    nworkers = 1
    num_batches = 2
    LoadedBatches = 2
    READ_AHEAD = 1
    VersionSpace = 4
    MaxVersion = 3
    Setups <- EarlySetups
PROPERTIES
    EarlyWorkersStart
