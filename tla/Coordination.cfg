SPECIFICATION FairSpec
CONSTANTS
    NumTasks = 3
    Providers = {p1}
    MaxConcurrency = 1
    MaxRetries = 2
    Population = 2
    BatchSize = 2
    MaxTurns = 2
    VerifierRequiresPriorWorker = TRUE
INVARIANTS
    TypeOK
    PermitsKept
    DecidedByOwnTheta
    AcceptedAnswer
    Metered
PROPERTIES
    CandidateScored
