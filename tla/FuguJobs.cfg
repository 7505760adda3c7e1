SPECIFICATION Spec
CONSTANTS
    NWorkers = 2
    MAX_STEPS = 2
    MaxDepth = 1
    WorkerPrice <- MCWorkerPrice
    ConductorModel = 0
    NTasks = 3
    Reps = 2
    Concurrency = 2
    GroupSize = 2
    QuestionsPerIter = 1
    Iterations = 2
    GradAccum = 2
    EvalCap = 2
    TrainCap = 3
    Texts <- MCTexts
INVARIANTS
    TypeOK
    MeterExact
    AdmittedRunsAsWritten
    TrainingBooks
PROPERTIES
    NoRunAfterCap
