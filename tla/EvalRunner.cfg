SPECIFICATION FairSpec
CONSTANTS
    None = None
    Modes = {"remote_gpu", "local_cpu", "auto"}
    MaxHead = 2
    MaxAbandoned = 2
INVARIANTS
    TypeOK
    CompletedHasResults
    CleanRunIsOwn
PROPERTIES
    CommandEnds
