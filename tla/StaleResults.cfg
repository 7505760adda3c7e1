SPECIFICATION FairSpec
CONSTANTS
    None = None
    Modes = {"remote_gpu", "local_cpu", "auto"}
    MaxHead = 2
    MaxAbandoned = 0
INVARIANTS
    CompletedIsOwn
