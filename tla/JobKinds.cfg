SPECIFICATION Spec
CONSTANTS
    Uploads = {u1}
    PullRequests = {p1}
    Workers = {w1, w2}
    Modes = {"train", "eval", "sync"}
    None = None
    MaxHead = 1
    MaxTrains = 2
    MaxEvals = 2
    MaxRequests = 3
    MaxFaults = 1
SYMMETRY Symmetric
INVARIANTS TypeOK RunsAgreeWithJobs UploadsNotStranded
PROPERTIES DeletionSticks
CHECK_DEADLOCK FALSE
