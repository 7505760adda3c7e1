SPECIFICATION Spec
CONSTANTS
    Uploads = {}
    PullRequests = {p1}
    Workers = {w1}
    Modes = {"train"}
    None = None
    MaxHead = 1
    MaxTrains = 1
    MaxEvals = 1
    MaxRequests = 1
    MaxFaults = 0
INVARIANT TrainedCheckpointIsEvaluated
CHECK_DEADLOCK FALSE
