SPECIFICATION Spec
CONSTANTS
    PRs = {p1}
    Workers = {w1}
    Api = api
    None = none
    MaxHead = 2
    Scores = {1, 2}
    Threshold = 1
    MaxEvents = 2
    MaxFaults = 0
INVARIANT MergedIsListed
