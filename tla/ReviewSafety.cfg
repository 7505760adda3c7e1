SPECIFICATION Spec
CONSTANTS
    PRs = {p1}
    Workers = {w1, w2}
    Api = api
    None = none
    MaxHead = 2
    Scores = {1, 2}
    Threshold = 1
    MaxEvents = 2
    MaxFaults = 1
SYMMETRY WorkerSymmetry
INVARIANTS TypeOK ExclusiveJob ClaimedIsQueued MergedHeadWasEvaluated KingIsMerged
PROPERTIES EvaluationIsolated ClosedIsCancelled PromotionKept
