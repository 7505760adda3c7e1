SPECIFICATION FairSpec
CONSTANTS
    PRs = {p1, p2}
    Workers = {w1}
    Api = api
    None = none
    MaxHead = 1
    Scores = {1, 2, 3}
    Threshold = 1
    MaxEvents = 2
    MaxFaults = 1
PROPERTIES KingNeverDrops PauseHolds TakenIsSettled HookReturns
