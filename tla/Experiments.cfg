SPECIFICATION Spec
CONSTANTS
    Letters = {"A", "B", "C", "D"}
    Numerals = {"1", "1.0", "2"}
    Amount <- MCAmount
    Sympy <- MCSympy
    Calls <- MCCalls
    Rank <- MCRank
    Passes <- MCPasses
    Items <- MCItems
    TextsOf <- MCTextsOf
    MaxTurns = 3
    TrainTasks = {"sum", "quiz"}
    Benchmark <- MCBenchmark
    Reference <- MCReference
    Trajectories <- MCTrajectories
    PopSize = 2
    MCma = 3
    BatchSize = 2
    Generations = 2
    Budget = 3
    FormatBonus = 5
    TurnPenalty = 5
    Reweight = TRUE
    Weights = {6, 12, 18}
    Setups <- MCSetups
    ReliableK = 2
    Models <- MCModels
    QueryRef <- MCQueryRef
    QueryKind = "choice"
    Answers <- MCAnswers
    Price <- MCPrice
    MaxCost = 3
INVARIANTS GradesAreConsistent SelectionIsSound CeilingIsSound
CHECK_DEADLOCK FALSE
