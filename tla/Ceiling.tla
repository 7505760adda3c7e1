------------------------------ MODULE Ceiling ------------------------------
(***************************************************************************)
(* scripts/oracle_ceiling.py: --collect draws K graded answers per query   *)
(* and model, --analyze estimates from them what routing could gain.       *)
(*                                                                         *)
(* Probabilities are counts out of K, sums over queries stay undivided;    *)
(* each definition names its scale.                                        *)
(***************************************************************************)
EXTENDS Rewards

CONSTANTS
    Setups,      \* arguments of the script: the tasks collected on, --k and the
                 \* --crossfit-splits, as [queries, k, splits]
    ReliableK,   \* samples from which the cross-fit is trusted: 5 in the code
    Models,      \* 1..M, in the order of the pool
    QueryRef,    \* [query -> reference]
    QueryKind,   \* the benchmark
    Answers,     \* texts a model may answer with
    Price,       \* [model -> cost of one answer]
    MaxCost      \* --max-cost-usd, 0 for no cap

ASSUME CeilingAssumption ==
    /\ \A a \in Setups : IsFiniteSet(a.queries) /\ a.queries # {}
                          /\ {a.k, a.splits} \subseteq Nat \ {0}
    /\ Models # {} /\ IsFiniteSet(Models) /\ Models = 1..Cardinality(Models)
    /\ Setups # {} /\ ReliableK \in Nat \ {0} /\ MaxCost \in Nat /\ Price \in [Models -> Nat]

NoSplit == {}
NoReport == "none"
Lost == <<[k |-> "error", v |-> ""]>>   \* the call failed after its retries

VARIABLES
    args,      \* the arguments
    stage,     \* where the script is
    calls,     \* calls in flight, per query and model
    cells,     \* grades in the order the answers came
    spend,     \* the cost meter
    aborted,   \* its flag
    matrix,    \* oracle_matrix_*.json: its cells
    code,      \* the exit code
    splits,    \* halves drawn by the cross-fit
    report     \* verdict of the analysis

ceilVars == <<args, stage, calls, cells, spend, aborted, matrix, code, splits, report>>

-----------------------------------------------------------------------------
(***************************************************************************)
(* Collection                                                              *)
(***************************************************************************)
Queries == args.queries
K == args.k   \* samples per query and model
Cells == Queries \X Models

CeilInit ==
    /\ args \in Setups
    /\ stage = "start"
    /\ calls = [c \in Cells |-> 0]
    /\ cells = [c \in Cells |-> <<>>]
    /\ spend = 0 /\ aborted = FALSE /\ code = 0
    /\ matrix = <<>> /\ splits = NoSplit /\ report = NoReport

\* gather starts every coroutine before any call can return: each of them finds
\* the flag unset, so all calls are made whatever the cap.
Begin ==
    /\ stage = "start"
    /\ calls' = [c \in Cells |-> IF aborted THEN 0 ELSE K]
    /\ stage' = "collect"
    /\ UNCHANGED <<args, cells, spend, aborted, matrix, code, splits, report>>

\* A failed call, like a wrong answer, is a sample graded 0, and costs nothing.
Answer(c, text) ==
    /\ stage = "collect" /\ calls[c] > 0
    /\ LET right == text # Lost /\ score_text(QueryKind, text, QueryRef[c[1]])
       IN  cells' = [cells EXCEPT ![c] = Append(@, IF right THEN 1 ELSE 0)]
    /\ calls' = [calls EXCEPT ![c] = @ - 1]
    /\ spend' = spend + (IF text = Lost THEN 0 ELSE Price[c[2]])
    /\ aborted' = (aborted \/ (MaxCost > 0 /\ spend' > MaxCost))
    /\ UNCHANGED <<args, stage, matrix, code, splits, report>>

\* The matrix is written in either case; exit code 2 says the cap was passed.
WriteMatrix ==
    /\ stage = "collect" /\ \A c \in Cells : calls[c] = 0
    /\ matrix' = cells
    /\ code' = IF aborted THEN 2 ELSE 0
    /\ stage' = "collected"
    /\ UNCHANGED <<args, calls, cells, spend, aborted, splits, report>>

-----------------------------------------------------------------------------
(***************************************************************************)
(* Analysis                                                                *)
(***************************************************************************)
Product(f) == FoldFunction(LAMBDA x, y : x * y, 1, f)
Largest(S) == Max(S)

\* matrix_to_tensor refuses cells of different lengths.
Ragged == \E c \in Cells : Len(matrix[c]) # K

\* Solved samples of a cell among a set of sample indices; p is over all K.
Solved(c, samples) == SumFunction([k \in samples |-> matrix[c][k]])
p_hat(q, m) == Solved(<<q, m>>, 1..K)

\* best_single and routing_oracle_naive are in units of 1 / (K * |Queries|), on
\* a sample qs of the queries, repetitions included.
best_single(qs) == Largest({SumFunction([i \in DOMAIN qs |-> p_hat(qs[i], m)]) : m \in Models})
routing_oracle_naive(qs) ==
    SumFunction([i \in DOMAIN qs |-> Largest({p_hat(qs[i], m) : m \in Models})])

\* The probability that some model solves the query: units of 1 / (K^M * |Queries|).
AllModels == Product([m \in Models |-> K])
clairvoyant_any(qs) ==
    SumFunction([i \in DOMAIN qs |-> AllModels - Product([m \in Models |-> K - p_hat(qs[i], m)])])

\* A split draws, per query of a sample and for all models alike, the half to
\* select on.
Halves == {a \in SUBSET (1..K) : Cardinality(a) = K \div 2}
Splits == [1..Cardinality(Queries) -> Halves]

\* Variant: the choice is scored on the samples it was made on.
SelectionHalf(split, i) == split[i]

Rest(split, i) == (1..K) \ split[i]

\* argmax(sel + jitter): the jitter grows with the index, so the last model of
\* those that tie is taken.
ArgMax(f) == Largest({m \in Models : \A n \in Models : f[n] <= f[m]})

\* Both selected on one half and scored on the other, in units of
\* 1 / ((K - K \div 2) * |Queries|); for K = 1 there is no other half.
crossfit_oracle(split, qs) ==
    SumFunction([i \in DOMAIN qs |->
        LET chosen == ArgMax([m \in Models |-> Solved(<<qs[i], m>>, split[i])])
        IN  Solved(<<qs[i], chosen>>, Rest(split, i))])

crossfit_best(split, qs) ==
    LET chosen == ArgMax([m \in Models |->
            SumFunction([i \in DOMAIN qs |-> Solved(<<qs[i], m>>, split[i])])])
    IN  SumFunction([i \in DOMAIN qs |-> Solved(<<qs[i], chosen>>, Rest(split, i))])

\* The headroom over the splits drawn, floored at zero because a router can
\* always fall back to the best model.
routing_headroom(drawn, qs) ==
    LET oracle == IF K < 2 THEN routing_oracle_naive(qs)
                  ELSE SumFunction([s \in drawn |-> crossfit_oracle(s, qs)])
        best == IF K < 2 THEN best_single(qs)
                ELSE SumFunction([s \in drawn |-> crossfit_best(s, qs)])
    IN  Largest({oracle, best}) - best

\* A model solves a query when it does so in half of the samples.
threshold_headroom(qs) ==
    LET Solves(q, m) == IF 2 * p_hat(q, m) >= K THEN 1 ELSE 0
    IN  SumFunction([i \in DOMAIN qs |-> Largest({Solves(qs[i], m) : m \in Models})])
            - Largest({SumFunction([i \in DOMAIN qs |-> Solves(qs[i], m)]) : m \in Models})

\* The bootstrap resamples queries; the verdict reads the cross-fit headroom,
\* or the threshold one when a small K leaves too little to select on.
Resamples == [1..Cardinality(Queries) -> Queries]
Headroom(drawn, qs) == IF K >= ReliableK THEN routing_headroom(drawn, qs) ELSE threshold_headroom(qs)

\* gap: the share of the headroom a router closes, "low", "high" or unknown.
\* On this scale 0.02 is below one unit.
verdict(lo, hi, gap) ==
    CASE hi <= 0 /\ lo <= 0 -> "POOL_BOUND"
      [] lo > 0 -> IF gap = "high" THEN "NEAR_CEILING" ELSE "ROUTER_BOUND"
      [] OTHER -> "INCONCLUSIVE"

\* The ends of the interval are quantiles of the resampled headroom: any two of
\* its values in order.
Analyze ==
    /\ stage = "collected" /\ ~Ragged
    /\ splits' \in IF K < 2 THEN {NoSplit}
                  ELSE {drawn \in SUBSET Splits : Cardinality(drawn) \in 1..args.splits}
    /\ LET values == {Headroom(splits', qs) : qs \in Resamples}
       IN  \E lo, hi \in values, gap \in {"low", "high", "unknown"} :
               lo <= hi /\ report' = verdict(lo, hi, gap)
    /\ stage' = "reported"
    /\ UNCHANGED <<args, calls, cells, spend, aborted, matrix, code>>

CeilNext ==
    \/ Begin
    \/ \E c \in Cells, text \in Answers \cup {Lost} : Answer(c, text)
    \/ WriteMatrix
    \/ Analyze

CeilDone == stage = "reported"

-----------------------------------------------------------------------------
AllQueries == SetToSeq(Queries)

\* No fixed model beats the router that knows the estimates, and no router that
\* picks one model beats the luck of all of them together.
CeilingsOrdered ==
    /\ best_single(AllQueries) <= routing_oracle_naive(AllQueries)
    /\ routing_oracle_naive(AllQueries) * AllModels <= clairvoyant_any(AllQueries) * K

\* Selecting on samples other than those scored takes the winner's curse away:
\* over all splits the cross-fit oracle is at most the naive one.
CrossFitDebiases ==
    K >= 2 =>
        SumFunction([s \in Splits |-> crossfit_oracle(s, AllQueries)]) * K
            <= Cardinality(Splits) * routing_oracle_naive(AllQueries) * (K - K \div 2)

\* Models that answer alike leave nothing to route, whichever splits are drawn.
IdenticalModels == \A c, d \in Cells : c[1] = d[1] => matrix[c] = matrix[d]
NoFalseHeadroom ==
    IdenticalModels => routing_headroom(splits, AllQueries) = 0 /\ report = "POOL_BOUND"

CeilingIsSound ==
    /\ stage = "collected" => CeilingsOrdered /\ CrossFitDebiases
    /\ stage = "reported" => NoFalseHeadroom

(***************************************************************************)
(* What the script says, and does not do                                   *)
(***************************************************************************)
\* "abort collection if running spend exceeds this", "run was cost-aborted;
\* matrix is partial (ragged K)": a collection that had passed its cap before
\* its last answer came has left calls out.
CapAbortsCollection ==
    code = 2 /\ (\A m \in Models : spend - Price[m] > MaxCost) => Ragged
=============================================================================
