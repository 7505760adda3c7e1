------------------------- MODULE ExperimentsProofs -------------------------
(***************************************************************************)
(* What the programs that grade answers keep.  The oracle ceiling, for     *)
(* every pool of models, set of queries, number of samples and cost cap:   *)
(* the matrix is whole, the estimates are ordered, the cross-fit does not  *)
(* exceed the naive oracle over all splits, and models that answer alike   *)
(* leave no headroom.  A graded trajectory: no answer is lost, nothing     *)
(* without an answer is right, and calls that are listed in another order  *)
(* sort to the same list.  The training loop: see TrainingProofs.          *)
(***************************************************************************)
EXTENDS Experiments, TrainingProofs

CeilSpec == CeilInit /\ [][CeilNext]_ceilVars

-----------------------------------------------------------------------------
(***************************************************************************)
(* The collection                                                          *)
(***************************************************************************)
Drawing ==
    /\ args \in Setups
    /\ calls \in [Cells -> Nat] /\ cells \in [Cells -> Seq({0, 1})]
    /\ stage \in {"start", "collect", "collected", "reported"}
    /\ stage = "start" => ~ aborted /\ \A c \in Cells : cells[c] = <<>>
    /\ stage = "collect" => \A c \in Cells : Len(cells[c]) + calls[c] = K
    /\ stage \in {"start", "collect"} => matrix = <<>>

\* The matrix has K grades in each cell.
Sampled ==
    /\ args \in Setups
    /\ matrix \in [Cells -> Seq({0, 1})] /\ \A c \in Cells : Len(matrix[c]) = K

Collected ==
    stage \in {"collected", "reported"} => Sampled

Collection == Drawing /\ Collected

LEMMA ArgsFixed ==
    ASSUME CeilNext
    PROVE  args' = args /\ Cells' = Cells /\ K' = K /\ Queries' = Queries
BY DEF CeilNext, Begin, Answer, WriteMatrix, Analyze, Cells, K, Queries

LEMMA Arguments ==
    ASSUME args \in Setups
    PROVE  K \in Nat /\ K > 0 /\ IsFiniteSet(Queries) /\ Queries # {}
BY CeilingAssumption DEF K, Queries

LEMMA CollectionInit == CeilInit => Collection
<1> SUFFICES ASSUME CeilInit PROVE Collection
  OBVIOUS
<1>1. <<>> \in Seq({0, 1})
  BY EmptySeq
<1> QED BY <1>1 DEF CeilInit, Collection, Drawing, Collected

LEMMA CollectionNext == Collection /\ [CeilNext]_ceilVars => Collection'
<1> SUFFICES ASSUME Collection, [CeilNext]_ceilVars PROVE Collection'
  OBVIOUS
<1> USE DEF Collection
<1>1. CASE Begin
  <2>1. K \in Nat /\ Cells' = Cells /\ K' = K
    BY <1>1, Arguments DEF Begin, Drawing, Cells, K, Queries
  <2>2. /\ stage = "start" /\ stage' = "collect"
        /\ UNCHANGED <<args, cells, matrix>>
        /\ calls' = [c \in Cells |-> K]
    BY <1>1 DEF Begin, Drawing
  <2>3. \A c \in Cells : Len(cells[c]) = 0
    BY <2>2 DEF Drawing
  <2>4. \A c \in Cells : Len(cells[c]) + calls'[c] = K
    BY <2>1, <2>2, <2>3
  <2>5. calls' \in [Cells -> Nat]
    BY <2>1, <2>2
  <2>6. Drawing'
    BY <2>1, <2>2, <2>4, <2>5 DEF Drawing
  <2>7. Collected'
    BY <2>2 DEF Collected
  <2> QED BY <2>6, <2>7
<1>2. ASSUME NEW c \in Cells, NEW text \in Answers \cup {Lost}, Answer(c, text)
      PROVE  Collection'
  <2> DEFINE grade1 == IF text # Lost /\ score_text(QueryKind, text, QueryRef[c[1]]) THEN 1 ELSE 0
  <2>2. /\ stage = "collect" /\ calls[c] > 0
        /\ cells' = [cells EXCEPT ![c] = Append(cells[c], grade1)]
        /\ calls' = [calls EXCEPT ![c] = calls[c] - 1]
        /\ UNCHANGED <<args, stage, matrix, code, splits, report>>
    BY <1>2 DEF Answer
  <2>3. grade1 \in {0, 1}
    OBVIOUS
  <2> HIDE DEF grade1
  <2>4. Cells' = Cells /\ K' = K /\ K \in Nat
    BY <2>2, Arguments DEF Drawing, Cells, K, Queries
  <2>5. /\ Append(cells[c], grade1) \in Seq({0, 1})
        /\ Len(Append(cells[c], grade1)) = Len(cells[c]) + 1
    BY <2>3, AppendProperties DEF Drawing
  <2>6. \A d \in Cells : Len(cells[d]) \in Nat
    BY LenProperties DEF Drawing
  <2>7. Drawing'
    BY <2>2, <2>4, <2>5, <2>6 DEF Drawing
  <2>8. Collected'
    BY <2>2 DEF Collected
  <2> QED BY <2>7, <2>8
<1>3. CASE WriteMatrix
  <2>1. Cells' = Cells /\ K' = K /\ K \in Nat
    BY <1>3, Arguments DEF WriteMatrix, Drawing, Cells, K, Queries
  <2>2. \A c \in Cells : Len(cells[c]) \in Nat /\ calls[c] = 0 /\ Len(cells[c]) + calls[c] = K
    BY <1>3, LenProperties DEF WriteMatrix, Drawing
  <2>3. \A c \in Cells : Len(cells[c]) = K
    BY <2>1, <2>2
  <2>4. Drawing'
    BY <1>3, <2>1 DEF WriteMatrix, Drawing
  <2>5. Collected'
    BY <1>3, <2>1, <2>3 DEF WriteMatrix, Collected, Sampled, Drawing
  <2> QED BY <2>4, <2>5
<1>4. CASE Analyze
  <2>1. UNCHANGED <<args, calls, cells, matrix>>
        /\ stage = "collected" /\ stage' = "reported"
    BY <1>4 DEF Analyze
  <2>2. Cells' = Cells /\ K' = K
    BY <2>1 DEF Cells, K, Queries
  <2> QED BY <2>1, <2>2 DEF Drawing, Collected, Sampled
<1>5. CASE UNCHANGED ceilVars
  BY <1>5 DEF ceilVars, Drawing, Collected, Sampled, Cells, K, Queries
<1> QED BY <1>1, <1>2, <1>3, <1>4, <1>5 DEF CeilNext

-----------------------------------------------------------------------------
(***************************************************************************)
(* The estimates                                                           *)
(***************************************************************************)
LEMMA Pool == IsFiniteSet(Models) /\ Models # {}
BY CeilingAssumption

LEMMA LargestValue ==
    ASSUME NEW f, \A m \in Models : f[m] \in Int
    PROVE  LET top == Largest({f[m] : m \in Models})
           IN  top \in Int /\ (\E m \in Models : top = f[m]) /\ \A m \in Models : f[m] <= top
<1> DEFINE S == {f[m] : m \in Models}
<1>1. IsFiniteSet(S)
  <2> DEFINE g == [m \in Models |-> f[m]]
  <2>1. g \in Surjection(Models, S)
    BY DEF Surjection
  <2> HIDE DEF g, S
  <2> QED BY <2>1, Pool, FS_Surjection
<1>2. S # {} /\ S \subseteq Int
  BY Pool
<1> HIDE DEF S
<1>3. Max(S) \in S /\ \A y \in S : y <= Max(S)
  BY <1>1, <1>2, GreatestMember
<1> USE DEF S
<1> QED BY <1>2, <1>3 DEF Largest

LEMMA ArgMaxFirst ==
    ASSUME NEW f, \A m \in Models : f[m] \in Int
    PROVE  ArgMax(f) \in Models /\ \A m \in Models : f[m] <= f[ArgMax(f)]
<1> DEFINE S == {m \in Models : \A n \in Models : f[n] <= f[m]}
<1>1. IsFiniteSet(S)
  BY Pool, FS_Subset
<1>2. S # {}
  BY LargestValue
<1>3. S \subseteq Int
  BY CeilingAssumption, Pool, FS_CardinalityType
<1>4. ArgMax(f) = Max(S)
  BY DEF ArgMax, Largest
<1>5. Max(S) \in S
  <2> HIDE DEF S
  <2> QED BY <1>1, <1>2, <1>3, GreatestMember
<1> QED BY <1>4, <1>5

LEMMA SolvedInt ==
    ASSUME Sampled, NEW c \in Cells, NEW a \in SUBSET (1..K)
    PROVE  /\ Solved(c, a) = SumFunctionOnSet(matrix[c], a)
           /\ Solved(c, a) \in Nat
           /\ \A k \in 1..K : matrix[c][k] \in {0, 1}
           /\ IsFiniteSet(a)
<1>1. K \in Nat
  BY Arguments DEF Sampled
<1>2. IsFiniteSet(a)
  <2>1. IsFiniteSet(1..K)
    BY <1>1, FS_Interval
  <2> QED BY <2>1, FS_Subset
<1>3. \A k \in 1..K : matrix[c][k] \in {0, 1}
  <2>1. matrix[c] \in Seq({0, 1}) /\ Len(matrix[c]) = K
    BY DEF Sampled
  <2> QED BY <2>1
<1> DEFINE f == [k \in a |-> matrix[c][k]]
<1>4. \A k \in a : f[k] = matrix[c][k] /\ f[k] \in Nat
  BY <1>3
<1>5. Solved(c, a) = SumFunctionOnSet(f, a)
  BY DEF Solved, SumFunction, SumFunctionOnSet, FoldFunction
<1> HIDE DEF f
<1>6. SumFunctionOnSet(f, a) = SumFunctionOnSet(matrix[c], a)
  BY <1>2, <1>4, SumEqual
<1>7. SumFunctionOnSet(f, a) \in Nat
  BY <1>2, <1>4, SumNat
<1> QED BY <1>2, <1>3, <1>5, <1>6, <1>7

LEMMA PHat ==
    ASSUME Sampled, NEW q \in Queries, NEW m \in Models
    PROVE  /\ <<q, m>> \in Cells /\ p_hat(q, m) \in 0..K
           /\ p_hat(q, m) = Solved(<<q, m>>, 1..K)
<1>1. K \in Nat
  BY Arguments DEF Sampled
<1> DEFINE c == <<q, m>>
<1>2. c \in Cells /\ p_hat(q, m) = Solved(c, 1..K)
  BY DEF Cells, p_hat
<1> HIDE DEF c
<1>3. /\ Solved(c, 1..K) = SumFunctionOnSet(matrix[c], 1..K) /\ Solved(c, 1..K) \in Nat
      /\ \A k \in 1..K : matrix[c][k] \in {0, 1}
      /\ IsFiniteSet(1..K)
  BY <1>2, SolvedInt
<1> DEFINE one == [k \in 1..K |-> 1]
<1>4. SumFunctionOnSet(one, 1..K) = K
  <2>1. \A k \in 1..K : one[k] = 1
    OBVIOUS
  <2> HIDE DEF one
  <2>2. SumFunctionOnSet(one, 1..K) = K * 1
    BY <1>1, <2>1, SumConstant
  <2> QED BY <1>1, <2>2
<1>5. \A k \in 1..K : matrix[c][k] \in Int /\ one[k] \in Int /\ matrix[c][k] <= one[k]
  BY <1>3
<1> HIDE DEF one
<1>6. SumFunctionOnSet(matrix[c], 1..K) <= SumFunctionOnSet(one, 1..K)
  BY <1>3, <1>5, SumMonotone
<1>7. Solved(c, 1..K) <= K
  BY <1>3, <1>4, <1>6
<1>8. Solved(c, 1..K) \in 0..K
  BY <1>1, <1>3, <1>7
<1> QED BY <1>2, <1>8 DEF c

LEMMA EveryQuery ==
    ASSUME args \in Setups
    PROVE  /\ Cardinality(Queries) \in Nat
           /\ AllQueries \in Resamples
<1>1. IsFiniteSet(Queries)
  BY Arguments
<1>2. Cardinality(Queries) \in Nat /\ ExistsBijection(1..Cardinality(Queries), Queries)
  BY <1>1, FS_CardinalityType
<1>3. \E f \in [1..Cardinality(Queries) -> Queries] : IsInjective(f)
  BY <1>2 DEF ExistsBijection, Bijection, Injection, IsInjective
<1> QED BY <1>2, <1>3 DEF AllQueries, SetToSeq, Resamples

\* A sample of the queries, as SumFunction meets it.
LEMMA SumOverSample ==
    ASSUME args \in Setups, NEW qs \in Resamples
    PROVE  /\ DOMAIN qs = 1..Cardinality(Queries) /\ IsFiniteSet(DOMAIN qs)
           /\ \A i \in DOMAIN qs : qs[i] \in Queries
<1>1. Cardinality(Queries) \in Nat
  BY EveryQuery
<1>2. IsFiniteSet(1..Cardinality(Queries))
  BY <1>1, FS_Interval
<1> QED BY <1>2 DEF Resamples

LEMMA SumIs == \A f : SumFunction(f) = SumFunctionOnSet(f, DOMAIN f)
BY DEF SumFunction, SumFunctionOnSet, FoldFunction

LEMMA ProductIs == \A f : Product(f) = ProductOnSet(f, DOMAIN f)
BY DEF Product, ProductOnSet, FoldFunction

-----------------------------------------------------------------------------
(***************************************************************************)
(* The order of the estimates                                              *)
(***************************************************************************)
LEMMA BestAt ==
    ASSUME Sampled, NEW q \in Queries
    PROVE  LET top == Largest({p_hat(q, m) : m \in Models})
           IN  top \in 0..K /\ (\E m \in Models : top = p_hat(q, m))
                   /\ \A m \in Models : p_hat(q, m) <= top
<1> DEFINE f == [m \in Models |-> p_hat(q, m)]
<1>1. \A m \in Models : p_hat(q, m) \in 0..K /\ f[m] = p_hat(q, m)
  BY PHat
<1>2. K \in Nat
  BY Arguments DEF Sampled
<1>3. {f[m] : m \in Models} = {p_hat(q, m) : m \in Models}
  OBVIOUS
<1> HIDE DEF f
<1>4. \A m \in Models : f[m] \in Int
  BY <1>1
<1>5. LET top == Largest({f[m] : m \in Models})
      IN  top \in Int /\ (\E m \in Models : top = f[m]) /\ \A m \in Models : f[m] <= top
  BY <1>4, LargestValue
<1> QED BY <1>1, <1>2, <1>3, <1>5

LEMMA FixedSum ==
    ASSUME Sampled, NEW qs \in Resamples, NEW m \in Models
    PROVE  SumFunction([i \in DOMAIN qs |-> p_hat(qs[i], m)]) \in Nat
<1> DEFINE f == [i \in DOMAIN qs |-> p_hat(qs[i], m)]
<1>1. IsFiniteSet(DOMAIN qs) /\ \A i \in DOMAIN qs : qs[i] \in Queries
  BY SumOverSample DEF Sampled
<1>2. K \in Nat
  BY Arguments DEF Sampled
<1>3. \A i \in DOMAIN qs : f[i] \in Nat
  <2>1. \A i \in DOMAIN qs : f[i] \in 0..K
    BY <1>1, PHat
  <2> QED BY <1>2, <2>1
<1>4. DOMAIN f = DOMAIN qs
  OBVIOUS
<1> HIDE DEF f
<1>5. SumFunctionOnSet(f, DOMAIN qs) \in Nat
  BY <1>1, <1>3, SumNat
<1>6. SumFunction(f) \in Nat
  BY <1>4, <1>5, SumIs
<1> QED BY <1>6 DEF f

LEMMA BestSingle ==
    ASSUME Sampled, NEW qs \in Resamples
    PROVE  /\ best_single(qs) \in Nat
           /\ \E m \in Models : best_single(qs) = SumFunction([i \in DOMAIN qs |-> p_hat(qs[i], m)])
           /\ \A m \in Models : SumFunction([i \in DOMAIN qs |-> p_hat(qs[i], m)]) <= best_single(qs)
<1> DEFINE Total(m) == SumFunction([i \in DOMAIN qs |-> p_hat(qs[i], m)])
           f == [m \in Models |-> Total(m)]
<1>1. \A m \in Models : Total(m) \in Nat /\ f[m] = Total(m)
  BY FixedSum
<1>2. best_single(qs) = Largest({Total(m) : m \in Models})
  BY DEF best_single
<1>3. {f[m] : m \in Models} = {Total(m) : m \in Models}
  OBVIOUS
<1>4. \A m \in Models : f[m] \in Int
  BY <1>1
<1> HIDE DEF f, Total
<1>5. LET top == Largest({f[m] : m \in Models})
      IN  top \in Int /\ (\E m \in Models : top = f[m]) /\ \A m \in Models : f[m] <= top
  BY <1>4, LargestValue
<1>6. /\ \E m \in Models : best_single(qs) = Total(m)
      /\ \A m \in Models : Total(m) <= best_single(qs)
  BY <1>1, <1>2, <1>3, <1>5
<1> QED BY <1>1, <1>6 DEF Total

\* The largest estimate of each query of a sample.
Tops(qs) == [i \in DOMAIN qs |-> Largest({p_hat(qs[i], m) : m \in Models})]

LEMMA TopsRange ==
    ASSUME Sampled, NEW qs \in Resamples
    PROVE  /\ \A i \in DOMAIN qs : Tops(qs)[i] \in 0..K
           /\ IsFiniteSet(DOMAIN qs) /\ K \in Nat
           /\ routing_oracle_naive(qs) = SumFunctionOnSet(Tops(qs), DOMAIN qs)
           /\ routing_oracle_naive(qs) \in Nat
<1>1. IsFiniteSet(DOMAIN qs) /\ \A i \in DOMAIN qs : qs[i] \in Queries
  BY SumOverSample DEF Sampled
<1>2. K \in Nat
  BY Arguments DEF Sampled
<1>3. \A i \in DOMAIN qs : Tops(qs)[i] \in 0..K
  BY <1>1, BestAt DEF Tops
<1>4. routing_oracle_naive(qs) = SumFunctionOnSet(Tops(qs), DOMAIN qs)
  <2>1. routing_oracle_naive(qs) = SumFunction(Tops(qs)) /\ DOMAIN Tops(qs) = DOMAIN qs
    BY DEF routing_oracle_naive, Tops
  <2> QED BY <2>1, SumIs
<1>5. \A i \in DOMAIN qs : Tops(qs)[i] \in Nat
  BY <1>2, <1>3
<1>6. SumFunctionOnSet(Tops(qs), DOMAIN qs) \in Nat
  BY <1>1, <1>5, SumNat
<1> QED BY <1>1, <1>2, <1>3, <1>4, <1>6

LEMMA NoFixedModelIsBetter ==
    ASSUME Sampled, NEW qs \in Resamples
    PROVE  best_single(qs) <= routing_oracle_naive(qs)
<1>1. PICK m \in Models : best_single(qs) = SumFunction([i \in DOMAIN qs |-> p_hat(qs[i], m)])
  BY BestSingle
<1> DEFINE f == [i \in DOMAIN qs |-> p_hat(qs[i], m)]
<1>2. best_single(qs) = SumFunctionOnSet(f, DOMAIN qs)
  BY <1>1, SumIs
<1>3. \A i \in DOMAIN qs : qs[i] \in Queries
  BY SumOverSample DEF Sampled
<1>4. \A i \in DOMAIN qs : f[i] \in 0..K /\ f[i] <= Tops(qs)[i]
  BY <1>3, PHat, BestAt DEF Tops
<1>5. \A i \in DOMAIN qs : f[i] \in Int /\ Tops(qs)[i] \in Int /\ f[i] <= Tops(qs)[i]
  BY <1>4, TopsRange
<1> HIDE DEF f
<1>6. SumFunctionOnSet(f, DOMAIN qs) <= SumFunctionOnSet(Tops(qs), DOMAIN qs)
  BY <1>5, TopsRange, SumMonotone
<1> QED BY <1>2, <1>6, TopsRange

\* At one query, in units of 1 / K^(M+1): a model that solves p of its K samples
\* leaves the others at most (K - p) of K ways to fail.
LEMMA LuckOfAll ==
    ASSUME Sampled, NEW q \in Queries
    PROVE  LET top == Largest({p_hat(q, m) : m \in Models})
               missed == Product([m \in Models |-> K - p_hat(q, m)])
           IN  /\ AllModels \in Nat /\ missed \in Nat
               /\ AllModels * top <= K * (AllModels - missed)
<1> DEFINE top == Largest({p_hat(q, m) : m \in Models})
           f == [m \in Models |-> K - p_hat(q, m)]
           g == [m \in Models |-> K]
<1>1. K \in Nat
  BY Arguments DEF Sampled
<1>2. PICK star \in Models : top = p_hat(q, star)
  BY BestAt
<1>3. \A m \in Models : p_hat(q, m) \in 0..K
  BY PHat
<1>4. \A m \in Models : f[m] \in Nat /\ g[m] \in Nat /\ f[m] <= g[m]
  BY <1>1, <1>3
<1>5. f[star] = K - top /\ g[star] = K /\ top \in 0..K
  BY <1>2, <1>3
<1>6. AllModels = ProductOnSet(g, Models) /\ Product(f) = ProductOnSet(f, Models)
  BY ProductIs DEF AllModels
<1> HIDE DEF f, g, top
<1> DEFINE others == Models \ {star}
           a == ProductOnSet(f, others)
           b == ProductOnSet(g, others)
<1>7. IsFiniteSet(others) /\ \A m \in others : m \in Models
  BY Pool, FS_RemoveElement
<1>8. a \in Nat /\ b \in Nat /\ a <= b
  <2> HIDE DEF others
  <2> QED BY <1>4, <1>7, ProductMonotone
<1>9. ProductOnSet(f, Models) = f[star] * a /\ ProductOnSet(g, Models) = g[star] * b
  <2>1. \A m \in Models : f[m] \in Int /\ g[m] \in Int
    BY <1>4
  <2> QED BY <2>1, Pool, ProductRemove
<1> HIDE DEF a, b
<1>10. AllModels = K * b /\ Product(f) = (K - top) * a
  BY <1>5, <1>6, <1>9
<1>11. top \in Nat /\ K - top \in Nat
  BY <1>1, <1>5
<1>12. AllModels \in Nat /\ Product(f) \in Nat
  BY <1>1, <1>8, <1>10, <1>11
<1>13. (K - top) * a <= (K - top) * b
  BY <1>8, <1>11
<1>14. AllModels * top <= K * (AllModels - Product(f))
  <2>1. AllModels - Product(f) >= K * b - (K - top) * b
    BY <1>1, <1>8, <1>10, <1>11, <1>12, <1>13
  <2>2. K * b - (K - top) * b = top * b
    BY <1>1, <1>8, <1>11
  <2>3. top * b \in Nat /\ AllModels - Product(f) \in Int /\ AllModels - Product(f) >= top * b
    BY <1>8, <1>11, <1>12, <2>1, <2>2
  <2> DEFINE d == AllModels - Product(f)  e == top * b
  <2>4. d \in Int /\ e \in Nat /\ d >= e
    BY <2>3
  <2>5. K * d >= K * e
    <3> HIDE DEF d, e
    <3> QED BY <1>1, <2>4
  <2>6. AllModels * top = K * e
    BY <1>1, <1>8, <1>10, <1>11
  <2> QED BY <2>5, <2>6
<1> QED BY <1>12, <1>14 DEF f, top

LEMMA LuckIsBest ==
    ASSUME Sampled, NEW qs \in Resamples
    PROVE  routing_oracle_naive(qs) * AllModels <= clairvoyant_any(qs) * K
<1>1. IsFiniteSet(DOMAIN qs) /\ \A i \in DOMAIN qs : qs[i] \in Queries
  BY SumOverSample DEF Sampled
<1>2. K \in Nat
  BY Arguments DEF Sampled
<1> DEFINE missed(i) == Product([m \in Models |-> K - p_hat(qs[i], m)])
           luck == [i \in DOMAIN qs |-> AllModels - missed(i)]
           low == [i \in DOMAIN qs |-> AllModels * Tops(qs)[i]]
           high == [i \in DOMAIN qs |-> K * luck[i]]
<1>3. \A i \in DOMAIN qs : /\ AllModels \in Nat /\ missed(i) \in Nat
                           /\ AllModels * Tops(qs)[i] <= K * (AllModels - missed(i))
  BY <1>1, LuckOfAll DEF Tops
<1>4. clairvoyant_any(qs) = SumFunctionOnSet(luck, DOMAIN qs)
  BY SumIs DEF clairvoyant_any
<1> HIDE DEF missed
<1>5. AllModels \in Nat
  <2>1. Queries # {}
    BY Arguments DEF Sampled
  <2> QED BY <2>1, LuckOfAll
<1>6. \A i \in DOMAIN qs : Tops(qs)[i] \in Nat
  BY TopsRange
<1>7. \A i \in DOMAIN qs : luck[i] \in Int /\ low[i] \in Int /\ high[i] \in Int
                              /\ low[i] <= high[i]
                              /\ low[i] = AllModels * Tops(qs)[i] /\ high[i] = K * luck[i]
  BY <1>2, <1>3, <1>5, <1>6
<1> HIDE DEF luck, low, high
<1>8. SumFunctionOnSet(low, DOMAIN qs) <= SumFunctionOnSet(high, DOMAIN qs)
  BY <1>1, <1>7, SumMonotone
<1>9. SumFunctionOnSet(low, DOMAIN qs) = AllModels * SumFunctionOnSet(Tops(qs), DOMAIN qs)
  <2>1. \A i \in DOMAIN qs : Tops(qs)[i] \in Int /\ low[i] = AllModels * Tops(qs)[i]
    BY <1>6, <1>7
  <2>2. AllModels \in Int
    BY <1>5
  <2> QED BY <1>1, <2>1, <2>2, SumScale
<1>10. SumFunctionOnSet(high, DOMAIN qs) = K * SumFunctionOnSet(luck, DOMAIN qs)
  <2>1. \A i \in DOMAIN qs : luck[i] \in Int /\ high[i] = K * luck[i]
    BY <1>7
  <2>2. K \in Int
    BY <1>2
  <2> QED BY <1>1, <2>1, <2>2, SumScale
<1>11. SumFunctionOnSet(luck, DOMAIN qs) \in Int
  BY <1>1, <1>7, SumInt
<1> QED BY <1>2, <1>4, <1>5, <1>8, <1>9, <1>10, <1>11, TopsRange

\* oracle_ceiling.py:89-117: best single, routing oracle and clairvoyant, in
\* this order on every matrix.
LEMMA EstimatesOrdered == Sampled => CeilingsOrdered
BY NoFixedModelIsBetter, LuckIsBest, EveryQuery DEF CeilingsOrdered, Sampled

-----------------------------------------------------------------------------
(***************************************************************************)
(* The halves drawn by the cross-fit                                       *)
(***************************************************************************)
LEMMA SplitsFinite ==
    ASSUME args \in Setups
    PROVE  IsFiniteSet(Splits) /\ Cardinality(Splits) \in Nat
<1>1. K \in Nat /\ Cardinality(Queries) \in Nat
  BY Arguments, EveryQuery
<1>2. IsFiniteSet(1..K) /\ IsFiniteSet(1..Cardinality(Queries))
  BY <1>1, FS_Interval
<1>3. IsFiniteSet(SUBSET (1..K))
  BY <1>2, FS_SUBSET
<1>4. IsFiniteSet(Halves)
  BY <1>3, FS_Subset DEF Halves
<1>5. IsFiniteSet(Splits)
  BY <1>2, <1>4, FunctionsFinite DEF Splits
<1> QED BY <1>5, FS_CardinalityType

LEMMA RestOf ==
    ASSUME args \in Setups, NEW s \in Splits, NEW i \in 1..Cardinality(Queries)
    PROVE  /\ s[i] \in Halves /\ s[i] \in SUBSET (1..K) /\ Rest(s, i) \in SUBSET (1..K)
           /\ IsFiniteSet(s[i]) /\ IsFiniteSet(Rest(s, i))
           /\ s[i] \cup Rest(s, i) = 1..K /\ s[i] \cap Rest(s, i) = {}
           /\ Cardinality(Rest(s, i)) = K - K \div 2
<1>1. K \in Nat /\ s[i] \in Halves
  BY Arguments DEF Splits
<1>2. IsFiniteSet(1..K) /\ Cardinality(1..K) = K
  <2>1. IsFiniteSet(1..K) /\ Cardinality(1..K) = IF 1 > K THEN 0 ELSE K - 1 + 1
    BY <1>1, FS_Interval
  <2> QED BY <1>1, <2>1
<1>3. s[i] \in SUBSET (1..K) /\ Cardinality(s[i]) = K \div 2
  BY <1>1 DEF Halves
<1>4. IsFiniteSet(s[i])
  BY <1>2, <1>3, FS_Subset
<1>5. IsFiniteSet(Rest(s, i)) /\ Rest(s, i) \in SUBSET (1..K)
  <2>1. Rest(s, i) \in SUBSET (1..K)
    BY DEF Rest
  <2> QED BY <1>2, <2>1, FS_Subset
<1>6. s[i] \cup Rest(s, i) = 1..K /\ s[i] \cap Rest(s, i) = {}
  BY <1>3 DEF Rest
<1>7. Cardinality(s[i] \cup Rest(s, i)) = Cardinality(s[i]) + Cardinality(Rest(s, i))
  <2>1. Cardinality({}) = 0
    BY FS_EmptySet
  <2>2. /\ Cardinality(s[i] \cup Rest(s, i))
             = Cardinality(s[i]) + Cardinality(Rest(s, i)) - Cardinality(s[i] \cap Rest(s, i))
    BY <1>4, <1>5, FS_Union
  <2>3. Cardinality(s[i]) \in Nat /\ Cardinality(Rest(s, i)) \in Nat
    BY <1>4, <1>5, FS_CardinalityType
  <2> DEFINE c1 == Cardinality(s[i])  c2 == Cardinality(Rest(s, i))
             c3 == Cardinality(s[i] \cup Rest(s, i))
  <2>4. c1 \in Nat /\ c2 \in Nat /\ c3 = c1 + c2 - 0
    BY <1>6, <2>1, <2>2, <2>3
  <2>5. c3 = c1 + c2
    <3> HIDE DEF c1, c2, c3
    <3> QED BY <2>4
  <2> QED BY <2>5
<1>8. Cardinality(Rest(s, i)) = K - K \div 2
  <2> DEFINE r == Cardinality(Rest(s, i))  h == K \div 2
  <2>1. r \in Nat /\ h \in Int
    BY <1>1, <1>5, FS_CardinalityType
  <2>2. K = h + r
    BY <1>2, <1>3, <1>6, <1>7
  <2>3. r = K - h
    <3> HIDE DEF r, h
    <3> QED BY <1>1, <2>1, <2>2
  <2> QED BY <2>3
<1>9. s[i] \in Halves
  BY <1>1
<1> QED BY <1>3, <1>4, <1>5, <1>6, <1>8, <1>9

\* The splits that leave a sample to be scored on.
Leaving(i, k) == {s \in Splits : k \in Rest(s, i)}

\* Exchange two samples in the half of a query: a half that leaves k becomes one
\* that leaves l.
LEMMA Exchanged ==
    ASSUME args \in Setups, NEW i \in 1..Cardinality(Queries), NEW k \in 1..K, NEW l \in 1..K
    PROVE  Cardinality(Leaving(i, k)) <= Cardinality(Leaving(i, l))
<1> DEFINE other(a) == IF l \in a THEN (a \ {l}) \cup {k} ELSE a
           f == [s \in Leaving(i, k) |-> [s EXCEPT ![i] = other(s[i])]]
<1>1. IsFiniteSet(Leaving(i, l))
  BY SplitsFinite, FS_Subset DEF Leaving
<1>2. ASSUME NEW a \in Halves, k \notin a
      PROVE  other(a) \in Halves /\ l \notin other(a)
  <2>1. IsFiniteSet(a) /\ Cardinality(a) = K \div 2 /\ a \in SUBSET (1..K)
    <3>1. K \in Nat
      BY Arguments
    <3>2. IsFiniteSet(1..K)
      BY <3>1, FS_Interval
    <3>3. a \in SUBSET (1..K) /\ Cardinality(a) = K \div 2
      BY DEF Halves
    <3> QED BY <3>2, <3>3, FS_Subset
  <2>2. CASE l \notin a
    BY <2>2
  <2>3. CASE l \in a
    <3>1. IsFiniteSet(a \ {l}) /\ Cardinality(a \ {l}) = Cardinality(a) - 1
      BY <2>1, <2>3, FS_RemoveElement
    <3>2. Cardinality((a \ {l}) \cup {k}) = Cardinality(a \ {l}) + 1
      BY <1>2, <3>1, FS_AddElement
    <3>3. Cardinality(a) \in Nat
      BY <2>1, FS_CardinalityType
    <3>4. Cardinality((a \ {l}) \cup {k}) = K \div 2
      BY <2>1, <3>1, <3>2, <3>3
    <3>5. (a \ {l}) \cup {k} \in SUBSET (1..K)
      BY <2>1
    <3>6. l \notin (a \ {l}) \cup {k}
      BY <1>2, <2>3
    <3>7. (a \ {l}) \cup {k} \in Halves
      BY <3>4, <3>5 DEF Halves
    <3> QED BY <2>3, <3>6, <3>7
  <2> QED BY <2>2, <2>3
<1>3. ASSUME NEW s \in Leaving(i, k)
      PROVE  s \in Splits /\ s[i] \in Halves /\ k \notin s[i]
  BY <1>3 DEF Leaving, Splits, Rest
<1>4. ASSUME NEW s \in Leaving(i, k)
      PROVE  f[s] \in Leaving(i, l)
  <2>1. s \in Splits /\ s[i] \in Halves /\ k \notin s[i]
    BY <1>3
  <2>2. other(s[i]) \in Halves /\ l \notin other(s[i])
    BY <1>2, <2>1
  <2>3. [s EXCEPT ![i] = other(s[i])] \in Splits
    BY <2>1, <2>2 DEF Splits
  <2>4. [s EXCEPT ![i] = other(s[i])][i] = other(s[i])
    BY <2>1 DEF Splits
  <2> HIDE DEF other
  <2> QED BY <2>2, <2>3, <2>4 DEF Leaving, Rest
<1>5. ASSUME NEW a, NEW b, k \notin a, k \notin b, other(a) = other(b)
      PROVE  a = b
  BY <1>5
<1>6. ASSUME NEW s \in Leaving(i, k), NEW t \in Leaving(i, k), f[s] = f[t]
      PROVE  s = t
  <2>1. /\ s \in [1..Cardinality(Queries) -> Halves] /\ t \in [1..Cardinality(Queries) -> Halves]
        /\ k \notin s[i] /\ k \notin t[i]
    BY <1>3 DEF Splits
  <2>2. [s EXCEPT ![i] = other(s[i])] = [t EXCEPT ![i] = other(t[i])]
    BY <1>6
  <2> HIDE DEF other
  <2>3. other(s[i]) = other(t[i]) /\ \A j \in 1..Cardinality(Queries) : j # i => s[j] = t[j]
    BY <2>1, <2>2
  <2>4. s[i] = t[i]
    BY <1>5, <2>1, <2>3
  <2>5. \A j \in 1..Cardinality(Queries) : s[j] = t[j]
    BY <2>3, <2>4
  <2>6. s = [j \in 1..Cardinality(Queries) |-> s[j]] /\ t = [j \in 1..Cardinality(Queries) |-> t[j]]
    BY <2>1
  <2> HIDE DEF f
  <2> QED BY <2>5, <2>6
<1>7. f \in Injection(Leaving(i, k), Leaving(i, l))
  <2>1. f \in [Leaving(i, k) -> Leaving(i, l)]
    BY <1>4
  <2> QED BY <1>6, <2>1 DEF Injection, IsInjective
<1> HIDE DEF f
<1> QED BY <1>1, <1>7, FS_Injection

LEMMA LeavingCounted ==
    ASSUME args \in Setups, NEW i \in 1..Cardinality(Queries)
    PROVE  /\ \A k \in 1..K : Cardinality(Leaving(i, k)) \in Nat
           /\ \A k, l \in 1..K : Cardinality(Leaving(i, k)) = Cardinality(Leaving(i, l))
<1>1. ASSUME NEW k \in 1..K
      PROVE  Cardinality(Leaving(i, k)) \in Nat
  <2>1. IsFiniteSet(Leaving(i, k))
    BY SplitsFinite, FS_Subset DEF Leaving
  <2> QED BY <2>1, FS_CardinalityType
<1>2. \A k, l \in 1..K : Cardinality(Leaving(i, k)) <= Cardinality(Leaving(i, l))
  BY Exchanged
<1> QED BY <1>1, <1>2

\* Over all splits each sample is scored as often as any other.
LEMMA ScoredAlike ==
    ASSUME args \in Setups, NEW i \in 1..Cardinality(Queries), NEW x,
           \A k \in 1..K : x[k] \in Int
    PROVE  SumFunctionOnSet([s \in Splits |-> SumFunctionOnSet(x, Rest(s, i))], Splits)
             = Cardinality(Leaving(i, 1)) * SumFunctionOnSet(x, 1..K)
<1> DEFINE one == [s \in Splits |-> [k \in 1..K |-> IF k \in Rest(s, i) THEN x[k] ELSE 0]]
           count == Cardinality(Leaving(i, 1))
           row == [s \in Splits |-> SumFunctionOnSet(x, Rest(s, i))]
           row2 == [s \in Splits |-> SumFunctionOnSet(one[s], 1..K)]
           column == [k \in 1..K |-> SumFunctionOnSet([s \in Splits |-> one[s][k]], Splits)]
<1>1. K \in Nat /\ K > 0
  BY Arguments
<1>2. IsFiniteSet(1..K) /\ IsFiniteSet(Splits)
  BY <1>1, FS_Interval, SplitsFinite
<1>3. count \in Nat
  <2>1. 1 \in 1..K
    BY <1>1
  <2> QED BY <2>1, LeavingCounted
<1>4. \A s \in Splits : row[s] = row2[s]
  <2> SUFFICES ASSUME NEW s \in Splits
               PROVE  SumFunctionOnSet(x, Rest(s, i)) = SumFunctionOnSet(one[s], 1..K)
    OBVIOUS
  <2>1. Rest(s, i) \in SUBSET (1..K)
    BY RestOf
  <2>2. \A k \in 1..K : one[s][k] = IF k \in Rest(s, i) THEN x[k] ELSE 0
    OBVIOUS
  <2>3. \A k \in Rest(s, i) : x[k] \in Int
    BY <2>1
  <2> DEFINE y == one[s]  all == 1..K  part == Rest(s, i)
  <2>4. /\ IsFiniteSet(all) /\ part \in SUBSET all
        /\ \A k \in part : x[k] \in Int
        /\ \A k \in all : y[k] = IF k \in part THEN x[k] ELSE 0
    BY <1>2, <2>1, <2>2, <2>3
  <2> HIDE DEF one, y, all, part
  <2>5. SumFunctionOnSet(y, all) = SumFunctionOnSet(x, part)
    BY <2>4, SumPart
  <2> QED BY <2>5 DEF y, all, part
<1>5. \A s \in Splits, k \in 1..K : one[s][k] \in Int
  BY <1>1
<1>6. SumFunctionOnSet(row2, Splits) = SumFunctionOnSet(column, 1..K)
  <2> DEFINE all == 1..K
  <2>1. IsFiniteSet(all) /\ IsFiniteSet(Splits) /\ \A s \in Splits, k \in all : one[s][k] \in Int
    BY <1>2, <1>5
  <2> HIDE DEF one, all
  <2>2. SumFunctionOnSet([s \in Splits |-> SumFunctionOnSet(one[s], all)], Splits)
          = SumFunctionOnSet([k \in all |-> SumFunctionOnSet([s \in Splits |-> one[s][k]], Splits)], all)
    BY <2>1, SumSwap
  <2> QED BY <2>2 DEF all
<1>7. \A k \in 1..K : column[k] = count * x[k]
  <2> SUFFICES ASSUME NEW k \in 1..K
               PROVE  SumFunctionOnSet([s \in Splits |-> one[s][k]], Splits) = count * x[k]
    OBVIOUS
  <2> DEFINE unit == [s \in Splits |-> IF s \in Leaving(i, k) THEN 1 ELSE 0]
             col == [s \in Splits |-> one[s][k]]
  <2>1. SumFunctionOnSet(unit, Splits) = Cardinality(Leaving(i, k))
    <3>1. \A s \in Splits : unit[s] = IF s \in Leaving(i, k) THEN 1 ELSE 0
      OBVIOUS
    <3>2. Leaving(i, k) \in SUBSET Splits
      BY DEF Leaving
    <3> HIDE DEF unit
    <3> QED BY <1>2, <3>1, <3>2, SumCounts
  <2>2. Cardinality(Leaving(i, k)) = count
    <3>1. 1 \in 1..K
      BY <1>1
    <3> QED BY <3>1, LeavingCounted
  <2>3. \A s \in Splits : unit[s] \in Int /\ col[s] = x[k] * unit[s]
    <3>1. \A s \in Splits : col[s] = IF s \in Leaving(i, k) THEN x[k] ELSE 0
      BY DEF Leaving
    <3>2. x[k] \in Int
      OBVIOUS
    <3>3. \A s \in Splits : unit[s] = IF s \in Leaving(i, k) THEN 1 ELSE 0
      OBVIOUS
    <3> HIDE DEF unit, col
    <3> QED BY <3>1, <3>2, <3>3
  <2> HIDE DEF unit
  <2>4. SumFunctionOnSet(col, Splits) = x[k] * SumFunctionOnSet(unit, Splits)
    <3>1. x[k] \in Int
      OBVIOUS
    <3> HIDE DEF col
    <3> QED BY <1>2, <2>3, <3>1, SumScale
  <2>5. x[k] \in Int
    OBVIOUS
  <2> HIDE DEF count
  <2> QED BY <1>3, <2>1, <2>2, <2>4, <2>5
<1> HIDE DEF column
<1>8. SumFunctionOnSet(column, 1..K) = count * SumFunctionOnSet(x, 1..K)
  <2>1. count \in Int
    BY <1>3
  <2> HIDE DEF count
  <2> QED BY <1>2, <1>7, <2>1, SumScale
<1>9. SumFunctionOnSet(row, Splits) = SumFunctionOnSet(row2, Splits)
  <2> HIDE DEF row, row2
  <2> QED BY <1>2, <1>4, SumEqual
<1> QED BY <1>6, <1>8, <1>9

\* K times that often is the number of samples scored by all splits together.
LEMMA ScoredSize ==
    ASSUME args \in Setups, NEW i \in 1..Cardinality(Queries)
    PROVE  Cardinality(Leaving(i, 1)) * K = Cardinality(Splits) * (K - K \div 2)
<1> DEFINE x == [k \in 1..K |-> 1]
           sizes == [s \in Splits |-> SumFunctionOnSet(x, Rest(s, i))]
<1>1. K \in Nat /\ K - K \div 2 \in Int
  BY Arguments
<1>2. \A k \in 1..K : x[k] = 1 /\ x[k] \in Int
  OBVIOUS
<1> HIDE DEF x
<1>3. SumFunctionOnSet(sizes, Splits) = Cardinality(Leaving(i, 1)) * SumFunctionOnSet(x, 1..K)
  BY <1>2, ScoredAlike
<1>4. SumFunctionOnSet(x, 1..K) = K
  <2>1. SumFunctionOnSet(x, 1..K) = K * 1
    BY <1>1, <1>2, SumConstant
  <2> QED BY <1>1, <2>1
<1>5. \A s \in Splits : sizes[s] = K - K \div 2
  <2> SUFFICES ASSUME NEW s \in Splits
               PROVE  SumFunctionOnSet(x, Rest(s, i)) = K - K \div 2
    OBVIOUS
  <2>1. /\ IsFiniteSet(Rest(s, i)) /\ Rest(s, i) \in SUBSET (1..K)
        /\ Cardinality(Rest(s, i)) = K - K \div 2
    BY RestOf
  <2>2. \A k \in Rest(s, i) : x[k] = 1
    BY <1>2, <2>1
  <2>3. SumFunctionOnSet(x, Rest(s, i)) = Cardinality(Rest(s, i)) * 1
    BY <2>1, <2>2, SumOfEquals
  <2> QED BY <1>1, <2>1, <2>3
<1> HIDE DEF sizes
<1>6. SumFunctionOnSet(sizes, Splits) = Cardinality(Splits) * (K - K \div 2)
  BY <1>1, <1>5, SplitsFinite, SumOfEquals
<1> QED BY <1>3, <1>4, <1>6

-----------------------------------------------------------------------------
(***************************************************************************)
(* The cross-fit                                                           *)
(***************************************************************************)
LEMMA TwoHalves ==
    ASSUME Sampled, NEW c \in Cells, NEW s \in Splits, NEW i \in 1..Cardinality(Queries)
    PROVE  /\ Solved(c, s[i]) \in Nat /\ Solved(c, Rest(s, i)) \in Nat /\ Solved(c, 1..K) \in Nat
           /\ Solved(c, 1..K) = Solved(c, s[i]) + Solved(c, Rest(s, i))
<1> DEFINE a == s[i]  b == Rest(s, i)  x == matrix[c]
<1>1. /\ a \in SUBSET (1..K) /\ b \in SUBSET (1..K) /\ IsFiniteSet(a) /\ IsFiniteSet(b)
      /\ a \cup b = 1..K /\ a \cap b = {}
  BY RestOf DEF Sampled
<1>2. 1..K \in SUBSET (1..K)
  OBVIOUS
<1> HIDE DEF a, b
<1>3. /\ Solved(c, a) = SumFunctionOnSet(x, a) /\ Solved(c, a) \in Nat
      /\ Solved(c, b) = SumFunctionOnSet(x, b) /\ Solved(c, b) \in Nat
      /\ Solved(c, 1..K) = SumFunctionOnSet(x, 1..K) /\ Solved(c, 1..K) \in Nat
      /\ \A k \in 1..K : x[k] \in {0, 1}
  BY <1>1, <1>2, SolvedInt
<1> HIDE DEF x
<1>4. \A k \in a \cup b : x[k] \in Int
  BY <1>1, <1>3
<1>5. SumFunctionOnSet(x, a \cup b) = SumFunctionOnSet(x, a) + SumFunctionOnSet(x, b)
  BY <1>1, <1>4, SumDisjoint
<1> QED BY <1>1, <1>3, <1>5 DEF a, b

\* The model selected for the i-th query of a sample, and the score of a choice
\* on the samples left.
Chosen(s, qs, i) == ArgMax([m \in Models |-> Solved(<<qs[i], m>>, s[i])])
Scored(s, qs, i) == Solved(<<qs[i], Chosen(s, qs, i)>>, Rest(s, i))

LEMMA OracleIs ==
    ASSUME NEW s, NEW qs
    PROVE  crossfit_oracle(s, qs)
             = SumFunctionOnSet([i \in DOMAIN qs |-> Scored(s, qs, i)], DOMAIN qs)
<1> DEFINE f == [i \in DOMAIN qs |-> Scored(s, qs, i)]
<1>1. crossfit_oracle(s, qs) = SumFunction(f)
  BY DEF crossfit_oracle, Scored, Chosen
<1>2. DOMAIN f = DOMAIN qs
  OBVIOUS
<1> QED BY <1>1, <1>2, SumIs

LEMMA ChosenFirst ==
    ASSUME Sampled, NEW s \in Splits, NEW qs \in Resamples, NEW i \in DOMAIN qs
    PROVE  /\ Chosen(s, qs, i) \in Models /\ Scored(s, qs, i) \in Nat
           /\ \A m \in Models : Solved(<<qs[i], m>>, s[i])
                                    <= Solved(<<qs[i], Chosen(s, qs, i)>>, s[i])
<1>1. i \in 1..Cardinality(Queries) /\ qs[i] \in Queries
  BY SumOverSample DEF Sampled
<1> DEFINE f == [m \in Models |-> Solved(<<qs[i], m>>, s[i])]
<1>2. \A m \in Models : <<qs[i], m>> \in Cells
  BY <1>1 DEF Cells
<1>3. \A m \in Models : f[m] = Solved(<<qs[i], m>>, s[i])
  OBVIOUS
<1>nat. \A m \in Models : Solved(<<qs[i], m>>, s[i]) \in Int
  <2>1. \A m \in Models : Solved(<<qs[i], m>>, s[i]) \in Nat
    BY <1>1, <1>2, TwoHalves
  <2> QED BY <2>1
<1>4. Chosen(s, qs, i) = ArgMax(f)
  BY DEF Chosen
<1> HIDE DEF f
<1>5. ArgMax(f) \in Models /\ \A m \in Models : f[m] <= f[ArgMax(f)]
  <2>1. \A m \in Models : f[m] \in Int
    BY <1>3, <1>nat, Zenon
  <2> QED BY <2>1, ArgMaxFirst
<1>6. Scored(s, qs, i) \in Nat
  BY <1>1, <1>2, <1>4, <1>5, TwoHalves DEF Scored
<1> QED BY <1>3, <1>4, <1>5, <1>6

\* What the selection wins on its own half it loses on the other: the model that
\* is best over all samples scores at least as much there.
LEMMA NoWinnersCurse ==
    ASSUME Sampled, NEW s \in Splits, NEW qs \in Resamples, NEW i \in DOMAIN qs,
           NEW star \in Models, \A m \in Models : p_hat(qs[i], m) <= p_hat(qs[i], star)
    PROVE  /\ Scored(s, qs, i) <= Solved(<<qs[i], star>>, Rest(s, i))
           /\ Solved(<<qs[i], star>>, Rest(s, i)) \in Nat
<1>1. i \in 1..Cardinality(Queries) /\ qs[i] \in Queries
  BY SumOverSample DEF Sampled
<1> DEFINE chosen == Chosen(s, qs, i)
           c == <<qs[i], chosen>>
           d == <<qs[i], star>>
<1>2. chosen \in Models /\ Solved(d, s[i]) <= Solved(c, s[i])
  BY ChosenFirst
<1>3. c \in Cells /\ d \in Cells
  BY <1>1, <1>2 DEF Cells
<1>4. Solved(c, 1..K) <= Solved(d, 1..K)
  BY <1>2 DEF p_hat
<1>5. Scored(s, qs, i) = Solved(c, Rest(s, i))
  BY DEF Scored
<1> HIDE DEF c, d
<1>6. /\ Solved(c, s[i]) \in Nat /\ Solved(c, Rest(s, i)) \in Nat /\ Solved(c, 1..K) \in Nat
      /\ Solved(c, 1..K) = Solved(c, s[i]) + Solved(c, Rest(s, i))
  BY <1>1, <1>3, TwoHalves
<1>7. /\ Solved(d, s[i]) \in Nat /\ Solved(d, Rest(s, i)) \in Nat /\ Solved(d, 1..K) \in Nat
      /\ Solved(d, 1..K) = Solved(d, s[i]) + Solved(d, Rest(s, i))
  BY <1>1, <1>3, TwoHalves
<1>8. Solved(c, Rest(s, i)) <= Solved(d, Rest(s, i))
  BY <1>2, <1>4, <1>6, <1>7
<1> QED BY <1>5, <1>7, <1>8 DEF d

\* oracle_ceiling.py:131-190: over all splits the cross-fit oracle is at most the
\* naive one.
LEMMA OracleDebiased == Sampled => CrossFitDebiases
<1> SUFFICES ASSUME Sampled
             PROVE  SumFunction([s \in Splits |-> crossfit_oracle(s, AllQueries)]) * K
                      <= Cardinality(Splits) * routing_oracle_naive(AllQueries) * (K - K \div 2)
  BY DEF CrossFitDebiases
<1> DEFINE qs == AllQueries
           D == DOMAIN qs
           N == Cardinality(Queries)
<1>1. args \in Setups /\ K \in Nat /\ K > 0
  BY Arguments DEF Sampled
<1>2. qs \in Resamples /\ D = 1..N /\ IsFiniteSet(D) /\ \A i \in D : qs[i] \in Queries
  BY <1>1, EveryQuery, SumOverSample
<1> HIDE DEF qs, D
<1>3. \A i \in D : \E m \in Models : Tops(qs)[i] = p_hat(qs[i], m)
                       /\ \A n \in Models : p_hat(qs[i], n) <= p_hat(qs[i], m)
  BY <1>2, BestAt DEF Tops, D
<1> DEFINE Star(i) == CHOOSE m \in Models : Tops(qs)[i] = p_hat(qs[i], m)
                       /\ \A n \in Models : p_hat(qs[i], n) <= p_hat(qs[i], m)
           cell(i) == <<qs[i], Star(i)>>
           left == [s \in Splits |-> [i \in D |-> Solved(cell(i), Rest(s, i))]]
           sums == [s \in Splits |-> SumFunctionOnSet(left[s], D)]
           columns == [i \in D |-> SumFunctionOnSet([s \in Splits |-> left[s][i]], Splits)]
           oracle == [s \in Splits |-> crossfit_oracle(s, qs)]
<1>4. \A i \in D : /\ Star(i) \in Models /\ Tops(qs)[i] = p_hat(qs[i], Star(i))
                   /\ \A n \in Models : p_hat(qs[i], n) <= p_hat(qs[i], Star(i))
  BY <1>3
<1> HIDE DEF Star
<1>5. \A i \in D : cell(i) \in Cells /\ p_hat(qs[i], Star(i)) = Solved(cell(i), 1..K)
  BY <1>2, <1>4 DEF Cells, p_hat
<1>6. \A s \in Splits, i \in D : /\ Scored(s, qs, i) \in Nat /\ left[s][i] \in Nat
                                 /\ Scored(s, qs, i) <= left[s][i]
  BY <1>2, <1>4, NoWinnersCurse, ChosenFirst DEF D
<1>7. IsFiniteSet(Splits) /\ Cardinality(Splits) \in Nat
  BY <1>1, SplitsFinite
<1>8. \A s \in Splits : oracle[s] \in Int /\ sums[s] \in Int /\ oracle[s] <= sums[s]
  <2> SUFFICES ASSUME NEW s \in Splits
               PROVE  /\ crossfit_oracle(s, qs) \in Int /\ SumFunctionOnSet(left[s], D) \in Int
                      /\ crossfit_oracle(s, qs) <= SumFunctionOnSet(left[s], D)
    OBVIOUS
  <2> DEFINE f == [i \in D |-> Scored(s, qs, i)]
             g == left[s]
  <2>1. crossfit_oracle(s, qs) = SumFunctionOnSet(f, D)
    BY OracleIs DEF D
  <2>2. \A i \in D : f[i] \in Int /\ g[i] \in Int /\ f[i] <= g[i]
    BY <1>6
  <2> HIDE DEF f, g
  <2>3. SumFunctionOnSet(f, D) <= SumFunctionOnSet(g, D)
    BY <1>2, <2>2, SumMonotone
  <2>4. SumFunctionOnSet(f, D) \in Int /\ SumFunctionOnSet(g, D) \in Int
    BY <1>2, <2>2, SumInt
  <2> QED BY <2>1, <2>3, <2>4 DEF g
<1>9. SumFunctionOnSet(sums, Splits) = SumFunctionOnSet(columns, D)
  <2>1. IsFiniteSet(D) /\ IsFiniteSet(Splits) /\ \A s \in Splits, i \in D : left[s][i] \in Int
    BY <1>2, <1>6, <1>7
  <2> HIDE DEF left
  <2>2. SumFunctionOnSet([s \in Splits |-> SumFunctionOnSet(left[s], D)], Splits)
          = SumFunctionOnSet([i \in D |-> SumFunctionOnSet([s \in Splits |-> left[s][i]], Splits)], D)
    BY <2>1, SumSwap
  <2> QED BY <2>2
<1> DEFINE drawn == Cardinality(Splits) * (K - K \div 2)
<1>10. drawn \in Int
  BY <1>1, <1>7
<1>11. \A i \in D : columns[i] \in Int /\ K * columns[i] = drawn * Tops(qs)[i]
  <2> SUFFICES ASSUME NEW i \in D
               PROVE  columns[i] \in Int /\ K * columns[i] = drawn * Tops(qs)[i]
    OBVIOUS
  <2> DEFINE x == matrix[cell(i)]
             n == Cardinality(Leaving(i, 1))
             p == SumFunctionOnSet(x, 1..K)
             col == [s \in Splits |-> left[s][i]]
             lot == [s \in Splits |-> SumFunctionOnSet(x, Rest(s, i))]
  <2>1. i \in 1..N /\ cell(i) \in Cells
    BY <1>2, <1>5
  <2>2. /\ Solved(cell(i), 1..K) = p /\ p \in Nat
        /\ \A k \in 1..K : x[k] \in {0, 1}
    BY <2>1, SolvedInt
  <2>3. \A s \in Splits : col[s] = lot[s]
    <3> SUFFICES ASSUME NEW s \in Splits
                 PROVE  Solved(cell(i), Rest(s, i)) = SumFunctionOnSet(x, Rest(s, i))
      OBVIOUS
    <3>1. Rest(s, i) \in SUBSET (1..K)
      BY DEF Rest
    <3> QED BY <2>1, <3>1, SolvedInt
  <2>4. columns[i] = SumFunctionOnSet(col, Splits)
    OBVIOUS
  <2>5. \A k \in 1..K : x[k] \in Int
    BY <2>2
  <2> HIDE DEF col, x, columns
  <2>6. SumFunctionOnSet(lot, Splits) = n * p
    BY <1>1, <2>1, <2>5, ScoredAlike
  <2>7. SumFunctionOnSet(col, Splits) = SumFunctionOnSet(lot, Splits)
    <3> HIDE DEF lot
    <3> QED BY <1>7, <2>3, SumEqual
  <2>8. n * K = drawn
    BY <1>1, <2>1, ScoredSize
  <2>9. n \in Nat
    <3>1. 1 \in 1..K
      BY <1>1
    <3> QED BY <1>1, <2>1, <3>1, LeavingCounted
  <2>10. Tops(qs)[i] = p
    BY <1>4, <1>5, <2>2
  <2> HIDE DEF n, p, drawn
  <2>11. columns[i] = n * p /\ n * p \in Int
    BY <2>2, <2>4, <2>6, <2>7, <2>9
  <2>12. K * (n * p) = (n * K) * p
    BY <1>1, <2>2, <2>9
  <2> QED BY <2>2, <2>8, <2>10, <2>11, <2>12
<1> HIDE DEF drawn, columns, sums, oracle
<1>12. K * SumFunctionOnSet(columns, D) = drawn * SumFunctionOnSet(Tops(qs), D)
  <2> DEFINE high == [i \in D |-> K * columns[i]]
  <2>0. IsFiniteSet(D) /\ K \in Int
    BY <1>1, <1>2
  <2>1. \A i \in D : Tops(qs)[i] \in Int
    <3>1. \A i \in D : Tops(qs)[i] \in 0..K
      BY <1>2, TopsRange DEF D
    <3> QED BY <1>1, <3>1
  <2>2. \A i \in D : columns[i] \in Int /\ high[i] = K * columns[i] /\ high[i] = drawn * Tops(qs)[i]
    BY <1>11
  <2> HIDE DEF high
  <2>3. SumFunctionOnSet(high, D) = K * SumFunctionOnSet(columns, D)
    BY <2>0, <2>2, SumScale
  <2>4. SumFunctionOnSet(high, D) = drawn * SumFunctionOnSet(Tops(qs), D)
    BY <2>0, <1>10, <2>1, <2>2, SumScale
  <2> QED BY <2>3, <2>4
<1>13. SumFunctionOnSet(oracle, Splits) <= SumFunctionOnSet(sums, Splits)
  BY <1>7, <1>8, SumMonotone
<1>14. SumFunctionOnSet(oracle, Splits) \in Int /\ SumFunctionOnSet(sums, Splits) \in Int
  BY <1>7, <1>8, SumInt
<1>15. routing_oracle_naive(qs) = SumFunctionOnSet(Tops(qs), D) /\ routing_oracle_naive(qs) \in Nat
  BY <1>2, TopsRange DEF D
<1>16. SumFunction([s \in Splits |-> crossfit_oracle(s, AllQueries)]) = SumFunctionOnSet(oracle, Splits)
  BY SumIs DEF oracle, qs
<1> DEFINE o == SumFunctionOnSet(oracle, Splits)
           u == SumFunctionOnSet(sums, Splits)
           v == routing_oracle_naive(qs)
<1>17. o \in Int /\ u \in Int /\ o <= u /\ K * u = drawn * v
  BY <1>9, <1>12, <1>13, <1>14, <1>15
<1>18. o * K <= drawn * v
  <2> HIDE DEF o, u, v
  <2>1. K * o <= K * u /\ K * o = o * K
    BY <1>1, <1>17
  <2> QED BY <1>17, <2>1
<1>19. Cardinality(Splits) * v * (K - K \div 2) = drawn * v
  <2> DEFINE a == Cardinality(Splits)  b == K - K \div 2
  <2>1. a \in Int /\ b \in Int /\ v \in Int /\ drawn = a * b
    BY <1>1, <1>7, <1>15 DEF drawn
  <2>2. a * v * b = drawn * v
    <3> HIDE DEF a, b, v
    <3> QED BY <2>1
  <2> QED BY <2>2
<1> QED BY <1>16, <1>18, <1>19 DEF qs

-----------------------------------------------------------------------------
(***************************************************************************)
(* Models that answer alike                                                *)
(***************************************************************************)
LEMMA AlikeSolved ==
    ASSUME IdenticalModels, NEW q \in Queries, NEW m \in Models, NEW n \in Models, NEW a
    PROVE  Solved(<<q, m>>, a) = Solved(<<q, n>>, a)
<1>1. matrix[<<q, m>>] = matrix[<<q, n>>]
  BY DEF IdenticalModels, Cells
<1> QED BY <1>1 DEF Solved

LEMMA LargestOfOne ==
    ASSUME NEW x \in Int
    PROVE  Largest({x, x}) = x
<1>1. IsFiniteSet({x}) /\ {x, x} = {x}
  BY FS_Singleton
<1>2. Max({x}) \in {x}
  BY <1>1, GreatestMember
<1> QED BY <1>1, <1>2 DEF Largest

LEMMA AlikeNaive ==
    ASSUME Sampled, IdenticalModels, NEW qs \in Resamples
    PROVE  routing_oracle_naive(qs) = best_single(qs) /\ best_single(qs) \in Int
<1>1. IsFiniteSet(DOMAIN qs) /\ \A i \in DOMAIN qs : qs[i] \in Queries
  BY SumOverSample DEF Sampled
<1>2. PICK m \in Models : best_single(qs) = SumFunction([i \in DOMAIN qs |-> p_hat(qs[i], m)])
  BY BestSingle
<1> DEFINE f == [i \in DOMAIN qs |-> p_hat(qs[i], m)]
<1>3. best_single(qs) = SumFunctionOnSet(f, DOMAIN qs)
  BY <1>2, SumIs
<1>4. \A i \in DOMAIN qs : f[i] = Tops(qs)[i]
  <2> SUFFICES ASSUME NEW i \in DOMAIN qs
               PROVE  p_hat(qs[i], m) = Tops(qs)[i]
    OBVIOUS
  <2>1. PICK n \in Models : Tops(qs)[i] = p_hat(qs[i], n)
    BY <1>1, BestAt DEF Tops
  <2> QED BY <1>1, <2>1, AlikeSolved DEF p_hat
<1> HIDE DEF f
<1>5. SumFunctionOnSet(f, DOMAIN qs) = SumFunctionOnSet(Tops(qs), DOMAIN qs)
  BY <1>1, <1>4, SumEqual
<1> QED BY <1>3, <1>5, TopsRange, BestSingle

LEMMA AlikeCrossFit ==
    ASSUME Sampled, IdenticalModels, NEW s \in Splits, NEW qs \in Resamples
    PROVE  crossfit_oracle(s, qs) = crossfit_best(s, qs) /\ crossfit_best(s, qs) \in Int
<1>1. /\ DOMAIN qs = 1..Cardinality(Queries) /\ IsFiniteSet(DOMAIN qs)
      /\ \A i \in DOMAIN qs : qs[i] \in Queries
  BY SumOverSample DEF Sampled
<1> DEFINE selected(m) == [i \in DOMAIN qs |-> Solved(<<qs[i], m>>, s[i])]
           f == [m \in Models |-> SumFunction(selected(m))]
           chosen == ArgMax(f)
           g == [i \in DOMAIN qs |-> Solved(<<qs[i], chosen>>, Rest(s, i))]
           h == [i \in DOMAIN qs |-> Scored(s, qs, i)]
<1>2. \A m \in Models : f[m] \in Int
  <2> SUFFICES ASSUME NEW m \in Models
               PROVE  SumFunction(selected(m)) \in Int
    OBVIOUS
  <2> DEFINE t == selected(m)
  <2>1. \A i \in DOMAIN qs : t[i] = Solved(<<qs[i], m>>, s[i]) /\ <<qs[i], m>> \in Cells
    BY <1>1 DEF Cells
  <2>2. \A i \in DOMAIN qs : t[i] \in Int
    <3> SUFFICES ASSUME NEW i \in DOMAIN qs
                 PROVE  t[i] \in Int
      OBVIOUS
    <3> HIDE DEF t
    <3>1. Solved(<<qs[i], m>>, s[i]) \in Nat
      BY <1>1, <2>1, TwoHalves
    <3> QED BY <2>1, <3>1
  <2>3. DOMAIN t = DOMAIN qs
    OBVIOUS
  <2> HIDE DEF t
  <2>4. SumFunctionOnSet(t, DOMAIN qs) \in Int
    BY <1>1, <2>2, SumInt
  <2> QED BY <2>3, <2>4, SumIs DEF t
<1> HIDE DEF f
<1>3. chosen \in Models
  BY <1>2, ArgMaxFirst
<1>4. crossfit_best(s, qs) = SumFunctionOnSet(g, DOMAIN qs)
  <2>1. crossfit_best(s, qs) = SumFunction(g)
    BY DEF crossfit_best, f
  <2> QED BY <2>1, SumIs
<1> HIDE DEF chosen
<1>5. crossfit_oracle(s, qs) = SumFunctionOnSet(h, DOMAIN qs)
  BY OracleIs
<1>6. \A i \in DOMAIN qs : h[i] = g[i] /\ h[i] \in Int
  <2> SUFFICES ASSUME NEW i \in DOMAIN qs
               PROVE  Scored(s, qs, i) = Solved(<<qs[i], chosen>>, Rest(s, i)) /\ Scored(s, qs, i) \in Int
    OBVIOUS
  <2>1. Chosen(s, qs, i) \in Models /\ Scored(s, qs, i) \in Nat
    BY ChosenFirst
  <2>2. Scored(s, qs, i) = Solved(<<qs[i], chosen>>, Rest(s, i))
    BY <1>1, <1>3, <2>1, AlikeSolved DEF Scored
  <2> QED BY <2>1, <2>2
<1> HIDE DEF g, h
<1>7. SumFunctionOnSet(h, DOMAIN qs) = SumFunctionOnSet(g, DOMAIN qs)
  BY <1>1, <1>6, SumEqual
<1>8. SumFunctionOnSet(h, DOMAIN qs) \in Int
  BY <1>1, <1>6, SumInt
<1> QED BY <1>4, <1>5, <1>7, <1>8

LEMMA AlikeRouting ==
    ASSUME Sampled, IdenticalModels, NEW drawn \in SUBSET Splits, NEW qs \in Resamples
    PROVE  routing_headroom(drawn, qs) = 0
<1>1. CASE K < 2
  <2>1. routing_headroom(drawn, qs) = Largest({routing_oracle_naive(qs), best_single(qs)}) - best_single(qs)
    BY <1>1 DEF routing_headroom
  <2> DEFINE b == best_single(qs)
  <2>2. routing_oracle_naive(qs) = b /\ b \in Int
    BY AlikeNaive
  <2> HIDE DEF b
  <2>3. Largest({b, b}) = b
    BY <2>2, LargestOfOne
  <2> QED BY <2>1, <2>2, <2>3 DEF b
<1>2. CASE ~ K < 2
  <2> DEFINE o == [s \in drawn |-> crossfit_oracle(s, qs)]
             b == [s \in drawn |-> crossfit_best(s, qs)]
  <2>1. routing_headroom(drawn, qs) = Largest({SumFunction(o), SumFunction(b)}) - SumFunction(b)
    BY <1>2 DEF routing_headroom
  <2>2. o = b /\ \A s \in drawn : b[s] \in Int
    BY AlikeCrossFit
  <2>3. IsFiniteSet(drawn)
    BY SplitsFinite, FS_Subset DEF Sampled
  <2>4. DOMAIN b = drawn
    OBVIOUS
  <2> HIDE DEF o, b
  <2>5. SumFunctionOnSet(b, drawn) \in Int
    BY <2>2, <2>3, SumInt
  <2>6. SumFunction(b) \in Int
    BY <2>4, <2>5, SumIs
  <2>7. Largest({SumFunction(b), SumFunction(b)}) = SumFunction(b)
    BY <2>6, LargestOfOne
  <2> QED BY <2>1, <2>2, <2>6, <2>7
<1> QED BY <1>1, <1>2

LEMMA AlikeThreshold ==
    ASSUME Sampled, IdenticalModels, NEW qs \in Resamples
    PROVE  threshold_headroom(qs) = 0
<1>1. IsFiniteSet(DOMAIN qs) /\ \A i \in DOMAIN qs : qs[i] \in Queries
  BY SumOverSample DEF Sampled
<1> DEFINE Solves(q, m) == IF 2 * p_hat(q, m) >= K THEN 1 ELSE 0
           row(m) == [i \in DOMAIN qs |-> Solves(qs[i], m)]
           total == [m \in Models |-> SumFunction(row(m))]
           tops == [i \in DOMAIN qs |-> Largest({Solves(qs[i], m) : m \in Models})]
<1>2. threshold_headroom(qs) = SumFunction(tops) - Largest({SumFunction(row(m)) : m \in Models})
  BY DEF threshold_headroom
<1>3. \A q, m : Solves(q, m) \in Int
  OBVIOUS
<1>4. \A q \in Queries, m, n \in Models : Solves(q, m) = Solves(q, n)
  BY AlikeSolved DEF p_hat
<1> HIDE DEF Solves
<1>5. \A m \in Models : SumFunction(row(m)) = SumFunctionOnSet(row(m), DOMAIN qs)
  BY SumIs
<1>6. \A m \in Models : SumFunctionOnSet(row(m), DOMAIN qs) \in Int
  <2> SUFFICES ASSUME NEW m \in Models
               PROVE  SumFunctionOnSet(row(m), DOMAIN qs) \in Int
    OBVIOUS
  <2> DEFINE r == row(m)
  <2>1. \A i \in DOMAIN qs : r[i] \in Int
    BY <1>3
  <2> HIDE DEF r
  <2>2. SumFunctionOnSet(r, DOMAIN qs) \in Int
    BY <1>1, <2>1, SumInt
  <2> QED BY <2>2 DEF r
<1>7. ASSUME NEW q \in Queries, NEW m \in Models
      PROVE  Largest({Solves(q, n) : n \in Models}) = Solves(q, m)
  <2> DEFINE f == [n \in Models |-> Solves(q, n)]
  <2>1. {f[n] : n \in Models} = {Solves(q, n) : n \in Models}
    OBVIOUS
  <2>2. \A n \in Models : f[n] \in Int /\ f[n] = Solves(q, m)
    BY <1>3, <1>4
  <2> HIDE DEF f
  <2>3. \E n \in Models : Largest({f[k] : k \in Models}) = f[n]
    BY <2>2, LargestValue
  <2> QED BY <2>1, <2>2, <2>3
<1>8. \A m \in Models : \A i \in DOMAIN qs : tops[i] = row(m)[i]
  BY <1>1, <1>7
<1>9. \A m \in Models : SumFunctionOnSet(tops, DOMAIN qs) = SumFunctionOnSet(row(m), DOMAIN qs)
  <2> SUFFICES ASSUME NEW m \in Models
               PROVE  SumFunctionOnSet(tops, DOMAIN qs) = SumFunctionOnSet(row(m), DOMAIN qs)
    OBVIOUS
  <2> DEFINE r == row(m)  t == tops
  <2>1. \A i \in DOMAIN qs : t[i] = r[i]
    BY <1>8
  <2> HIDE DEF r, t
  <2>2. SumFunctionOnSet(t, DOMAIN qs) = SumFunctionOnSet(r, DOMAIN qs)
    BY <1>1, <2>1, SumEqual
  <2> QED BY <2>2 DEF r, t
<1>10. \E m \in Models : Largest({SumFunction(row(k)) : k \in Models}) = SumFunction(row(m))
  <2>1. {total[m] : m \in Models} = {SumFunction(row(m)) : m \in Models}
    OBVIOUS
  <2>2. \A m \in Models : total[m] = SumFunction(row(m)) /\ total[m] \in Int
    BY <1>5, <1>6
  <2> HIDE DEF total, row
  <2>3. \E n \in Models : Largest({total[k] : k \in Models}) = total[n]
    BY <2>2, LargestValue
  <2> QED BY <2>1, <2>2, <2>3
<1>11. SumFunction(tops) = SumFunctionOnSet(tops, DOMAIN qs)
  BY SumIs
<1> HIDE DEF tops, row
<1>12. PICK m \in Models : Largest({SumFunction(row(k)) : k \in Models}) = SumFunction(row(m))
  BY <1>10
<1>13. SumFunction(tops) = SumFunction(row(m)) /\ SumFunction(row(m)) \in Int
  BY <1>5, <1>6, <1>9, <1>11
<1> QED BY <1>2, <1>12, <1>13

-----------------------------------------------------------------------------
(***************************************************************************)
(* The report                                                              *)
(***************************************************************************)
Analysed ==
    stage = "reported" =>
        splits \in SUBSET Splits /\ (IdenticalModels => report = "POOL_BOUND")

LEMMA NothingToRoute ==
    ASSUME NEW lo, NEW hi, NEW gap, lo = 0, hi = 0
    PROVE  verdict(lo, hi, gap) = "POOL_BOUND"
<1>1. hi <= 0 /\ lo <= 0 /\ ~ lo > 0
  OBVIOUS
<1> QED BY <1>1, Zenon DEF verdict

LEMMA AnalysedNext == Collection /\ Analysed /\ [CeilNext]_ceilVars => Analysed'
<1> SUFFICES ASSUME Collection, Analysed, [CeilNext]_ceilVars, stage' = "reported"
             PROVE  splits' \in SUBSET Splits' /\ (IdenticalModels' => report' = "POOL_BOUND")
  BY DEF Analysed
<1>1. CASE Analyze
  <2>1. stage = "collected" /\ args' = args /\ matrix' = matrix
    BY <1>1 DEF Analyze
  <2>2. Sampled
    BY <2>1 DEF Collection, Collected
  <2>3. Splits' = Splits /\ (IdenticalModels' <=> IdenticalModels)
    BY <2>1 DEF Splits, Halves, K, Queries, IdenticalModels, Cells
  <2>4. splits' \in SUBSET Splits
    BY <1>1 DEF Analyze, NoSplit
  <2>5. ASSUME IdenticalModels
        PROVE  report' = "POOL_BOUND"
    <3>1. \A qs \in Resamples : Headroom(splits', qs) = 0
      BY <2>2, <2>4, <2>5, AlikeRouting, AlikeThreshold DEF Headroom
    <3>2. PICK lo \in {Headroom(splits', qs) : qs \in Resamples},
               hi \in {Headroom(splits', qs) : qs \in Resamples},
               gap \in {"low", "high", "unknown"} : report' = verdict(lo, hi, gap)
      BY <1>1 DEF Analyze
    <3>3. lo = 0 /\ hi = 0
      BY <3>1
    <3> QED BY <3>2, <3>3, NothingToRoute
  <2> QED BY <2>3, <2>4, <2>5
<1>2. CASE Begin \/ WriteMatrix
  BY <1>2 DEF Begin, WriteMatrix
<1>3. CASE \E c \in Cells, text \in Answers \cup {Lost} : Answer(c, text)
  BY <1>3 DEF Answer
<1>4. CASE UNCHANGED ceilVars
  BY <1>4 DEF ceilVars, Analysed, Splits, Halves, K, Queries, IdenticalModels, Cells
<1> QED BY <1>1, <1>2, <1>3, <1>4 DEF CeilNext

LEMMA ReportIsSound == Collection /\ Analysed => CeilingIsSound
<1> SUFFICES ASSUME Collection, Analysed PROVE CeilingIsSound
  OBVIOUS
<1>1. stage \in {"collected", "reported"} => Sampled
  BY DEF Collection, Collected
<1>2. stage = "collected" => CeilingsOrdered /\ CrossFitDebiases
  BY <1>1, EstimatesOrdered, OracleDebiased
<1>3. stage = "reported" => NoFalseHeadroom
  <2> SUFFICES ASSUME stage = "reported", IdenticalModels
               PROVE  routing_headroom(splits, AllQueries) = 0 /\ report = "POOL_BOUND"
    BY DEF NoFalseHeadroom
  <2>1. Sampled /\ splits \in SUBSET Splits /\ report = "POOL_BOUND"
    BY <1>1 DEF Analysed
  <2>2. AllQueries \in Resamples
    BY <2>1, EveryQuery DEF Sampled
  <2> QED BY <2>1, <2>2, AlikeRouting
<1> QED BY <1>2, <1>3 DEF CeilingIsSound

LEMMA CeilingHolds == CeilSpec => []CeilingIsSound
<1>1. CeilInit => Collection /\ Analysed
  <2>1. CeilInit => Analysed
    BY DEF CeilInit, Analysed
  <2> QED BY <2>1, CollectionInit
<1>2. (Collection /\ Analysed) /\ [CeilNext]_ceilVars => (Collection /\ Analysed)'
  BY CollectionNext, AnalysedNext
<1> QED BY <1>1, <1>2, ReportIsSound, PTL DEF CeilSpec

-----------------------------------------------------------------------------
(***************************************************************************)
(* The programs together                                                   *)
(***************************************************************************)
LEMMA RunsCeiling == Spec => CeilSpec
<1>1. Init => CeilInit
  BY DEF Init
<1>2. [Next]_vars => [CeilNext]_ceilVars
  BY DEF Next, vars
<1> QED BY <1>1, <1>2, PTL DEF Spec, CeilSpec

\* The oracle ceiling (oracle_ceiling.py:74-310, 418-560): no fixed model beats
\* the oracle and no single choice the luck of all, the cross-fit takes the
\* winner's curse away, and models that answer alike leave no headroom.
THEOREM CeilingSound == Spec => []CeilingIsSound
BY RunsCeiling, CeilingHolds, PTL

-----------------------------------------------------------------------------
(***************************************************************************)
(* The order of parallel list                                             *)
(***************************************************************************)
LEMMA BeforeOrders ==
    ASSUME NEW s \in Seq(Nat), NEW t \in Seq(Nat), NEW u \in Seq(Nat)
    PROVE  ~ Before(s, s) /\ (Before(s, t) /\ Before(t, u) => Before(s, u))
<1>1. /\ DOMAIN s = 1..Len(s) /\ DOMAIN t = 1..Len(t) /\ DOMAIN u = 1..Len(u)
      /\ Len(s) \in Nat /\ Len(t) \in Nat /\ Len(u) \in Nat
      /\ \A i \in 1..Len(s) : s[i] \in Nat
      /\ \A i \in 1..Len(t) : t[i] \in Nat
      /\ \A i \in 1..Len(u) : u[i] \in Nat
  BY LenProperties
<1>2. ~ Before(s, s)
  BY <1>1 DEF Before
<1>3. ASSUME Before(s, t), Before(t, u)
      PROVE  Before(s, u)
  <2>1. PICK i \in DOMAIN s \cap DOMAIN t : s[i] < t[i] /\ \A k \in 1..(i - 1) : s[k] = t[k]
    BY <1>3 DEF Before
  <2>2. PICK j \in DOMAIN t \cap DOMAIN u : t[j] < u[j] /\ \A k \in 1..(j - 1) : t[k] = u[k]
    BY <1>3 DEF Before
  <2>3. i \in Nat /\ j \in Nat /\ i > 0 /\ j > 0 /\ i <= Len(s) /\ i <= Len(t) /\ j <= Len(t) /\ j <= Len(u)
    BY <1>1, <2>1, <2>2
  <2>4. CASE i < j
    <3>1. i \in 1..(j - 1) /\ i \in DOMAIN s \cap DOMAIN u
      BY <1>1, <2>3, <2>4
    <3>2. s[i] < u[i]
      BY <2>1, <2>2, <3>1
    <3>3. \A k \in 1..(i - 1) : s[k] = u[k]
      BY <2>1, <2>2, <2>3, <2>4
    <3> QED BY <3>1, <3>2, <3>3 DEF Before
  <2>5. CASE i = j
    <3>1. s[i] < u[i]
      BY <1>1, <2>1, <2>2, <2>5
    <3>2. \A k \in 1..(i - 1) : s[k] = u[k]
      BY <2>1, <2>2, <2>5
    <3> QED BY <2>1, <2>2, <2>5, <3>1, <3>2 DEF Before
  <2>6. CASE j < i
    <3>1. j \in 1..(i - 1) /\ j \in DOMAIN s \cap DOMAIN u
      BY <1>1, <2>3, <2>6
    <3>2. s[j] < u[j]
      BY <2>1, <2>2, <3>1
    <3>3. \A k \in 1..(j - 1) : s[k] = u[k]
      BY <2>1, <2>2, <2>3, <2>6
    <3> QED BY <3>1, <3>2, <3>3 DEF Before
  <2> QED BY <2>3, <2>4, <2>5, <2>6
<1> QED BY <1>2, <1>3

\* A strict order of 1..n, as a set of pairs, lists its members one after the
\* other: each at the place that the number of those before it gives.
LEMMA Listing ==
    ASSUME NEW n \in Nat, NEW R,
           \A x \in 1..n : <<x, x>> \notin R,
           \A x, y, z \in 1..n : <<x, y>> \in R /\ <<y, z>> \in R => <<x, z>> \in R,
           \A x, y \in 1..n : x = y \/ <<x, y>> \in R \/ <<y, x>> \in R
    PROVE  \E o \in [1..n -> 1..n] : \A i, j \in 1..n : i < j => <<o[i], o[j]>> \in R
<1> DEFINE S == 1..n
           below(x) == {y \in S : <<y, x>> \in R}
           place == [x \in S |-> Cardinality(below(x)) + 1]
<1>1. IsFiniteSet(S) /\ Cardinality(S) = n
  <2>1. IsFiniteSet(1..n) /\ Cardinality(1..n) = IF 1 > n THEN 0 ELSE n - 1 + 1
    BY FS_Interval
  <2> QED BY <2>1
<1>2. \A x \in S : x \in Int
  OBVIOUS
<1> HIDE DEF S
<1>3. ASSUME NEW x \in S
      PROVE  IsFiniteSet(below(x)) /\ Cardinality(below(x)) \in Nat /\ Cardinality(below(x)) < n
  <2>1. IsFiniteSet(below(x)) /\ Cardinality(below(x)) \in Nat
    BY <1>1, FS_Subset, FS_CardinalityType
  <2>2. below(x) \in SUBSET S /\ below(x) # S
    BY DEF S
  <2> DEFINE B == below(x)
  <2> HIDE DEF B
  <2>3. Cardinality(B) <= Cardinality(S) /\ Cardinality(B) # Cardinality(S)
    BY <1>1, <2>2, FS_Subset DEF B
  <2> QED BY <1>1, <2>1, <2>3 DEF B
<1>4. ASSUME NEW x \in S, NEW y \in S, <<x, y>> \in R
      PROVE  place[x] < place[y]
  <2> DEFINE A == below(x)  B == below(y)
  <2>1. A \in SUBSET B /\ A # B
    BY <1>4 DEF S
  <2>2. IsFiniteSet(B) /\ Cardinality(B) \in Nat /\ Cardinality(A) \in Nat
    BY <1>3
  <2>3. place[x] = Cardinality(A) + 1 /\ place[y] = Cardinality(B) + 1
    OBVIOUS
  <2> HIDE DEF A, B, place
  <2>4. Cardinality(A) <= Cardinality(B) /\ Cardinality(A) # Cardinality(B)
    BY <2>1, <2>2, FS_Subset
  <2> QED BY <2>2, <2>3, <2>4
<1>5. \A x \in S : place[x] \in S
  <2> SUFFICES ASSUME NEW x \in S PROVE place[x] \in S
    OBVIOUS
  <2>1. Cardinality(below(x)) \in Nat /\ Cardinality(below(x)) < n /\ place[x] = Cardinality(below(x)) + 1
    BY <1>3
  <2> HIDE DEF below, place
  <2> QED BY <2>1 DEF S
<1>6. place \in Injection(S, S)
  <2>1. \A x, y \in S : place[x] = place[y] => x = y
    <3> SUFFICES ASSUME NEW x \in S, NEW y \in S, place[x] = place[y], x # y PROVE FALSE
      OBVIOUS
    <3>1. <<x, y>> \in R \/ <<y, x>> \in R
      BY DEF S
    <3>2. place[x] \in Int /\ place[y] \in Int
      BY <1>2, <1>5
    <3>3. place[x] < place[y] \/ place[y] < place[x]
      BY <1>4, <3>1
    <3> HIDE DEF place
    <3> QED BY <3>2, <3>3
  <2>2. place \in [S -> S]
    BY <1>5
  <2> HIDE DEF place
  <2> QED BY <2>1, <2>2 DEF Injection, IsInjective
<1> HIDE DEF place
<1>7. place \in Surjection(S, S)
  BY <1>1, <1>6, FS_Injection
<1>8. \A k \in S : \E x \in S : place[x] = k
  BY <1>7 DEF Surjection
<1> DEFINE o == [k \in S |-> CHOOSE x \in S : place[x] = k]
<1>9. o \in [S -> S] /\ \A k \in S : place[o[k]] = k
  BY <1>8
<1> HIDE DEF o
<1>10. ASSUME NEW i \in S, NEW j \in S, i < j
       PROVE  <<o[i], o[j]>> \in R
  <2>1. o[i] \in S /\ o[j] \in S /\ place[o[i]] = i /\ place[o[j]] = j /\ i \in Int /\ j \in Int
    BY <1>2, <1>9
  <2>2. o[i] # o[j]
    BY <1>10, <2>1
  <2>3. <<o[j], o[i]>> \notin R
    <3> SUFFICES ASSUME <<o[j], o[i]>> \in R PROVE FALSE
      OBVIOUS
    <3>1. place[o[j]] < place[o[i]]
      BY <1>4, <2>1
    <3> QED BY <1>10, <2>1, <3>1
  <2> QED BY <2>1, <2>2, <2>3 DEF S
<1> QED BY <1>9, <1>10 DEF S

\* The i-th call sorts before the j-th; a sorted list.
EarlierIn(list, i, j) ==
    \/ Before(JsonKey(list[i]), JsonKey(list[j]))
    \/ JsonKey(list[i]) = JsonKey(list[j]) /\ i < j

Sorts(list, o) ==
    /\ o \in [DOMAIN list -> DOMAIN list]
    /\ \A i, j \in DOMAIN list : i < j => EarlierIn(list, o[i], o[j])

LEMMA CallsListed ==
    ASSUME NEW list, KeysTellApart(list)
    PROVE  /\ Len(list) \in Nat /\ DOMAIN list = 1..Len(list)
           /\ \A i \in DOMAIN list : list[i] \in ToSet(list) /\ JsonKey(list[i]) \in Seq(Nat)
BY LenProperties DEF KeysTellApart, ToSet

LEMMA SortedBySome ==
    ASSUME NEW list, KeysTellApart(list)
    PROVE  \E o : Sorts(list, o) /\ Sorted(list) = [n \in DOMAIN list |-> list[o[n]]]
<1> DEFINE N == Len(list)
           key == [i \in DOMAIN list |-> JsonKey(list[i])]
           R == {p \in (1..N) \X (1..N) : EarlierIn(list, p[1], p[2])}
<1>1. /\ N \in Nat /\ DOMAIN list = 1..N
      /\ \A i \in 1..N : list[i] \in ToSet(list) /\ JsonKey(list[i]) \in Seq(Nat)
  BY CallsListed
<1> HIDE DEF N
<1>2. \A i, j \in 1..N : <<i, j>> \in R <=> EarlierIn(list, i, j)
  OBVIOUS
<1> HIDE DEF R
<1>3. \A x \in 1..N : ~ EarlierIn(list, x, x)
  BY <1>1, BeforeOrders DEF EarlierIn
<1>4. ASSUME NEW x \in 1..N, NEW y \in 1..N, NEW z \in 1..N,
             EarlierIn(list, x, y), EarlierIn(list, y, z)
      PROVE  EarlierIn(list, x, z)
  <2> DEFINE a == JsonKey(list[x])  b == JsonKey(list[y])  c == JsonKey(list[z])
  <2>1. a \in Seq(Nat) /\ b \in Seq(Nat) /\ c \in Seq(Nat)
    BY <1>1
  <2>2. (Before(a, b) \/ (a = b /\ x < y)) /\ (Before(b, c) \/ (b = c /\ y < z))
    BY <1>4 DEF EarlierIn
  <2>3. x < y /\ y < z => x < z
    BY <1>1
  <2> HIDE DEF a, b, c
  <2>4. Before(a, c) \/ (a = c /\ x < z)
    BY <2>1, <2>2, <2>3, BeforeOrders
  <2> QED BY <2>4 DEF EarlierIn, a, b, c
<1>5. ASSUME NEW x \in 1..N, NEW y \in 1..N
      PROVE  x = y \/ EarlierIn(list, x, y) \/ EarlierIn(list, y, x)
  <2>1. \/ list[x] = list[y]
        \/ Before(JsonKey(list[x]), JsonKey(list[y])) \/ Before(JsonKey(list[y]), JsonKey(list[x]))
    BY <1>1 DEF KeysTellApart
  <2>2. x < y \/ x = y \/ y < x
    BY <1>1
  <2> QED BY <2>1, <2>2 DEF EarlierIn
<1>6. \E o \in [1..N -> 1..N] : \A i, j \in 1..N : i < j => <<o[i], o[j]>> \in R
  <2>1. \A x \in 1..N : <<x, x>> \notin R
    BY <1>2, <1>3
  <2>2. \A x, y, z \in 1..N : <<x, y>> \in R /\ <<y, z>> \in R => <<x, z>> \in R
    BY <1>2, <1>4
  <2>3. \A x, y \in 1..N : x = y \/ <<x, y>> \in R \/ <<y, x>> \in R
    BY <1>2, <1>5
  <2> QED BY <1>1, <2>1, <2>2, <2>3, Listing
<1>7. \E o : Sorts(list, o)
  <2>1. PICK o \in [1..N -> 1..N] : \A i, j \in 1..N : i < j => <<o[i], o[j]>> \in R
    BY <1>6
  <2>2. \A i, j \in 1..N : i < j => EarlierIn(list, o[i], o[j])
    BY <1>2, <2>1
  <2> QED BY <1>1, <2>1, <2>2 DEF Sorts
<1> DEFINE D == DOMAIN list
           order == CHOOSE o \in [D -> D] :
                        \A i, j \in D : i < j => EarlierIn(list, o[i], o[j])
<1>8. Sorts(list, order)
  <2>1. \E o \in [D -> D] : \A i, j \in D : i < j => EarlierIn(list, o[i], o[j])
    BY <1>7 DEF Sorts
  <2> QED BY <2>1 DEF Sorts
<1>9. Sorted(list) = [n \in D |-> list[order[n]]]
  BY Zenon DEF Sorted, EarlierIn
<1> HIDE DEF order
<1> QED BY <1>8, <1>9

LEMMA SortsOnce ==
    ASSUME NEW list, KeysTellApart(list), NEW o, Sorts(list, o)
    PROVE  /\ o \in [1..Len(list) -> 1..Len(list)]
           /\ \A i, j \in 1..Len(list) : o[i] = o[j] => i = j
           /\ \A i, j \in 1..Len(list) :
                  i < j => ~ Before(JsonKey(list[o[j]]), JsonKey(list[o[i]]))
<1>1. /\ Len(list) \in Nat /\ DOMAIN list = 1..Len(list)
      /\ \A i \in 1..Len(list) : JsonKey(list[i]) \in Seq(Nat)
  BY CallsListed
<1>2. o \in [1..Len(list) -> 1..Len(list)]
  BY <1>1 DEF Sorts
<1>3. ASSUME NEW i \in 1..Len(list), NEW j \in 1..Len(list), i < j
      PROVE  o[i] # o[j] /\ ~ Before(JsonKey(list[o[j]]), JsonKey(list[o[i]]))
  <2> DEFINE a == o[i]  b == o[j]  s == JsonKey(list[a])  t == JsonKey(list[b])
  <2>1. a \in 1..Len(list) /\ b \in 1..Len(list)
    BY <1>2
  <2>2. s \in Seq(Nat) /\ t \in Seq(Nat)
    BY <1>1, <2>1
  <2>3. Before(s, t) \/ (s = t /\ a < b)
    BY <1>1, <1>3 DEF Sorts, EarlierIn
  <2>4. a = b => s = t
    OBVIOUS
  <2> HIDE DEF a, b, s, t
  <2>5. a \in Int /\ b \in Int
    BY <1>1, <2>1
  <2>6. ~ Before(s, s) /\ ~ Before(t, t) /\ (Before(s, t) /\ Before(t, s) => Before(s, s))
    BY <2>2, BeforeOrders
  <2>7. a # b /\ ~ Before(t, s)
    <3>1. CASE Before(s, t)
      BY <2>4, <2>6, <3>1
    <3>2. CASE s = t /\ a < b
      BY <2>5, <2>6, <3>2
    <3> QED BY <2>3, <3>1, <3>2
  <2> QED BY <2>7 DEF a, b, s, t
<1>4. ASSUME NEW i \in 1..Len(list), NEW j \in 1..Len(list), o[i] = o[j]
      PROVE  i = j
  <2>1. i < j \/ i = j \/ j < i
    BY <1>1
  <2> QED BY <1>3, <1>4, <2>1
<1> QED BY <1>2, <1>3, <1>4

\* A finite set of places, and a way to put each of them to another.
Places(S) == S \subseteq Int /\ IsFiniteSet(S)

Rearranges(o, S) == o \in [S -> S] /\ \A i, j \in S : o[i] = o[j] => i = j

UpTo(S, n) == {i \in S : i <= n}
From(S, n) == {i \in S : n <= i}

\* Of two rearrangements, one member up to n of the one is the same as one from
\* n on of the other.
LEMMA PlacesMeet ==
    ASSUME NEW S, Places(S), NEW n \in S,
           NEW o, Rearranges(o, S), NEW p, Rearranges(p, S)
    PROVE  \E i \in UpTo(S, n), j \in From(S, n) : p[i] = o[j]
<1> USE DEF Places
<1> DEFINE L == UpTo(S, n)  H == From(S, n)
           A == {p[i] : i \in L}  B == {o[j] : j \in H}
<1>1. Cardinality(S) \in Nat
  BY FS_CardinalityType
<1>2. /\ IsFiniteSet(L) /\ IsFiniteSet(H)
      /\ Cardinality(L) \in Nat /\ Cardinality(H) \in Nat
      /\ Cardinality(L) + Cardinality(H) = Cardinality(S) + 1
  <2>1. L \cup H = S /\ L \cap H = {n}
    <3>1. n \in Int /\ \A i \in S : i \in Int
      OBVIOUS
    <3>2. \A i \in S : i <= n \/ n <= i
      BY <3>1
    <3>3. \A i \in S : i <= n /\ n <= i => i = n
      BY <3>1
    <3>4. n <= n
      BY <3>1
    <3> QED BY <3>2, <3>3, <3>4 DEF UpTo, From
  <2>2. L \in SUBSET S /\ H \in SUBSET S
    BY DEF UpTo, From
  <2> HIDE DEF L, H
  <2>3. IsFiniteSet(L) /\ IsFiniteSet(H)
    BY <2>2, FS_Subset
  <2>4. Cardinality(L) \in Nat /\ Cardinality(H) \in Nat
    BY <2>3, FS_CardinalityType
  <2>5. Cardinality(L \cup H) = Cardinality(L) + Cardinality(H) - Cardinality(L \cap H)
    BY <2>3, FS_Union
  <2>6. Cardinality({n}) = 1
    BY FS_Singleton
  <2>7. Cardinality(S) = Cardinality(L) + Cardinality(H) - 1
    BY <2>1, <2>5, <2>6
  <2> QED BY <1>1, <2>3, <2>4, <2>7
<1>3. L \subseteq S /\ H \subseteq S
  BY DEF UpTo, From
<1>4. \A i \in S : o[i] \in S /\ p[i] \in S
  BY DEF Rearranges
<1>5. (\A i, j \in S : o[i] = o[j] => i = j) /\ (\A i, j \in S : p[i] = p[j] => i = j)
  BY DEF Rearranges
<1> HIDE DEF L, H
<1>8. IsFiniteSet(A) /\ Cardinality(A) = Cardinality(L) /\ A \subseteq S
  <2> DEFINE f == [i \in L |-> p[i]]
  <2>1. f \in Bijection(L, A)
    <3>1. f \in [L -> A] /\ \A i, j \in L : f[i] = f[j] => i = j
      BY <1>3, <1>5
    <3>2. \A y \in A : \E i \in L : f[i] = y
      OBVIOUS
    <3> HIDE DEF f, A
    <3> QED BY <3>1, <3>2 DEF Bijection, Injection, Surjection, IsInjective
  <2>2. A \subseteq S
    BY <1>3, <1>4
  <2>3. ExistsBijection(L, A)
    BY <2>1 DEF ExistsBijection
  <2> HIDE DEF A
  <2> QED BY <1>2, <2>2, <2>3, FS_Bijection
<1>9. IsFiniteSet(B) /\ Cardinality(B) = Cardinality(H) /\ B \subseteq S
  <2> DEFINE f == [i \in H |-> o[i]]
  <2>1. f \in Bijection(H, B)
    <3>1. f \in [H -> B] /\ \A i, j \in H : f[i] = f[j] => i = j
      BY <1>3, <1>5
    <3>2. \A y \in B : \E i \in H : f[i] = y
      OBVIOUS
    <3> HIDE DEF f, B
    <3> QED BY <3>1, <3>2 DEF Bijection, Injection, Surjection, IsInjective
  <2>2. B \subseteq S
    BY <1>3, <1>4
  <2>3. ExistsBijection(H, B)
    BY <2>1 DEF ExistsBijection
  <2> HIDE DEF B
  <2> QED BY <1>2, <2>2, <2>3, FS_Bijection
<1>10. A \cap B # {}
  <2> HIDE DEF A, B
  <2> SUFFICES ASSUME A \cap B = {} PROVE FALSE
    OBVIOUS
  <2>1. Cardinality(A \cup B) = Cardinality(A) + Cardinality(B) - Cardinality(A \cap B)
    BY <1>8, <1>9, FS_Union
  <2>2. Cardinality(A \cap B) = 0
    BY FS_EmptySet
  <2>3. A \cup B \in SUBSET S
    BY <1>8, <1>9
  <2>4. Cardinality(A \cup B) <= Cardinality(S)
    <3> DEFINE C == A \cup B
    <3>1. C \in SUBSET S
      BY <2>3
    <3> HIDE DEF C
    <3>2. Cardinality(C) <= Cardinality(S)
      BY <3>1, FS_Subset
    <3> QED BY <3>2 DEF C
  <2> QED BY <1>1, <1>2, <1>8, <1>9, <2>1, <2>2, <2>4
<1>11. PICK i \in L, j \in H : p[i] = o[j]
  BY <1>10
<1> QED BY <1>11 DEF L, H

\* Two ways to put the calls in order never differ in the keys they show.
LEMMA NotLater ==
    ASSUME NEW list, KeysTellApart(list),
           NEW o \in [1..Len(list) -> 1..Len(list)],
           \A i, j \in 1..Len(list) : o[i] = o[j] => i = j,
           \A i, j \in 1..Len(list) : i < j => ~ Before(JsonKey(list[o[j]]), JsonKey(list[o[i]])),
           NEW p \in [1..Len(list) -> 1..Len(list)],
           \A i, j \in 1..Len(list) : p[i] = p[j] => i = j,
           \A i, j \in 1..Len(list) : i < j => ~ Before(JsonKey(list[p[j]]), JsonKey(list[p[i]])),
           NEW n \in 1..Len(list)
    PROVE  ~ Before(JsonKey(list[p[n]]), JsonKey(list[o[n]]))
<1> DEFINE N == Len(list)
           Key(i) == JsonKey(list[i])
<1>1. N \in Nat /\ \A i \in 1..N : Key(i) \in Seq(Nat) /\ list[i] \in ToSet(list)
  BY CallsListed
<1>2. \A i, j \in 1..N : Key(i) = Key(j) \/ Before(Key(i), Key(j)) \/ Before(Key(j), Key(i))
  <2> SUFFICES ASSUME NEW i \in 1..N, NEW j \in 1..N
               PROVE  Key(i) = Key(j) \/ Before(Key(i), Key(j)) \/ Before(Key(j), Key(i))
    OBVIOUS
  <2>1. list[i] = list[j] => Key(i) = Key(j)
    OBVIOUS
  <2> QED BY <1>1, <2>1 DEF KeysTellApart
<1>3. \A i \in 1..N : o[i] \in 1..N /\ p[i] \in 1..N
  OBVIOUS
<1>4. \A i, j \in 1..N : i < j => ~ Before(Key(o[j]), Key(o[i])) /\ ~ Before(Key(p[j]), Key(p[i]))
  OBVIOUS
<1>5. /\ n \in 1..N
      /\ o \in [1..N -> 1..N] /\ \A i, j \in 1..N : o[i] = o[j] => i = j
      /\ p \in [1..N -> 1..N] /\ \A i, j \in 1..N : p[i] = p[j] => i = j
  OBVIOUS
<1> HIDE DEF N, Key
<1>6. PICK i \in 1..N, j \in 1..N : i <= n /\ n <= j /\ p[i] = o[j]
  <2> DEFINE S == 1..N
  <2>1. N \in Nat /\ n \in S
    BY <1>1, <1>5
  <2>2. Rearranges(o, S)
    BY <1>5 DEF Rearranges
  <2>3. Rearranges(p, S)
    BY <1>5 DEF Rearranges
  <2>4. S = 1..N
    OBVIOUS
  <2>6. Places(S)
    BY <1>1, FS_Interval DEF Places
  <2> HIDE DEF S
  <2>5. \E i \in UpTo(S, n), j \in From(S, n) : p[i] = o[j]
    BY <2>1, <2>2, <2>3, <2>6, PlacesMeet
  <2> QED BY <2>4, <2>5 DEF UpTo, From
<1> DEFINE a == Key(o[n])  b == Key(p[n])  m == Key(p[i])
<1>7. a \in Seq(Nat) /\ b \in Seq(Nat) /\ m \in Seq(Nat)
  BY <1>1, <1>3, <1>6, <1>5
<1>8. i \in Int /\ j \in Int /\ n \in Int
  BY <1>1, <1>6, <1>5
<1>9. b = m \/ Before(m, b)
  <2>1. i = n \/ i < n
    BY <1>6, <1>8
  <2>2. CASE i < n
    BY <1>2, <1>3, <1>4, <1>6, <1>5, <2>2
  <2> QED BY <2>1, <2>2
<1>10. a = m \/ Before(a, m)
  <2>1. j = n \/ n < j
    BY <1>6, <1>8
  <2>2. CASE n < j
    BY <1>2, <1>3, <1>4, <1>6, <1>5, <2>2
  <2> QED BY <1>6, <2>1, <2>2
<1> HIDE DEF a, b, m
<1>11. ~ Before(b, a)
  <2>1. ~ Before(a, a) /\ ~ Before(m, m) /\ ~ Before(b, b)
    BY <1>7, BeforeOrders
  <2>2. /\ Before(b, a) /\ Before(a, m) => Before(b, m)
        /\ Before(b, m) /\ Before(m, b) => Before(b, b)
    BY <1>7, BeforeOrders
  <2> QED BY <1>9, <1>10, <2>1, <2>2
<1> QED BY <1>11 DEF a, b, Key

\* Calls listed another way sort to the same list.
LEMMA SortedPermuted ==
    ASSUME NEW list, KeysTellApart(list),
           NEW f \in [DOMAIN list -> DOMAIN list], IsInjective(f)
    PROVE  LET other == [n \in DOMAIN list |-> list[f[n]]]
           IN  Len(other) = Len(list) /\ DOMAIN other = DOMAIN list /\ Sorted(other) = Sorted(list)
<1> DEFINE N == Len(list)
           other == [n \in DOMAIN list |-> list[f[n]]]
<1>1. /\ N \in Nat /\ DOMAIN list = 1..N
      /\ \A i \in 1..N : list[i] \in ToSet(list) /\ JsonKey(list[i]) \in Seq(Nat)
  BY CallsListed
<1>2. f \in [1..N -> 1..N] /\ \A i, j \in 1..N : f[i] = f[j] => i = j
  BY <1>1 DEF IsInjective
<1>3. DOMAIN other = 1..N /\ \A i \in 1..N : other[i] = list[f[i]] /\ f[i] \in 1..N
  BY <1>1, <1>2
<1>4. Len(other) = N /\ ToSet(other) \subseteq ToSet(list) /\ other \in Seq(ToSet(other))
  <2>1. other = [i \in 1..N |-> other[i]]
    BY <1>1
  <2>2. \A i \in 1..N : other[i] \in ToSet(other)
    BY <1>3 DEF ToSet
  <2>3. ToSet(other) \subseteq ToSet(list)
    BY <1>1, <1>3 DEF ToSet
  <2> HIDE DEF other, N
  <2>4. other \in Seq(ToSet(other))
    BY <1>1, <2>1, <2>2, SeqDef
  <2>5. Len(other) = N
    BY <1>1, <1>3, <2>4, LenProperties
  <2> QED BY <2>3, <2>4, <2>5
<1> HIDE DEF other
<1>5. KeysTellApart(other)
  BY <1>4 DEF KeysTellApart
<1>6. PICK o : Sorts(list, o) /\ Sorted(list) = [n \in DOMAIN list |-> list[o[n]]]
  BY SortedBySome
<1>7. PICK q : Sorts(other, q) /\ Sorted(other) = [n \in DOMAIN other |-> other[q[n]]]
  BY <1>5, SortedBySome
<1>8. /\ o \in [1..N -> 1..N] /\ \A i, j \in 1..N : o[i] = o[j] => i = j
      /\ \A i, j \in 1..N : i < j => ~ Before(JsonKey(list[o[j]]), JsonKey(list[o[i]]))
  BY <1>6, SortsOnce
<1>9. /\ q \in [1..N -> 1..N] /\ \A i, j \in 1..N : q[i] = q[j] => i = j
      /\ \A i, j \in 1..N : i < j => ~ Before(JsonKey(other[q[j]]), JsonKey(other[q[i]]))
  BY <1>4, <1>5, <1>7, SortsOnce
<1> DEFINE p == [n \in 1..N |-> f[q[n]]]
<1>10. /\ p \in [1..N -> 1..N] /\ \A i, j \in 1..N : p[i] = p[j] => i = j
       /\ \A n \in 1..N : list[p[n]] = other[q[n]]
  BY <1>2, <1>3, <1>9
<1> HIDE DEF p
<1>11. \A i, j \in 1..N : i < j => ~ Before(JsonKey(list[p[j]]), JsonKey(list[p[i]]))
  BY <1>9, <1>10
<1>12. ASSUME NEW n \in 1..N PROVE list[o[n]] = list[p[n]]
  <2>1. ~ Before(JsonKey(list[p[n]]), JsonKey(list[o[n]]))
    BY <1>8, <1>10, <1>11, NotLater
  <2>2. ~ Before(JsonKey(list[o[n]]), JsonKey(list[p[n]]))
    BY <1>8, <1>10, <1>11, NotLater
  <2>3. list[o[n]] \in ToSet(list) /\ list[p[n]] \in ToSet(list)
    BY <1>1, <1>8, <1>10
  <2> QED BY <2>1, <2>2, <2>3 DEF KeysTellApart
<1>13. Sorted(other) = Sorted(list)
  <2>1. Sorted(list) = [n \in 1..N |-> list[o[n]]]
    BY <1>1, <1>6
  <2>2. Sorted(other) = [n \in 1..N |-> other[q[n]]]
    BY <1>3, <1>7
  <2>3. \A n \in 1..N : list[o[n]] = other[q[n]]
    BY <1>10, <1>12
  <2> QED BY <2>1, <2>2, <2>3
<1> QED BY <1>1, <1>3, <1>4, <1>13 DEF other

-----------------------------------------------------------------------------
(***************************************************************************)
(* The grade of a trajectory                                               *)
(***************************************************************************)
Latest(b, s) == SelectLastInSeq(s, LAMBDA t : has_answer(b, t.text))

LEMMA LatestTurn ==
    ASSUME NEW b, NEW s, s \in Seq(Range(s)), NEW n \in DOMAIN s, has_answer(b, s[n].text)
    PROVE  Latest(b, s) # 0 /\ has_answer(b, s[Latest(b, s)].text)
<1> DEFINE I == {i \in 1..Len(s) : has_answer(b, s[i].text)}
<1>1. Len(s) \in Nat /\ DOMAIN s = 1..Len(s)
  BY LenProperties
<1>2. n \in I /\ I \in SUBSET (1..Len(s))
  BY <1>1
<1>3. IsFiniteSet(I)
  <2>1. IsFiniteSet(1..Len(s))
    BY <1>1, FS_Interval
  <2> QED BY <1>2, <2>1, FS_Subset
<1>4. I \subseteq Int /\ I # {}
  BY <1>1, <1>2
<1>5. Max(I) \in I
  <2> HIDE DEF I
  <2> QED BY <1>3, <1>4, GreatestMember
<1>6. Latest(b, s) = Max(I)
  BY <1>4 DEF Latest, SelectLastInSeq
<1>7. Max(I) # 0
  BY <1>1, <1>2, <1>5
<1> QED BY <1>5, <1>6, <1>7

\* Where only an extracted answer is compared, an empty text is not right.
LEMMA NoLetter == extract_choice_letter(<<>>) = NoAnswer
<1> DEFINE hits == {p \in DOMAIN ChoicePatterns : Holds(<<>>, {ChoicePatterns[p]}, Letters)}
           none == <<>>
           alone == none # <<>> /\ Last(none).k = "alone" /\ Last(none).v \in Letters
           first == SelectInSeq(none, LAMBDA m : m.k = ChoicePatterns[Min(hits)] /\ m.v \in Letters)
<1>1. hits = {}
  BY DEF Holds
<1>2. ~ alone
  OBVIOUS
<1>3. extract_choice_letter(none) = CASE hits # {} -> none[first].v
                                      [] hits = {} /\ alone -> Last(none).v
                                      [] OTHER -> NoAnswer
  BY Zenon DEF extract_choice_letter
<1> HIDE DEF hits, none, alone, first
<1>4. extract_choice_letter(none) = NoAnswer
  BY <1>1, <1>2, <1>3, Zenon
<1> QED BY <1>4 DEF none

LEMMA NoPayloadThere == extract_json_payload(<<>>) = NoPayload
<1> DEFINE none == <<>>
           found == LastOf(none, LAMBDA m : m.k = "json")
           number == Len(none) = 1 /\ none[1].k = "alone" /\ none[1].v \in Numerals
<1>1. Count(none, {"json"}) = 0
  <2>1. {i \in DOMAIN none : none[i].k \in {"json"}} = {}
    OBVIOUS
  <2> QED BY <2>1, FS_EmptySet DEF Count
<1>2. Count(none, {"json"}) # 1
  BY <1>1
<1>3. ~ number
  OBVIOUS
<1>4. extract_json_payload(none) = CASE Count(none, {"json"}) = 1 -> found
                                     [] number -> NoCalls
                                     [] OTHER -> NoPayload
  BY Zenon DEF extract_json_payload
<1> HIDE DEF none, found, number
<1>5. extract_json_payload(none) = NoPayload
  BY <1>2, <1>3, <1>4, Zenon
<1> QED BY <1>5 DEF none

LEMMA RightIsAnswered ==
    ASSUME NEW b \in {"choice", "ifeval", "bfcl"}, NEW text, NEW ref, score_text(b, text, ref)
    PROVE  has_answer(b, text)
<1>1. CASE b = "choice"
  <2>1. "choice" # "math"
    OBVIOUS
  <2>2. score_text("choice", text, ref) = check_choice(text, ref.gold)
    BY <2>1, Zenon DEF score_text
  <2>3. extract_choice_letter(text) # NoAnswer
    BY <1>1, <2>2 DEF check_choice
  <2>4. text # <<>>
    BY <2>3, NoLetter
  <2> QED BY <1>1, <2>3, <2>4, Zenon DEF has_answer
<1>2. CASE b = "ifeval"
  <2>1. /\ "ifeval" # "math" /\ "ifeval" # "choice" /\ "ifeval" # "rlpr"
    OBVIOUS
  <2>2. score_text("ifeval", text, ref) = check_ifeval(text, ref.instructions)
    BY <2>1, Zenon DEF score_text
  <2>3. text # <<>>
    BY <1>2, <2>2 DEF check_ifeval
  <2> QED BY <1>2, <2>1, <2>3, Zenon DEF has_answer
<1>3. CASE b = "bfcl"
  <2>1. /\ "bfcl" # "math" /\ "bfcl" # "choice" /\ "bfcl" # "rlpr" /\ "bfcl" # "ifeval"
    OBVIOUS
  <2>2. score_text("bfcl", text, ref) = check_bfcl(text, ref.calls)
    BY <2>1, Zenon DEF score_text
  <2>3. extract_json_payload(text) # NoPayload
    BY <1>3, <2>2 DEF check_bfcl
  <2>4. text # <<>>
    BY <2>3, NoPayloadThere
  <2> QED BY <1>3, <2>1, <2>3, <2>4, Zenon DEF has_answer
<1> QED BY <1>1, <1>2, <1>3

LEMMA CommittedAnswers ==
    ASSUME NEW b, NEW s, s \in Seq(Range(s)), NEW n \in DOMAIN s, has_answer(b, s[n].text)
    PROVE  has_answer(b, committed_answer(b, s))
<1> DEFINE final == final_answer(s)
           turn == Latest(b, s)
<1>1. turn # 0 /\ has_answer(b, s[turn].text)
  BY LatestTurn
<1>2. committed_answer(b, s) = CASE has_answer(b, final) -> final
                                 [] ~ has_answer(b, final) /\ turn # 0 -> s[turn].text
                                 [] OTHER -> final
  BY Zenon DEF committed_answer, Latest
<1> HIDE DEF final, turn
<1> QED BY <1>1, <1>2, Zenon

-----------------------------------------------------------------------------
Transcript ==
    /\ turns \in Seq(Range(turns))
    /\ item # NoItem => item \in Items
    /\ ended => item # NoItem
    /\ grade # Ungraded => ended
    /\ grade = 1 => score(item.benchmark, turns, item.ref)

GradeSpec == GradeInit /\ [][GradeNext]_gradeVars

LEMMA TranscriptInit == GradeInit => Transcript
BY EmptySeq DEF GradeInit, Transcript, Ungraded

LEMMA TranscriptNext == Transcript /\ [GradeNext]_gradeVars => Transcript'
<1> SUFFICES ASSUME Transcript, [GradeNext]_gradeVars PROVE Transcript'
  OBVIOUS
<1>1. CASE Take
  BY <1>1 DEF Take, Transcript, Ungraded
<1>2. ASSUME NEW role, NEW text, NEW accepts, Turn(role, text, accepts)
      PROVE  Transcript'
  <2> DEFINE new == [role |-> role, text |-> text]
             all == Range(turns) \cup {new}
  <2>1. item # NoItem /\ ~ ended /\ item' = item /\ grade' = grade /\ turns' = Append(turns, new)
    BY <1>2 DEF Turn
  <2> HIDE DEF new
  <2>2. turns \in Seq(all) /\ new \in all
    BY DEF Transcript
  <2> HIDE DEF all
  <2>3. turns' \in Seq(all) /\ Len(turns') = Len(turns) + 1 /\ Len(turns) \in Nat
    BY <2>1, <2>2, AppendProperties, LenProperties
  <2>4. turns' \in Seq(Range(turns'))
    <3>1. DOMAIN turns' = 1..Len(turns') /\ Len(turns') \in Nat /\ turns' = [i \in 1..Len(turns') |-> turns'[i]]
      BY <2>3
    <3>2. \A i \in 1..Len(turns') : turns'[i] \in Range(turns')
      BY <3>1 DEF Range
    <3> QED BY <3>1, <3>2, SeqDef
  <2> QED BY <2>1, <2>4 DEF Transcript, Ungraded
<1>3. CASE Score
  <2>1. ended /\ grade = Ungraded /\ item' = item /\ turns' = turns /\ ended' = ended
    BY <1>3 DEF Score
  <2>2. grade' = 1 => score(item.benchmark, turns, item.ref)
    <3>1. grade' = IF score(item.benchmark, turns, item.ref) THEN 1 ELSE 0
      BY <1>3 DEF Score
    <3> QED BY <3>1
  <2> QED BY <2>1, <2>2 DEF Transcript
<1>4. CASE UNCHANGED gradeVars
  BY <1>4 DEF gradeVars, Transcript
<1> QED BY <1>1, <1>2, <1>3, <1>4 DEF GradeNext

\* However the calls of the answer and of the reference are listed.
LEMMA CallsInAnyOrder ==
    ASSUME NEW list, KeysTellApart(list), NEW gold, KeysTellApart(gold),
           NEW f \in [DOMAIN list -> DOMAIN list], IsInjective(f),
           NEW g \in [DOMAIN gold -> DOMAIN gold], IsInjective(g)
    PROVE  calls_match([n \in DOMAIN list |-> list[f[n]]], [n \in DOMAIN gold |-> gold[g[n]]])
               = calls_match(list, gold)
<1> DEFINE list2 == [n \in DOMAIN list |-> list[f[n]]]
           gold2 == [n \in DOMAIN gold |-> gold[g[n]]]
<1>1. Len(list2) = Len(list) /\ DOMAIN list2 = DOMAIN list /\ Sorted(list2) = Sorted(list)
  BY SortedPermuted
<1>2. Len(gold2) = Len(gold) /\ Sorted(gold2) = Sorted(gold)
  BY SortedPermuted
<1> HIDE DEF list2, gold2
<1>3. calls_match(list2, gold2) = calls_match(list, gold)
  BY <1>1, <1>2 DEF calls_match
<1> QED BY <1>3 DEF list2, gold2

LEMMA AnyOrder == Transcript => CallOrderIrrelevant
<1> SUFFICES ASSUME Transcript, item.benchmark = "bfcl" PROVE CallOrderIrrelevant
  BY DEF CallOrderIrrelevant
<1>1. item # NoItem
  BY DEF NoItem
<1>2. KeysTellApart(item.ref.calls)
  BY <1>1, KeyAssumption DEF Transcript
<1> DEFINE payload == extract_json_payload(committed_answer("bfcl", turns))
           gold == item.ref.calls
<1> HIDE DEF payload, gold
<1>3. ASSUME payload \in DOMAIN Calls,
             NEW f \in {h \in [DOMAIN Calls[payload] -> DOMAIN Calls[payload]] : IsInjective(h)},
             NEW g \in {h \in [DOMAIN gold -> DOMAIN gold] : IsInjective(h)}
      PROVE  calls_match([n \in DOMAIN Calls[payload] |-> Calls[payload][f[n]]],
                         [n \in DOMAIN gold |-> gold[g[n]]]) = calls_match(Calls[payload], gold)
  <2>1. KeysTellApart(Calls[payload]) /\ KeysTellApart(gold)
    BY <1>2, <1>3, KeyAssumption DEF gold
  <2> DEFINE list == Calls[payload]
  <2>2. KeysTellApart(list) /\ f \in [DOMAIN list -> DOMAIN list] /\ IsInjective(f)
    BY <2>1
  <2>3. g \in [DOMAIN gold -> DOMAIN gold] /\ IsInjective(g)
    OBVIOUS
  <2> HIDE DEF list
  <2>4. calls_match([n \in DOMAIN list |-> list[f[n]]], [n \in DOMAIN gold |-> gold[g[n]]])
            = calls_match(list, gold)
    BY <2>1, <2>2, <2>3, CallsInAnyOrder
  <2> QED BY <2>4 DEF list
<1> QED BY <1>3 DEF CallOrderIrrelevant, payload, gold

\* A graded trajectory (reward.py:84-128, 650-697): the text that is graded holds
\* an answer if any turn does, nothing without one is right where only an
\* extracted answer is compared, and parallel calls are judged alike in whatever
\* order they are listed, however many turns and calls there are.
THEOREM GradesConsistent == Spec => []GradesAreConsistent
<1>1. Spec => GradeSpec
  <2>1. Init => GradeInit
    BY DEF Init
  <2>2. [Next]_vars => [GradeNext]_gradeVars
    BY DEF Next, vars
  <2> QED BY <2>1, <2>2, PTL DEF Spec, GradeSpec
<1>2. Transcript => AnswerNotLost
  BY CommittedAnswers DEF Transcript, AnswerNotLost
<1>3. Transcript => CorrectIsAnAnswer
  BY RightIsAnswered DEF Transcript, CorrectIsAnAnswer, score
<1>4. Transcript => GradesAreConsistent
  BY <1>2, <1>3, AnyOrder DEF GradesAreConsistent
<1> QED BY <1>1, <1>4, TranscriptInit, TranscriptNext, PTL DEF GradeSpec

\* The training loop (train.py), run as these programs are: a candidate that does
\* as well on every task, whatever the weights, is told no lower a fitness, and
\* what is on disk is always the best theta of the generations in the history.
THEOREM SelectionSound == Spec => []SelectionIsSound
<1>1. Init => TrainInit
  BY DEF Init
<1>2. [Next]_vars => [TrainNext]_trainVars
  BY DEF Next, vars
<1> QED BY <1>1, <1>2, SelectionHolds, PTL DEF Spec, TrainSpec

=============================================================================
