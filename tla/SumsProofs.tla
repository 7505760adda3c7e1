------------------------------ MODULE SumsProofs ------------------------------
(***************************************************************************)
(* Sums over finite sets, as the modules of this project write them: what  *)
(* SumFunctionOnSet and SumFunction of the community modules return, for   *)
(* every function and finite set.  The library's own facts take operators  *)
(* as parameters; these are about functions, and can be cited.  And what   *)
(* \div and % return by a divisor that is a parameter.                     *)
(***************************************************************************)
EXTENDS FiniteSetsExt, FiniteSetTheorems, WellFoundedInduction, TLAPS

-----------------------------------------------------------------------------
(***************************************************************************)
(* Induction, over a set of numbers or of subsets instead of a predicate   *)
(***************************************************************************)
\* A non-empty set of numbers has a least one.
LEMMA Least ==
    ASSUME NEW S \in SUBSET Nat, S # {}
    PROVE  \E m \in S : \A j \in S : m <= j
<1>1. PICK m \in S : \A j \in S : ~(<<j, m>> \in OpToRel(<, Nat))
  BY WFMin, NatLessThanWellFounded
<1>2. \A j \in S : ~(j < m)
  BY <1>1 DEF OpToRel
<1> QED BY <1>2

LEMMA UpwardInduction ==
    ASSUME NEW P \in SUBSET Nat, 0 \in P, \A n \in P : n + 1 \in P
    PROVE  P = Nat
<1> SUFFICES ASSUME Nat \ P # {} PROVE FALSE
  OBVIOUS
<1>1. PICK m \in Nat \ P : \A j \in Nat \ P : m <= j
  BY Least
<1>2. m - 1 \in P
  BY <1>1
<1> QED BY <1>1, <1>2

\* What holds of a set when it holds of the set without one of its elements.
LEMMA SubsetInduction ==
    ASSUME NEW S, IsFiniteSet(S), NEW P, {} \in P,
           \A T \in SUBSET S : (\A x \in T : T \ {x} \in P) => T \in P
    PROVE  S \in P
<1> DEFINE sizes == {n \in Nat : \A T \in SUBSET S : Cardinality(T) = n => T \in P}
<1>1. \A T \in SUBSET S : IsFiniteSet(T) /\ Cardinality(T) \in Nat
  BY FS_Subset, FS_CardinalityType
<1>2. 0 \in sizes
  BY <1>1, FS_EmptySet
<1>3. ASSUME NEW n \in sizes PROVE n + 1 \in sizes
  <2> SUFFICES ASSUME NEW T \in SUBSET S, Cardinality(T) = n + 1 PROVE T \in P
    OBVIOUS
  <2>1. ASSUME NEW x \in T PROVE T \ {x} \in P
    <3>1. Cardinality(T \ {x}) = n
      BY <1>1, FS_RemoveElement
    <3> QED BY <3>1
  <2> QED BY <2>1
<1>4. sizes = Nat
  <2>1. sizes \in SUBSET Nat
    OBVIOUS
  <2> HIDE DEF sizes
  <2> QED BY <1>2, <1>3, <2>1, UpwardInduction
<1> QED BY <1>1, <1>4

-----------------------------------------------------------------------------
(***************************************************************************)
(* The recursion that defines a sum has one solution                       *)
(***************************************************************************)
First(s) == CHOOSE x \in s : TRUE

Sums(g, f, D) == g = [s \in D |-> IF s = {} THEN 0 ELSE f[First(s)] + g[s \ {First(s)}]]

LEMMA SumByChoice ==
    ASSUME NEW f, NEW S
    PROVE  SumFunctionOnSet(f, S) = (CHOOSE g : Sums(g, f, SUBSET S))[S]
BY DEF SumFunctionOnSet, FoldFunctionOnSet, MapThenFoldSet, Sums, First

LEMMA SumsExist ==
    ASSUME NEW f, NEW S, IsFiniteSet(S)
    PROVE  \E g : Sums(g, f, SUBSET S)
<1> DEFINE upTo(n) == {s \in SUBSET S : Cardinality(s) <= n}
           done == {n \in Nat : \E g : Sums(g, f, upTo(n))}
<1>1. \A T \in SUBSET S : /\ IsFiniteSet(T) /\ Cardinality(T) \in Nat
                          /\ Cardinality(T) <= Cardinality(S)
  BY FS_Subset, FS_CardinalityType
<1>2. 0 \in done
  <2>1. \A s \in upTo(0) : s = {}
    BY <1>1, FS_EmptySet
  <2>2. Sums([s \in upTo(0) |-> 0], f, upTo(0))
    BY <2>1 DEF Sums
  <2> QED BY <2>2
<1>3. ASSUME NEW n \in done PROVE n + 1 \in done
  <2>1. PICK g : Sums(g, f, upTo(n))
    OBVIOUS
  <2> DEFINE D == upTo(n + 1)
             h == [s \in D |-> IF s = {} THEN 0 ELSE f[First(s)] + g[s \ {First(s)}]]
  <2>2. ASSUME NEW s \in D, s # {} PROVE h[s \ {First(s)}] = g[s \ {First(s)}]
    <3> DEFINE r == s \ {First(s)}
    <3>1. First(s) \in s
      BY <2>2 DEF First
    <3>2. Cardinality(r) = Cardinality(s) - 1
      BY <1>1, <3>1, FS_RemoveElement
    <3>3. r \in upTo(n) /\ r \in D
      BY <1>1, <3>2
    <3>4. g[r] = IF r = {} THEN 0 ELSE f[First(r)] + g[r \ {First(r)}]
      <4> HIDE DEF r
      <4> QED BY <2>1, <3>3 DEF Sums
    <3> HIDE DEF r
    <3>5. h[r] = g[r]
      BY <3>3, <3>4
    <3> QED BY <3>5 DEF r
  <2>3. Sums(h, f, D)
    <3>1. \A s \in D : h[s] = IF s = {} THEN 0 ELSE f[First(s)] + h[s \ {First(s)}]
      BY <2>2
    <3>2. h = [s \in D |-> h[s]]
      OBVIOUS
    <3> HIDE DEF h, D
    <3> QED BY <3>1, <3>2 DEF Sums
  <2> HIDE DEF h
  <2>4. \E x : Sums(x, f, upTo(n + 1))
    BY <2>3
  <2> HIDE DEF upTo
  <2> QED BY <2>4
<1>4. done = Nat
  <2>1. done \in SUBSET Nat
    OBVIOUS
  <2> HIDE DEF done
  <2> QED BY <1>2, <1>3, <2>1, UpwardInduction
<1>5. upTo(Cardinality(S)) = SUBSET S
  BY <1>1
<1>6. Cardinality(S) \in done
  BY <1>1, <1>4
<1>7. \E g : Sums(g, f, upTo(Cardinality(S)))
  BY <1>6
<1> QED BY <1>5, <1>7

LEMMA SumsUnique ==
    ASSUME NEW f, NEW S, IsFiniteSet(S), NEW D, NEW E, SUBSET S \subseteq D, SUBSET S \subseteq E,
           NEW g, Sums(g, f, D), NEW h, Sums(h, f, E)
    PROVE  g[S] = h[S]
<1> DEFINE same == {T \in SUBSET S : g[T] = h[T]}
<1>1. {} \in same
  BY DEF Sums
<1>2. ASSUME NEW T \in SUBSET S, \A x \in T : T \ {x} \in same PROVE T \in same
  <2>1. CASE T # {}
    <3>1. First(T) \in T
      BY <2>1 DEF First
    <3>2. g[T \ {First(T)}] = h[T \ {First(T)}]
      BY <1>2, <3>1
    <3>3. T \in D /\ T \in E
      OBVIOUS
    <3>4. g[T] = f[First(T)] + g[T \ {First(T)}] /\ h[T] = f[First(T)] + h[T \ {First(T)}]
      BY <2>1, <3>3 DEF Sums
    <3> QED BY <3>2, <3>4
  <2> QED BY <1>1, <2>1
<1> HIDE DEF same
<1>3. S \in same
  BY <1>1, <1>2, SubsetInduction
<1> QED BY <1>3 DEF same

LEMMA SumEmpty == \A f : SumFunctionOnSet(f, {}) = 0
<1> TAKE f
<1>1. PICK g : Sums(g, f, SUBSET {})
  BY SumsExist, FS_EmptySet
<1>2. Sums(CHOOSE x : Sums(x, f, SUBSET {}), f, SUBSET {})
  BY <1>1
<1> QED BY <1>2, SumByChoice DEF Sums

LEMMA SumFirst ==
    ASSUME NEW f, NEW S, IsFiniteSet(S), S # {}
    PROVE  SumFunctionOnSet(f, S) = f[First(S)] + SumFunctionOnSet(f, S \ {First(S)})
<1> DEFINE T == S \ {First(S)}
           g == CHOOSE x : Sums(x, f, SUBSET S)
           h == CHOOSE x : Sums(x, f, SUBSET T)
<1>1. IsFiniteSet(T) /\ SUBSET T \subseteq SUBSET S /\ S \in SUBSET S
  BY FS_Subset
<1>2. Sums(g, f, SUBSET S) /\ Sums(h, f, SUBSET T)
  BY <1>1, SumsExist
<1>3. SumFunctionOnSet(f, S) = g[S] /\ SumFunctionOnSet(f, T) = h[T]
  BY SumByChoice
<1> HIDE DEF g, h
<1>4. g[S] = f[First(S)] + g[T]
  BY <1>1, <1>2 DEF Sums
<1> HIDE DEF T
<1>5. g[T] = h[T]
  BY <1>1, <1>2, SumsUnique
<1> QED BY <1>3, <1>4, <1>5 DEF T

-----------------------------------------------------------------------------
(***************************************************************************)
(* Sums of integers                                                        *)
(***************************************************************************)
LEMMA SumInt ==
    ASSUME NEW f, NEW S, IsFiniteSet(S), \A x \in S : f[x] \in Int
    PROVE  SumFunctionOnSet(f, S) \in Int
<1> DEFINE P == {T \in SUBSET S : SumFunctionOnSet(f, T) \in Int}
<1>1. {} \in P
  BY SumEmpty
<1>2. ASSUME NEW T \in SUBSET S, \A x \in T : T \ {x} \in P PROVE T \in P
  <2>1. CASE T # {}
    <3>1. First(T) \in T
      BY <2>1 DEF First
    <3>2. f[First(T)] \in Int /\ SumFunctionOnSet(f, T \ {First(T)}) \in Int
      BY <1>2, <3>1
    <3>3. SumFunctionOnSet(f, T) = f[First(T)] + SumFunctionOnSet(f, T \ {First(T)})
      BY <2>1, SumFirst, FS_Subset
    <3> QED BY <3>2, <3>3
  <2> QED BY <1>1, <2>1
<1> HIDE DEF P
<1>3. S \in P
  BY <1>1, <1>2, SubsetInduction
<1> QED BY <1>3 DEF P

\* Any element may be taken first.
LEMMA SumRemove ==
    ASSUME NEW f, NEW S, IsFiniteSet(S), \A x \in S : f[x] \in Int, NEW a \in S
    PROVE  SumFunctionOnSet(f, S) = f[a] + SumFunctionOnSet(f, S \ {a})
<1> DEFINE P == {T \in SUBSET S : \A x \in T :
                    SumFunctionOnSet(f, T) = f[x] + SumFunctionOnSet(f, T \ {x})}
<1>1. {} \in P
  OBVIOUS
<1>2. ASSUME NEW T \in SUBSET S, \A x \in T : T \ {x} \in P PROVE T \in P
  <2> SUFFICES ASSUME NEW x \in T
               PROVE  SumFunctionOnSet(f, T) = f[x] + SumFunctionOnSet(f, T \ {x})
    OBVIOUS
  <2> DEFINE p == First(T)
  <2>1. p \in T
    BY DEF First
  <2>2. SumFunctionOnSet(f, T) = f[p] + SumFunctionOnSet(f, T \ {p})
    BY SumFirst, FS_Subset
  <2> HIDE DEF p
  <2>3. CASE x # p
    <3>1. (T \ {p}) \ {x} = (T \ {x}) \ {p}
      OBVIOUS
    <3>2. SumFunctionOnSet(f, T \ {p}) = f[x] + SumFunctionOnSet(f, (T \ {p}) \ {x})
      BY <1>2, <2>1, <2>3
    <3>3. SumFunctionOnSet(f, T \ {x}) = f[p] + SumFunctionOnSet(f, (T \ {x}) \ {p})
      BY <1>2, <2>1, <2>3
    <3>4. SumFunctionOnSet(f, (T \ {x}) \ {p}) \in Int
      <4>1. IsFiniteSet((T \ {x}) \ {p})
        BY FS_Subset
      <4> QED BY <4>1, SumInt
    <3>5. f[x] \in Int /\ f[p] \in Int
      BY <2>1
    <3> DEFINE rest == SumFunctionOnSet(f, (T \ {x}) \ {p})
    <3>6. /\ SumFunctionOnSet(f, T) = f[p] + (f[x] + rest)
          /\ SumFunctionOnSet(f, T \ {x}) = f[p] + rest
          /\ rest \in Int
      BY <2>2, <3>1, <3>2, <3>3, <3>4
    <3> HIDE DEF rest
    <3> QED BY <3>5, <3>6
  <2> QED BY <2>2, <2>3
<1> HIDE DEF P
<1>3. S \in P
  BY <1>1, <1>2, SubsetInduction
<1> QED BY <1>3 DEF P

\* A sum reads its function on the set alone.
LEMMA SumEqual ==
    ASSUME NEW f, NEW g, NEW S, IsFiniteSet(S), \A x \in S : f[x] = g[x]
    PROVE  SumFunctionOnSet(f, S) = SumFunctionOnSet(g, S)
<1> DEFINE P == {T \in SUBSET S : SumFunctionOnSet(f, T) = SumFunctionOnSet(g, T)}
<1>1. {} \in P
  BY SumEmpty
<1>2. ASSUME NEW T \in SUBSET S, \A x \in T : T \ {x} \in P PROVE T \in P
  <2>1. CASE T # {}
    <3>1. First(T) \in T
      BY <2>1 DEF First
    <3>2. /\ SumFunctionOnSet(f, T) = f[First(T)] + SumFunctionOnSet(f, T \ {First(T)})
          /\ SumFunctionOnSet(g, T) = g[First(T)] + SumFunctionOnSet(g, T \ {First(T)})
      BY <2>1, SumFirst, FS_Subset
    <3> QED BY <1>2, <3>1, <3>2
  <2> QED BY <1>1, <2>1
<1> HIDE DEF P
<1>3. S \in P
  BY <1>1, <1>2, SubsetInduction
<1> QED BY <1>3 DEF P

LEMMA SumPlus ==
    ASSUME NEW f, NEW g, NEW h, NEW S, IsFiniteSet(S),
           \A x \in S : f[x] \in Int /\ g[x] \in Int /\ h[x] = f[x] + g[x]
    PROVE  SumFunctionOnSet(h, S) = SumFunctionOnSet(f, S) + SumFunctionOnSet(g, S)
<1> DEFINE P == {T \in SUBSET S : SumFunctionOnSet(h, T)
                                    = SumFunctionOnSet(f, T) + SumFunctionOnSet(g, T)}
<1>1. {} \in P
  BY SumEmpty
<1>2. ASSUME NEW T \in SUBSET S, \A x \in T : T \ {x} \in P PROVE T \in P
  <2>1. CASE T # {}
    <3> PICK a \in T : TRUE
      BY <2>1
    <3> DEFINE R == T \ {a}
    <3>1. IsFiniteSet(T) /\ IsFiniteSet(R) /\ R \subseteq S
      BY FS_Subset
    <3>2. /\ SumFunctionOnSet(f, T) = f[a] + SumFunctionOnSet(f, R)
          /\ SumFunctionOnSet(g, T) = g[a] + SumFunctionOnSet(g, R)
          /\ SumFunctionOnSet(h, T) = h[a] + SumFunctionOnSet(h, R)
      BY <3>1, SumRemove
    <3>3. SumFunctionOnSet(h, R) = SumFunctionOnSet(f, R) + SumFunctionOnSet(g, R)
      BY <1>2
    <3> HIDE DEF R
    <3>4. SumFunctionOnSet(f, R) \in Int /\ SumFunctionOnSet(g, R) \in Int
      BY <3>1, SumInt
    <3> QED BY <3>2, <3>3, <3>4
  <2> QED BY <1>1, <2>1
<1> HIDE DEF P
<1>3. S \in P
  BY <1>1, <1>2, SubsetInduction
<1> QED BY <1>3 DEF P

LEMMA SumMonotone ==
    ASSUME NEW f, NEW g, NEW S, IsFiniteSet(S),
           \A x \in S : f[x] \in Int /\ g[x] \in Int /\ f[x] <= g[x]
    PROVE  SumFunctionOnSet(f, S) <= SumFunctionOnSet(g, S)
<1> DEFINE P == {T \in SUBSET S : SumFunctionOnSet(f, T) <= SumFunctionOnSet(g, T)}
<1>1. {} \in P
  BY SumEmpty
<1>2. ASSUME NEW T \in SUBSET S, \A x \in T : T \ {x} \in P PROVE T \in P
  <2>1. CASE T # {}
    <3> PICK a \in T : TRUE
      BY <2>1
    <3> DEFINE R == T \ {a}
    <3>1. IsFiniteSet(T) /\ IsFiniteSet(R) /\ R \subseteq S
      BY FS_Subset
    <3>2. /\ SumFunctionOnSet(f, T) = f[a] + SumFunctionOnSet(f, R)
          /\ SumFunctionOnSet(g, T) = g[a] + SumFunctionOnSet(g, R)
      BY <3>1, SumRemove
    <3>3. SumFunctionOnSet(f, R) <= SumFunctionOnSet(g, R)
      BY <1>2
    <3> HIDE DEF R
    <3>4. SumFunctionOnSet(f, R) \in Int /\ SumFunctionOnSet(g, R) \in Int
      BY <3>1, SumInt
    <3> QED BY <3>2, <3>3, <3>4
  <2> QED BY <1>1, <2>1
<1> HIDE DEF P
<1>3. S \in P
  BY <1>1, <1>2, SubsetInduction
<1> QED BY <1>3 DEF P

LEMMA SumScale ==
    ASSUME NEW f, NEW g, NEW c \in Int, NEW S, IsFiniteSet(S),
           \A x \in S : f[x] \in Int /\ g[x] = c * f[x]
    PROVE  SumFunctionOnSet(g, S) = c * SumFunctionOnSet(f, S)
<1> DEFINE P == {T \in SUBSET S : SumFunctionOnSet(g, T) = c * SumFunctionOnSet(f, T)}
<1>1. {} \in P
  BY SumEmpty
<1>2. ASSUME NEW T \in SUBSET S, \A x \in T : T \ {x} \in P PROVE T \in P
  <2>1. CASE T # {}
    <3> PICK a \in T : TRUE
      BY <2>1
    <3> DEFINE R == T \ {a}
    <3>1. IsFiniteSet(T) /\ IsFiniteSet(R) /\ R \subseteq S /\ \A x \in S : c * f[x] \in Int
      BY FS_Subset
    <3>2. /\ SumFunctionOnSet(f, T) = f[a] + SumFunctionOnSet(f, R)
          /\ SumFunctionOnSet(g, T) = g[a] + SumFunctionOnSet(g, R)
      BY <3>1, SumRemove
    <3>3. SumFunctionOnSet(g, R) = c * SumFunctionOnSet(f, R)
      BY <1>2
    <3> HIDE DEF R
    <3>4. SumFunctionOnSet(f, R) \in Int /\ f[a] \in Int
      BY <3>1, SumInt
    <3>5. c * (f[a] + SumFunctionOnSet(f, R)) = c * f[a] + c * SumFunctionOnSet(f, R)
      BY <3>4
    <3> QED BY <3>2, <3>3, <3>5
  <2> QED BY <1>1, <2>1
<1> HIDE DEF P
<1>3. S \in P
  BY <1>1, <1>2, SubsetInduction
<1> QED BY <1>3 DEF P

LEMMA SumZeros ==
    ASSUME NEW f, NEW S, IsFiniteSet(S), \A x \in S : f[x] = 0
    PROVE  SumFunctionOnSet(f, S) = 0
<1>1. \A x \in S : f[x] \in Int /\ f[x] = 0 * f[x]
  OBVIOUS
<1>2. SumFunctionOnSet(f, S) = 0 * SumFunctionOnSet(f, S)
  BY <1>1, SumScale
<1>3. SumFunctionOnSet(f, S) \in Int
  BY <1>1, SumInt
<1> QED BY <1>2, <1>3

LEMMA SumNat ==
    ASSUME NEW f, NEW S, IsFiniteSet(S), \A x \in S : f[x] \in Nat
    PROVE  SumFunctionOnSet(f, S) \in Nat
<1> DEFINE z == [x \in S |-> 0]
<1>1. \A x \in S : z[x] \in Int /\ f[x] \in Int /\ z[x] <= f[x]
  OBVIOUS
<1>2. \A x \in S : z[x] = 0
  OBVIOUS
<1> HIDE DEF z
<1>3. SumFunctionOnSet(z, S) = 0 /\ SumFunctionOnSet(f, S) \in Int
  BY <1>1, <1>2, SumInt, SumZeros
<1>4. SumFunctionOnSet(z, S) <= SumFunctionOnSet(f, S)
  BY <1>1, SumMonotone
<1> QED BY <1>3, <1>4

\* Of numbers that are not negative, each is at most the sum.
LEMMA SumBounds ==
    ASSUME NEW f, NEW S, IsFiniteSet(S), \A x \in S : f[x] \in Nat, NEW a \in S
    PROVE  f[a] <= SumFunctionOnSet(f, S)
<1>1. IsFiniteSet(S \ {a})
  BY FS_Subset
<1>2. SumFunctionOnSet(f, S \ {a}) \in Nat
  BY <1>1, SumNat
<1>3. SumFunctionOnSet(f, S) = f[a] + SumFunctionOnSet(f, S \ {a})
  BY SumRemove
<1> QED BY <1>2, <1>3

\* Two functions that differ in one place.
LEMMA SumOneChanged ==
    ASSUME NEW f, NEW g, NEW S, IsFiniteSet(S), NEW a \in S,
           \A x \in S : f[x] \in Int /\ g[x] \in Int /\ (x # a => f[x] = g[x])
    PROVE  SumFunctionOnSet(g, S) = SumFunctionOnSet(f, S) + g[a] - f[a]
<1>1. IsFiniteSet(S \ {a})
  BY FS_Subset
<1>2. SumFunctionOnSet(f, S \ {a}) = SumFunctionOnSet(g, S \ {a})
  BY <1>1, SumEqual
<1>3. SumFunctionOnSet(f, S \ {a}) \in Int
  BY <1>1, SumInt
<1>4. /\ SumFunctionOnSet(f, S) = f[a] + SumFunctionOnSet(f, S \ {a})
      /\ SumFunctionOnSet(g, S) = g[a] + SumFunctionOnSet(g, S \ {a})
  BY SumRemove
<1> QED BY <1>2, <1>3, <1>4

LEMMA SumDisjoint ==
    ASSUME NEW f, NEW S, IsFiniteSet(S), NEW T, IsFiniteSet(T), S \cap T = {},
           \A x \in S \cup T : f[x] \in Int
    PROVE  SumFunctionOnSet(f, S \cup T) = SumFunctionOnSet(f, S) + SumFunctionOnSet(f, T)
<1> DEFINE P == {U \in SUBSET S : SumFunctionOnSet(f, U \cup T)
                                    = SumFunctionOnSet(f, U) + SumFunctionOnSet(f, T)}
<1>t. SumFunctionOnSet(f, T) \in Int
  BY SumInt
<1>1. {} \in P
  <2>1. {} \cup T = T
    OBVIOUS
  <2>2. SumFunctionOnSet(f, {}) = 0
    BY SumEmpty
  <2>3. SumFunctionOnSet(f, {} \cup T) = SumFunctionOnSet(f, {}) + SumFunctionOnSet(f, T)
    BY <1>t, <2>1, <2>2
  <2> QED BY <2>3
<1>2. ASSUME NEW U \in SUBSET S, \A x \in U : U \ {x} \in P PROVE U \in P
  <2>1. CASE U # {}
    <3> PICK a \in U : TRUE
      BY <2>1
    <3> DEFINE R == U \ {a}
    <3>1. /\ IsFiniteSet(U) /\ IsFiniteSet(R) /\ R \subseteq S /\ IsFiniteSet(U \cup T)
          /\ (U \cup T) \ {a} = R \cup T
      BY FS_Subset, FS_Union
    <3>2. SumFunctionOnSet(f, U) = f[a] + SumFunctionOnSet(f, R)
      BY <3>1, SumRemove
    <3>3. SumFunctionOnSet(f, U \cup T) = f[a] + SumFunctionOnSet(f, R \cup T)
      <4>1. \A x \in U \cup T : f[x] \in Int
        OBVIOUS
      <4> HIDE DEF R
      <4> QED BY <3>1, <4>1, SumRemove
    <3>4. SumFunctionOnSet(f, R \cup T) = SumFunctionOnSet(f, R) + SumFunctionOnSet(f, T)
      BY <1>2
    <3> HIDE DEF R
    <3>5. SumFunctionOnSet(f, R) \in Int /\ f[a] \in Int
      BY <3>1, SumInt
    <3> QED BY <1>t, <3>2, <3>3, <3>4, <3>5
  <2> QED BY <1>1, <2>1
<1> HIDE DEF P
<1>3. S \in P
  BY <1>1, <1>2, SubsetInduction
<1> QED BY <1>3 DEF P

\* The same terms under other names.
LEMMA SumRenamed ==
    ASSUME NEW f, NEW g, NEW S, IsFiniteSet(S), NEW p,
           \A x \in S : g[p[x]] \in Int /\ f[x] = g[p[x]],
           \A x, y \in S : p[x] = p[y] => x = y
    PROVE  SumFunctionOnSet(f, S) = SumFunctionOnSet(g, {p[x] : x \in S})
<1> DEFINE im(U) == {p[x] : x \in U}
           P == {U \in SUBSET S : /\ IsFiniteSet(im(U))
                                  /\ SumFunctionOnSet(f, U) = SumFunctionOnSet(g, im(U))}
<1>1. {} \in P
  <2>1. im({}) = {}
    OBVIOUS
  <2> QED BY <2>1, SumEmpty, FS_EmptySet
<1>2. ASSUME NEW U \in SUBSET S, \A x \in U : U \ {x} \in P PROVE U \in P
  <2>1. CASE U # {}
    <3> PICK a \in U : TRUE
      BY <2>1
    <3> DEFINE R == U \ {a}
    <3>1. IsFiniteSet(U) /\ IsFiniteSet(R) /\ R \subseteq S
      BY FS_Subset
    <3>2. SumFunctionOnSet(f, U) = f[a] + SumFunctionOnSet(f, R)
      BY <3>1, SumRemove
    <3>3. IsFiniteSet(im(R)) /\ SumFunctionOnSet(f, R) = SumFunctionOnSet(g, im(R))
      BY <1>2
    <3>4. im(U) = im(R) \cup {p[a]} /\ im(U) \ {p[a]} = im(R) /\ p[a] \in im(U)
      OBVIOUS
    <3>5. \A y \in im(U) : g[y] \in Int
      OBVIOUS
    <3>6. f[a] = g[p[a]]
      OBVIOUS
    <3> HIDE DEF R, im
    <3>7. IsFiniteSet(im(U))
      <4>1. IsFiniteSet(im(R) \cup {p[a]})
        BY <3>3, FS_AddElement
      <4> QED BY <3>4, <4>1
    <3>8. SumFunctionOnSet(g, im(U)) = g[p[a]] + SumFunctionOnSet(g, im(R))
      BY <3>4, <3>5, <3>7, SumRemove
    <3> QED BY <3>2, <3>3, <3>6, <3>7, <3>8
  <2> QED BY <1>1, <2>1
<1> HIDE DEF P
<1>3. S \in P
  BY <1>1, <1>2, SubsetInduction
<1> QED BY <1>3 DEF P

-----------------------------------------------------------------------------
(***************************************************************************)
(* Sums over the positions of a sequence                                   *)
(***************************************************************************)
LEMMA SumShifted ==
    ASSUME NEW f, NEW g, NEW n \in Nat, NEW d \in Int,
           \A k \in 1..n : g[k + d] \in Int /\ f[k] = g[k + d]
    PROVE  SumFunctionOnSet(f, 1..n) = SumFunctionOnSet(g, (1 + d)..(n + d))
<1> DEFINE S == 1..n
           p == [k \in S |-> k + d]
<1>1. IsFiniteSet(S)
  BY FS_Interval
<1>2. \A k \in S : g[p[k]] \in Int /\ f[k] = g[p[k]]
  OBVIOUS
<1>3. \A j, k \in S : p[j] = p[k] => j = k
  OBVIOUS
<1>4. {p[k] : k \in S} = (1 + d)..(n + d)
  <2>1. ASSUME NEW j \in (1 + d)..(n + d) PROVE j \in {p[k] : k \in S}
    <3>1. j - d \in 1..n /\ p[j - d] = j
      OBVIOUS
    <3> QED BY <3>1
  <2> QED BY <2>1
<1> HIDE DEF p, S
<1>5. SumFunctionOnSet(f, S) = SumFunctionOnSet(g, {p[k] : k \in S})
  BY <1>1, <1>2, <1>3, SumRenamed
<1> QED BY <1>4, <1>5 DEF S

\* One more at the end, or at the front.
LEMMA SumAppend ==
    ASSUME NEW f, NEW g, NEW n \in Nat, \A k \in 1..n : g[k] \in Int /\ f[k] = g[k],
           f[n + 1] \in Int
    PROVE  SumFunctionOnSet(f, 1..(n + 1)) = SumFunctionOnSet(g, 1..n) + f[n + 1]
<1> DEFINE S == 1..(n + 1)
           R == 1..n
<1>1. IsFiniteSet(S) /\ IsFiniteSet(R)
  BY FS_Interval
<1>2. n + 1 \in S /\ S \ {n + 1} = R /\ \A k \in S : f[k] \in Int
  OBVIOUS
<1>3. \A k \in R : g[k] \in Int /\ f[k] = g[k]
  OBVIOUS
<1> HIDE DEF S, R
<1>4. SumFunctionOnSet(f, S) = f[n + 1] + SumFunctionOnSet(f, R)
  BY <1>1, <1>2, SumRemove
<1>5. SumFunctionOnSet(f, R) = SumFunctionOnSet(g, R) /\ SumFunctionOnSet(g, R) \in Int
  BY <1>1, <1>3, SumEqual, SumInt
<1> QED BY <1>4, <1>5 DEF S, R

LEMMA SumCons ==
    ASSUME NEW f, NEW g, NEW n \in Nat, \A k \in 1..n : g[k] \in Int /\ f[k + 1] = g[k],
           f[1] \in Int
    PROVE  SumFunctionOnSet(f, 1..(n + 1)) = f[1] + SumFunctionOnSet(g, 1..n)
<1> DEFINE S == 1..(n + 1)
           R == 2..(n + 1)
<1>1. IsFiniteSet(S)
  BY FS_Interval
<1>2. 1 \in S /\ S \ {1} = R /\ \A k \in S : f[k] \in Int
  <2>1. ASSUME NEW k \in S, k # 1 PROVE f[k] \in Int
    <3>1. k - 1 \in 1..n /\ (k - 1) + 1 = k
      BY <2>1
    <3> QED BY <3>1
  <2> QED BY <2>1
<1>3. SumFunctionOnSet(g, 1..n) = SumFunctionOnSet(f, (1 + 1)..(n + 1))
  BY SumShifted
<1>4. (1 + 1)..(n + 1) = R
  OBVIOUS
<1> HIDE DEF S, R
<1>5. SumFunctionOnSet(f, S) = f[1] + SumFunctionOnSet(f, R)
  BY <1>1, <1>2, SumRemove
<1> QED BY <1>3, <1>4, <1>5 DEF S

LEMMA SumSplit ==
    ASSUME NEW f, NEW n \in Nat, NEW b \in 1..n, \A k \in 1..n : f[k] \in Int
    PROVE  SumFunctionOnSet(f, 1..n) = SumFunctionOnSet(f, 1..(b - 1)) + SumFunctionOnSet(f, b..n)
<1> DEFINE S == 1..(b - 1)
           T == b..n
<1>1. IsFiniteSet(S) /\ IsFiniteSet(T)
  BY FS_Interval
<1>2. S \cap T = {} /\ S \cup T = 1..n
  OBVIOUS
<1>3. \A k \in S \cup T : f[k] \in Int
  BY <1>2
<1> HIDE DEF S, T
<1>4. SumFunctionOnSet(f, S \cup T) = SumFunctionOnSet(f, S) + SumFunctionOnSet(f, T)
  BY <1>1, <1>2, <1>3, SumDisjoint
<1> QED BY <1>2, <1>4 DEF S, T

LEMMA SumConstant ==
    ASSUME NEW f, NEW n \in Nat, NEW c \in Int, \A k \in 1..n : f[k] = c
    PROVE  SumFunctionOnSet(f, 1..n) = n * c
<1> DEFINE P == {m \in Nat : m <= n => SumFunctionOnSet(f, 1..m) = m * c}
<1>1. 0 \in P
  <2>1. 1..0 = {} /\ 0 * c = 0
    OBVIOUS
  <2> QED BY <2>1, SumEmpty
<1>2. ASSUME NEW m \in P PROVE m + 1 \in P
  <2> SUFFICES ASSUME m + 1 <= n PROVE SumFunctionOnSet(f, 1..(m + 1)) = (m + 1) * c
    OBVIOUS
  <2>1. m \in Nat /\ m <= n /\ m + 1 \in 1..n /\ \A k \in 1..m : k \in 1..n
    OBVIOUS
  <2>2. SumFunctionOnSet(f, 1..m) = m * c
    BY <2>1
  <2>3. f[m + 1] = c /\ \A k \in 1..m : f[k] \in Int /\ f[k] = f[k]
    BY <2>1
  <2>4. SumFunctionOnSet(f, 1..(m + 1)) = SumFunctionOnSet(f, 1..m) + f[m + 1]
    BY <2>1, <2>3, SumAppend
  <2>5. (m + 1) * c = m * c + c
    BY <2>1
  <2> QED BY <2>2, <2>3, <2>4, <2>5
<1> HIDE DEF P
<1>3. P = Nat
  BY <1>1, <1>2, UpwardInduction DEF P
<1> QED BY <1>3 DEF P

-----------------------------------------------------------------------------
(***************************************************************************)
(* Products of integers, in the same way                                   *)
(***************************************************************************)
ProductOnSet(f, S) == FoldFunctionOnSet(LAMBDA x, y : x * y, 1, f, S)

Products(g, f, D) == g = [s \in D |-> IF s = {} THEN 1 ELSE f[First(s)] * g[s \ {First(s)}]]

LEMMA ProductByChoice ==
    ASSUME NEW f, NEW S
    PROVE  ProductOnSet(f, S) = (CHOOSE g : Products(g, f, SUBSET S))[S]
BY DEF ProductOnSet, FoldFunctionOnSet, MapThenFoldSet, Products, First

LEMMA ProductsExist ==
    ASSUME NEW f, NEW S, IsFiniteSet(S)
    PROVE  \E g : Products(g, f, SUBSET S)
<1> DEFINE upTo(n) == {s \in SUBSET S : Cardinality(s) <= n}
           done == {n \in Nat : \E g : Products(g, f, upTo(n))}
<1>1. \A T \in SUBSET S : /\ IsFiniteSet(T) /\ Cardinality(T) \in Nat
                          /\ Cardinality(T) <= Cardinality(S)
  BY FS_Subset, FS_CardinalityType
<1>2. 0 \in done
  <2>1. \A s \in upTo(0) : s = {}
    BY <1>1, FS_EmptySet
  <2>2. Products([s \in upTo(0) |-> 1], f, upTo(0))
    BY <2>1 DEF Products
  <2> QED BY <2>2
<1>3. ASSUME NEW n \in done PROVE n + 1 \in done
  <2>1. PICK g : Products(g, f, upTo(n))
    OBVIOUS
  <2> DEFINE D == upTo(n + 1)
             h == [s \in D |-> IF s = {} THEN 1 ELSE f[First(s)] * g[s \ {First(s)}]]
  <2>2. ASSUME NEW s \in D, s # {} PROVE h[s \ {First(s)}] = g[s \ {First(s)}]
    <3> DEFINE r == s \ {First(s)}
    <3>1. First(s) \in s
      BY <2>2 DEF First
    <3>2. Cardinality(r) = Cardinality(s) - 1
      BY <1>1, <3>1, FS_RemoveElement
    <3>3. r \in upTo(n) /\ r \in D
      BY <1>1, <3>2
    <3>4. g[r] = IF r = {} THEN 1 ELSE f[First(r)] * g[r \ {First(r)}]
      <4> HIDE DEF r
      <4> QED BY <2>1, <3>3 DEF Products
    <3> HIDE DEF r
    <3>5. h[r] = g[r]
      BY <3>3, <3>4
    <3> QED BY <3>5 DEF r
  <2>3. Products(h, f, D)
    <3>1. \A s \in D : h[s] = IF s = {} THEN 1 ELSE f[First(s)] * h[s \ {First(s)}]
      BY <2>2
    <3>2. h = [s \in D |-> h[s]]
      OBVIOUS
    <3> HIDE DEF h, D
    <3> QED BY <3>1, <3>2 DEF Products
  <2> HIDE DEF h
  <2>4. \E x : Products(x, f, upTo(n + 1))
    BY <2>3
  <2> HIDE DEF upTo
  <2> QED BY <2>4
<1>4. done = Nat
  <2>1. done \in SUBSET Nat
    OBVIOUS
  <2> HIDE DEF done
  <2> QED BY <1>2, <1>3, <2>1, UpwardInduction
<1>5. upTo(Cardinality(S)) = SUBSET S
  BY <1>1
<1>6. Cardinality(S) \in done
  BY <1>1, <1>4
<1>7. \E g : Products(g, f, upTo(Cardinality(S)))
  BY <1>6
<1> QED BY <1>5, <1>7

LEMMA ProductsUnique ==
    ASSUME NEW f, NEW S, IsFiniteSet(S), NEW D, NEW E, SUBSET S \subseteq D, SUBSET S \subseteq E,
           NEW g, Products(g, f, D), NEW h, Products(h, f, E)
    PROVE  g[S] = h[S]
<1> DEFINE same == {T \in SUBSET S : g[T] = h[T]}
<1>1. {} \in same
  BY DEF Products
<1>2. ASSUME NEW T \in SUBSET S, \A x \in T : T \ {x} \in same PROVE T \in same
  <2>1. CASE T # {}
    <3>1. First(T) \in T
      BY <2>1 DEF First
    <3>2. g[T \ {First(T)}] = h[T \ {First(T)}]
      BY <1>2, <3>1
    <3>3. T \in D /\ T \in E
      OBVIOUS
    <3>4. g[T] = f[First(T)] * g[T \ {First(T)}] /\ h[T] = f[First(T)] * h[T \ {First(T)}]
      BY <2>1, <3>3 DEF Products
    <3> QED BY <3>2, <3>4
  <2> QED BY <1>1, <2>1
<1> HIDE DEF same
<1>3. S \in same
  BY <1>1, <1>2, SubsetInduction
<1> QED BY <1>3 DEF same

LEMMA ProductEmpty == \A f : ProductOnSet(f, {}) = 1
<1> TAKE f
<1>1. PICK g : Products(g, f, SUBSET {})
  BY ProductsExist, FS_EmptySet
<1>2. Products(CHOOSE x : Products(x, f, SUBSET {}), f, SUBSET {})
  BY <1>1
<1> QED BY <1>2, ProductByChoice DEF Products

LEMMA ProductFirst ==
    ASSUME NEW f, NEW S, IsFiniteSet(S), S # {}
    PROVE  ProductOnSet(f, S) = f[First(S)] * ProductOnSet(f, S \ {First(S)})
<1> DEFINE T == S \ {First(S)}
           g == CHOOSE x : Products(x, f, SUBSET S)
           h == CHOOSE x : Products(x, f, SUBSET T)
<1>1. IsFiniteSet(T) /\ SUBSET T \subseteq SUBSET S /\ S \in SUBSET S
  BY FS_Subset
<1>2. Products(g, f, SUBSET S) /\ Products(h, f, SUBSET T)
  BY <1>1, ProductsExist
<1>3. ProductOnSet(f, S) = g[S] /\ ProductOnSet(f, T) = h[T]
  BY ProductByChoice
<1> HIDE DEF g, h
<1>4. g[S] = f[First(S)] * g[T]
  BY <1>1, <1>2 DEF Products
<1> HIDE DEF T
<1>5. g[T] = h[T]
  BY <1>1, <1>2, ProductsUnique
<1> QED BY <1>3, <1>4, <1>5 DEF T

LEMMA ProductInt ==
    ASSUME NEW f, NEW S, IsFiniteSet(S), \A x \in S : f[x] \in Int
    PROVE  ProductOnSet(f, S) \in Int
<1> DEFINE P == {T \in SUBSET S : ProductOnSet(f, T) \in Int}
<1>1. {} \in P
  BY ProductEmpty
<1>2. ASSUME NEW T \in SUBSET S, \A x \in T : T \ {x} \in P PROVE T \in P
  <2>1. CASE T # {}
    <3>1. First(T) \in T
      BY <2>1 DEF First
    <3>2. f[First(T)] \in Int /\ ProductOnSet(f, T \ {First(T)}) \in Int
      BY <1>2, <3>1
    <3>3. ProductOnSet(f, T) = f[First(T)] * ProductOnSet(f, T \ {First(T)})
      BY <2>1, ProductFirst, FS_Subset
    <3> QED BY <3>2, <3>3
  <2> QED BY <1>1, <2>1
<1> HIDE DEF P
<1>3. S \in P
  BY <1>1, <1>2, SubsetInduction
<1> QED BY <1>3 DEF P

\* Any element may be taken first.
LEMMA ProductRemove ==
    ASSUME NEW f, NEW S, IsFiniteSet(S), \A x \in S : f[x] \in Int, NEW a \in S
    PROVE  ProductOnSet(f, S) = f[a] * ProductOnSet(f, S \ {a})
<1> DEFINE P == {T \in SUBSET S : \A x \in T :
                    ProductOnSet(f, T) = f[x] * ProductOnSet(f, T \ {x})}
<1>1. {} \in P
  OBVIOUS
<1>2. ASSUME NEW T \in SUBSET S, \A x \in T : T \ {x} \in P PROVE T \in P
  <2> SUFFICES ASSUME NEW x \in T
               PROVE  ProductOnSet(f, T) = f[x] * ProductOnSet(f, T \ {x})
    OBVIOUS
  <2> DEFINE p == First(T)
  <2>1. p \in T
    BY DEF First
  <2>2. ProductOnSet(f, T) = f[p] * ProductOnSet(f, T \ {p})
    BY ProductFirst, FS_Subset
  <2> HIDE DEF p
  <2>3. CASE x # p
    <3>1. (T \ {p}) \ {x} = (T \ {x}) \ {p}
      OBVIOUS
    <3>2. ProductOnSet(f, T \ {p}) = f[x] * ProductOnSet(f, (T \ {p}) \ {x})
      BY <1>2, <2>1, <2>3
    <3>3. ProductOnSet(f, T \ {x}) = f[p] * ProductOnSet(f, (T \ {x}) \ {p})
      BY <1>2, <2>1, <2>3
    <3>4. ProductOnSet(f, (T \ {x}) \ {p}) \in Int
      <4>1. IsFiniteSet((T \ {x}) \ {p})
        BY FS_Subset
      <4> QED BY <4>1, ProductInt
    <3>5. f[x] \in Int /\ f[p] \in Int
      BY <2>1
    <3> DEFINE rest == ProductOnSet(f, (T \ {x}) \ {p})
    <3>6. /\ ProductOnSet(f, T) = f[p] * (f[x] * rest)
          /\ ProductOnSet(f, T \ {x}) = f[p] * rest
          /\ rest \in Int
      BY <2>2, <3>1, <3>2, <3>3, <3>4
    <3> HIDE DEF rest
    <3> QED BY <3>5, <3>6
  <2> QED BY <2>2, <2>3
<1> HIDE DEF P
<1>3. S \in P
  BY <1>1, <1>2, SubsetInduction
<1> QED BY <1>3 DEF P

LEMMA ProductMonotone ==
    ASSUME NEW f, NEW g, NEW S, IsFiniteSet(S),
           \A x \in S : f[x] \in Nat /\ g[x] \in Nat /\ f[x] <= g[x]
    PROVE  /\ ProductOnSet(f, S) \in Nat /\ ProductOnSet(g, S) \in Nat
           /\ ProductOnSet(f, S) <= ProductOnSet(g, S)
<1> DEFINE P == {T \in SUBSET S : /\ ProductOnSet(f, T) \in Nat /\ ProductOnSet(g, T) \in Nat
                                  /\ ProductOnSet(f, T) <= ProductOnSet(g, T)}
<1>1. {} \in P
  BY ProductEmpty
<1>2. ASSUME NEW T \in SUBSET S, \A x \in T : T \ {x} \in P PROVE T \in P
  <2>1. CASE T # {}
    <3> DEFINE a == First(T)
               p == ProductOnSet(f, T \ {a})
               q == ProductOnSet(g, T \ {a})
    <3>1. a \in T
      BY <2>1 DEF First
    <3>2. /\ f[a] \in Nat /\ g[a] \in Nat /\ f[a] <= g[a]
          /\ p \in Nat /\ q \in Nat /\ p <= q
      BY <1>2, <3>1
    <3>3. ProductOnSet(f, T) = f[a] * p /\ ProductOnSet(g, T) = g[a] * q
      BY <2>1, ProductFirst, FS_Subset
    <3> DEFINE u == f[a]
               v == g[a]
    <3> HIDE DEF a, p, q, u, v
    <3>4. u * p \in Nat /\ v * q \in Nat /\ u * p <= v * q
      <4>1. u \in Nat /\ v \in Nat /\ u <= v /\ p \in Nat /\ q \in Nat /\ p <= q
        BY <3>2 DEF u, v
      <4>2. u * p <= u * q
        BY <4>1
      <4>3. u * q <= v * q
        BY <4>1
      <4>4. u * p \in Nat /\ u * q \in Nat /\ v * q \in Nat
        BY <4>1
      <4> QED BY <4>2, <4>3, <4>4
    <3> QED BY <3>3, <3>4 DEF u, v
  <2> QED BY <1>1, <2>1
<1> HIDE DEF P
<1>3. S \in P
  BY <1>1, <1>2, SubsetInduction
<1> QED BY <1>3 DEF P

-----------------------------------------------------------------------------
(***************************************************************************)
(* Counting                                                                *)
(***************************************************************************)
LEMMA SumOfEquals ==
    ASSUME NEW f, NEW S, IsFiniteSet(S), NEW c \in Int, \A x \in S : f[x] = c
    PROVE  SumFunctionOnSet(f, S) = Cardinality(S) * c
<1> DEFINE P == {T \in SUBSET S : SumFunctionOnSet(f, T) = Cardinality(T) * c}
<1>1. {} \in P
  BY SumEmpty, FS_EmptySet
<1>2. ASSUME NEW T \in SUBSET S, \A x \in T : T \ {x} \in P PROVE T \in P
  <2>1. CASE T # {}
    <3> DEFINE a == First(T)
               n == Cardinality(T)
    <3>1. a \in T
      BY <2>1 DEF First
    <3>2. IsFiniteSet(T) /\ n \in Nat /\ Cardinality(T \ {a}) = n - 1
      BY <3>1, FS_Subset, FS_CardinalityType, FS_RemoveElement
    <3>3. SumFunctionOnSet(f, T) = f[a] + SumFunctionOnSet(f, T \ {a})
      BY <2>1, <3>2, SumFirst
    <3>4. SumFunctionOnSet(f, T \ {a}) = (n - 1) * c /\ f[a] = c
      BY <1>2, <3>1, <3>2
    <3> HIDE DEF n, a
    <3>5. c + (n - 1) * c = n * c
      BY <3>2
    <3> QED BY <3>3, <3>4, <3>5 DEF n
  <2> QED BY <1>1, <2>1
<1> HIDE DEF P
<1>3. S \in P
  BY <1>1, <1>2, SubsetInduction
<1> QED BY <1>3 DEF P

\* A sum over a part of a set is one over the set, with zeros.
LEMMA SumPart ==
    ASSUME NEW f, NEW g, NEW S, IsFiniteSet(S), NEW T \in SUBSET S,
           \A x \in T : f[x] \in Int, \A x \in S : g[x] = IF x \in T THEN f[x] ELSE 0
    PROVE  SumFunctionOnSet(g, S) = SumFunctionOnSet(f, T)
<1> DEFINE U == S \ T
<1>1. IsFiniteSet(T) /\ IsFiniteSet(U) /\ S = T \cup U /\ T \cap U = {}
  BY FS_Subset
<1>2. \A x \in T \cup U : g[x] \in Int
  OBVIOUS
<1>3. \A x \in U : g[x] = 0
  OBVIOUS
<1>4. \A x \in T : g[x] = f[x]
  OBVIOUS
<1> HIDE DEF U
<1>5. SumFunctionOnSet(g, S) = SumFunctionOnSet(g, T) + SumFunctionOnSet(g, U)
  BY <1>1, <1>2, SumDisjoint
<1>6. SumFunctionOnSet(g, U) = 0
  BY <1>1, <1>3, SumZeros
<1>7. SumFunctionOnSet(g, T) = SumFunctionOnSet(f, T)
  BY <1>1, <1>4, SumEqual
<1>8. SumFunctionOnSet(f, T) \in Int
  BY <1>1, SumInt
<1> QED BY <1>5, <1>6, <1>7, <1>8

LEMMA SumCounts ==
    ASSUME NEW g, NEW S, IsFiniteSet(S), NEW T \in SUBSET S,
           \A x \in S : g[x] = IF x \in T THEN 1 ELSE 0
    PROVE  SumFunctionOnSet(g, S) = Cardinality(T)
<1> DEFINE f == [x \in T |-> 1]
<1>1. IsFiniteSet(T) /\ Cardinality(T) \in Nat
  BY FS_Subset, FS_CardinalityType
<1>2. \A x \in T : f[x] \in Int /\ f[x] = 1
  OBVIOUS
<1>3. \A x \in S : g[x] = IF x \in T THEN f[x] ELSE 0
  OBVIOUS
<1> HIDE DEF f
<1>4. SumFunctionOnSet(g, S) = SumFunctionOnSet(f, T)
  BY <1>2, <1>3, SumPart
<1>5. SumFunctionOnSet(f, T) = Cardinality(T) * 1
  BY <1>1, <1>2, SumOfEquals
<1> QED BY <1>1, <1>4, <1>5

\* The sums over the rows of a table add up to those over its columns.
LEMMA SumSwap ==
    ASSUME NEW f, NEW S, IsFiniteSet(S), NEW T, IsFiniteSet(T),
           \A x \in S, y \in T : f[x][y] \in Int
    PROVE  SumFunctionOnSet([x \in S |-> SumFunctionOnSet(f[x], T)], S)
             = SumFunctionOnSet([y \in T |-> SumFunctionOnSet([x \in S |-> f[x][y]], S)], T)
<1> DEFINE row == [x \in S |-> SumFunctionOnSet(f[x], T)]
           col(y) == [x \in S |-> f[x][y]]
           cols(U) == [y \in T |-> SumFunctionOnSet(col(y), U)]
           P == {U \in SUBSET S : SumFunctionOnSet(row, U) = SumFunctionOnSet(cols(U), T)}
<1>1. \A x \in S : row[x] \in Int
  BY SumInt
<1>2. \A y \in T : \A x \in S : col(y)[x] = f[x][y] /\ col(y)[x] \in Int
  OBVIOUS
<1>3. \A U \in SUBSET S : IsFiniteSet(U)
  BY FS_Subset
<1>4. ASSUME NEW U \in SUBSET S
      PROVE  \A y \in T : cols(U)[y] = SumFunctionOnSet(col(y), U) /\ cols(U)[y] \in Int
  <2> SUFFICES ASSUME NEW y \in T PROVE SumFunctionOnSet(col(y), U) \in Int
    OBVIOUS
  <2> DEFINE c == col(y)
  <2>1. \A x \in U : c[x] \in Int
    BY <1>2
  <2> HIDE DEF c
  <2>2. SumFunctionOnSet(c, U) \in Int
    BY <1>3, <2>1, SumInt
  <2> QED BY <2>2 DEF c
<1>5. {} \in P
  <2>1. \A y \in T : cols({})[y] = 0
    BY SumEmpty
  <2> DEFINE c == cols({})
  <2>2. \A y \in T : c[y] = 0
    BY <2>1
  <2> HIDE DEF c
  <2>3. SumFunctionOnSet(c, T) = 0
    BY <2>2, SumZeros
  <2> QED BY <2>3, SumEmpty DEF c
<1>6. ASSUME NEW U \in SUBSET S, \A x \in U : U \ {x} \in P PROVE U \in P
  <2>1. CASE U # {}
    <3> DEFINE a == First(U)
               V == U \ {a}
               c == cols(U)
               d == cols(V)
               fa == f[a]
    <3>1. a \in U /\ V \in SUBSET S
      BY <2>1 DEF First
    <3>2. SumFunctionOnSet(row, U) = row[a] + SumFunctionOnSet(row, V) /\ row[a] = SumFunctionOnSet(fa, T)
      BY <1>3, <2>1, <3>1, SumFirst
    <3>3. SumFunctionOnSet(row, V) = SumFunctionOnSet(d, T)
      BY <1>6, <3>1
    <3>4. \A y \in T : fa[y] \in Int /\ d[y] \in Int /\ c[y] = fa[y] + d[y]
      <4> SUFFICES ASSUME NEW y \in T PROVE fa[y] \in Int /\ d[y] \in Int /\ c[y] = fa[y] + d[y]
        OBVIOUS
      <4> DEFINE g == col(y)
      <4>1. d[y] \in Int /\ d[y] = SumFunctionOnSet(g, V)
        BY <1>4, <3>1
      <4>2. c[y] = SumFunctionOnSet(g, U) /\ fa[y] = g[a] /\ fa[y] \in Int
        BY <1>4, <3>1
      <4> HIDE DEF g, c, d, fa
      <4>3. SumFunctionOnSet(g, U) = g[a] + SumFunctionOnSet(g, V)
        BY <1>3, <2>1, SumFirst
      <4> QED BY <4>1, <4>2, <4>3
    <3> HIDE DEF c, d, fa
    <3>5. SumFunctionOnSet(c, T) = SumFunctionOnSet(fa, T) + SumFunctionOnSet(d, T)
      BY <3>4, SumPlus
    <3>6. SumFunctionOnSet(row, U) = SumFunctionOnSet(c, T)
      BY <3>2, <3>3, <3>5
    <3> QED BY <3>6 DEF c
  <2> QED BY <1>5, <2>1
<1>7. S \in P
  <2> HIDE DEF P
  <2> QED BY <1>5, <1>6, SubsetInduction
<1> QED BY <1>7

LEMMA GreatestMember ==
    ASSUME NEW S, IsFiniteSet(S), S # {}, S \subseteq Int
    PROVE  Max(S) \in S /\ \A y \in S : y <= Max(S)
<1> DEFINE Greatest(T) == \E m \in T : \A y \in T : y <= m
           P == {T \in SUBSET S : T # {} => Greatest(T)}
<1>1. {} \in P
  OBVIOUS
<1>2. ASSUME NEW T \in SUBSET S, \A x \in T : T \ {x} \in P PROVE T \in P
  <2>1. ASSUME NEW x \in T PROVE Greatest(T)
    <3>1. CASE T \ {x} = {}
      <4>1. \A y \in T : y <= x
        BY <3>1
      <4> QED BY <4>1
    <3>2. CASE T \ {x} # {}
      <4>1. PICK m \in T \ {x} : \A y \in T \ {x} : y <= m
        BY <1>2, <3>2
      <4>2. m \in Int /\ x \in Int
        OBVIOUS
      <4>3. CASE m <= x
        <5>1. \A y \in T : y <= x
          BY <4>1, <4>2, <4>3
        <5> QED BY <5>1
      <4>4. CASE x <= m
        <5>1. \A y \in T : y <= m
          BY <4>1, <4>4
        <5> QED BY <5>1
      <4> QED BY <4>2, <4>3, <4>4
    <3> QED BY <3>1, <3>2
  <2> QED BY <2>1
<1>3. S \in P
  <2> HIDE DEF P
  <2> QED BY <1>1, <1>2, SubsetInduction
<1>4. \E m \in S : \A y \in S : m >= y
  BY <1>3
<1>5. Max(S) \in S /\ \A y \in S : Max(S) >= y
  BY <1>4 DEF Max
<1> QED BY <1>5

LEMMA FunctionsFinite ==
    ASSUME NEW S, IsFiniteSet(S), NEW T, IsFiniteSet(T)
    PROVE  IsFiniteSet([S -> T])
<1> DEFINE graphs == SUBSET (S \X T)
           graph == [f \in [S -> T] |-> {<<x, f[x]>> : x \in S}]
<1>1. IsFiniteSet(graphs)
  BY FS_Product, FS_SUBSET
<1>2. graph \in [[S -> T] -> graphs]
  OBVIOUS
<1>3. ASSUME NEW f \in [S -> T], NEW g \in [S -> T], graph[f] = graph[g] PROVE f = g
  <2>1. ASSUME NEW x \in S PROVE f[x] = g[x]
    <3>1. <<x, f[x]>> \in graph[f]
      OBVIOUS
    <3>2. <<x, f[x]>> \in {<<y, g[y]>> : y \in S}
      BY <1>3, <3>1
    <3> QED BY <3>2
  <2> QED BY <2>1
<1> HIDE DEF graph, graphs
<1>4. graph \in Injection([S -> T], graphs)
  BY <1>2, <1>3 DEF Injection, IsInjective
<1> QED BY <1>1, <1>4, FS_Injection

-----------------------------------------------------------------------------
(***************************************************************************)
(* Quotients and remainders                                                *)
(***************************************************************************)
\* What the two operators mean, and that nothing else does.
LEMMA DivMod ==
    ASSUME NEW a \in Int, NEW b \in Nat \ {0}
    PROVE  a \div b \in Int /\ a % b \in 0..(b - 1) /\ a = b * (a \div b) + (a % b)
OBVIOUS

LEMMA RemainderUnique ==
    ASSUME NEW b \in Nat \ {0}, NEW q \in Int, NEW r \in 0..(b - 1),
           NEW p \in Int, NEW s \in 0..(b - 1), b * q + r = b * p + s
    PROVE  q = p /\ r = s
<1>1. CASE q >= p + 1
  <2>1. b * q >= b * (p + 1)
    BY <1>1
  <2>2. b * (p + 1) = b * p + b
    OBVIOUS
  <2> QED BY <2>1, <2>2
<1>2. CASE p >= q + 1
  <2>1. b * p >= b * (q + 1)
    BY <1>2
  <2>2. b * (q + 1) = b * q + b
    OBVIOUS
  <2> QED BY <2>1, <2>2
<1>3. CASE p = q
  BY <1>3
<1> QED BY <1>1, <1>2, <1>3

LEMMA NextRemainder ==
    ASSUME NEW a \in Int, NEW b \in Nat \ {0}
    PROVE  (a + 1) % b = IF a % b = b - 1 THEN 0 ELSE (a % b) + 1
<1> DEFINE q == a \div b  r == a % b  p == (a + 1) \div b  s == (a + 1) % b
<1>1. q \in Int /\ r \in 0..(b - 1) /\ a = b * q + r
  BY DivMod
<1>2. p \in Int /\ s \in 0..(b - 1) /\ a + 1 = b * p + s
  BY DivMod
<1> HIDE DEF q, r, p, s
<1>3. CASE r = b - 1
  <2>1. b * (q + 1) + 0 = b * p + s
    <3>1. b * (q + 1) = b * q + b
      BY <1>1
    <3>2. b * q \in Int /\ b * p \in Int
      BY <1>1, <1>2
    <3> QED BY <1>1, <1>2, <1>3, <3>1, <3>2
  <2>2. q + 1 \in Int /\ 0 \in 0..(b - 1)
    BY <1>1
  <2>3. s = 0
    BY <1>2, <2>1, <2>2, RemainderUnique
  <2> QED BY <1>3, <2>3 DEF r, s
<1>4. CASE r # b - 1
  <2>1. r + 1 \in 0..(b - 1)
    BY <1>1, <1>4
  <2>2. b * q + (r + 1) = b * p + s
    <3>1. b * q \in Int /\ b * p \in Int
      BY <1>1, <1>2
    <3> QED BY <1>1, <1>2, <3>1
  <2>3. s = r + 1
    BY <1>1, <1>2, <2>1, <2>2, RemainderUnique
  <2> QED BY <1>4, <2>3 DEF r, s
<1> QED BY <1>3, <1>4

LEMMA RemainderFixed ==
    ASSUME NEW b \in Nat \ {0}, NEW r \in 0..(b - 1)
    PROVE  r % b = r
<1> DEFINE q == r \div b  s == r % b
<1>1. q \in Int /\ s \in 0..(b - 1) /\ r = b * q + s
  BY DivMod
<1> HIDE DEF q, s
<1>2. b * 0 + r = b * q + s
  BY <1>1
<1>3. s = r
  BY <1>1, <1>2, RemainderUnique
<1> QED BY <1>3 DEF s

LEMMA RemainderShifted ==
    ASSUME NEW a \in Int, NEW c \in Int, NEW b \in Nat \ {0}
    PROVE  ((a % b) + c) % b = (a + c) % b
<1> DEFINE q == a \div b  r == a % b  p == (a + c) \div b  s == (a + c) % b
           v == (r + c) \div b  u == (r + c) % b
<1>1. q \in Int /\ r \in 0..(b - 1) /\ a = b * q + r
  BY DivMod
<1>2. p \in Int /\ s \in 0..(b - 1) /\ a + c = b * p + s
  BY DivMod
<1>3. v \in Int /\ u \in 0..(b - 1) /\ r + c = b * v + u
  <2>1. r + c \in Int
    BY <1>1
  <2> HIDE DEF r
  <2> QED BY <2>1, DivMod
<1> HIDE DEF q, r, p, s, v, u
<1>4. b * (p - q) + s = b * v + u
  <2>1. b * (p - q) = b * p - b * q
    BY <1>1, <1>2
  <2>2. b * q \in Int /\ b * p \in Int /\ b * v \in Int
    BY <1>1, <1>2, <1>3
  <2> QED BY <1>1, <1>2, <1>3, <2>1, <2>2
<1>5. s = u
  <2> DEFINE w == p - q
  <2>1. w \in Int /\ b * w + s = b * v + u
    BY <1>1, <1>2, <1>4
  <2> HIDE DEF w
  <2> QED BY <1>2, <1>3, <2>1, RemainderUnique
<1> QED BY <1>5 DEF s, u, r

LEMMA UpRounded ==
    ASSUME NEW a \in Nat, NEW b \in Nat \ {0}
    PROVE  (a + b - 1) \div b > 0 <=> a > 0
<1> DEFINE c == a + b - 1  q == c \div b  r == c % b
<1>1. c \in Int /\ c = a + b - 1
  OBVIOUS
<1> HIDE DEF c
<1>4. q \in Int /\ r \in 0..(b - 1) /\ c = b * q + r
  BY <1>1, DivMod
<1> HIDE DEF q, r
<1>2. ASSUME a > 0 PROVE q > 0
  <2>1. CASE q <= 0
    <3>1. b * q <= 0
      BY <1>4, <2>1
    <3>2. b * q \in Int
      BY <1>4
    <3> QED BY <1>1, <1>2, <1>4, <3>1, <3>2
  <2> QED BY <1>4, <2>1
<1>3. ASSUME q > 0 PROVE a > 0
  <2>1. b * q >= b
    BY <1>3, <1>4
  <2>2. b * q \in Int
    BY <1>4
  <2> QED BY <1>1, <1>4, <2>1, <2>2
<1> QED BY <1>2, <1>3 DEF q, c

LEMMA QuotientMonotone ==
    ASSUME NEW a \in Int, NEW c \in Int, NEW b \in Nat \ {0}, a <= c
    PROVE  a \div b <= c \div b
<1> DEFINE q == a \div b  r == a % b  p == c \div b  s == c % b
<1>1. q \in Int /\ r \in 0..(b - 1) /\ a = b * q + r
  BY DivMod
<1>2. p \in Int /\ s \in 0..(b - 1) /\ c = b * p + s
  BY DivMod
<1> HIDE DEF q, r, p, s
<1>3. CASE q >= p + 1
  <2>1. b * q >= b * (p + 1)
    BY <1>1, <1>2, <1>3
  <2>2. b * (p + 1) = b * p + b
    BY <1>2
  <2>3. b * q \in Int /\ b * p \in Int
    BY <1>1, <1>2
  <2> QED BY <1>1, <1>2, <2>1, <2>2, <2>3
<1>4. q <= p
  BY <1>1, <1>2, <1>3
<1> QED BY <1>4 DEF q, p
===============================================================================
