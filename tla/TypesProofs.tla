---------------------------- MODULE TypesProofs ----------------------------
(***************************************************************************)
(* What holds of casts and overloads for all types, whatever their widths: *)
(* that the two places which decide what may be cast agree, what the       *)
(* choice among overloads chooses, and which casts keep every value.       *)
(***************************************************************************)
EXTENDS Types, Iteration

\* A scalar type has no parts; every type is a sequence of names.
IsType(t) == t \in Seq(STRING) /\ (IsFloating(CanonicalType(t)) => Len(CanonicalType(t)) = 1)

LEMMA FloatingTypes ==
    ASSUME NEW t, t \in Seq(STRING), IsFloating(t), Len(t) = 1
    PROVE  t = <<"f32">> \/ t = <<"f64">>
<1>1. t = <<t[1]>> /\ t # <<>> /\ Head(t) = t[1]
  OBVIOUS
<1>2. t[1] \in {"f32", "f64"}
  BY <1>1 DEF IsFloating, Outermost, None
<1> QED
  BY <1>1, <1>2

LEMMA CanonicalIsASequence ==
    ASSUME NEW t \in Seq(STRING) PROVE CanonicalType(t) \in Seq(STRING)
<1>1. CASE t = <<>>
  BY <1>1 DEF CanonicalType, Outermost, None
<1>2. CASE t # <<>>
  <2>1. Tail(t) \in Seq(STRING)
    BY <1>2
  <2> QED
    BY <2>1 DEF CanonicalType
<1> QED
  BY <1>1, <1>2

\* The kinds of types exclude each other.
LEMMA Kinds ==
    ASSUME NEW t
    PROVE  /\ IsInteger(t) => ~IsFloating(t) /\ ~IsTrait(t)
           /\ IsFloating(t) => ~IsTrait(t)
           /\ (IsInteger(t) \/ IsFloating(t) \/ IsTrait(t)) => t # None
BY WidthAssumption DEF IsInteger, IsFloating, IsTrait, Outermost, Unsigned

\* The check of an argument and the check when a call is resolved, written
\* apart from each other, allow the same casts.
THEOREM CastsAgree ==
    ASSUME NEW from, NEW to, NEW implemented, IsType(from), IsType(to)
    PROVE  canImplicitCast(from, to, implemented)
             <=> checkCastCost(from, to, implemented) # Incompatible
<1> DEFINE src == CanonicalType(from)
           dst == CanonicalType(to)
<1>1. /\ IsFloating(src) => src = <<"f32">> \/ src = <<"f64">>
      /\ IsFloating(dst) => dst = <<"f32">> \/ dst = <<"f64">>
  BY FloatingTypes, CanonicalIsASequence DEF IsType
<1>2. Exact # Incompatible /\ TraitMatch # Incompatible /\ SafeImplicit # Incompatible
  BY DEF Exact, TraitMatch, SafeImplicit, Incompatible
<1>3. <<"f32">> # <<"f64">>
  OBVIOUS
<1>c. canImplicitCast(from, to, implemented)
        <=> /\ src # None /\ dst # None
            /\ \/ SameType(src, dst)
               \/ IsInteger(src) /\ IsInteger(dst) /\ Widens(src, dst)
               \/ IsFloating(src) /\ IsFloating(dst) /\ (dst = <<"f64">> \/ src = dst)
               \/ IsInteger(src) /\ IsFloating(dst)
               \/ IsTrait(dst) /\ <<src, dst>> \in implemented
  BY DEF canImplicitCast
<1>k. checkCastCost(from, to, implemented) =
        IF src = None \/ dst = None THEN Incompatible
        ELSE IF SameType(src, dst) THEN Exact
        ELSE CASE IsInteger(src) /\ IsInteger(dst) -> checkCastCostIntegers(src, dst)
               [] IsInteger(src) /\ IsFloating(dst) -> SafeImplicit
               [] IsFloating(src) /\ IsFloating(dst) -> checkCastCostFloatings(src, dst)
               [] IsTrait(dst) -> IF <<src, dst>> \in implemented THEN TraitMatch
                                  ELSE Incompatible
               [] OTHER -> Incompatible
  BY DEF checkCastCost
<1> HIDE DEF src, dst
<1>4. CASE src = None \/ dst = None
  BY <1>4, <1>c, <1>k
<1>5. CASE src # None /\ dst # None /\ SameType(src, dst)
  BY <1>2, <1>5, <1>c, <1>k
<1>6. CASE src # None /\ dst # None /\ ~SameType(src, dst)
  <2>1. CASE IsInteger(src) /\ IsInteger(dst)
    BY <1>2, <1>6, <1>c, <1>k, <2>1, Kinds DEF checkCastCostIntegers
  <2>2. CASE IsInteger(src) /\ IsFloating(dst)
    BY <1>2, <1>6, <1>c, <1>k, <2>2, Kinds
  <2>3. CASE IsFloating(src) /\ IsFloating(dst)
    <3>1. checkCastCost(from, to, implemented) = checkCastCostFloatings(src, dst)
      BY <1>6, <1>k, <2>3, Kinds
    <3>2. canImplicitCast(from, to, implemented) <=> dst = <<"f64">> \/ src = dst
      BY <1>6, <1>c, <2>3, Kinds
    <3> QED
      BY <1>1, <1>2, <1>3, <2>3, <3>1, <3>2 DEF checkCastCostFloatings
  <2>4. CASE IsTrait(dst)
    BY <1>2, <1>6, <1>c, <1>k, <2>4, Kinds
  <2>5. CASE ~IsTrait(dst) /\ ~(IsInteger(src) /\ IsInteger(dst))
             /\ ~(IsInteger(src) /\ IsFloating(dst)) /\ ~(IsFloating(src) /\ IsFloating(dst))
    BY <1>6, <1>c, <1>k, <2>5
  <2> QED
    BY <2>1, <2>2, <2>3, <2>4, <2>5
<1> QED
  BY <1>4, <1>5, <1>6

----------------------------------------------------------------------------
(* The choice among overloads.                                             *)

TypeLists == Seq({t \in Seq(STRING) : IsType(t)})

\* The candidates that take these arguments, each cast where it has to be.
Fitting(paramLists, argTypes, implemented) ==
    {c \in 1..Len(paramLists) :
        /\ Len(paramLists[c]) = Len(argTypes)
        /\ \A i \in 1..Len(argTypes) :
                canImplicitCast(argTypes[i], paramLists[c][i], implemented)}

LEMMA ViableFits ==
    ASSUME NEW params \in TypeLists, NEW argTypes \in TypeLists, NEW implemented
    PROVE  viableFuncCandidate(params, argTypes, implemented)
             <=> /\ Len(params) = Len(argTypes)
                 /\ \A i \in 1..Len(argTypes) :
                        canImplicitCast(argTypes[i], params[i], implemented)
<1> SUFFICES ASSUME Len(params) = Len(argTypes), NEW i \in 1..Len(argTypes)
             PROVE  canImplicitCast(argTypes[i], params[i], implemented)
                      <=> checkCastCost(argTypes[i], params[i], implemented) # Incompatible
  BY DEF viableFuncCandidate
<1>1. IsType(argTypes[i]) /\ IsType(params[i])
  BY DEF TypeLists
<1> QED
  BY <1>1, CastsAgree

LEMMA CostType ==
    ASSUME NEW from, NEW to, NEW implemented
    PROVE  checkCastCost(from, to, implemented) \in Nat
BY DEF checkCastCost, checkCastCostIntegers, checkCastCostFloatings,
       Exact, TraitMatch, SafeImplicit, Incompatible

LEMMA CostSumType ==
    ASSUME NEW params, NEW argTypes \in TypeLists, NEW implemented
    PROVE  costSum(params, argTypes, implemented) \in Nat
<1> DEFINE N == Len(argTypes)
           cost(n) == checkCastCost(argTypes[n], params[n], implemented)
           c == [n \in 1..N |-> cost(n)]
           W(w) == [n \in 0..N |-> IF n = 0 THEN 0 ELSE w[n - 1] + cost(n)]
           w == CHOOSE w : w = W(w)
<1>1. N \in Nat
  BY DEF TypeLists
<1>2. c \in [1..N -> Nat] /\ \A n \in 1..N : c[n] = cost(n)
  BY CostType
<1>3. costSum(params, argTypes, implemented) = w[N]
  BY DEF costSum
<1> HIDE DEF N, c, cost
<1>4. w = W(w)
  <2>1. PICK s : Sums(s, c, N)
    BY <1>1, <1>2, SumsExist
  <2>2. s \in [0..N -> Nat] /\ s[0] = 0 /\ \A n \in 1..N : s[n] = s[n - 1] + c[n]
    BY <2>1 DEF Sums
  <2>3. \A n \in 0..N : s[n] = IF n = 0 THEN 0 ELSE s[n - 1] + cost(n)
    <3> TAKE n \in 0..N
    <3>1. CASE n = 0
      BY <2>2, <3>1
    <3>2. CASE n # 0
      <4>1. n \in 1..N
        BY <1>1, <3>2
      <4> QED
        BY <1>2, <2>2, <3>2, <4>1
    <3> QED
      BY <3>1, <3>2
  <2>4. s = W(s)
    BY <2>2, <2>3
  <2> QED
    BY <2>4
<1> HIDE DEF w
<1>5. \A n \in 0..N : w[n] = IF n = 0 THEN 0 ELSE w[n - 1] + cost(n)
  BY <1>4
<1> HIDE DEF W
<1> DEFINE S == {m \in Nat : m <= N => w[m] \in Nat}
<1>6. 0 \in S
  BY <1>1, <1>5
<1>7. ASSUME NEW m \in Nat, m \in S PROVE m + 1 \in S
  <2> SUFFICES ASSUME m + 1 <= N PROVE w[m + 1] \in Nat
    OBVIOUS
  <2>1. m + 1 \in 0..N /\ m + 1 \in 1..N /\ m + 1 # 0 /\ (m + 1) - 1 = m /\ m <= N
    BY <1>1
  <2>2. w[m + 1] = w[m] + cost(m + 1) /\ w[m] \in Nat /\ cost(m + 1) \in Nat
    BY <1>2, <1>5, <1>7, <2>1
  <2> QED
    BY <2>2
<1> HIDE DEF S
<1>8. N \in S
  BY <1>1, <1>6, <1>7, SetInduction
<1> QED
  BY <1>1, <1>3, <1>8 DEF S

\* A call takes the one candidate that is cheaper than every other to which its
\* arguments can be cast; it is ambiguous if two such are cheapest, and refused
\* if there is none, however many arguments it has.
THEOREM OverloadIsRight ==
    ASSUME NEW paramLists \in Seq(TypeLists), NEW argTypes \in TypeLists, NEW implemented,
           NEW chosen, chosen = resolveBestOverload(paramLists, argTypes, implemented),
           NEW fits, fits = Fitting(paramLists, argTypes, implemented),
           NEW cost, cost = [c \in fits |-> costSum(paramLists[c], argTypes, implemented)]
    PROVE  /\ chosen = NoMatch <=> fits = {}
           /\ chosen = Ambiguous => \E c, d \in fits : c # d /\ cost[c] = cost[d]
                                        /\ \A other \in fits : cost[c] <= cost[other]
           /\ chosen \notin {NoMatch, Ambiguous} =>
                 chosen \in fits /\ \A other \in fits \ {chosen} : cost[chosen] < cost[other]
<1> DEFINE best == {c \in fits : \A d \in fits : cost[c] <= cost[d]}
<1>1. fits = {c \in 1..Len(paramLists) :
                 viableFuncCandidate(paramLists[c], argTypes, implemented)}
  BY ViableFits DEF Fitting
<1>2. chosen = CASE fits = {} -> NoMatch
                 [] Cardinality(best) > 1 -> Ambiguous
                 [] OTHER -> CHOOSE c \in best : TRUE
  <2>1. best = {c \in fits : \A d \in fits :
                   costSum(paramLists[c], argTypes, implemented)
                     <= costSum(paramLists[d], argTypes, implemented)}
    OBVIOUS
  <2> HIDE DEF best
  <2> QED
    BY <1>1, <2>1 DEF resolveBestOverload
<1>3. \A c \in fits : cost[c] \in Nat
  BY CostSumType
<1>4. fits \subseteq 1..Len(paramLists) /\ best \subseteq fits
  BY DEF Fitting
<1>5. fits # {} => best # {}
  <2> SUFFICES ASSUME fits # {} PROVE best # {}
    OBVIOUS
  <2> DEFINE costs == {cost[c] : c \in fits}
  <2>1. costs \subseteq Nat /\ costs # {}
    BY <1>3
  <2>2. PICK x \in costs : \A y \in costs : x <= y
    BY <2>1, LeastNatural
  <2> QED
    BY <2>2
<1>6. IsFiniteSet(best) /\ Cardinality(best) \in Nat
  <2>1. IsFiniteSet(1..Len(paramLists))
    BY FS_Interval
  <2> QED
    BY <1>4, <2>1, FS_Subset, FS_CardinalityType, Zenon
<1>7. NoMatch \notin Nat /\ Ambiguous = 0 /\ NoMatch # Ambiguous
  BY DEF NoMatch, Ambiguous
<1>8. Len(paramLists) \in Nat
  OBVIOUS
<1>9. \A c \in best : c \in fits /\ \A d \in fits : cost[c] <= cost[d]
  OBVIOUS
<1>10. \A c \in fits, d \in best : cost[c] <= cost[d] => c \in best
  <2> SUFFICES ASSUME NEW c \in fits, NEW d \in best, cost[c] <= cost[d] PROVE c \in best
    OBVIOUS
  <2> SUFFICES ASSUME NEW e \in fits PROVE cost[c] <= cost[e]
    OBVIOUS
  <2> QED
    BY <1>3, <1>9
<1> HIDE DEF best
<1>11. CASE fits = {}
  <2>1. Cardinality(best) = 0
    BY <1>4, <1>11, FS_EmptySet
  <2>2. chosen = NoMatch
    BY <1>2, <1>11, <2>1
  <2> QED
    BY <1>7, <1>11, <2>2
<1>12. CASE fits # {} /\ Cardinality(best) > 1
  <2>1. chosen = Ambiguous
    BY <1>2, <1>12
  <2>2. PICK c \in best : TRUE
    BY <1>5, <1>12
  <2>3. \E d \in best : d # c
    <3> SUFFICES ASSUME best = {c} PROVE FALSE
      BY <2>2
    <3>1. Cardinality({c}) = 1
      BY FS_Singleton
    <3> QED
      BY <1>12, <3>1
  <2>4. PICK d \in best : d # c
    BY <2>3
  <2>5. cost[c] = cost[d]
    BY <1>3, <1>9
  <2> QED
    BY <1>7, <1>9, <1>12, <2>1, <2>4, <2>5
<1>13. CASE fits # {} /\ ~(Cardinality(best) > 1)
  <2>1. chosen = CHOOSE c \in best : TRUE
    BY <1>2, <1>13
  <2>2. chosen \in best
    BY <1>5, <1>13, <2>1
  <2>3. Cardinality(best) # 0
    BY <1>6, <2>2, FS_EmptySet
  <2>4. Cardinality(best) = 1
    BY <1>6, <1>13, <2>3
  <2>5. PICK x : best = {x}
    BY <1>6, <2>4, FS_Singleton
  <2>6. \A d \in fits \ {chosen} : cost[chosen] < cost[d]
    <3> SUFFICES ASSUME NEW d \in fits \ {chosen} PROVE cost[chosen] < cost[d]
      OBVIOUS
    <3>1. d \notin best
      BY <2>2, <2>5
    <3>2. ~(cost[d] <= cost[chosen])
      BY <1>10, <2>2, <3>1
    <3> QED
      BY <1>3, <1>9, <2>2, <3>2
  <2>7. chosen \in 1..Len(paramLists)
    BY <1>4, <2>2
  <2>8. chosen # NoMatch /\ chosen # Ambiguous
    BY <1>7, <1>8, <2>7
  <2> QED
    BY <1>9, <1>13, <2>2, <2>6, <2>8
<1> QED
  BY <1>11, <1>12, <1>13

----------------------------------------------------------------------------
(* The values of the integer types.                                        *)

Two[n \in Nat] == IF n = 0 THEN 1 ELSE 2 * Two[n - 1]

Values(t) == IF IsUnsigned(t) THEN 0..(Two[BitWidth(t)] - 1)
             ELSE (-Two[BitWidth(t) - 1])..(Two[BitWidth(t) - 1] - 1)

LEMMA PowersOfTwo ==
    /\ Two \in [Nat -> Nat] /\ Two[0] = 1
    /\ \A n \in Nat : Two[n + 1] = 2 * Two[n]
<1> DEFINE G == [x \in Nat |-> 2 * x]
           W(w) == [n \in Nat |-> IF n = 0 THEN 1 ELSE 2 * w[n - 1]]
           w == CHOOSE w : w = W(w)
<1>1. G \in [Nat -> Nat]
  OBVIOUS
<1>2. PICK h : Repeated(h, Nat, G, 1)
  BY <1>1, RepeatedExists
<1>3. h \in [Nat -> Nat] /\ h[0] = 1 /\ \A n \in Nat \ {0} : h[n] = G[h[n - 1]]
  BY <1>2 DEF Repeated
<1>4. h = W(h)
  <2>1. ASSUME NEW n \in Nat PROVE h[n] = IF n = 0 THEN 1 ELSE 2 * h[n - 1]
    <3>1. CASE n = 0
      BY <1>3, <3>1
    <3>2. CASE n # 0
      <4>1. n \in Nat \ {0} /\ n - 1 \in Nat
        BY <3>2
      <4>2. h[n] = G[h[n - 1]] /\ h[n - 1] \in Nat
        BY <1>3, <4>1
      <4> QED
        BY <3>2, <4>2
    <3> QED
      BY <3>1, <3>2
  <2> QED
    BY <1>3, <2>1
<1>5. w = W(w)
  BY <1>4
<1>6. Two = w
  BY DEF Two
<1> HIDE DEF w, G
<1>7. \A n \in Nat : Two[n] = IF n = 0 THEN 1 ELSE 2 * Two[n - 1]
  BY <1>5, <1>6
<1>8. Two = [n \in Nat |-> Two[n]]
  BY <1>5, <1>6
<1> HIDE DEF W
<1> DEFINE S == {n \in Nat : Two[n] \in Nat}
<1>9. 0 \in S
  BY <1>7
<1>10. ASSUME NEW n \in Nat, n \in S PROVE n + 1 \in S
  BY <1>7, <1>10
<1> HIDE DEF S
<1>11. Nat \subseteq S
  BY <1>9, <1>10, SetInduction
<1>12. \A n \in Nat : Two[n] \in Nat
  BY <1>11 DEF S
<1>13. Two \in [Nat -> Nat]
  BY <1>8, <1>12
<1>14. ASSUME NEW n \in Nat PROVE Two[n + 1] = 2 * Two[n]
  BY <1>7
<1> QED
  BY <1>7, <1>13, <1>14

LEMMA PowersGrow ==
    ASSUME NEW n \in Nat, NEW m \in Nat, n <= m PROVE Two[n] <= Two[m] /\ Two[n] >= 1
<1> DEFINE P == {k \in Nat : Two[k] >= 1}
           S == {k \in Nat : Two[n] <= Two[n + k]}
<1>1. \A k \in Nat : Two[k] \in Nat /\ Two[k + 1] = 2 * Two[k]
  BY PowersOfTwo
<1>2. 0 \in P /\ \A k \in Nat : k \in P => k + 1 \in P
  BY <1>1, PowersOfTwo
<1>3. 0 \in S
  BY <1>1
<1>4. ASSUME NEW k \in Nat, k \in S PROVE k + 1 \in S
  <2>1. n + k \in Nat /\ n + (k + 1) = (n + k) + 1
    OBVIOUS
  <2>2. Two[(n + k) + 1] = 2 * Two[n + k] /\ Two[n + k] \in Nat /\ Two[n] \in Nat
    BY <1>1, <2>1
  <2>3. Two[n] <= Two[n + k]
    BY <1>4
  <2>4. Two[n] <= Two[n + (k + 1)]
    BY <2>1, <2>2, <2>3
  <2> QED
    BY <2>4
<1> HIDE DEF P, S
<1>5. n \in P /\ m - n \in S
  BY <1>2, <1>3, <1>4, SetInduction
<1> QED
  BY <1>5 DEF P, S

\* A cast between integers that is made without being asked for keeps every
\* value and never cuts bits off, unless it takes a sign away; that it may do so
\* is the code's choice: a wider unsigned type accepts negative values.
THEOREM WideningKeepsValues ==
    ASSUME NEW src, NEW dst, IsInteger(src), IsInteger(dst), Widens(src, dst)
    PROVE  /\ IsUnsigned(src) \/ ~IsUnsigned(dst) => Values(src) \subseteq Values(dst)
           /\ castInts(src, dst) # "Trunc"
           /\ castInts(src, dst) = "BitCast" => Values(src) = Values(dst)
<1> DEFINE v == BitWidth(src)
           w == BitWidth(dst)
<1>1. v \in Nat \ {0} /\ w \in Nat \ {0}
  BY WidthAssumption DEF IsInteger, BitWidth, Outermost, Unsigned, None
<1>2. v <= w /\ (IsUnsigned(src) = IsUnsigned(dst) \/ v < w)
  BY <1>1 DEF Widens
<1>3. /\ castInts(src, dst) # "Trunc"
      /\ castInts(src, dst) = "BitCast" => v = w
  BY <1>1, <1>2 DEF castInts
<1>4. /\ Values(src) = IF IsUnsigned(src) THEN 0..(Two[v] - 1) ELSE (-Two[v - 1])..(Two[v - 1] - 1)
      /\ Values(dst) = IF IsUnsigned(dst) THEN 0..(Two[w] - 1) ELSE (-Two[w - 1])..(Two[w - 1] - 1)
  BY DEF Values
<1>5. v = w => Values(src) = Values(dst)
  BY <1>1, <1>2, <1>4
<1> HIDE DEF v, w
<1>6. /\ Two[v] \in Nat /\ Two[w] \in Nat /\ Two[v - 1] \in Nat /\ Two[w - 1] \in Nat
  BY <1>1, PowersOfTwo
<1>7. Two[v] <= Two[w] /\ Two[v - 1] <= Two[w - 1] /\ (v < w => Two[v] <= Two[w - 1])
  BY <1>1, <1>2, PowersGrow
<1>8. IsUnsigned(src) \/ ~IsUnsigned(dst) => Values(src) \subseteq Values(dst)
  <2>1. CASE IsUnsigned(src) /\ IsUnsigned(dst)
    BY <1>4, <1>6, <1>7, <2>1
  <2>2. CASE ~IsUnsigned(src) /\ ~IsUnsigned(dst)
    BY <1>4, <1>6, <1>7, <2>2
  <2>3. CASE IsUnsigned(src) /\ ~IsUnsigned(dst)
    <3>1. v < w
      BY <1>2, <2>3
    <3> QED
      BY <1>4, <1>6, <1>7, <2>3, <3>1
  <2> QED
    BY <2>1, <2>2, <2>3
<1> QED
  BY <1>3, <1>5, <1>8

\* The common type of two integers is as wide as both and holds the values of
\* both, unless the unsigned one is at least as wide as the signed one.
THEOREM CommonIntegerHoldsBoth ==
    ASSUME NEW l, NEW r, IsInteger(l), IsInteger(r),
           NEW common, common = getCommonInteger(l, r)
    PROVE  /\ common \in {l, r}
           /\ BitWidth(l) <= BitWidth(common) /\ BitWidth(r) <= BitWidth(common)
           /\ \/ IsUnsigned(l) = IsUnsigned(r)
              \/ IsUnsigned(l) /\ BitWidth(l) < BitWidth(r)
              \/ IsUnsigned(r) /\ BitWidth(r) < BitWidth(l)
              => Values(l) \cup Values(r) \subseteq Values(common)
<1>1. BitWidth(l) \in Nat /\ BitWidth(r) \in Nat
  BY WidthAssumption DEF IsInteger, BitWidth, Outermost, Unsigned, None
<1>2. /\ common \in {l, r}
      /\ BitWidth(l) <= BitWidth(common) /\ BitWidth(r) <= BitWidth(common)
  BY <1>1 DEF getCommonInteger
<1>3. ASSUME \/ IsUnsigned(l) = IsUnsigned(r)
             \/ IsUnsigned(l) /\ BitWidth(l) < BitWidth(r)
             \/ IsUnsigned(r) /\ BitWidth(r) < BitWidth(l)
      PROVE  Values(l) \cup Values(r) \subseteq Values(common)
  <2>1. /\ Widens(l, common) /\ (IsUnsigned(l) \/ ~IsUnsigned(common))
        /\ Widens(r, common) /\ (IsUnsigned(r) \/ ~IsUnsigned(common))
    BY <1>1, <1>3 DEF getCommonInteger, Widens
  <2>2. IsInteger(common)
    BY <1>2
  <2> QED
    BY <2>1, <2>2, WideningKeepsValues
<1> QED
  BY <1>2, <1>3
=============================================================================
