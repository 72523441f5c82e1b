----------------------------- MODULE Iteration -----------------------------
(***************************************************************************)
(* Induction and iteration, for the proofs: that a set which holds 0 and   *)
(* the successor of each of its members holds every number, that a         *)
(* function repeated from a value on has a table, and that a set which     *)
(* only grows within 1..n has stopped to grow after n steps.               *)
(***************************************************************************)
EXTENDS Naturals, FiniteSets, FiniteSetTheorems, WellFoundedInduction, TLAPS

\* A set of numbers that is not empty has a least one.
LEMMA LeastNatural ==
    ASSUME NEW S, S \subseteq Nat, S # {} PROVE \E x \in S : \A y \in S : x <= y
<1> DEFINE R == OpToRel(<, Nat)
<1>1. IsWellFoundedOn(R, Nat)
  BY NatLessThanWellFounded
<1>2. \A x, y \in Nat : y < x => <<y, x>> \in R
  BY DEF OpToRel
<1> HIDE DEF R
<1>3. PICK x \in S : \A y \in S : <<y, x>> \notin R
  BY <1>1, WFMin
<1>4. \A y \in S : ~(y < x) /\ y \in Nat /\ x \in Nat
  BY <1>2, <1>3
<1>5. \A y \in S : x <= y
  BY <1>4
<1> QED
  BY <1>5

LEMMA SetInduction ==
    ASSUME NEW S, 0 \in S, \A n \in Nat : n \in S => n + 1 \in S PROVE Nat \subseteq S
<1> SUFFICES ASSUME Nat \ S # {} PROVE FALSE
  OBVIOUS
<1> DEFINE T == Nat \ S
<1>1. T \subseteq Nat /\ T # {}
  OBVIOUS
<1> HIDE DEF T
<1>2. PICK x \in T : \A y \in T : x <= y
  BY <1>1, LeastNatural
<1>3. x \in Nat /\ x \notin S
  BY <1>2 DEF T
<1>4. x - 1 \in Nat /\ (x - 1) + 1 = x /\ ~(x <= x - 1)
  BY <1>3
<1>5. x - 1 \in S
  BY <1>2, <1>4 DEF T
<1> QED
  BY <1>3, <1>4, <1>5

\* g holds the values of G repeated n times from z on, all of them in X.
Table(g, X, G, z, n) ==
    g \in [0..n -> X] /\ g[0] = z /\ \A i \in 1..n : g[i] = G[g[i - 1]]

LEMMA IterationExists ==
    ASSUME NEW X, NEW G \in [X -> X], NEW z \in X, NEW N \in Nat
    PROVE  \E g : Table(g, X, G, z, N)
<1> DEFINE S == {m \in Nat : \E g : Table(g, X, G, z, m)}
<1>1. 0 \in S
  <2>1. Table([i \in 0..0 |-> z], X, G, z, 0)
    BY DEF Table
  <2> QED
    BY <2>1
<1>2. ASSUME NEW m \in Nat, m \in S PROVE m + 1 \in S
  <2>1. PICK g : /\ g \in [0..m -> X] /\ g[0] = z
                 /\ \A i \in 1..m : g[i] = G[g[i - 1]]
    BY <1>2 DEF Table
  <2> DEFINE h == [i \in 0..(m + 1) |-> IF i = m + 1 THEN G[g[m]] ELSE g[i]]
  <2>2. h \in [0..(m + 1) -> X]
    BY <2>1
  <2>3. h[0] = z
    BY <2>1
  <2>4. \A n \in 1..(m + 1) : h[n] = G[h[n - 1]]
    <3> TAKE n \in 1..(m + 1)
    <3>1. n - 1 \in 0..m /\ h[n - 1] = g[n - 1]
      OBVIOUS
    <3>2. CASE n = m + 1
      BY <3>1, <3>2
    <3>3. CASE n \in 1..m
      BY <2>1, <3>1, <3>3
    <3> QED
      BY <3>2, <3>3
  <2> HIDE DEF h
  <2>5. Table(h, X, G, z, m + 1)
    BY <2>2, <2>3, <2>4 DEF Table
  <2> QED
    BY <2>5
<1> HIDE DEF S
<1>3. N \in S
  BY <1>1, <1>2, SetInduction
<1> QED
  BY <1>3 DEF S

LEMMA TablesAgree ==
    ASSUME NEW X, NEW G, NEW z, NEW n \in Nat, NEW m \in Nat,
           NEW g, Table(g, X, G, z, n), NEW k, Table(k, X, G, z, m),
           NEW j \in Nat, j <= n, j <= m
    PROVE  g[j] = k[j]
<1> DEFINE S == {i \in Nat : i <= n /\ i <= m => g[i] = k[i]}
<1>0. /\ g[0] = z /\ \A i \in 1..n : g[i] = G[g[i - 1]]
      /\ k[0] = z /\ \A i \in 1..m : k[i] = G[k[i - 1]]
  BY DEF Table
<1>1. 0 \in S
  BY <1>0
<1>2. ASSUME NEW i \in Nat, i \in S PROVE i + 1 \in S
  <2> SUFFICES ASSUME i + 1 <= n, i + 1 <= m PROVE g[i + 1] = k[i + 1]
    OBVIOUS
  <2>1. i + 1 \in 1..n /\ i + 1 \in 1..m /\ (i + 1) - 1 = i /\ i <= n /\ i <= m
    OBVIOUS
  <2>2. g[i + 1] = G[g[i]] /\ k[i + 1] = G[k[i]] /\ g[i] = k[i]
    BY <1>0, <1>2, <2>1
  <2> QED
    BY <2>2
<1> HIDE DEF S
<1>3. j \in S
  BY <1>1, <1>2, SetInduction
<1> QED
  BY <1>3 DEF S

\* Repeated without an end.
Repeated(h, X, G, z) ==
    h \in [Nat -> X] /\ h[0] = z /\ \A i \in Nat \ {0} : h[i] = G[h[i - 1]]

LEMMA RepeatedExists ==
    ASSUME NEW X, NEW G \in [X -> X], NEW z \in X PROVE \E h : Repeated(h, X, G, z)
<1> DEFINE T(n) == CHOOSE g : Table(g, X, G, z, n)
           h == [n \in Nat |-> T(n)[n]]
<1>1. \A n \in Nat : Table(T(n), X, G, z, n)
  BY IterationExists
<1> HIDE DEF T
<1>2. \A n \in Nat : h[n] = T(n)[n]
  OBVIOUS
<1>3. ASSUME NEW n \in Nat PROVE T(n)[n] \in X
  BY <1>1 DEF Table
<1>4. h \in [Nat -> X]
  BY <1>3
<1>5. h[0] = z
  BY <1>1, <1>2 DEF Table
<1>6. ASSUME NEW n \in Nat \ {0} PROVE h[n] = G[h[n - 1]]
  <2>1. n - 1 \in Nat /\ n \in 1..n /\ n - 1 <= n /\ n - 1 <= n - 1
    OBVIOUS
  <2>2. T(n)[n] = G[T(n)[n - 1]]
    BY <1>1, <2>1 DEF Table
  <2>3. T(n)[n - 1] = T(n - 1)[n - 1]
    BY <1>1, <2>1, TablesAgree
  <2> HIDE DEF h
  <2> QED
    BY <1>2, <2>1, <2>2, <2>3
<1> HIDE DEF h
<1> QED
  BY <1>4, <1>5, <1>6 DEF Repeated

\* s holds the sums of the first values of c.
Sums(s, c, n) == s \in [0..n -> Nat] /\ s[0] = 0 /\ \A i \in 1..n : s[i] = s[i - 1] + c[i]

LEMMA SumsExist ==
    ASSUME NEW N \in Nat, NEW c \in [1..N -> Nat] PROVE \E s : Sums(s, c, N)
<1> DEFINE S == {m \in Nat : m <= N => \E s : Sums(s, c, m)}
<1>1. 0 \in S
  <2>1. Sums([i \in 0..0 |-> 0], c, 0)
    BY DEF Sums
  <2> QED
    BY <2>1
<1>2. ASSUME NEW m \in Nat, m \in S PROVE m + 1 \in S
  <2> SUFFICES ASSUME m + 1 <= N PROVE \E s : Sums(s, c, m + 1)
    OBVIOUS
  <2>0. m <= N
    OBVIOUS
  <2>1. PICK s : /\ s \in [0..m -> Nat] /\ s[0] = 0
                 /\ \A i \in 1..m : s[i] = s[i - 1] + c[i]
    BY <1>2, <2>0 DEF Sums
  <2> DEFINE h == [i \in 0..(m + 1) |-> IF i = m + 1 THEN s[m] + c[i] ELSE s[i]]
  <2>2. c[m + 1] \in Nat /\ s[m] \in Nat
    BY <2>1
  <2>3. h \in [0..(m + 1) -> Nat] /\ h[0] = 0
    BY <2>1, <2>2
  <2>4. \A n \in 1..(m + 1) : h[n] = h[n - 1] + c[n]
    <3> TAKE n \in 1..(m + 1)
    <3>1. n - 1 \in 0..m /\ h[n - 1] = s[n - 1]
      OBVIOUS
    <3>2. CASE n = m + 1
      BY <3>1, <3>2
    <3>3. CASE n \in 1..m
      BY <2>1, <3>1, <3>3
    <3> QED
      BY <3>2, <3>3
  <2> HIDE DEF h
  <2>5. Sums(h, c, m + 1)
    BY <2>3, <2>4 DEF Sums
  <2> QED
    BY <2>5
<1> HIDE DEF S
<1>3. N \in S
  BY <1>1, <1>2, SetInduction
<1> QED
  BY <1>3 DEF S

\* After n steps nothing new is found among n numbers.
LEMMA IterationSettles ==
    ASSUME NEW N \in Nat, NEW G \in [SUBSET (1..N) -> SUBSET (1..N)],
           \A s \in SUBSET (1..N) : s \subseteq G[s],
           NEW z, z # {}, NEW g, Table(g, SUBSET (1..N), G, z, N)
    PROVE  G[g[N]] = g[N]
<1>0. g \in [0..N -> SUBSET (1..N)] /\ g[0] # {} /\ \A n \in 1..N : g[n] = G[g[n - 1]]
  BY DEF Table
<1> DEFINE S == {m \in Nat : m <= N => G[g[m]] = g[m] \/ Cardinality(g[m]) >= m + 1}
<1>1. IsFiniteSet(1..N) /\ Cardinality(1..N) = N
  BY FS_Interval
<1>2. \A s \in SUBSET (1..N) : IsFiniteSet(s) /\ Cardinality(s) \in Nat /\ Cardinality(s) <= N
  <2> TAKE s \in SUBSET (1..N)
  <2>1. IsFiniteSet(s) /\ Cardinality(s) <= Cardinality(1..N)
    BY <1>1, FS_Subset, Zenon
  <2> QED
    BY <1>1, <2>1, FS_CardinalityType
<1>3. 0 \in S
  <2>1. g[0] \in SUBSET (1..N)
    BY <1>0
  <2>2. Cardinality(g[0]) # 0
    BY <1>0, <1>2, <2>1, FS_EmptySet
  <2> QED
    BY <1>2, <2>1, <2>2
<1>4. ASSUME NEW m \in Nat, m \in S PROVE m + 1 \in S
  <2> SUFFICES ASSUME m + 1 <= N, G[g[m + 1]] # g[m + 1] PROVE Cardinality(g[m + 1]) >= m + 2
    BY <1>4
  <2>1. m + 1 \in 1..N /\ (m + 1) - 1 = m /\ m \in 0..N
    OBVIOUS
  <2>2. g[m + 1] = G[g[m]] /\ g[m] \in SUBSET (1..N) /\ g[m + 1] \in SUBSET (1..N)
    BY <1>0, <2>1
  <2>3. G[g[m]] # g[m]
    BY <2>2
  <2>4. Cardinality(g[m]) >= m + 1
    BY <1>4, <2>1, <2>3
  <2>5. g[m] \subseteq g[m + 1] /\ g[m] # g[m + 1]
    BY <2>2, <2>3
  <2>6. Cardinality(g[m]) < Cardinality(g[m + 1])
    <3>1. IsFiniteSet(g[m + 1]) /\ g[m] \in SUBSET g[m + 1]
      BY <1>2, <2>2, <2>5
    <3>2. /\ Cardinality(g[m]) <= Cardinality(g[m + 1])
          /\ Cardinality(g[m + 1]) # Cardinality(g[m])
      BY <2>5, <3>1, FS_Subset
    <3>3. Cardinality(g[m]) \in Nat /\ Cardinality(g[m + 1]) \in Nat
      BY <1>2, <2>2
    <3> QED
      BY <3>2, <3>3
  <2> QED
    BY <1>2, <2>2, <2>4, <2>6
<1> HIDE DEF S
<1>5. N \in S
  BY <1>3, <1>4, SetInduction
<1>6. g[N] \in SUBSET (1..N) /\ ~(Cardinality(g[N]) >= N + 1)
  BY <1>0, <1>2
<1> QED
  BY <1>5, <1>6 DEF S
=============================================================================
