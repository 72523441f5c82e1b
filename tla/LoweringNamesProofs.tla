------------------------- MODULE LoweringNamesProofs -------------------------
(***************************************************************************)
(* Proofs about the names that Lowering resolves, for every set of         *)
(* programs: a use is resolved to what the name means by the text          *)
(* (NamesAreLexical), however branches, loops and bodies of templates      *)
(* nest.                                                                   *)
(*                                                                         *)
(* What getVariable finds depends on the scopes that stand when the use is *)
(* met, which is long after the item of the agenda was made.  So the       *)
(* scopes are walked along the agenda (Walk): each item is met with the    *)
(* scopes that the one before it leaves, and where an item is a statement  *)
(* at a place of the text, these scopes know the definitions before that   *)
(* place and agree with the text on what a name means there (Sees).        *)
(* After a report nothing is claimed: such a walk goes on without scopes   *)
(* (Goes).                                                                 *)
(***************************************************************************)
EXTENDS LoweringNames, LoweringProofs, Iteration

-----------------------------------------------------------------------------
(* Paths. *)

\* A statement is two numbers below the one that it is part of.
Even(p) == \E d \in Nat : Len(p) = 2 * d

\* The path of statement k of a part of the statement at r.
Child(r, part, k) == r \o <<part, k>>

\* The statements of a part of the statement at r, of the body of function
\* part if r is no path.
Kids(t, r, part) == Siblings(t, Child(r, part, 1))

LEMMA EvenDepth ==
    ASSUME NEW r \in Places, Even(r)
    PROVE  /\ Len(r) \in Nat /\ Depth(r) \in Nat /\ Len(r) = 2 * Depth(r)
           /\ r = <<>> <=> Len(r) = 0
<1>1. PICK d \in Nat : Len(r) = 2 * d
  BY DEF Even
<1>2. \A c \in Nat : (2 * c) \div 2 = c
  OBVIOUS
<1>3. Depth(r) = d
  BY <1>1, <1>2 DEF Depth
<1>4. Len(r) \in Nat /\ (r = <<>> <=> Len(r) = 0)
  BY DEF Places
<1> QED
  BY <1>1, <1>3, <1>4

LEMMA PathFacts ==
    ASSUME NEW r \in Places, Even(r), NEW part \in Nat, NEW k \in Nat
    PROVE  /\ Child(r, part, k) \in Places /\ Len(Child(r, part, k)) = Len(r) + 2
           /\ Even(Child(r, part, k))
           /\ Parent(Child(r, part, k)) = r
           /\ Part(Child(r, part, k)) = part /\ Index(Child(r, part, k)) = k
           /\ \A j \in Nat : Sibling(Child(r, part, k), j) = Child(r, part, j)
           /\ Child(r, part, k)[1] = IF r = <<>> THEN part ELSE r[1]
           /\ Depth(Child(r, part, k)) = Depth(r) + 1
           /\ Child(r, part, k)[Len(r) + 1] = part /\ Child(r, part, k)[Len(r) + 2] = k
           /\ \A i \in 1..Len(r) : Child(r, part, k)[i] = r[i]
<1> DEFINE p == r \o <<part, k>>
<1>1. r \in Seq(Nat) /\ Len(r) \in Nat /\ p \in Seq(Nat) /\ Len(p) = Len(r) + 2
  BY DEF Places
<1>2. p[Len(r) + 1] = part /\ p[Len(r) + 2] = k /\ \A i \in 1..Len(r) : p[i] = r[i]
  BY <1>1
<1>3. PICK d \in Nat : Len(r) = 2 * d
  BY DEF Even
<1>4. Even(p)
  <2>1. d + 1 \in Nat /\ Len(p) = 2 * (d + 1)
    BY <1>1, <1>3
  <2> QED
    BY <2>1 DEF Even
<1>5. Parent(p) = r
  <2>1. SubSeq(p, 1, Len(r)) = r
    BY <1>1, <1>2
  <2> QED
    BY <1>1, <2>1 DEF Parent
<1>6. Part(p) = part /\ Index(p) = k
  <2>1. Len(p) - 1 = Len(r) + 1
    BY <1>1
  <2> QED
    BY <1>1, <1>2, <2>1 DEF Part, Index
<1>7. \A j \in Nat : Sibling(p, j) = Child(r, part, j)
  <2> TAKE j \in Nat
  <2> DEFINE q == r \o <<part, j>>
             e == [p EXCEPT ![Len(r) + 2] = j]
  <2>1. q \in Seq(Nat) /\ Len(q) = Len(r) + 2 /\ q[Len(r) + 1] = part /\ q[Len(r) + 2] = j
        /\ \A i \in 1..Len(r) : q[i] = r[i]
    BY <1>1
  <2> HIDE DEF p
  <2>2. e \in Seq(Nat) /\ Len(e) = Len(r) + 2 /\ e[Len(r) + 2] = j
        /\ \A i \in 1..(Len(r) + 1) : e[i] = p[i]
    BY <1>1
  <2> HIDE DEF e, q
  <2>3. \A i \in 1..(Len(r) + 2) : e[i] = q[i]
    <3> TAKE i \in 1..(Len(r) + 2)
    <3>1. i \in 1..Len(r) \/ i = Len(r) + 1 \/ i = Len(r) + 2
      BY <1>1
    <3> QED
      BY <1>1, <1>2, <2>1, <2>2, <3>1, SMTT(60)
  <2>4. e = q
    BY <2>1, <2>2, <2>3
  <2> QED
    BY <1>1, <2>4 DEF Sibling, e, q, Child
<1>8. p[1] = IF r = <<>> THEN part ELSE r[1]
  <2>1. CASE r = <<>>
    BY <1>1, <1>2, <2>1
  <2>2. CASE r # <<>>
    <3>1. 1 \in 1..Len(r)
      BY <1>1, <2>2
    <3> QED
      BY <1>2, <2>2, <3>1
  <2> QED
    BY <2>1, <2>2
<1>9. Depth(r) = d /\ Depth(p) = d + 1
  <2>1. \A c \in Nat : (2 * c) \div 2 = c
    OBVIOUS
  <2>2. Len(p) = 2 * (d + 1) /\ d + 1 \in Nat
    BY <1>1, <1>3
  <2> HIDE DEF p
  <2> QED
    BY <1>3, <2>1, <2>2 DEF Depth
<1> HIDE DEF p
<1>10. p \in Places /\ Len(p) = Len(r) + 2 /\ Depth(p) = Depth(r) + 1
  BY <1>1, <1>9 DEF Places
<1> QED
  BY <1>2, <1>4, <1>5, <1>6, <1>7, <1>8, <1>10, Zenon DEF p, Child

\* The statements on the way down a path, as StmtAt finds them.
Down(t, p, w, k) ==
    IF k = 1 THEN t[p[1]].body[p[2]] ELSE StmtsIn(w[k - 1], p[2 * k - 1])[p[2 * k]]
Descent(t, p) == CHOOSE w : w = [k \in 1..Depth(p) |-> Down(t, p, w, k)]

\* There is such a descent, so that the one that is chosen is one.
LEMMA DescentIs ==
    ASSUME NEW t, NEW p, Depth(p) \in Nat
    PROVE  Descent(t, p) = [k \in 1..Depth(p) |-> Down(t, p, Descent(t, p), k)]
<1> DEFINE S == {n \in Nat : \E w : w = [k \in 1..n |-> Down(t, p, w, k)]}
<1>1. 0 \in S
  <2>1. <<>> = [k \in 1..0 |-> Down(t, p, <<>>, k)]
    OBVIOUS
  <2> QED
    BY <2>1
<1>2. ASSUME NEW n \in Nat, n \in S PROVE n + 1 \in S
  <2>1. PICK w : w = [k \in 1..n |-> Down(t, p, w, k)]
    BY <1>2
  <2> DEFINE v == [k \in 1..(n + 1) |-> IF k = n + 1 THEN Down(t, p, w, n + 1) ELSE w[k]]
  <2>2. \A k \in 1..n : v[k] = w[k]
    OBVIOUS
  <2>3. \A k \in 1..(n + 1) : Down(t, p, v, k) = Down(t, p, w, k)
    <3> TAKE k \in 1..(n + 1)
    <3>1. k = 1 \/ v[k - 1] = w[k - 1]
      BY <2>2
    <3> HIDE DEF v
    <3> QED
      BY <3>1 DEF Down
  <2>4. \A k \in 1..(n + 1) : v[k] = Down(t, p, w, k)
    <3> TAKE k \in 1..(n + 1)
    <3>1. CASE k = n + 1
      BY <3>1
    <3>2. CASE k # n + 1
      <4>1. k \in 1..n
        BY <3>2
      <4>2. w[k] = Down(t, p, w, k)
        BY <2>1, <4>1
      <4> QED
        BY <2>2, <4>1, <4>2
    <3> QED
      BY <3>1, <3>2
  <2>5. v = [k \in 1..(n + 1) |-> v[k]]
    OBVIOUS
  <2> HIDE DEF v
  <2>6. v = [k \in 1..(n + 1) |-> Down(t, p, v, k)]
    BY <2>3, <2>4, <2>5
  <2> QED
    BY <2>6
<1>3. Depth(p) \in S
  <2> HIDE DEF S
  <2> QED
    BY <1>1, <1>2, SetInduction
<1>4. \E w : w = [k \in 1..Depth(p) |-> Down(t, p, w, k)]
  BY <1>3
<1> QED
  BY <1>4, Zenon DEF Descent

\* The way down to a part of the statement at r goes through r.
LEMMA SameDescent ==
    ASSUME NEW t, NEW r \in Places, Even(r), NEW part \in Nat, NEW k \in Nat
    PROVE  \A n \in 1..Depth(r) : Descent(t, Child(r, part, k))[n] = Descent(t, r)[n]
<1> DEFINE p == Child(r, part, k)
           v == Descent(t, p)
           w == Descent(t, r)
           S == {n \in Nat : n = 0 \/ n > Depth(r) \/ v[n] = w[n]}
<1>1. Depth(r) \in Nat /\ Depth(p) = Depth(r) + 1 /\ Len(r) = 2 * Depth(r)
  BY EvenDepth, PathFacts
<1>2. \A i \in 1..Len(r) : p[i] = r[i]
  BY PathFacts
<1>3. v = [n \in 1..Depth(p) |-> Down(t, p, v, n)] /\ w = [n \in 1..Depth(r) |-> Down(t, r, w, n)]
  <2> HIDE DEF p
  <2>1. Depth(p) \in Nat
    BY <1>1
  <2> QED
    BY <1>1, <2>1, DescentIs, Zenon
<1> HIDE DEF p, v, w
<1>4. \A n \in 1..Depth(r) : v[n] = Down(t, p, v, n) /\ w[n] = Down(t, r, w, n)
  <2> TAKE n \in 1..Depth(r)
  <2>1. n \in 1..Depth(p)
    BY <1>1
  <2>2. v[n] = [i \in 1..Depth(p) |-> Down(t, p, v, i)][n]
        /\ w[n] = [i \in 1..Depth(r) |-> Down(t, r, w, i)][n]
    BY <1>3, Zenon
  <2> QED
    BY <2>1, <2>2
<1>5. 0 \in S
  OBVIOUS
<1>6. ASSUME NEW n \in Nat, n \in S PROVE n + 1 \in S
  <2> SUFFICES ASSUME n + 1 <= Depth(r) PROVE v[n + 1] = w[n + 1]
    BY <1>1
  <2>1. n + 1 = 1 \/ v[(n + 1) - 1] = w[(n + 1) - 1]
    BY <1>1, <1>6
  <2>2. 1 \in 1..Len(r) /\ 2 \in 1..Len(r) /\ 2 * (n + 1) - 1 \in 1..Len(r)
        /\ 2 * (n + 1) \in 1..Len(r)
    BY <1>1
  <2>3. p[1] = r[1] /\ p[2] = r[2] /\ p[2 * (n + 1) - 1] = r[2 * (n + 1) - 1]
        /\ p[2 * (n + 1)] = r[2 * (n + 1)]
    BY <1>2, <2>2
  <2>4. Down(t, p, v, n + 1) = Down(t, r, w, n + 1)
    BY <2>1, <2>3 DEF Down
  <2>5. n + 1 \in 1..Depth(r)
    BY <1>1
  <2> QED
    BY <1>4, <2>4, <2>5
<1>7. Nat \subseteq S
  <2> HIDE DEF S
  <2> QED
    BY <1>5, <1>6, SetInduction
<1>8. \A n \in 1..Depth(r) : v[n] = w[n]
  <2> TAKE n \in 1..Depth(r)
  <2>1. n \in Nat /\ n # 0 /\ ~(n > Depth(r))
    BY <1>1
  <2> QED
    BY <1>7, <2>1
<1> QED
  BY <1>8 DEF p, v, w

\* The statement at a path is the one that its parent holds there.
LEMMA StmtAtIsKid ==
    ASSUME NEW t, NEW r \in Places, Even(r), NEW part \in Nat, NEW k \in Nat
    PROVE  /\ Siblings(t, Child(r, part, k)) = Kids(t, r, part)
           /\ r = <<>> => Kids(t, r, part) = t[part].body
           /\ r # <<>> => Kids(t, r, part) = StmtsIn(StmtAt(t, r), part)
           /\ StmtAt(t, Child(r, part, k)) = Kids(t, r, part)[k]
<1> DEFINE p == Child(r, part, k)
           q == Child(r, part, 1)
<1>1. /\ Len(r) \in Nat /\ Len(p) = Len(r) + 2 /\ Len(q) = Len(r) + 2
      /\ Parent(p) = r /\ Parent(q) = r /\ Part(p) = part /\ Part(q) = part
      /\ Depth(r) \in Nat /\ Depth(p) = Depth(r) + 1 /\ Len(r) = 2 * Depth(r)
      /\ p[Len(r) + 1] = part /\ p[Len(r) + 2] = k /\ q[Len(r) + 1] = part
      /\ (r = <<>> <=> Len(r) = 0)
  <2>1. Len(p) = Len(r) + 2 /\ Parent(p) = r /\ Part(p) = part
    BY PathFacts
  <2>4. Depth(p) = Depth(r) + 1 /\ p[Len(r) + 1] = part
    BY PathFacts
  <2>5. p[Len(r) + 2] = k
    BY PathFacts
  <2>2. /\ Len(q) = Len(r) + 2 /\ Parent(q) = r /\ Part(q) = part /\ q[Len(r) + 1] = part
    BY PathFacts
  <2>3. /\ Depth(r) \in Nat /\ Len(r) = 2 * Depth(r)
        /\ Len(r) \in Nat /\ (r = <<>> <=> Len(r) = 0)
    BY EvenDepth
  <2> HIDE DEF p, q
  <2> QED
    BY <2>1, <2>2, <2>3, <2>4, <2>5, Zenon
<1>2. StmtAt(t, p) = Descent(t, p)[Depth(p)] /\ StmtAt(t, r) = Descent(t, r)[Depth(r)]
  <2> HIDE DEF p
  <2>1. Len(p) # 1 /\ Len(r) # 1
    BY <1>1
  <2>2. \A x : StmtAt(t, x) = IF Len(x) = 1 THEN t[x[1]] ELSE Descent(t, x)[Depth(x)]
    BY DEF StmtAt, Descent, Down
  <2> QED
    BY <2>1, <2>2
<1>3. Descent(t, p)[Depth(p)] = Down(t, p, Descent(t, p), Depth(p))
  <2> HIDE DEF p
  <2>1. Depth(p) \in Nat /\ Depth(p) \in 1..Depth(p)
    BY <1>1
  <2>2. Descent(t, p) = [n \in 1..Depth(p) |-> Down(t, p, Descent(t, p), n)]
    BY <2>1, DescentIs
  <2> QED
    BY <2>1, <2>2
<1>4. \A n \in 1..Depth(r) : Descent(t, p)[n] = Descent(t, r)[n]
  BY SameDescent
<1> HIDE DEF p, q
<1>6. CASE r = <<>>
  <2>0. Len(r) = 0
    BY <1>1, <1>6, Zenon
  <2>6. Depth(r) \in Nat /\ Len(r) = 2 * Depth(r)
    BY <1>1
  <2>4. Len(r) + 1 = 1 /\ Len(r) + 2 = 2 /\ Depth(r) = 0
    BY <2>0, <2>6
  <2>5. p[1] = part /\ p[2] = k /\ q[1] = part
    BY <1>1, <2>4
  <2>1. Depth(p) = 1 /\ p[1] = part /\ p[2] = k /\ q[1] = part /\ Len(p) = 2 /\ Len(q) = 2
    BY <1>1, <2>4, <2>5
  <2>2. Siblings(t, p) = t[part].body /\ Siblings(t, q) = t[part].body
    BY <2>1 DEF Siblings
  <2>3. StmtAt(t, p) = t[part].body[k]
    BY <1>2, <1>3, <2>1 DEF Down
  <2> QED
    BY <1>6, <2>2, <2>3 DEF Kids, p, q
<1>7. CASE r # <<>>
  <2>1. Len(p) > 2 /\ Len(q) > 2 /\ Depth(p) - 1 = Depth(r) /\ Depth(p) # 1 /\ Depth(r) \in 1..Depth(r)
        /\ 2 * Depth(p) - 1 = Len(r) + 1 /\ 2 * Depth(p) = Len(r) + 2
    BY <1>1, <1>7
  <2>2. Siblings(t, p) = StmtsIn(StmtAt(t, r), part) /\ Siblings(t, q) = StmtsIn(StmtAt(t, r), part)
    BY <1>1, <2>1 DEF Siblings
  <2>3. Descent(t, p)[Depth(p) - 1] = StmtAt(t, r)
    BY <1>2, <1>4, <2>1
  <2>4. StmtAt(t, p) = StmtsIn(StmtAt(t, r), part)[k]
    BY <1>1, <1>2, <1>3, <2>1, <2>3 DEF Down
  <2> QED
    BY <1>7, <2>2, <2>4 DEF Kids, p, q
<1> QED
  BY <1>6, <1>7

-----------------------------------------------------------------------------
(* Definitions. *)

LEMMA LeastIs ==
    ASSUME NEW S, S \subseteq Nat
    PROVE  /\ S # {} => Least(S) \in S
           /\ \A x \in S : (\A y \in S : x <= y) => Least(S) = x
<1>1. ASSUME NEW x \in S, \A y \in S : x <= y PROVE Least(S) = x
  <2> DEFINE l == CHOOSE k \in S : \A j \in S : k <= j
  <2>1. l \in S /\ \A y \in S : l <= y
    BY <1>1, Zenon
  <2> HIDE DEF l
  <2>2. l <= x /\ x <= l /\ l \in Nat /\ x \in Nat
    BY <1>1, <2>1
  <2>3. l = x
    BY <2>2
  <2> QED
    BY <2>3 DEF Least, l
<1>2. S # {} => \E x \in S : \A y \in S : x <= y
  BY LeastExists
<1>3. S # {} => Least(S) \in S
  BY <1>1, <1>2
<1> QED
  BY <1>1, <1>3

LEMMA GreatestIs ==
    ASSUME NEW n \in Nat, NEW S, S \subseteq 1..n
    PROVE  /\ S # {} => Greatest(S) \in S /\ \A y \in S : y <= Greatest(S)
           /\ \A x \in S : (\A y \in S : y <= x) => Greatest(S) = x
<1>1. ASSUME NEW x \in S, \A y \in S : y <= x PROVE Greatest(S) = x
  <2> DEFINE l == CHOOSE k \in S : \A j \in S : j <= k
  <2>1. l \in S /\ \A y \in S : y <= l
    BY <1>1, Zenon
  <2> HIDE DEF l
  <2>2. l <= x /\ x <= l /\ l \in Nat /\ x \in Nat
    BY <1>1, <2>1
  <2>3. l = x
    BY <2>2
  <2> QED
    BY <2>3 DEF Greatest, l
<1>2. S # {} => \E x \in S : \A y \in S : y <= x
  BY GreatestExists
<1>3. S # {} => Greatest(S) \in S /\ \A y \in S : y <= Greatest(S)
  BY <1>1, <1>2
<1> QED
  BY <1>1, <1>3

\* What may define a name for the statements of a part: those before, and the
\* head of the loop.
Earlier(t, r, part, k, n) == {j \in 1..(k - 1) : Defines(Kids(t, r, part)[j], n)}
InHeadOf(t, r, part, n) ==
    {x \in {1, 3} : /\ r # <<>> /\ StmtAt(t, r).op = "for" /\ x < part
                    /\ Defines(StmtsIn(StmtAt(t, r), x)[1], n)}

LEMMA BeforeIs ==
    ASSUME NEW t, NEW r \in Places, Even(r), NEW part \in Nat, NEW k \in Nat, NEW n
    PROVE  /\ Before(t, Child(r, part, k), n) = Earlier(t, r, part, k, n)
           /\ InHead(t, Child(r, part, k), n) = InHeadOf(t, r, part, n)
<1> DEFINE p == Child(r, part, k)
<1>1. Len(p) = Len(r) + 2 /\ Parent(p) = r /\ Part(p) = part /\ Index(p) = k
  BY PathFacts
<1>2. Siblings(t, p) = Kids(t, r, part)
  BY StmtAtIsKid
<1> HIDE DEF p
<1>3. Len(r) \in Nat /\ (r = <<>> <=> Len(r) = 0)
  BY EvenDepth
<1>4. Len(p) > 2 <=> r # <<>>
  BY <1>1, <1>3
<1>5. Before(t, p, n) = Earlier(t, r, part, k, n)
  BY <1>1, <1>2, Zenon DEF Before, Earlier
<1>6. InHead(t, p, n) = InHeadOf(t, r, part, n)
  BY <1>1, <1>4 DEF InHead, InHeadOf
<1> QED
  BY <1>5, <1>6 DEF p

LEMMA DefinedAtIs ==
    ASSUME NEW t, NEW r \in Places, Even(r), NEW part \in Nat, NEW k \in Nat, NEW n
    PROVE  /\ Earlier(t, r, part, k, n) # {} =>
                 /\ DefinedAt(t, Child(r, part, k), n)
                       = Child(r, part, Least(Earlier(t, r, part, k, n)))
                 /\ Least(Earlier(t, r, part, k, n)) \in Earlier(t, r, part, k, n)
           /\ Earlier(t, r, part, k, n) = {} /\ InHeadOf(t, r, part, n) # {} =>
                 /\ DefinedAt(t, Child(r, part, k), n) = Child(r, Least(InHeadOf(t, r, part, n)), 1)
                 /\ Least(InHeadOf(t, r, part, n)) \in InHeadOf(t, r, part, n)
           /\ Earlier(t, r, part, k, n) = {} /\ InHeadOf(t, r, part, n) = {} <=>
                 DefinedAt(t, Child(r, part, k), n) = NoDefinition
<1> DEFINE p == Child(r, part, k)
           before == Earlier(t, r, part, k, n)
           head == InHeadOf(t, r, part, n)
<1>1. Before(t, p, n) = before /\ InHead(t, p, n) = head
  BY BeforeIs
<1>2. Parent(p) = r /\ \A j \in Nat : Sibling(p, j) = Child(r, part, j)
  <2>1. Parent(p) = r
    BY PathFacts
  <2>2. \A j \in Nat : Sibling(p, j) = Child(r, part, j)
    BY PathFacts
  <2> QED
    BY <2>1, <2>2
<1>3. before \subseteq Nat /\ head \subseteq Nat
  BY DEF Earlier, InHeadOf
<1> HIDE DEF p, before, head
<1>4. (before # {} => Least(before) \in before) /\ (head # {} => Least(head) \in head)
  BY <1>3, LeastIs
<1>5. before # {} => DefinedAt(t, p, n) = Child(r, part, Least(before))
  BY <1>1, <1>2, <1>3, <1>4 DEF DefinedAt
<1>6. before = {} /\ head # {} => DefinedAt(t, p, n) = Child(r, Least(head), 1)
  BY <1>1, <1>2, Zenon DEF DefinedAt, Child
<1>7. before = {} /\ head = {} => DefinedAt(t, p, n) = NoDefinition
  BY <1>1, Zenon DEF DefinedAt
<1>8. \A x, y : Child(r, x, y) # NoDefinition
  <2> TAKE x, y
  <2>1. Len(Child(r, x, y)) = Len(r) + 2 /\ Len(r) \in Nat
    BY DEF Places, Child
  <2>2. Len(Child(r, x, y)) # 0
    BY <2>1
  <2> QED
    BY <2>2 DEF NoDefinition
<1>9. before # {} \/ head # {} => DefinedAt(t, p, n) # NoDefinition
  BY <1>5, <1>6, <1>8
<1> QED
  BY <1>4, <1>5, <1>6, <1>7, <1>9, Zenon DEF p, before, head


\* What a name means that the body of function f does not define.
OfFunction(t, f, n) == IF n \in t[f].args THEN <<f, 0>> ELSE Global(t, n)

\* The nearest definition is in the part itself, or else further out.
LEMMA LexicalIs ==
    ASSUME NEW t, NEW r \in Places, Even(r), NEW part \in Nat, NEW k \in Nat, NEW n
    PROVE  /\ DefinedAt(t, Child(r, part, k), n) # NoDefinition =>
                 Lexical(t, Child(r, part, k), n) = DefinedAt(t, Child(r, part, k), n)
           /\ DefinedAt(t, Child(r, part, k), n) = NoDefinition /\ r # <<>> =>
                 Lexical(t, Child(r, part, k), n) = Lexical(t, r, n)
           /\ DefinedAt(t, Child(r, part, k), n) = NoDefinition /\ r = <<>> =>
                 Lexical(t, Child(r, part, k), n) = OfFunction(t, part, n)
<1> DEFINE p == Child(r, part, k)
           N == Depth(r)
           D(d) == DefinedAt(t, Upto(p, d), n) # NoDefinition
           outer == {d \in 1..N : DefinedAt(t, Upto(r, d), n) # NoDefinition}
           all == {d \in 1..(N + 1) : DefinedAt(t, Upto(p, d), n) # NoDefinition}
           far(x) == IF Len(x) > 1 /\ n \in t[x[1]].args THEN <<x[1], 0>> ELSE Global(t, n)
<1>1. /\ N \in Nat /\ Len(r) = 2 * N /\ Len(r) \in Nat
      /\ (r = <<>> <=> Len(r) = 0)
  BY EvenDepth
<1>2. Len(p) = Len(r) + 2 /\ Depth(p) = N + 1
  BY PathFacts
<1>3. p[1] = IF r = <<>> THEN part ELSE r[1]
  BY PathFacts
<1>4. p \in Seq(Nat) /\ r \in Seq(Nat) /\ \A i \in 1..Len(r) : p[i] = r[i]
  <2>1. p \in Places /\ \A i \in 1..Len(r) : p[i] = r[i]
    BY PathFacts
  <2> HIDE DEF p
  <2> QED
    BY <2>1 DEF Places
<1> HIDE DEF p, N
<1>5. \A d \in 1..N : Upto(p, d) = Upto(r, d)
  <2> TAKE d \in 1..N
  <2>1. 2 * d \in 1..Len(r) /\ 2 * d \in 1..Len(p)
    BY <1>1, <1>2
  <2>2. SubSeq(p, 1, 2 * d) = SubSeq(r, 1, 2 * d)
    BY <1>1, <1>2, <1>4, <2>1
  <2> QED
    BY <2>2 DEF Upto
<1>6. Upto(p, N + 1) = p
  <2>1. 2 * (N + 1) = Len(p)
    BY <1>1, <1>2
  <2>2. SubSeq(p, 1, Len(p)) = p
    BY <1>4
  <2> QED
    BY <2>1, <2>2 DEF Upto
<1>7. Lexical(t, p, n) = IF all # {} THEN DefinedAt(t, Upto(p, Greatest(all)), n) ELSE far(p)
  BY <1>2, Zenon DEF Lexical
<1>8. Lexical(t, r, n) = IF outer # {} THEN DefinedAt(t, Upto(r, Greatest(outer)), n) ELSE far(r)
  BY Zenon DEF Lexical, N
<1>9. /\ outer \subseteq 1..N /\ all \subseteq 1..(N + 1)
      /\ \A d \in outer : d \in all
      /\ \A d \in all : d = N + 1 \/ d \in outer
      /\ N + 1 \in all <=> DefinedAt(t, p, n) # NoDefinition
  <2>1. \A d \in 1..N : d \in 1..(N + 1) /\ d # N + 1
    BY <1>1
  <2>2. \A d \in 1..(N + 1) : d \in 1..N \/ d = N + 1
    BY <1>1
  <2>3. N + 1 \in 1..(N + 1)
    BY <1>1
  <2> QED
    BY <1>5, <1>6, <2>1, <2>2, <2>3, Zenon
<1> HIDE DEF outer, all, far
<1>10. CASE DefinedAt(t, p, n) # NoDefinition
  <2>1. N + 1 \in all /\ \A d \in all : d <= N + 1
    BY <1>1, <1>9, <1>10
  <2>2. Greatest(all) = N + 1 /\ all # {}
    <3>1. N + 1 \in Nat /\ all \subseteq 1..(N + 1)
      BY <1>1, <1>9
    <3> QED
      BY <2>1, <3>1, GreatestIs
  <2>3. Lexical(t, p, n) = DefinedAt(t, p, n)
    BY <1>6, <1>7, <2>2
  <2> QED
    BY <1>10, <2>3 DEF p
<1>11. CASE DefinedAt(t, p, n) = NoDefinition
  <2>1. all = outer
    BY <1>9, <1>11
  <2>2. CASE outer # {}
    <3>1. Greatest(outer) \in 1..N
      BY <1>1, <1>9, <2>2, GreatestIs
    <3>2. Lexical(t, p, n) = Lexical(t, r, n)
      BY <1>5, <1>7, <1>8, <2>1, <2>2, <3>1
    <3>3. r # <<>>
      BY <1>1, <3>1
    <3> QED
      BY <1>11, <3>2, <3>3 DEF p
  <2>3. CASE outer = {}
    <3>1. Lexical(t, p, n) = far(p) /\ Lexical(t, r, n) = far(r)
      BY <1>7, <1>8, <2>1, <2>3
    <3>2. Len(p) > 1 /\ (r # <<>> => Len(r) > 1)
      BY <1>1, <1>2
    <3>3. r # <<>> => far(p) = far(r)
      BY <1>3, <3>2 DEF far
    <3>4. r = <<>> => far(p) = OfFunction(t, part, n)
      BY <1>3, <3>2 DEF far, OfFunction
    <3> QED
      BY <1>11, <3>1, <3>3, <3>4 DEF p
  <2> QED
    BY <2>2, <2>3
<1> QED
  BY <1>10, <1>11

\* So that what a name means in a part that does not define it is what it
\* means where the part stands.
LEMMA MeansIs ==
    ASSUME NEW t, NEW r \in Places, Even(r), NEW part \in Nat, NEW k \in Nat, NEW n
    PROVE  /\ DefinedAt(t, Child(r, part, k), n) # NoDefinition =>
                 Means(t, Child(r, part, k), n, DefinedAt(t, Child(r, part, k), n))
           /\ DefinedAt(t, Child(r, part, k), n) = NoDefinition /\ r # <<>> =>
                 \A q : Means(t, r, n, q) => Means(t, Child(r, part, k), n, q)
           /\ \A j \in Nat :
                 DefinedAt(t, Child(r, part, j), n) = DefinedAt(t, Child(r, part, k), n) =>
                 \A q : Means(t, Child(r, part, j), n, q) => Means(t, Child(r, part, k), n, q)
<1> DEFINE p == Child(r, part, k)
<1>1. Len(r) \in Nat /\ (r = <<>> <=> Len(r) = 0) /\ (r # <<>> => Len(r) > 1)
  BY EvenDepth
<1>2. Len(p) = Len(r) + 2 /\ p[1] = IF r = <<>> THEN part ELSE r[1]
  BY PathFacts
<1>3. /\ DefinedAt(t, p, n) # NoDefinition => Lexical(t, p, n) = DefinedAt(t, p, n)
      /\ DefinedAt(t, p, n) = NoDefinition /\ r # <<>> => Lexical(t, p, n) = Lexical(t, r, n)
  <2>1. DefinedAt(t, p, n) # NoDefinition => Lexical(t, p, n) = DefinedAt(t, p, n)
    BY LexicalIs
  <2>2. DefinedAt(t, p, n) = NoDefinition /\ r # <<>> => Lexical(t, p, n) = Lexical(t, r, n)
    BY LexicalIs
  <2> QED
    BY <2>1, <2>2
<1>4. ASSUME NEW j \in Nat, DefinedAt(t, Child(r, part, j), n) = DefinedAt(t, p, n),
             NEW q, Means(t, Child(r, part, j), n, q)
      PROVE  Means(t, p, n, q)
  <2> DEFINE o == Child(r, part, j)
  <2>1. Len(o) = Len(r) + 2 /\ o[1] = IF r = <<>> THEN part ELSE r[1]
    BY PathFacts
  <2>2. Lexical(t, o, n) = Lexical(t, p, n)
    <3>1. CASE DefinedAt(t, p, n) = NoDefinition
      BY <1>4, <3>1, LexicalIs
    <3>2. CASE DefinedAt(t, p, n) # NoDefinition
      <4>1. DefinedAt(t, o, n) # NoDefinition
        BY <1>4, <3>2
      <4>2. Lexical(t, o, n) = DefinedAt(t, o, n)
        BY <4>1, LexicalIs
      <4> QED
        BY <1>3, <1>4, <3>2, <4>2
    <3> QED
      BY <3>1, <3>2
  <2>3. Means(t, o, n, q)
    BY <1>4
  <2> HIDE DEF o, p
  <2>4. o[1] = p[1] /\ Len(o) > 1 /\ Len(p) > 1
    BY <1>1, <1>2, <2>1
  <2> QED
    BY <2>2, <2>3, <2>4 DEF Means
<1> HIDE DEF p
<1>5. DefinedAt(t, p, n) # NoDefinition => Means(t, p, n, DefinedAt(t, p, n))
  BY <1>3 DEF Means
<1>6. ASSUME DefinedAt(t, p, n) = NoDefinition, r # <<>>, NEW q, Means(t, r, n, q)
      PROVE  Means(t, p, n, q)
  <2>1. p[1] = r[1] /\ Len(p) > 1 /\ Len(r) > 1
    BY <1>1, <1>2, <1>6
  <2> QED
    BY <1>3, <1>6, <2>1 DEF Means
<1> QED
  BY <1>4, <1>5, <1>6 DEF p

-----------------------------------------------------------------------------
(* Scopes. *)

\* The scopes around the innermost one, and that one.
Under(a) == SubSeq(a, 1, Len(a) - 1)
Top(a) == a[Len(a)]
With(a, n, p) ==
    Append(Under(a), [x \in DOMAIN Top(a) \cup {n} |-> IF x = n THEN p ELSE Top(a)[x]])

\* The scopes that hold a name, and what getVariable finds in scopes a.
HoldersIn(a, n) == {k \in 1..Len(a) : n \in DOMAIN a[k]}
Held(a, n) == HoldersIn(a, n) # {}
Look(a, n) == a[Greatest(HoldersIn(a, n))][n]

LEMMA StackPushed ==
    ASSUME NEW a \in Seq(Scopes), NEW s \in Scopes
    PROVE  /\ Append(a, s) \in Seq(Scopes) /\ Append(a, s) # <<>>
           /\ Len(Append(a, s)) = Len(a) + 1 /\ Len(a) \in Nat
           /\ Under(Append(a, s)) = a /\ Top(Append(a, s)) = s
<1>1. /\ Append(a, s) \in Seq(Scopes) /\ Append(a, s) # <<>>
      /\ Len(Append(a, s)) = Len(a) + 1 /\ Len(a) \in Nat
  OBVIOUS
<1>2. Under(Append(a, s)) = a /\ Top(Append(a, s)) = s
  BY PoppedPushed, <1>1 DEF Under, Top
<1> QED
  BY <1>1, <1>2

LEMMA StackSplit ==
    ASSUME NEW a \in Seq(Scopes), a # <<>>
    PROVE  /\ Under(a) \in Seq(Scopes) /\ Top(a) \in Scopes
           /\ a = Append(Under(a), Top(a))
           /\ Len(Under(a)) = Len(a) - 1 /\ Len(a) \in Nat \ {0}
           /\ \A k \in 1..(Len(a) - 1) : Under(a)[k] = a[k]
<1>1. Len(a) \in Nat \ {0} /\ Len(a) \in 1..Len(a)
  OBVIOUS
<1>2. Under(a) \in Seq(Scopes) /\ Len(Under(a)) = Len(a) - 1
  BY Popped, PoppedLen DEF Under
<1>3. Top(a) \in Scopes
  BY <1>1 DEF Top
<1>4. \A k \in 1..(Len(a) - 1) : Under(a)[k] = a[k]
  BY <1>1 DEF Under
<1> DEFINE b == Append(Under(a), Top(a))
<1>5. /\ b \in Seq(Scopes) /\ Len(b) = Len(a) /\ b[Len(a)] = Top(a)
      /\ \A k \in 1..(Len(a) - 1) : b[k] = Under(a)[k]
  BY <1>1, <1>2, <1>3
<1>6. \A k \in 1..Len(a) : b[k] = a[k]
  <2> TAKE k \in 1..Len(a)
  <2> HIDE DEF b
  <2>1. k = Len(a) \/ k \in 1..(Len(a) - 1)
    BY <1>1
  <2> QED
    BY <1>4, <1>5, <2>1 DEF Top
<1>7. b = a
  <2> HIDE DEF b
  <2> QED
    BY <1>1, <1>5, <1>6
<1> QED
  BY <1>1, <1>2, <1>3, <1>4, <1>7

\* The innermost scope is looked at first.
LEMMA LookPushed ==
    ASSUME NEW a \in Seq(Scopes), NEW s \in Scopes, NEW n
    PROVE  /\ n \in DOMAIN s => Held(Append(a, s), n) /\ Look(Append(a, s), n) = s[n]
           /\ n \notin DOMAIN s => /\ Held(Append(a, s), n) <=> Held(a, n)
                                   /\ Held(a, n) => Look(Append(a, s), n) = Look(a, n)
<1> DEFINE b == Append(a, s)
           N == Len(a)
           H == HoldersIn(a, n)
           K == HoldersIn(b, n)
<1>1. /\ N \in Nat /\ Len(b) = N + 1 /\ b[N + 1] = s
      /\ \A k \in 1..N : b[k] = a[k]
  OBVIOUS
<1> HIDE DEF b, N
<1>2. H \subseteq 1..N /\ K \subseteq 1..(N + 1)
  BY <1>1 DEF HoldersIn, N
<1>3. /\ \A k \in 1..N : k \in K <=> k \in H
      /\ N + 1 \in K <=> n \in DOMAIN s
  BY <1>1 DEF HoldersIn, N
<1> HIDE DEF H, K
<1>4. ASSUME n \in DOMAIN s PROVE Held(b, n) /\ Look(b, n) = s[n]
  <2>1. N + 1 \in K /\ \A k \in K : k <= N + 1
    BY <1>1, <1>2, <1>3, <1>4
  <2>2. N + 1 \in Nat
    BY <1>1
  <2>3. Greatest(K) = N + 1
    BY <1>2, <2>1, <2>2, GreatestIs
  <2> QED
    BY <1>1, <2>1, <2>3 DEF Held, Look, K
<1>5. ASSUME n \notin DOMAIN s
      PROVE  (Held(b, n) <=> Held(a, n)) /\ (Held(a, n) => Look(b, n) = Look(a, n))
  <2>1. K = H
    <3>1. \A k \in K : k \in 1..N
      BY <1>1, <1>2, <1>3, <1>5
    <3> QED
      BY <1>2, <1>3, <3>1
  <2>2. Held(b, n) <=> Held(a, n)
    BY <2>1 DEF Held, H, K
  <2>3. H # {} => Greatest(H) \in 1..N
    BY <1>1, <1>2, GreatestIs
  <2>4. H # {} => b[Greatest(K)] = a[Greatest(H)]
    BY <1>1, <2>1, <2>3
  <2>5. Held(a, n) => Look(b, n) = Look(a, n)
    BY <2>4 DEF Held, Look, H, K
  <2> QED
    BY <2>2, <2>5
<1> QED
  BY <1>4, <1>5 DEF b

LEMMA LookTop ==
    ASSUME NEW a \in Seq(Scopes), a # <<>>, NEW n
    PROVE  /\ n \in DOMAIN Top(a) => Held(a, n) /\ Look(a, n) = Top(a)[n]
           /\ n \notin DOMAIN Top(a) => /\ Held(a, n) <=> Held(Under(a), n)
                                        /\ Held(a, n) => Look(a, n) = Look(Under(a), n)
<1> DEFINE u == Under(a)
           s == Top(a)
<1>1. u \in Seq(Scopes) /\ s \in Scopes /\ a = Append(u, s)
  BY StackSplit
<1> HIDE DEF u, s
<1>2. /\ n \in DOMAIN s => Held(Append(u, s), n) /\ Look(Append(u, s), n) = s[n]
      /\ n \notin DOMAIN s => /\ Held(Append(u, s), n) <=> Held(u, n)
                              /\ Held(u, n) => Look(Append(u, s), n) = Look(u, n)
  BY <1>1, LookPushed
<1> QED
  BY <1>1, <1>2, Zenon DEF u, s

LEMMA WithIs ==
    ASSUME NEW a \in Seq(Scopes), a # <<>>, NEW n \in Names, NEW p \in Places
    PROVE  /\ With(a, n, p) \in Seq(Scopes) /\ With(a, n, p) # <<>>
           /\ Len(With(a, n, p)) = Len(a) /\ Under(With(a, n, p)) = Under(a)
           /\ \A x : x \in DOMAIN Top(With(a, n, p)) <=> x \in DOMAIN Top(a) \/ x = n
           /\ Top(With(a, n, p))[n] = p
           /\ \A x \in DOMAIN Top(a) : x # n => Top(With(a, n, p))[x] = Top(a)[x]
<1> DEFINE new == [x \in DOMAIN Top(a) \cup {n} |-> IF x = n THEN p ELSE Top(a)[x]]
<1>1. /\ Under(a) \in Seq(Scopes) /\ Top(a) \in Scopes
      /\ Len(Under(a)) = Len(a) - 1 /\ Len(a) \in Nat \ {0}
  BY StackSplit
<1>2. PICK D \in SUBSET Names : Top(a) \in [D -> Places]
  BY <1>1 DEF Scopes
<1>3. new \in [D \cup {n} -> Places] /\ D \cup {n} \in SUBSET Names
  BY <1>2
<1>4. new \in Scopes
  BY <1>3, Zenon DEF Scopes
<1>5. /\ \A x : x \in DOMAIN new <=> x \in DOMAIN Top(a) \/ x = n
      /\ new[n] = p
      /\ \A x \in DOMAIN Top(a) : x # n => new[x] = Top(a)[x]
  OBVIOUS
<1>6. With(a, n, p) = Append(Under(a), new)
  BY DEF With
<1> HIDE DEF new
<1>7. /\ With(a, n, p) \in Seq(Scopes) /\ With(a, n, p) # <<>>
      /\ Len(With(a, n, p)) = Len(Under(a)) + 1
      /\ Under(With(a, n, p)) = Under(a) /\ Top(With(a, n, p)) = new
  BY <1>1, <1>4, <1>6, StackPushed
<1> QED
  BY <1>1, <1>5, <1>7

LEMMA LookWith ==
    ASSUME NEW a \in Seq(Scopes), a # <<>>, NEW n \in Names, NEW p \in Places, NEW x
    PROVE  /\ x = n => Look(With(a, n, p), x) = p
           /\ x # n => /\ Held(With(a, n, p), x) <=> Held(a, x)
                       /\ Held(a, x) => Look(With(a, n, p), x) = Look(a, x)
<1> DEFINE b == With(a, n, p)
<1>1. /\ b \in Seq(Scopes) /\ b # <<>> /\ Under(b) = Under(a)
      /\ \A z : z \in DOMAIN Top(b) <=> z \in DOMAIN Top(a) \/ z = n
      /\ Top(b)[n] = p
      /\ \A y \in DOMAIN Top(a) : y # n => Top(b)[y] = Top(a)[y]
  BY WithIs
<1> HIDE DEF b
<1>3. CASE x = n
  <2>1. x \in DOMAIN Top(b)
    BY <1>1, <1>3
  <2>2. Look(b, x) = Top(b)[x]
    BY <1>1, <2>1, LookTop
  <2> QED
    BY <1>1, <1>3, <2>2 DEF b
<1>4. CASE x # n /\ x \in DOMAIN Top(a)
  <2>1. x \in DOMAIN Top(b)
    BY <1>1, <1>4
  <2>2. Held(b, x) /\ Look(b, x) = Top(b)[x]
    BY <1>1, <2>1, LookTop
  <2>3. Held(a, x) /\ Look(a, x) = Top(a)[x]
    BY <1>4, LookTop
  <2> QED
    BY <1>1, <1>4, <2>2, <2>3 DEF b
<1>5. CASE x # n /\ x \notin DOMAIN Top(a)
  <2>1. x \notin DOMAIN Top(b)
    BY <1>1, <1>5
  <2>2. /\ Held(b, x) <=> Held(Under(b), x)
        /\ Held(b, x) => Look(b, x) = Look(Under(b), x)
    BY <1>1, <2>1, LookTop
  <2>3. /\ Held(a, x) <=> Held(Under(a), x)
        /\ Held(a, x) => Look(a, x) = Look(Under(a), x)
    BY <1>5, LookTop
  <2> QED
    BY <1>1, <1>5, <2>2, <2>3 DEF b
<1> QED
  BY <1>3, <1>4, <1>5

-----------------------------------------------------------------------------
(* What the scopes hold where a statement is met. *)

\* A definition inside of one of the functions m.
Local(m, q) == Len(q) > 1 /\ q[1] \in m

\* The outermost scope holds variables of the module, the others what belongs
\* to the functions m whose bodies are or were analysed.
Good(t, m, a) ==
    /\ a \in Seq(Scopes) /\ a # <<>>
    /\ \A n \in DOMAIN a[1] : a[1][n] = Global(t, n)
    /\ \A k \in 2..Len(a) : \A n \in DOMAIN a[k] : Local(m, a[k][n])

\* The variables among the first statements are defined,
Knows(a, stmts, k) ==
    \A j \in 1..(k - 1) : stmts[j].op = "var" => stmts[j].name \in DOMAIN Top(a)

\* what is found is what is meant at p,
Agrees(t, a, p) == \A n : Held(a, n) => Means(t, p, n, Look(a, n))

\* and both are so at the statement p.
Sees(t, a, p) == Knows(a, Siblings(t, p), Index(p)) /\ Agrees(t, a, p)

LEMMA SeesChild ==
    ASSUME NEW t, NEW a, NEW r \in Places, Even(r), NEW part \in Nat, NEW k \in Nat
    PROVE  Sees(t, a, Child(r, part, k))
             <=> Knows(a, Kids(t, r, part), k) /\ Agrees(t, a, Child(r, part, k))
<1>1. Siblings(t, Child(r, part, k)) = Kids(t, r, part)
  BY StmtAtIsKid
<1>2. Index(Child(r, part, k)) = k
  BY PathFacts
<1> QED
  BY <1>1, <1>2 DEF Sees

LEMMA GoodLook ==
    ASSUME NEW t, NEW m, NEW a, Good(t, m, a), NEW n, Held(a, n)
    PROVE  Look(a, n) = Global(t, n) \/ (Len(a) > 1 /\ Local(m, Look(a, n)))
<1> DEFINE g == Greatest(HoldersIn(a, n))
<1>1. HoldersIn(a, n) \subseteq 1..Len(a) /\ HoldersIn(a, n) # {} /\ Len(a) \in Nat
  BY DEF HoldersIn, Held, Good
<1>2. g \in HoldersIn(a, n)
  BY <1>1, GreatestIs
<1> HIDE DEF g
<1>3. g \in 1..Len(a) /\ n \in DOMAIN a[g]
  BY <1>2 DEF HoldersIn
<1>4. Look(a, n) = a[g][n]
  BY DEF Look, g
<1>5. CASE g = 1
  BY <1>3, <1>4, <1>5 DEF Good
<1>6. CASE g # 1
  <2>1. g \in 2..Len(a) /\ Len(a) > 1
    BY <1>1, <1>3, <1>6
  <2> QED
    BY <1>3, <1>4, <2>1 DEF Good
<1> QED
  BY <1>5, <1>6

\* In the global scope a name means the variable of the module.
LEMMA GoodOutside ==
    ASSUME NEW t, NEW m, NEW a, Good(t, m, a), Len(a) = 1, NEW g
    PROVE  Agrees(t, a, <<g>>)
<1> SUFFICES ASSUME NEW n, Held(a, n) PROVE Means(t, <<g>>, n, Look(a, n))
  BY DEF Agrees
<1>1. Look(a, n) = Global(t, n)
  <2>1. ~(Len(a) > 1)
    OBVIOUS
  <2> QED
    BY <2>1, GoodLook
<1>2. Lexical(t, <<g>>, n) = Global(t, n)
  <2> DEFINE p == <<g>>
  <2>1. Len(p) = 1
    OBVIOUS
  <2>2. 1 \div 2 = 0
    OBVIOUS
  <2> HIDE DEF p
  <2>3. Depth(p) = 0
    BY <2>1, <2>2 DEF Depth
  <2>4. 1..Depth(p) = {} /\ ~(Len(p) > 1)
    BY <2>1, <2>3
  <2>5. {k \in 1..Depth(p) : DefinedAt(t, Upto(p, k), n) # NoDefinition} = {}
    BY <2>4
  <2>6. Lexical(t, p, n) = Global(t, n)
    BY <2>4, <2>5, Zenon DEF Lexical
  <2> QED
    BY <2>6 DEF p
<1> QED
  BY <1>1, <1>2 DEF Means

LEMMA GoodPushed ==
    ASSUME NEW t, NEW m, NEW a, Good(t, m, a), NEW s \in Scopes,
           \A n \in DOMAIN s : Local(m, s[n])
    PROVE  Good(t, m, Append(a, s))
<1> DEFINE b == Append(a, s)
           N == Len(a)
<1>1. a \in Seq(Scopes) /\ a # <<>>
  BY DEF Good
<1>2. /\ b \in Seq(Scopes) /\ b # <<>> /\ N \in Nat \ {0} /\ Len(b) = N + 1 /\ b[N + 1] = s
      /\ \A k \in 1..N : b[k] = a[k]
  BY <1>1
<1> HIDE DEF b, N
<1>3. b[1] = a[1]
  BY <1>2
<1>4. ASSUME NEW k \in 2..Len(b), NEW n \in DOMAIN b[k] PROVE Local(m, b[k][n])
  <2>1. CASE k = N + 1
    BY <1>2, <1>4, <2>1
  <2>2. CASE k # N + 1
    <3>1. k \in 2..N /\ b[k] = a[k]
      BY <1>2, <2>2
    <3> QED
      BY <1>4, <3>1 DEF Good, N
  <2> QED
    BY <2>1, <2>2
<1> QED
  BY <1>2, <1>3, <1>4 DEF Good, b

LEMMA GoodUnder ==
    ASSUME NEW t, NEW m, NEW a, Good(t, m, a), Len(a) > 1
    PROVE  Good(t, m, Under(a)) /\ \A n \in DOMAIN Top(a) : Local(m, Top(a)[n])
<1>1. /\ Under(a) \in Seq(Scopes) /\ Len(Under(a)) = Len(a) - 1 /\ Len(a) \in Nat \ {0}
      /\ \A k \in 1..(Len(a) - 1) : Under(a)[k] = a[k]
  BY StackSplit DEF Good
<1>2. Under(a) # <<>> /\ Under(a)[1] = a[1] /\ Len(a) \in 2..Len(a)
  BY <1>1
<1>3. \A k \in 2..Len(Under(a)) : k \in 2..Len(a) /\ Under(a)[k] = a[k]
  BY <1>1
<1>4. Good(t, m, Under(a))
  BY <1>1, <1>2, <1>3 DEF Good
<1>5. \A n \in DOMAIN Top(a) : Local(m, Top(a)[n])
  BY <1>2 DEF Good, Top
<1> QED
  BY <1>4, <1>5

LEMMA GoodMore ==
    ASSUME NEW t, NEW m, NEW l, m \subseteq l, NEW a, Good(t, m, a) PROVE Good(t, l, a)
BY DEF Good, Local

\* A variable that is defined in a body, and one of the module.
LEMMA GoodWith ==
    ASSUME NEW t, NEW m, NEW a, Good(t, m, a), NEW n \in Names, NEW p \in Places,
           \/ Len(a) = 1 /\ p = Global(t, n)
           \/ Len(a) > 1 /\ Local(m, p)
    PROVE  Good(t, m, With(a, n, p))
<1> DEFINE b == With(a, n, p)
<1>1. a \in Seq(Scopes) /\ a # <<>>
  BY DEF Good
<1>2. /\ b \in Seq(Scopes) /\ b # <<>> /\ Len(b) = Len(a) /\ Under(b) = Under(a)
      /\ \A z : z \in DOMAIN Top(b) <=> z \in DOMAIN Top(a) \/ z = n
      /\ Top(b)[n] = p
      /\ \A x \in DOMAIN Top(a) : x # n => Top(b)[x] = Top(a)[x]
  BY <1>1, WithIs
<1> HIDE DEF b
<1>3. Top(b) \in Scopes /\ b = Append(Under(a), Top(b)) /\ Len(a) \in Nat \ {0}
  BY <1>1, <1>2, StackSplit
<1>4. CASE Len(a) = 1 /\ p = Global(t, n)
  <2>1. Top(b) = b[1] /\ Top(a) = a[1]
    BY <1>2, <1>4 DEF Top
  <2>2. \A x \in DOMAIN b[1] : b[1][x] = Global(t, x)
    BY <1>2, <1>4, <2>1 DEF Good
  <2>3. \A k \in 2..Len(b) : FALSE
    BY <1>2, <1>4
  <2>4. b \in Seq(Scopes) /\ b # <<>>
    BY <1>2
  <2>5. Good(t, m, b)
    BY <2>2, <2>3, <2>4, Zenon DEF Good
  <2> QED
    BY <2>5 DEF b
<1>5. CASE Len(a) > 1 /\ Local(m, p)
  <2>2. Good(t, m, Under(a)) /\ \A x \in DOMAIN Top(a) : Local(m, Top(a)[x])
    BY <1>5, GoodUnder
  <2>3. \A x \in DOMAIN Top(b) : Local(m, Top(b)[x])
    BY <1>2, <1>5, <2>2
  <2>4. Good(t, m, Append(Under(a), Top(b)))
    BY <1>3, <2>2, <2>3, GoodPushed
  <2> QED
    BY <1>3, <2>4 DEF b
<1> QED
  BY <1>4, <1>5


-----------------------------------------------------------------------------
(* From one statement to the next, and down into its parts. *)

\* A statement that does not define a name leaves its meaning to the next one.
LEMMA NextDefined ==
    ASSUME NEW t, NEW r \in Places, Even(r), NEW part \in Nat, NEW k \in Nat, k # 0, NEW n
    PROVE  /\ ~Defines(Kids(t, r, part)[k], n) =>
                 DefinedAt(t, Child(r, part, k + 1), n) = DefinedAt(t, Child(r, part, k), n)
           /\ Defines(Kids(t, r, part)[k], n) /\ Earlier(t, r, part, k, n) = {} =>
                 DefinedAt(t, Child(r, part, k + 1), n) = Child(r, part, k)
<1> DEFINE now == Earlier(t, r, part, k, n)
           next == Earlier(t, r, part, k + 1, n)
           head == InHeadOf(t, r, part, n)
<1>1. /\ k \in next <=> Defines(Kids(t, r, part)[k], n)
      /\ \A j \in next : j = k \/ j \in now
      /\ \A j \in now : j \in next
  <2>1. \A j : j \in 1..((k + 1) - 1) <=> j = k \/ j \in 1..(k - 1)
    OBVIOUS
  <2> QED
    BY <2>1 DEF Earlier
<1>2. /\ now # {} => DefinedAt(t, Child(r, part, k), n) = Child(r, part, Least(now))
      /\ now = {} /\ head # {} => DefinedAt(t, Child(r, part, k), n) = Child(r, Least(head), 1)
      /\ now = {} /\ head = {} => DefinedAt(t, Child(r, part, k), n) = NoDefinition
  BY DefinedAtIs, Zenon
<1>3. /\ next # {} => DefinedAt(t, Child(r, part, k + 1), n) = Child(r, part, Least(next))
      /\ next = {} /\ head # {} => DefinedAt(t, Child(r, part, k + 1), n) = Child(r, Least(head), 1)
      /\ next = {} /\ head = {} => DefinedAt(t, Child(r, part, k + 1), n) = NoDefinition
  <2>1. k + 1 \in Nat
    OBVIOUS
  <2> QED
    BY <2>1, DefinedAtIs, Zenon
<1> HIDE DEF now, next, head
<1>4. ASSUME ~Defines(Kids(t, r, part)[k], n)
      PROVE  DefinedAt(t, Child(r, part, k + 1), n) = DefinedAt(t, Child(r, part, k), n)
  <2>1. next = now
    BY <1>1, <1>4
  <2> QED
    BY <1>2, <1>3, <2>1, Zenon
<1>5. ASSUME Defines(Kids(t, r, part)[k], n), now = {}
      PROVE  DefinedAt(t, Child(r, part, k + 1), n) = Child(r, part, k)
  <2>1. next = {k}
    BY <1>1, <1>5
  <2>2. Least(next) = k /\ next # {}
    BY <2>1, LeastIs
  <2> QED
    BY <1>3, <2>2
<1> QED
  BY <1>4, <1>5 DEF now

LEMMA SeesNext ==
    ASSUME NEW t, NEW a, NEW r \in Places, Even(r), NEW part \in Nat, NEW k \in Nat, k # 0,
           Sees(t, a, Child(r, part, k)), Kids(t, r, part)[k].op # "var"
    PROVE  Sees(t, a, Child(r, part, k + 1))
<1> DEFINE kids == Kids(t, r, part)
<1>1. Knows(a, kids, k) /\ Agrees(t, a, Child(r, part, k))
  BY SeesChild
<1>2. Knows(a, kids, k + 1)
  <2>1. \A j \in 1..((k + 1) - 1) : j = k \/ j \in 1..(k - 1)
    OBVIOUS
  <2> QED
    BY <1>1, <2>1 DEF Knows
<1>3. ASSUME NEW n, Held(a, n) PROVE Means(t, Child(r, part, k + 1), n, Look(a, n))
  <2>1. Means(t, Child(r, part, k), n, Look(a, n))
    BY <1>1, <1>3 DEF Agrees
  <2>2. DefinedAt(t, Child(r, part, k + 1), n) = DefinedAt(t, Child(r, part, k), n)
    BY NextDefined DEF Defines
  <2>3. k + 1 \in Nat /\ k \in Nat
    OBVIOUS
  <2> QED
    BY <2>1, <2>2, <2>3, MeansIs
<1>4. k + 1 \in Nat
  OBVIOUS
<1> QED
  BY <1>2, <1>3, <1>4, SeesChild DEF Agrees

LEMMA SeesDefined ==
    ASSUME NEW t, NEW a \in Seq(Scopes), a # <<>>,
           NEW r \in Places, Even(r), NEW part \in Nat, NEW k \in Nat, k # 0,
           Sees(t, a, Child(r, part, k)), Kids(t, r, part)[k].op = "var",
           NEW x \in Names, Kids(t, r, part)[k].name = x, x \notin DOMAIN Top(a)
    PROVE  Sees(t, With(a, x, Child(r, part, k)), Child(r, part, k + 1))
<1> DEFINE kids == Kids(t, r, part)
           p == Child(r, part, k)
           q == Child(r, part, k + 1)
           b == With(a, x, p)
<1>1. Knows(a, kids, k) /\ Agrees(t, a, p)
  BY SeesChild
<1>0. k + 1 \in Nat /\ k \in Nat
  OBVIOUS
<1>2. p \in Places
  BY PathFacts
<1>3. \A y : y \in DOMAIN Top(b) <=> y \in DOMAIN Top(a) \/ y = x
  <2> HIDE DEF p
  <2> QED
    BY <1>2, WithIs
<1>4. \A n : /\ n = x => Look(b, n) = p
             /\ n # x => (Held(b, n) <=> Held(a, n)) /\ (Held(a, n) => Look(b, n) = Look(a, n))
  BY <1>2, LookWith
<1> HIDE DEF b
<1>5. Knows(b, kids, k + 1)
  <2>1. \A j \in 1..((k + 1) - 1) : j = k \/ j \in 1..(k - 1)
    OBVIOUS
  <2> QED
    BY <1>1, <1>3, <2>1 DEF Knows
<1>6. ASSUME NEW n, Held(b, n) PROVE Means(t, q, n, Look(b, n))
  <2>1. CASE n = x
    <3>1. Earlier(t, r, part, k, n) = {}
      BY <1>1, <2>1 DEF Earlier, Knows, Defines
    <3>2. DefinedAt(t, q, n) = p
      BY <2>1, <3>1, NextDefined DEF Defines
    <3>3. p # NoDefinition
      <4>1. Len(p) = Len(r) + 2 /\ Len(r) \in Nat
        BY <1>0, PathFacts, EvenDepth
      <4> HIDE DEF p
      <4>2. Len(p) # 0
        BY <4>1
      <4> QED
        BY <4>2 DEF NoDefinition
    <3>4. Means(t, q, n, DefinedAt(t, q, n))
      BY <1>0, <3>2, <3>3, MeansIs
    <3> QED
      BY <1>4, <2>1, <3>2, <3>4
  <2>2. CASE n # x
    <3>1. Held(a, n) /\ Look(b, n) = Look(a, n)
      BY <1>4, <1>6, <2>2
    <3>2. Means(t, p, n, Look(a, n))
      BY <1>1, <3>1 DEF Agrees
    <3>3. DefinedAt(t, q, n) = DefinedAt(t, p, n)
      BY <2>2, NextDefined DEF Defines
    <3> QED
      BY <1>0, <3>1, <3>2, <3>3, MeansIs
  <2> QED
    BY <2>1, <2>2
<1>7. Sees(t, b, q)
  BY <1>0, <1>5, <1>6, SeesChild DEF Agrees
<1> QED
  BY <1>7 DEF b

\* A part of the statement at p, behind a scope that holds what the head of
\* the loop defines.
LEMMA SeesBelow ==
    ASSUME NEW t, NEW c \in Seq(Scopes), c # <<>>,
           NEW p \in Places, Even(p), p # <<>>, NEW part \in Nat,
           Agrees(t, Under(c), p),
           \A n : n \in DOMAIN Top(c) <=> InHeadOf(t, p, part, n) # {},
           \A n \in DOMAIN Top(c) : Top(c)[n] = Child(p, Least(InHeadOf(t, p, part, n)), 1)
    PROVE  Sees(t, c, Child(p, part, 1))
<1> DEFINE q == Child(p, part, 1)
<1>1. 1 \in Nat /\ \A n : Earlier(t, p, part, 1, n) = {}
  BY DEF Earlier
<1>2. Knows(c, Kids(t, p, part), 1)
  BY DEF Knows
<1>3. ASSUME NEW n, Held(c, n) PROVE Means(t, q, n, Look(c, n))
  <2>1. CASE n \in DOMAIN Top(c)
    <3>1. Look(c, n) = Child(p, Least(InHeadOf(t, p, part, n)), 1)
      BY <2>1, LookTop
    <3>2. /\ DefinedAt(t, q, n) = Child(p, Least(InHeadOf(t, p, part, n)), 1)
          /\ DefinedAt(t, q, n) # NoDefinition
      BY <1>1, <2>1, DefinedAtIs, ZenonT(60)
    <3>3. Means(t, q, n, DefinedAt(t, q, n))
      BY <1>1, <3>2, MeansIs
    <3> QED
      BY <3>1, <3>2, <3>3
  <2>2. CASE n \notin DOMAIN Top(c)
    <3>1. Held(Under(c), n) /\ Look(c, n) = Look(Under(c), n)
      BY <1>3, <2>2, LookTop
    <3>2. DefinedAt(t, q, n) = NoDefinition
      BY <1>1, <2>2, DefinedAtIs, Zenon
    <3>3. Means(t, p, n, Look(c, n))
      BY <3>1 DEF Agrees
    <3> QED
      BY <1>1, <3>2, <3>3, MeansIs
  <2> QED
    BY <2>1, <2>2
<1> QED
  BY <1>1, <1>2, <1>3, SeesChild DEF Agrees

-----------------------------------------------------------------------------
(* The walk of the scopes along the agenda. *)

\* Statement s stands at p, in a body that is or was analysed or in none.
Placed(t, m, a, p, s) ==
    /\ p \in Places /\ s = StmtAt(t, p)
    /\ \/ Len(a) > 1 /\ Even(p) /\ p # <<>> /\ p[1] \in m
       \/ Len(a) = 1 /\ Len(p) = 1

\* The branch that is left for later is one of an if that is met with a.
Waits(t, m, a, other) ==
    \E p \in Places, part \in Nat :
        /\ Even(p) /\ p # <<>> /\ p[1] \in m
        /\ StmtAt(t, p).op = "if" /\ Kids(t, p, part) \in Seq(Statements)
        /\ other = Parts(p, part, Kids(t, p, part))
        /\ Agrees(t, a, p)

\* How an item finds a variable: as a new one of its scope, or as one that
\* will be reported.
Defining(a, item, b) ==
    \/ item.stmt.op # "var" /\ b = a /\ (item.do = "finish" => Len(a) > 1)
    \/ /\ item.stmt.op = "var" /\ item.stmt.name \notin DOMAIN Top(a)
       /\ b = With(a, item.stmt.name, item.at)
    \/ /\ item.stmt.op = "var" /\ item.stmt.name \in DOMAIN Top(a)
       /\ item.do = "stmt" /\ b = <<>>

\* An item that is met with scopes a and leaves scopes b.
Meets(t, a, item, b) ==
    \/ item.do \in {"moveTo", "jumpTo"} /\ b = a
    \/ item.do = "openScope" /\ b = Append(a, <<>>)
    \/ item.do \in {"closeScope", "closeLoop", "endBody"} /\ Len(a) > 1 /\ b = Under(a)
    \/ item.do = "loopCond" /\ b = a /\ Len(a) > 1 /\ Sees(t, a, item.at)

\* No scopes at all stand for what comes after a report.
Step(t, m, a, item, b) ==
    \/ a = <<>> /\ b = <<>>
    \/ Good(t, m, a) /\ Meets(t, a, item, b)
    \/ Good(t, m, a) /\ item.do = "mute" /\ b = a /\ Len(a) > 1 /\ Waits(t, m, a, item.other)
    \/ /\ Good(t, m, a) /\ item.do \in {"stmt", "finish"}
       /\ Placed(t, m, a, item.at, item.stmt) /\ Sees(t, a, item.at) /\ Defining(a, item, b)

Walk(t, m, a, items, b) ==
    \E h \in [1..(Len(items) + 1) -> Seq(Scopes)] :
        /\ h[1] = a /\ h[Len(items) + 1] = b
        /\ \A k \in 1..Len(items) : Step(t, m, h[k], items[k], h[k + 1])

\* A walk to b, unless something is reported on the way.
Goes(t, m, a, items, b) == Walk(t, m, a, items, b) \/ Walk(t, m, a, items, <<>>)

LEMMA WalkNil ==
    ASSUME NEW t, NEW m, NEW a \in Seq(Scopes) PROVE Walk(t, m, a, <<>>, a)
<1> DEFINE h == [k \in 1..1 |-> a]
<1>1. Len(<<>>) = 0 /\ 1..Len(<<>>) = {}
  OBVIOUS
<1>2. h \in [1..(Len(<<>>) + 1) -> Seq(Scopes)] /\ h[1] = a /\ h[Len(<<>>) + 1] = a
  BY <1>1
<1> QED
  BY <1>1, <1>2 DEF Walk

LEMMA GoesNowhere ==
    ASSUME NEW t, NEW m, NEW a, a # <<>>, NEW b, Goes(t, m, a, <<>>, b) PROVE a = b
BY DEF Goes, Walk

LEMMA WalkHead ==
    ASSUME NEW t, NEW m, NEW S, NEW a, NEW b, NEW items \in Seq(S), items # <<>>,
           Walk(t, m, a, items, b)
    PROVE  \E c \in Seq(Scopes) : Step(t, m, a, Head(items), c) /\ Walk(t, m, c, Tail(items), b)
<1> DEFINE n == Len(items)
<1>1. PICK h \in [1..(n + 1) -> Seq(Scopes)] :
        /\ h[1] = a /\ h[n + 1] = b
        /\ \A k \in 1..n : Step(t, m, h[k], items[k], h[k + 1])
  BY DEF Walk
<1> DEFINE g == [k \in 1..n |-> h[k + 1]]
<1>2. n \in Nat \ {0} /\ Len(Tail(items)) = n - 1
  OBVIOUS
<1>3. \A k \in 1..(n - 1) : Tail(items)[k] = items[k + 1]
  OBVIOUS
<1>4. g \in [1..(Len(Tail(items)) + 1) -> Seq(Scopes)]
  BY <1>2
<1>5. \A k \in 1..n : g[k] = h[k + 1]
  OBVIOUS
<1> HIDE DEF g
<1>6. \A k \in 1..(n - 1) : Step(t, m, g[k], Tail(items)[k], g[k + 1])
  <2> TAKE k \in 1..(n - 1)
  <2>1. k + 1 \in 1..n /\ Step(t, m, h[k + 1], items[k + 1], h[(k + 1) + 1])
    BY <1>1, <1>2
  <2> QED
    BY <2>1, <1>2, <1>3, <1>5
<1>7. h[2] \in Seq(Scopes) /\ Step(t, m, a, Head(items), h[2]) /\ g[1] = h[2] /\ g[n] = b
  BY <1>1, <1>2, <1>5
<1>8. Walk(t, m, h[2], Tail(items), b)
  BY <1>2, <1>4, <1>6, <1>7, SMTT(120) DEF Walk
<1> QED
  BY <1>7, <1>8

LEMMA WalkConcat ==
    ASSUME NEW t, NEW m, NEW S, NEW a, NEW b, NEW c, NEW x \in Seq(S), NEW y \in Seq(S),
           Walk(t, m, a, x, b), Walk(t, m, b, y, c)
    PROVE  Walk(t, m, a, x \o y, c)
<1> DEFINE i == Len(x)
           n == Len(y)
           xy == x \o y
<1>1. PICK f \in [1..(i + 1) -> Seq(Scopes)] :
        /\ f[1] = a /\ f[i + 1] = b
        /\ \A k \in 1..i : Step(t, m, f[k], x[k], f[k + 1])
  BY DEF Walk
<1>2. PICK g \in [1..(n + 1) -> Seq(Scopes)] :
        /\ g[1] = b /\ g[n + 1] = c
        /\ \A k \in 1..n : Step(t, m, g[k], y[k], g[k + 1])
  BY DEF Walk
<1> DEFINE h == [k \in 1..(i + n + 1) |-> IF k <= i THEN f[k] ELSE g[k - i]]
<1>3. /\ i \in Nat /\ n \in Nat /\ Len(xy) = i + n
      /\ \A k \in 1..i : xy[k] = x[k]
      /\ \A k \in 1..n : xy[i + k] = y[k]
  OBVIOUS
<1>4. /\ \A k \in 1..(i + 1) : h[k] = f[k]
      /\ \A k \in 1..(n + 1) : h[i + k] = g[k]
  BY <1>1, <1>2, <1>3
<1>5. h \in [1..(i + n + 1) -> Seq(Scopes)]
  BY <1>1, <1>2, <1>3
<1> HIDE DEF h, xy
<1>6. \A k \in 1..(i + n) : Step(t, m, h[k], xy[k], h[k + 1])
  <2> TAKE k \in 1..(i + n)
  <2>1. CASE k \in 1..i
    BY <2>1, <1>1, <1>3, <1>4
  <2>2. CASE k \notin 1..i
    <3>1. k - i \in 1..n /\ i + (k - i) = k /\ i + ((k - i) + 1) = k + 1
      BY <2>2, <1>3
    <3>2. h[k] = g[k - i] /\ h[k + 1] = g[(k - i) + 1] /\ xy[k] = y[k - i]
      BY <3>1, <1>3, <1>4, SMTT(60)
    <3> QED
      BY <3>1, <3>2, <1>2
  <2> QED
    BY <2>1, <2>2
<1>7. h[1] = a /\ h[Len(xy) + 1] = c
  BY <1>1, <1>2, <1>3, <1>4
<1> QED
  BY <1>3, <1>5, <1>6, <1>7 DEF Walk, xy

LEMMA WalkOne ==
    ASSUME NEW t, NEW m, NEW a \in Seq(Scopes), NEW b \in Seq(Scopes), NEW item,
           Step(t, m, a, item, b)
    PROVE  Walk(t, m, a, <<item>>, b)
<1> DEFINE h == [k \in 1..2 |-> IF k = 1 THEN a ELSE b]
<1>1. Len(<<item>>) = 1 /\ <<item>>[1] = item
  OBVIOUS
<1>2. h \in [1..2 -> Seq(Scopes)] /\ h[1] = a /\ h[2] = b
  OBVIOUS
<1> HIDE DEF h
<1> QED
  BY <1>1, <1>2 DEF Walk

\* Behind a report everything is passed over.
LEMMA WalkDoomed ==
    ASSUME NEW t, NEW m, NEW S, NEW items \in Seq(S) PROVE Walk(t, m, <<>>, items, <<>>)
<1> DEFINE h == [k \in 1..(Len(items) + 1) |-> <<>>]
<1>1. Len(items) \in Nat /\ <<>> \in Seq(Scopes)
  OBVIOUS
<1>2. /\ h \in [1..(Len(items) + 1) -> Seq(Scopes)]
      /\ \A k \in 1..(Len(items) + 1) : h[k] = <<>>
  BY <1>1
<1> HIDE DEF h
<1>3. \A k \in 1..Len(items) : Step(t, m, h[k], items[k], h[k + 1])
  BY <1>1, <1>2 DEF Step
<1> QED
  BY <1>1, <1>2, <1>3 DEF Walk

\* The same of walks that may end with a report.
LEMMA GoesHead ==
    ASSUME NEW t, NEW m, NEW S, NEW a, NEW b, NEW items \in Seq(S), items # <<>>,
           Goes(t, m, a, items, b)
    PROVE  \E c \in Seq(Scopes) : Step(t, m, a, Head(items), c) /\ Goes(t, m, c, Tail(items), b)
<1>1. CASE Walk(t, m, a, items, b)
  BY <1>1, WalkHead DEF Goes
<1>2. CASE Walk(t, m, a, items, <<>>)
  BY <1>2, WalkHead DEF Goes
<1> QED
  BY <1>1, <1>2 DEF Goes

LEMMA GoesConcat ==
    ASSUME NEW t, NEW m, NEW S, NEW a, NEW b, NEW c, NEW x \in Seq(S), NEW y \in Seq(S),
           Goes(t, m, a, x, b), Goes(t, m, b, y, c)
    PROVE  Goes(t, m, a, x \o y, c)
<1>1. CASE Walk(t, m, a, x, b) /\ Walk(t, m, b, y, c)
  BY <1>1, WalkConcat DEF Goes
<1>2. CASE Walk(t, m, a, x, b) /\ Walk(t, m, b, y, <<>>)
  BY <1>2, WalkConcat DEF Goes
<1>3. CASE Walk(t, m, a, x, <<>>)
  <2>1. Walk(t, m, <<>>, y, <<>>)
    BY WalkDoomed
  <2>2. Walk(t, m, a, x \o y, <<>>)
    BY <1>3, <2>1, WalkConcat
  <2> QED
    BY <2>2 DEF Goes
<1> QED
  BY <1>1, <1>2, <1>3 DEF Goes

LEMMA GoesOne ==
    ASSUME NEW t, NEW m, NEW a \in Seq(Scopes), NEW b \in Seq(Scopes), NEW item,
           Step(t, m, a, item, b)
    PROVE  Goes(t, m, a, <<item>>, b)
BY WalkOne DEF Goes

\* One more function leaves every walk as it is.
LEMMA StepMore ==
    ASSUME NEW t, NEW m, NEW l, m \subseteq l, NEW a, NEW item, NEW b, Step(t, m, a, item, b)
    PROVE  Step(t, l, a, item, b)
<1>1. Good(t, m, a) => Good(t, l, a)
  BY GoodMore
<1>2. \A p, s : Placed(t, m, a, p, s) => Placed(t, l, a, p, s)
  BY DEF Placed
<1>3. \A o : Waits(t, m, a, o) => Waits(t, l, a, o)
  BY DEF Waits
<1> QED
  BY <1>1, <1>2, <1>3, Zenon DEF Step

LEMMA GoesMore ==
    ASSUME NEW t, NEW m, NEW l, m \subseteq l, NEW a, NEW items, NEW b, Goes(t, m, a, items, b)
    PROVE  Goes(t, l, a, items, b)
<1>1. \A c : Walk(t, m, a, items, c) => Walk(t, l, a, items, c)
  BY StepMore DEF Walk
<1> QED
  BY <1>1 DEF Goes

-----------------------------------------------------------------------------
(* Lists of statements. *)

\* The function that a part of the statement at r is in.
Owner(r, part) == IF r = <<>> THEN part ELSE r[1]

LEMMA ChildIsPlaced ==
    ASSUME NEW t, NEW m, NEW a, Len(a) > 1, NEW r \in Places, Even(r), NEW part \in Nat,
           NEW k \in Nat, Owner(r, part) \in m
    PROVE  Placed(t, m, a, Child(r, part, k), Kids(t, r, part)[k])
<1> DEFINE p == Child(r, part, k)
           s == Kids(t, r, part)[k]
<1>0. p \in Places /\ Even(p)
  BY PathFacts
<1>1. Len(p) = Len(r) + 2 /\ Len(r) \in Nat
  BY PathFacts, EvenDepth
<1>2. p[1] \in m
  <2>1. p[1] = IF r = <<>> THEN part ELSE r[1]
    BY PathFacts
  <2> HIDE DEF p
  <2> QED
    BY <2>1 DEF Owner
<1>3. StmtAt(t, p) = s
  BY StmtAtIsKid
<1> HIDE DEF p, s
<1>4. p # <<>>
  BY <1>1
<1> QED
  BY <1>0, <1>2, <1>3, <1>4, Zenon DEF Placed, p, s

\* What is known behind a statement that was met with scopes c.
Passed(t, m, c, s, p, q, d) ==
    /\ Good(t, m, d) /\ Len(d) = Len(c) /\ Under(d) = Under(c) /\ Sees(t, d, q)
    /\ s.op # "var" => d = c
    /\ s.op = "var" => s.name \notin DOMAIN Top(c) /\ d = With(c, s.name, p)

LEMMA StepStmt ==
    ASSUME NEW t, NEW m, NEW c, Good(t, m, c), Len(c) > 1,
           NEW r \in Places, Even(r), NEW part \in Nat, NEW k \in Nat, k # 0,
           Owner(r, part) \in m, Kids(t, r, part)[k] \in Statements,
           Sees(t, c, Child(r, part, k))
    PROVE  \E d \in Seq(Scopes) :
              /\ Step(t, m, c, [do |-> "stmt", at |-> Child(r, part, k),
                                stmt |-> Kids(t, r, part)[k]], d)
              /\ d = <<>> \/ Passed(t, m, c, Kids(t, r, part)[k], Child(r, part, k),
                                    Child(r, part, k + 1), d)
<1> DEFINE s == Kids(t, r, part)[k]
           p == Child(r, part, k)
           q == Child(r, part, k + 1)
           item == [do |-> "stmt", at |-> p, stmt |-> s]
<1>1. Placed(t, m, c, p, s)
  BY ChildIsPlaced
<1>2. Sees(t, c, p) /\ c \in Seq(Scopes) /\ c # <<>>
  BY DEF Good
<1>3. p \in Places
  BY PathFacts
<1>4. item.do = "stmt" /\ item.at = p /\ item.stmt = s
  OBVIOUS
<1>5. s.op # "var" => Sees(t, c, q)
  BY SeesNext
<1>6. s.op = "var" => s.name \in Names
  BY NamesOfStatements
<1>7. s.op = "var" /\ s.name \notin DOMAIN Top(c) => Sees(t, With(c, s.name, p), q)
  BY <1>2, <1>6, SeesDefined
<1>8. s.op = "var" /\ s.name \notin DOMAIN Top(c) => Local(m, p)
  <2>1. Len(p) = Len(r) + 2 /\ Len(r) \in Nat
    BY PathFacts, EvenDepth
  <2>2. p[1] = Owner(r, part)
    BY PathFacts DEF Owner
  <2> HIDE DEF p
  <2> QED
    BY <2>1, <2>2 DEF Local
<1> HIDE DEF item, s, p, q
<1>9. ASSUME NEW d, Defining(c, item, d) PROVE Step(t, m, c, item, d)
  BY <1>1, <1>2, <1>4, <1>9, Zenon DEF Step
<1>10. CASE s.op # "var"
  <2>1. Defining(c, item, c)
    BY <1>4, <1>10 DEF Defining
  <2>2. Passed(t, m, c, s, p, q, c)
    BY <1>5, <1>10 DEF Passed
  <2> QED
    BY <1>2, <1>9, <2>1, <2>2 DEF item, s, p, q
<1>11. CASE s.op = "var" /\ s.name \in DOMAIN Top(c)
  <2>1. Defining(c, item, <<>>) /\ <<>> \in Seq(Scopes)
    BY <1>4, <1>11 DEF Defining
  <2> QED
    BY <1>9, <2>1 DEF item, s, p, q
<1>12. CASE s.op = "var" /\ s.name \notin DOMAIN Top(c)
  <2> DEFINE d == With(c, s.name, p)
  <2>1. Defining(c, item, d)
    BY <1>4, <1>12 DEF Defining
  <2>2. d \in Seq(Scopes) /\ Len(d) = Len(c) /\ Under(d) = Under(c)
    BY <1>2, <1>3, <1>6, <1>12, WithIs
  <2>3. Good(t, m, d)
    BY <1>3, <1>6, <1>8, <1>12, GoodWith
  <2>4. Sees(t, d, q)
    BY <1>7, <1>12
  <2> HIDE DEF d
  <2>5. Passed(t, m, c, s, p, q, d)
    BY <1>12, <2>2, <2>3, <2>4 DEF Passed, d
  <2> QED
    BY <1>9, <2>1, <2>2, <2>5 DEF item, s, p, q
<1> QED
  BY <1>10, <1>11, <1>12

\* A list of statements, from scopes that see its first one.
LEMMA GoesParts ==
    ASSUME NEW t, NEW m, NEW a, Good(t, m, a), Len(a) > 1,
           NEW r \in Places, Even(r), NEW part \in Nat, Owner(r, part) \in m,
           Kids(t, r, part) \in Seq(Statements),
           Sees(t, a, Child(r, part, 1))
    PROVE  \E c : /\ Goes(t, m, a, Parts(r, part, Kids(t, r, part)), c)
                  /\ Good(t, m, c) /\ Len(c) = Len(a) /\ Under(c) = Under(a)
<1> DEFINE kids == Kids(t, r, part)
           items == Parts(r, part, kids)
           upto(j) == SubSeq(items, 1, j)
           N == Len(kids)
           Like(c) == Good(t, m, c) /\ Len(c) = Len(a) /\ Under(c) = Under(a)
           Done(j) == \/ Walk(t, m, a, upto(j), <<>>)
                      \/ \E c : /\ Walk(t, m, a, upto(j), c) /\ Like(c)
                                /\ Sees(t, c, Child(r, part, j + 1))
           S == {j \in Nat : j <= N => Done(j)}
<1>1. /\ items \in Seq(StmtItems) /\ Len(items) = N /\ N \in Nat
      /\ \A k \in 1..N : kids[k] \in Statements
  BY PartsType
<1>2. \A k \in 1..N : items[k] = [do |-> "stmt", at |-> Child(r, part, k), stmt |-> kids[k]]
  BY DEF Parts, Child
<1> HIDE DEF items, N, kids
<1>3. \A j \in Nat : j <= N => upto(j) \in Seq(StmtItems)
  <2> SUFFICES ASSUME NEW j \in Nat, j <= N PROVE upto(j) \in Seq(StmtItems)
    OBVIOUS
  <2>1. \A k \in 1..j : items[k] \in StmtItems
    BY <1>1
  <2>2. 1 \in Int /\ j \in Int
    OBVIOUS
  <2> QED
    BY <2>1, <2>2, SubSeqProperties
<1>4. 0 \in S
  <2>1. upto(0) = <<>>
    BY <1>1
  <2>2. Walk(t, m, a, <<>>, a)
    BY WalkNil DEF Good
  <2>3. 0 + 1 = 1
    OBVIOUS
  <2>4. Done(0)
    BY <2>1, <2>2, <2>3
  <2> QED
    BY <2>4
<1>5. ASSUME NEW j \in Nat, j \in S PROVE j + 1 \in S
  <2> SUFFICES ASSUME j + 1 <= N PROVE Done(j + 1)
    OBVIOUS
  <2> DEFINE k == j + 1
             one == <<items[k]>>
  <2>1. k \in Nat /\ k # 0 /\ k \in 1..N /\ j <= N
    BY <1>1
  <2>2. upto(k) = upto(j) \o one
    BY <1>1, <2>1
  <2>3. upto(j) \in Seq(StmtItems) /\ one \in Seq(StmtItems)
    BY <1>1, <1>3, <2>1
  <2>4. Done(j)
    BY <1>5, <2>1
  <2> HIDE DEF upto, k, one
  <2>5. ASSUME NEW b, NEW c, Walk(t, m, a, upto(j), b), Walk(t, m, b, one, c)
        PROVE  Walk(t, m, a, upto(k), c)
    <3>1. Walk(t, m, a, upto(j) \o one, c)
      BY <2>3, <2>5, WalkConcat
    <3> QED
      BY <2>2, <3>1
  <2>6. CASE Walk(t, m, a, upto(j), <<>>)
    <3>1. Walk(t, m, <<>>, one, <<>>)
      BY <2>3, WalkDoomed
    <3>2. Walk(t, m, a, upto(k), <<>>)
      BY <2>5, <2>6, <3>1
    <3> QED
      BY <3>2 DEF k
  <2>7. CASE \E c : /\ Walk(t, m, a, upto(j), c) /\ Like(c)
                    /\ Sees(t, c, Child(r, part, j + 1))
    <3>1. PICK c : /\ Walk(t, m, a, upto(j), c) /\ Like(c)
                   /\ Sees(t, c, Child(r, part, k))
      BY <2>7 DEF k
    <3>2. c \in Seq(Scopes) /\ Good(t, m, c) /\ Len(c) > 1
      BY <3>1 DEF Good
    <3>3. kids[k] \in Statements /\ items[k] = [do |-> "stmt", at |-> Child(r, part, k), stmt |-> kids[k]]
      BY <1>1, <1>2, <2>1
    <3>4. PICK d \in Seq(Scopes) :
            /\ Step(t, m, c, items[k], d)
            /\ d = <<>> \/ Passed(t, m, c, kids[k], Child(r, part, k), Child(r, part, k + 1), d)
      BY <2>1, <3>1, <3>2, <3>3, StepStmt DEF kids
    <3>5. Walk(t, m, a, upto(k), d)
      BY <2>5, <3>1, <3>2, <3>4, WalkOne DEF one
    <3>6. CASE d = <<>>
      BY <3>5, <3>6 DEF k
    <3>7. CASE d # <<>>
      <4>1. Passed(t, m, c, kids[k], Child(r, part, k), Child(r, part, k + 1), d)
        BY <3>4, <3>7
      <4>2. Like(d) /\ Sees(t, d, Child(r, part, k + 1))
        BY <3>1, <4>1 DEF Passed
      <4> QED
        BY <3>5, <4>2 DEF k
    <3> QED
      BY <3>6, <3>7
  <2> QED
    BY <2>4, <2>6, <2>7
<1>6. Done(N)
  <2> HIDE DEF Done
  <2>1. N \in S
    BY <1>1, <1>4, <1>5, SetInduction
  <2> QED
    BY <1>1, <2>1
<1>7. upto(N) = items
  BY <1>1
<1>8. CASE Walk(t, m, a, upto(N), <<>>)
  BY <1>7, <1>8 DEF Goes, items, kids
<1>9. CASE \E c : Walk(t, m, a, upto(N), c) /\ Like(c)
  BY <1>7, <1>9 DEF Goes, items, kids
<1> QED
  BY <1>6, <1>8, <1>9

-----------------------------------------------------------------------------
(* Branches and loops. *)

\* The innermost of the scopes c holds what stands in the head of the loop
\* before a part.
HeadIs(t, p, part, c) ==
    \A n : /\ n \in DOMAIN Top(c) <=> InHeadOf(t, p, part, n) # {}
           /\ n \in DOMAIN Top(c) => Top(c)[n] = Child(p, Least(InHeadOf(t, p, part, n)), 1)

LEMMA NewScope ==
    ASSUME NEW t, NEW m, NEW a, Good(t, m, a)
    PROVE  /\ Good(t, m, Append(a, <<>>)) /\ Len(Append(a, <<>>)) > 1
           /\ Under(Append(a, <<>>)) = a /\ DOMAIN Top(Append(a, <<>>)) = {}
<1> DEFINE e == <<>>
           c == Append(a, e)
<1>1. e \in Scopes /\ DOMAIN e = {}
  BY EmptyScope
<1>2. a \in Seq(Scopes) /\ a # <<>> /\ Len(a) \in Nat /\ Len(a) # 0
  BY DEF Good
<1> HIDE DEF e
<1>3. Good(t, m, c)
  BY <1>1, GoodPushed
<1>4. Len(c) = Len(a) + 1 /\ Under(c) = a /\ Top(c) = e
  BY <1>1, <1>2, StackPushed
<1> HIDE DEF c
<1>5. Len(c) > 1
  BY <1>2, <1>4
<1> QED
  BY <1>1, <1>3, <1>4, <1>5 DEF c, e

\* No part of an if stands behind a head, nor does the first part of a loop.
LEMMA NoHead ==
    ASSUME NEW t, NEW p, NEW part, StmtAt(t, p).op # "for" \/ part = 1,
           NEW c, DOMAIN Top(c) = {}
    PROVE  HeadIs(t, p, part, c)
<1>1. \A n : InHeadOf(t, p, part, n) = {}
  <2> TAKE n
  <2>1. ~(1 < 1) /\ ~(3 < 1)
    OBVIOUS
  <2> QED
    BY <2>1 DEF InHeadOf
<1> QED
  BY <1>1 DEF HeadIs

LEMMA SeesHead ==
    ASSUME NEW t, NEW c \in Seq(Scopes), c # <<>>, NEW p \in Places, Even(p), p # <<>>,
           NEW part \in Nat, Agrees(t, Under(c), p), HeadIs(t, p, part, c)
    PROVE  Sees(t, c, Child(p, part, 1))
BY SeesBelow DEF HeadIs

\* The statement x of the head is passed, and y is the next part.
LEMMA HeadNext ==
    ASSUME NEW t, NEW p \in Places, Even(p), p # <<>>, StmtAt(t, p).op = "for",
           NEW x, NEW y, (x = 1 /\ y \in {2, 3}) \/ (x = 3 /\ y = 4),
           NEW s, s = StmtsIn(StmtAt(t, p), x)[1],
           NEW c \in Seq(Scopes), c # <<>>, HeadIs(t, p, x, c)
    PROVE  /\ s.op # "var" => HeadIs(t, p, y, c)
           /\ s.op = "var" /\ s.name \in Names /\ s.name \notin DOMAIN Top(c) =>
                 HeadIs(t, p, y, With(c, s.name, Child(p, x, 1)))
           /\ s.op = "var" /\ s.name \in DOMAIN Top(c) => HeadIs(t, p, y, c)
<1> DEFINE old(n) == InHeadOf(t, p, x, n)
           new(n) == InHeadOf(t, p, y, n)
<1>1. \A n : /\ ~Defines(s, n) => new(n) = old(n)
             /\ Defines(s, n) /\ old(n) = {} => new(n) = {x}
             /\ Defines(s, n) /\ old(n) # {} => new(n) = {1, 3} /\ old(n) = {1}
  <2> TAKE n
  <2> DEFINE D(i) == Defines(StmtsIn(StmtAt(t, p), i)[1], n)
  <2>1. \A i, z : i \in InHeadOf(t, p, z, n) <=> i \in {1, 3} /\ i < z /\ D(i)
    BY DEF InHeadOf
  <2>2. D(x) <=> Defines(s, n)
    OBVIOUS
  <2> HIDE DEF D, old, new
  <2>3. CASE x = 1
    <3>1. \A i : i \in new(n) <=> i = 1 /\ D(1)
      BY <2>1, <2>3 DEF new
    <3>2. \A i : i \notin old(n)
      BY <2>1, <2>3 DEF old
    <3>3. D(1) <=> Defines(s, n)
      BY <2>2, <2>3
    <3>4. ~Defines(s, n) => \A i : i \in new(n) <=> i \in old(n)
      BY <3>1, <3>2, <3>3
    <3>5. Defines(s, n) => \A i : i \in new(n) <=> i = x
      BY <2>3, <3>1, <3>3
    <3>6. old(n) = {}
      BY <3>2
    <3> QED
      BY <3>4, <3>5, <3>6
  <2>4. CASE x = 3
    <3>1. \A i : i \in new(n) <=> (i = 1 /\ D(1)) \/ (i = 3 /\ D(3))
      BY <2>1, <2>4 DEF new
    <3>2. \A i : i \in old(n) <=> i = 1 /\ D(1)
      BY <2>1, <2>4 DEF old
    <3>3. D(3) <=> Defines(s, n)
      BY <2>2, <2>4
    <3>4. ~Defines(s, n) => \A i : i \in new(n) <=> i \in old(n)
      BY <3>1, <3>2, <3>3
    <3>5. Defines(s, n) /\ old(n) = {} => \A i : i \in new(n) <=> i = x
      BY <2>4, <3>1, <3>2, <3>3
    <3>6. Defines(s, n) /\ old(n) # {} => /\ \A i : i \in new(n) <=> i \in {1, 3}
                                          /\ \A i : i \in old(n) <=> i = 1
      BY <3>1, <3>2, <3>3
    <3> QED
      BY <3>4, <3>5, <3>6
  <2> QED
    BY <2>3, <2>4
<1> HIDE DEF old, new
<1>2. \A n : /\ n \in DOMAIN Top(c) <=> old(n) # {}
             /\ n \in DOMAIN Top(c) => Top(c)[n] = Child(p, Least(old(n)), 1)
  BY DEF HeadIs, old
<1>3. ASSUME s.op # "var" PROVE HeadIs(t, p, y, c)
  <2>1. \A n : new(n) = old(n)
    BY <1>1, <1>3 DEF Defines
  <2> QED
    BY <1>2, <2>1 DEF HeadIs, new
<1>4. ASSUME s.op = "var", s.name \in Names, s.name \notin DOMAIN Top(c)
      PROVE  HeadIs(t, p, y, With(c, s.name, Child(p, x, 1)))
  <2> DEFINE q == Child(p, x, 1)
             d == With(c, s.name, q)
  <2>0. x \in Nat /\ 1 \in Nat
    OBVIOUS
  <2>1. q \in Places
    BY <2>0, PathFacts
  <2> HIDE DEF q
  <2>2. \A n : n \in DOMAIN Top(d) <=> n \in DOMAIN Top(c) \/ n = s.name
    BY <1>4, <2>1, WithIs
  <2>3. Top(d)[s.name] = q
    BY <1>4, <2>1, WithIs
  <2>4. \A n \in DOMAIN Top(c) : n # s.name => Top(d)[n] = Top(c)[n]
    BY <1>4, <2>1, WithIs
  <2> HIDE DEF d
  <2>5. ASSUME NEW n
        PROVE  /\ n \in DOMAIN Top(d) <=> new(n) # {}
               /\ n \in DOMAIN Top(d) => Top(d)[n] = Child(p, Least(new(n)), 1)
    <3>1. CASE n = s.name
      <4>1. new(n) = {x}
        BY <1>1, <1>2, <1>4, <3>1 DEF Defines
      <4>2. Least(new(n)) = x
        BY <2>0, <4>1, LeastIs
      <4> QED
        BY <2>2, <2>3, <3>1, <4>1, <4>2 DEF q
    <3>2. CASE n # s.name
      <4>1. new(n) = old(n)
        BY <1>1, <3>2 DEF Defines
      <4> QED
        BY <1>2, <2>2, <2>4, <3>2, <4>1
    <3> QED
      BY <3>1, <3>2
  <2>6. HeadIs(t, p, y, d)
    BY <2>5 DEF HeadIs, new
  <2> QED
    BY <2>6 DEF d, q
<1>5. ASSUME s.op = "var", s.name \in DOMAIN Top(c) PROVE HeadIs(t, p, y, c)
  <2>1. ASSUME NEW n
        PROVE  /\ n \in DOMAIN Top(c) <=> new(n) # {}
               /\ n \in DOMAIN Top(c) => Top(c)[n] = Child(p, Least(new(n)), 1)
    <3>1. CASE n = s.name
      <4>1. new(n) = {1, 3} /\ old(n) = {1}
        BY <1>1, <1>2, <1>5, <3>1 DEF Defines
      <4>2. Least(new(n)) = 1 /\ Least(old(n)) = 1
        <5> DEFINE T == {1, 3}
                   U == {1}
        <5>1. T \subseteq Nat /\ 1 \in T /\ \A i \in T : 1 <= i
          OBVIOUS
        <5>2. U \subseteq Nat /\ 1 \in U /\ \A i \in U : 1 <= i
          OBVIOUS
        <5>3. new(n) = T /\ old(n) = U
          BY <4>1
        <5> HIDE DEF T, U
        <5> QED
          BY <5>1, <5>2, <5>3, LeastIs
      <4> QED
        BY <1>2, <1>5, <3>1, <4>1, <4>2
    <3>2. CASE n # s.name
      <4>1. new(n) = old(n)
        BY <1>1, <3>2 DEF Defines
      <4> QED
        BY <1>2, <4>1
    <3> QED
      BY <3>1, <3>2
  <2> QED
    BY <2>1 DEF HeadIs, new
<1> QED
  BY <1>3, <1>4, <1>5

\* A branch with its scope.
LEMMA GoesScoped ==
    ASSUME NEW t, NEW m, NEW a, Good(t, m, a),
           NEW p \in Places, Even(p), p # <<>>, p[1] \in m, NEW part \in Nat,
           StmtAt(t, p).op # "for", Kids(t, p, part) \in Seq(Statements), Agrees(t, a, p)
    PROVE  Goes(t, m, a, Scoped(Parts(p, part, Kids(t, p, part))), a)
<1> DEFINE c == Append(a, <<>>)
           items == Parts(p, part, Kids(t, p, part))
           I == StmtItems \cup ScopeItems
           open == [do |-> "openScope"]
           close == [do |-> "closeScope"]
<1>1. Good(t, m, c) /\ Len(c) > 1 /\ Under(c) = a /\ DOMAIN Top(c) = {}
  BY NewScope
<1>2. items \in Seq(StmtItems)
  BY PartsType
<1>3. open \in I /\ close \in I /\ open.do = "openScope" /\ close.do = "closeScope"
  BY DEF ScopeItems
<1>4. Step(t, m, a, open, c)
  BY <1>3 DEF Step, Meets
<1> HIDE DEF c, items, open, close
<1>5. a \in Seq(Scopes) /\ c \in Seq(Scopes) /\ c # <<>>
  BY <1>1 DEF Good
<1>6. Sees(t, c, Child(p, part, 1))
  BY <1>1, <1>5, NoHead, SeesHead
<1>7. Owner(p, part) \in m
  BY DEF Owner
<1>8. PICK d : Goes(t, m, c, items, d) /\ Good(t, m, d) /\ Len(d) = Len(c) /\ Under(d) = Under(c)
  BY <1>1, <1>6, <1>7, GoesParts DEF items
<1>9. d \in Seq(Scopes) /\ Len(d) > 1 /\ Under(d) = a
  BY <1>1, <1>8 DEF Good
<1>10. Step(t, m, d, close, a)
  BY <1>3, <1>8, <1>9 DEF Step, Meets
<1>11. Goes(t, m, a, <<open>>, c) /\ Goes(t, m, d, <<close>>, a)
  BY <1>4, <1>5, <1>9, <1>10, GoesOne
<1> DEFINE x == <<open>>
           y == <<close>>
<1>12. x \in Seq(I) /\ y \in Seq(I) /\ items \in Seq(I)
  BY <1>2, <1>3, SeqOfMore
<1>13. Scoped(items) = x \o items \o y
  BY DEF Scoped, Item, open, close
<1>14. Goes(t, m, a, x, c) /\ Goes(t, m, d, y, a)
  BY <1>11
<1> HIDE DEF x, y, I
<1>15. Goes(t, m, a, x \o items, d)
  BY <1>8, <1>12, <1>14, GoesConcat
<1> DEFINE z == x \o items
<1>16. z \in Seq(I) /\ Goes(t, m, a, z, d) /\ Scoped(items) = z \o y
  BY <1>12, <1>13, <1>15
<1> HIDE DEF z
<1>17. Goes(t, m, a, z \o y, a)
  BY <1>12, <1>14, <1>16, GoesConcat
<1> QED
  BY <1>16, <1>17 DEF items

\* Moves and jumps between blocks.
LEMMA GoesMoves ==
    ASSUME NEW t, NEW m, NEW a, Good(t, m, a), NEW b
    PROVE  Goes(t, m, a, MoveTo(b), a) /\ Goes(t, m, a, JumpTo(b), a)
<1> DEFINE x == [do |-> "moveTo", block |-> b]
           y == [do |-> "jumpTo", block |-> b]
<1>1. x.do = "moveTo" /\ y.do = "jumpTo" /\ a \in Seq(Scopes)
  BY DEF Good
<1>2. MoveTo(b) = <<x>> /\ JumpTo(b) = <<y>>
  BY DEF MoveTo, JumpTo
<1> HIDE DEF x, y
<1>3. Step(t, m, a, x, a) /\ Step(t, m, a, y, a)
  BY <1>1 DEF Step, Meets
<1> QED
  BY <1>1, <1>2, <1>3, GoesOne

\* The indexator or the iteration of a loop.
LEMMA GoesOptional ==
    ASSUME NEW t, NEW m, NEW c, Good(t, m, c), Len(c) > 1,
           NEW p \in Places, Even(p), p # <<>>, p[1] \in m, StmtAt(t, p).op = "for",
           NEW x, NEW y, (x = 1 /\ y \in {2, 3}) \/ (x = 3 /\ y = 4),
           NEW s, Kids(t, p, x) = <<s>>, s = None \/ s \in Statements,
           HeadIs(t, p, x, c), Agrees(t, Under(c), p)
    PROVE  \E d : /\ Goes(t, m, c, Optional(p, x, s), d)
                  /\ Good(t, m, d) /\ Len(d) = Len(c) /\ Under(d) = Under(c)
                  /\ \A z : (x = 1 /\ z \in {2, 3}) \/ (x = 3 /\ z = 4) => HeadIs(t, p, z, d)
<1>1. x \in Nat /\ 1 \in Nat /\ c \in Seq(Scopes) /\ c # <<>>
  BY DEF Good
<1>2. Kids(t, p, x) = StmtsIn(StmtAt(t, p), x)
  BY <1>1, StmtAtIsKid
<1>3. s = StmtsIn(StmtAt(t, p), x)[1] /\ Kids(t, p, x)[1] = s
  BY <1>2
<1>4. ASSUME NEW z, (x = 1 /\ z \in {2, 3}) \/ (x = 3 /\ z = 4)
      PROVE  /\ s.op # "var" => HeadIs(t, p, z, c)
             /\ s.op = "var" /\ s.name \in Names /\ s.name \notin DOMAIN Top(c) =>
                    HeadIs(t, p, z, With(c, s.name, Child(p, x, 1)))
             /\ s.op = "var" /\ s.name \in DOMAIN Top(c) => HeadIs(t, p, z, c)
  BY <1>1, <1>3, <1>4, HeadNext
<1>5. CASE s = None
  <2>1. s.op # "var" /\ Optional(p, x, s) = <<>>
    BY <1>5 DEF None, Optional
  <2>2. Goes(t, m, c, <<>>, c)
    BY <1>1, WalkNil DEF Goes
  <2> QED
    BY <1>4, <2>1, <2>2
<1>6. CASE s # None
  <2> DEFINE item == [do |-> "stmt", at |-> Child(p, x, 1), stmt |-> s]
  <2>1. Optional(p, x, s) = <<item>>
    <3> DEFINE one == <<s>>
               list == Parts(p, x, one)
    <3>1. one \in Seq(Statements) /\ Len(one) = 1 /\ one[1] = s
      BY <1>6
    <3>2. Optional(p, x, s) = list
      BY <1>6 DEF Optional
    <3> HIDE DEF one
    <3>3. list \in Seq(StmtItems) /\ Len(list) = 1
      BY <1>1, <3>1, PartsType
    <3>4. list[1] = item
      <4>1. list[1] = [do |-> "stmt", at |-> p \o <<x, 1>>, stmt |-> one[1]]
        <5>1. 1 \in 1..Len(one)
          BY <3>1
        <5> QED
          BY <5>1, Zenon DEF Parts
      <4> QED
        BY <3>1, <4>1, Zenon DEF Child
    <3> HIDE DEF list, item
    <3>5. list = <<list[1]>>
      BY <3>3
    <3> QED
      BY <3>2, <3>4, <3>5
  <2>2. Sees(t, c, Child(p, x, 1))
    BY <1>1, SeesHead
  <2>3. Owner(p, x) \in m /\ s \in Statements
    BY <1>6 DEF Owner
  <2>4. PICK d \in Seq(Scopes) :
          /\ Step(t, m, c, item, d)
          /\ d = <<>> \/ Passed(t, m, c, s, Child(p, x, 1), Child(p, x, 1 + 1), d)
    BY <1>1, <1>3, <2>2, <2>3, StepStmt
  <2> HIDE DEF item
  <2>5. Walk(t, m, c, <<item>>, d)
    BY <1>1, <2>4, WalkOne
  <2>6. CASE d = <<>>
    <3>1. Goes(t, m, c, <<item>>, c)
      BY <2>5, <2>6 DEF Goes
    <3>2. s.op = "var" /\ s.name \in DOMAIN Top(c)
      <4>1. Defining(c, item, d)
        BY <1>1, <2>4 DEF Step, Meets, item
      <4>2. item.stmt = s
        BY DEF item
      <4> QED
        BY <1>1, <2>6, <4>1, <4>2 DEF Defining, With
    <3> QED
      BY <1>4, <2>1, <3>1, <3>2
  <2>7. CASE d # <<>>
    <3>1. Passed(t, m, c, s, Child(p, x, 1), Child(p, x, 1 + 1), d)
      BY <2>4, <2>7
    <3>2. Goes(t, m, c, <<item>>, d)
      BY <2>5 DEF Goes
    <3>3. s.op = "var" => s.name \in Names
      BY <2>3, NamesOfStatements
    <3>4. \A z : (x = 1 /\ z \in {2, 3}) \/ (x = 3 /\ z = 4) => HeadIs(t, p, z, d)
      BY <1>4, <3>1, <3>3 DEF Passed
    <3> QED
      BY <2>1, <3>1, <3>2, <3>4 DEF Passed
  <2> QED
    BY <2>6, <2>7
<1> QED
  BY <1>5, <1>6

\* Three walks, one behind the other, and seven.
LEMMA GoesThree ==
    ASSUME NEW t, NEW m, NEW S, NEW a, NEW b, NEW c, NEW d,
           NEW x \in Seq(S), NEW y \in Seq(S), NEW z \in Seq(S),
           Goes(t, m, a, x, b), Goes(t, m, b, y, c), Goes(t, m, c, z, d)
    PROVE  Goes(t, m, a, x \o y \o z, d)
<1> DEFINE u == x \o y
<1>1. u \in Seq(S) /\ Goes(t, m, a, u, c)
  BY TwoParts, GoesConcat
<1> HIDE DEF u
<1>2. Goes(t, m, a, u \o z, d)
  BY <1>1, GoesConcat
<1> QED
  BY <1>2 DEF u

LEMMA GoesSeven ==
    ASSUME NEW t, NEW m, NEW S, NEW a, NEW b, NEW c, NEW d, NEW e, NEW f, NEW g, NEW h,
           NEW r \in Seq(S), NEW s \in Seq(S), NEW u \in Seq(S), NEW v \in Seq(S),
           NEW w \in Seq(S), NEW x \in Seq(S), NEW y \in Seq(S),
           Goes(t, m, a, r, b), Goes(t, m, b, s, c), Goes(t, m, c, u, d), Goes(t, m, d, v, e),
           Goes(t, m, e, w, f), Goes(t, m, f, x, g), Goes(t, m, g, y, h)
    PROVE  Goes(t, m, a, r \o s \o u \o v \o w \o x \o y, h)
<1> DEFINE i == r \o s \o u
<1>1. i \in Seq(S) /\ Goes(t, m, a, i, d)
  BY ThreeParts, GoesThree
<1> HIDE DEF i
<1> DEFINE j == i \o v \o w
<1>2. j \in Seq(S) /\ Goes(t, m, a, j, f)
  BY <1>1, ThreeParts, GoesThree
<1> HIDE DEF j
<1>3. Goes(t, m, a, j \o x \o y, h)
  BY <1>2, GoesThree
<1> QED
  BY <1>3 DEF i, j

Moves == [do : {"moveTo", "jumpTo"}, block : Nat]

\* A loop with its scope, which is open already.
LEMMA GoesLoop ==
    ASSUME NEW t, NEW m, NEW a, Good(t, m, a),
           NEW p \in Places, Even(p), p # <<>>, p[1] \in m, Agrees(t, a, p),
           NEW s \in Statements, s = StmtAt(t, p), s.op = "for",
           NEW cond, cond.do = "loopCond", cond.at = Child(p, 2, 1), NEW n \in Nat
    PROVE  LET items == (Optional(p, 1, s.init) \o JumpTo(n + 2) \o MoveTo(n + 2))
                        \o (<<cond>> \o (MoveTo(n + 3) \o Optional(p, 3, s.iter) \o JumpTo(n + 2)
                                         \o MoveTo(n + 4) \o Parts(p, 4, s.body) \o JumpTo(n + 3)
                                         \o MoveTo(n + 5))
                            \o Item("closeLoop"))
           IN  /\ Goes(t, m, Append(a, <<>>), items, a)
               /\ items \in Seq(StmtItems \cup ScopeItems \cup Moves \cup {cond})
<1> DEFINE c == Append(a, <<>>)
           init == Optional(p, 1, s.init)
           iter == Optional(p, 3, s.iter)
           body == Parts(p, 4, s.body)
           close == [do |-> "closeLoop"]
           one == <<cond>>
           I == StmtItems \cup ScopeItems \cup Moves \cup {cond}
<1>1. Good(t, m, c) /\ Len(c) > 1 /\ Under(c) = a /\ DOMAIN Top(c) = {}
  BY NewScope
<1>2. /\ s.body \in Seq(Statements)
      /\ s.init = None \/ s.init \in Statements
      /\ s.iter = None \/ s.iter \in Statements
  BY StatementsAssumption
<1>3. Kids(t, p, 1) = <<s.init>> /\ Kids(t, p, 3) = <<s.iter>> /\ Kids(t, p, 4) = s.body
  <2>1. /\ Kids(t, p, 1) = StmtsIn(s, 1) /\ Kids(t, p, 3) = StmtsIn(s, 3)
        /\ Kids(t, p, 4) = StmtsIn(s, 4)
    BY StmtAtIsKid
  <2> QED
    BY <2>1 DEF StmtsIn
<1>4. init \in Seq(StmtItems) /\ iter \in Seq(StmtItems) /\ body \in Seq(StmtItems)
  BY <1>2, PartsType, OptionalType
<1> HIDE DEF c, init, iter, body, I
<1>5. init \in Seq(I) /\ iter \in Seq(I) /\ body \in Seq(I)
  BY <1>4, SeqOfMore DEF I
<1>6. one \in Seq(I) /\ Item("closeLoop") \in Seq(I)
  BY DEF I, ScopeItems, Item
<1>7. \A b \in Nat : MoveTo(b) \in Seq(I) /\ JumpTo(b) \in Seq(I)
  <2> TAKE b \in Nat
  <2>1. [do |-> "moveTo", block |-> b] \in I /\ [do |-> "jumpTo", block |-> b] \in I
    BY DEF I, Moves
  <2> QED
    BY <2>1 DEF MoveTo, JumpTo
<1>8. HeadIs(t, p, 1, c) /\ StmtAt(t, p).op = "for" /\ Agrees(t, Under(c), p)
  BY <1>1, NoHead
<1>9. PICK d : /\ Goes(t, m, c, init, d)
               /\ Good(t, m, d) /\ Len(d) = Len(c) /\ Under(d) = Under(c)
               /\ HeadIs(t, p, 2, d) /\ HeadIs(t, p, 3, d)
  <2>1. PICK d : /\ Goes(t, m, c, Optional(p, 1, s.init), d)
                 /\ Good(t, m, d) /\ Len(d) = Len(c) /\ Under(d) = Under(c)
                 /\ \A z : (1 = 1 /\ z \in {2, 3}) \/ (1 = 3 /\ z = 4) => HeadIs(t, p, z, d)
    BY <1>1, <1>2, <1>3, <1>8, GoesOptional
  <2> QED
    BY <2>1 DEF init
<1>10. Good(t, m, d) /\ Len(d) > 1 /\ Under(d) = a /\ d \in Seq(Scopes) /\ d # <<>>
  BY <1>1, <1>9 DEF Good
<1>11. Agrees(t, Under(d), p)
  BY <1>10
<1>12. PICK e : /\ Goes(t, m, d, iter, e)
                /\ Good(t, m, e) /\ Len(e) = Len(d) /\ Under(e) = Under(d)
                /\ HeadIs(t, p, 4, e)
  <2>1. PICK e : /\ Goes(t, m, d, Optional(p, 3, s.iter), e)
                 /\ Good(t, m, e) /\ Len(e) = Len(d) /\ Under(e) = Under(d)
                 /\ \A z : (3 = 1 /\ z \in {2, 3}) \/ (3 = 3 /\ z = 4) => HeadIs(t, p, z, e)
    BY <1>2, <1>3, <1>8, <1>9, <1>10, <1>11, GoesOptional
  <2> QED
    BY <2>1 DEF iter
<1>13. Good(t, m, e) /\ Len(e) > 1 /\ Under(e) = a /\ e \in Seq(Scopes) /\ e # <<>>
  BY <1>10, <1>12 DEF Good
<1>14. Sees(t, d, Child(p, 2, 1))
  BY <1>9, <1>10, <1>11, SeesHead
<1>15. Sees(t, e, Child(p, 4, 1))
  <2>1. Agrees(t, Under(e), p)
    BY <1>13
  <2> QED
    BY <1>12, <1>13, <2>1, SeesHead
<1>16. PICK f : /\ Goes(t, m, e, body, f)
                /\ Good(t, m, f) /\ Len(f) = Len(e) /\ Under(f) = Under(e)
  <2>1. Owner(p, 4) \in m /\ Kids(t, p, 4) \in Seq(Statements)
    BY <1>2, <1>3 DEF Owner
  <2>2. PICK f : /\ Goes(t, m, e, Parts(p, 4, Kids(t, p, 4)), f)
                 /\ Good(t, m, f) /\ Len(f) = Len(e) /\ Under(f) = Under(e)
    BY <1>13, <1>15, <2>1, GoesParts
  <2> QED
    BY <1>3, <2>2 DEF body
<1>17. Good(t, m, f) /\ Len(f) > 1 /\ Under(f) = a /\ f \in Seq(Scopes) /\ a \in Seq(Scopes)
  BY <1>13, <1>16 DEF Good
<1>18. Goes(t, m, d, one, d)
  <2>1. Step(t, m, d, cond, d)
    BY <1>10, <1>14 DEF Step, Meets
  <2> QED
    BY <1>10, <2>1, GoesOne
<1>19. Goes(t, m, f, Item("closeLoop"), a)
  <2>1. close.do = "closeLoop" /\ Item("closeLoop") = <<close>>
    BY DEF Item
  <2> HIDE DEF close
  <2>2. Step(t, m, f, close, a)
    BY <1>17, <2>1 DEF Step, Meets
  <2> QED
    BY <1>17, <2>1, <2>2, GoesOne
<1>20. \A b : /\ Goes(t, m, d, MoveTo(b), d) /\ Goes(t, m, d, JumpTo(b), d)
              /\ Goes(t, m, e, MoveTo(b), e) /\ Goes(t, m, e, JumpTo(b), e)
              /\ Goes(t, m, f, MoveTo(b), f) /\ Goes(t, m, f, JumpTo(b), f)
  BY <1>10, <1>13, <1>17, GoesMoves
<1> DEFINE m2 == MoveTo(n + 2)
           m3 == MoveTo(n + 3)
           m4 == MoveTo(n + 4)
           m5 == MoveTo(n + 5)
           j2 == JumpTo(n + 2)
           j3 == JumpTo(n + 3)
           before == init \o j2 \o m2
           round == m3 \o iter \o j2 \o m4 \o body \o j3 \o m5
           end == Item("closeLoop")
<1>21. /\ m2 \in Seq(I) /\ m3 \in Seq(I) /\ m4 \in Seq(I) /\ m5 \in Seq(I)
       /\ j2 \in Seq(I) /\ j3 \in Seq(I)
  <2>1. n + 2 \in Nat /\ n + 3 \in Nat /\ n + 4 \in Nat /\ n + 5 \in Nat
    OBVIOUS
  <2> QED
    BY <1>7, <2>1, Zenon
<1>22. /\ Goes(t, m, d, m2, d) /\ Goes(t, m, d, j2, d) /\ Goes(t, m, d, m3, d)
       /\ Goes(t, m, e, j2, e) /\ Goes(t, m, e, m4, e)
       /\ Goes(t, m, f, j3, f) /\ Goes(t, m, f, m5, f)
  BY <1>20
<1> HIDE DEF m2, m3, m4, m5, j2, j3, one
<1>23. before \in Seq(I) /\ Goes(t, m, c, before, d)
  BY <1>5, <1>9, <1>21, <1>22, ThreeParts, GoesThree
<1>24. round \in Seq(I) /\ Goes(t, m, d, round, f)
  <2>1. round \in Seq(I)
    BY <1>5, <1>21, SevenParts
  <2>2. Goes(t, m, d, round, f)
    BY <1>5, <1>12, <1>16, <1>21, <1>22, GoesSeven
  <2> QED
    BY <2>1, <2>2
<1>25. end \in Seq(I) /\ Goes(t, m, f, end, a)
  BY <1>6, <1>19
<1>26. one \in Seq(I) /\ Goes(t, m, d, one, d)
  BY <1>6, <1>18
<1> HIDE DEF before, round, end
<1> DEFINE rest == one \o round \o end
<1>27. rest \in Seq(I) /\ Goes(t, m, d, rest, a)
  BY <1>24, <1>25, <1>26, ThreeParts, GoesThree
<1> HIDE DEF rest
<1>28. Goes(t, m, c, before \o rest, a)
  BY <1>23, <1>27, GoesConcat
<1>29. before \o rest \in Seq(I)
  BY <1>23, <1>27, TwoParts
<1> QED
  BY <1>28, <1>29, Zenon DEF before, rest, round, end, one, m2, m3, m4, m5, j2, j3, init, iter, body, c, I


-----------------------------------------------------------------------------
(* Bodies. *)

LEMMA LenGlobal ==
    ASSUME NEW t, NEW n PROVE Global(t, n) = <<>> \/ (\E g : Global(t, n) = <<g>>)
BY DEF Global, NoDefinition

\* The statements of a body are the kids of no path.
LEMMA BodyIsParts ==
    ASSUME NEW t, NEW f \in Nat
    PROVE  /\ Kids(t, <<>>, f) = t[f].body
           /\ [k \in 1..Len(t[f].body) |->
                 [do |-> "stmt", at |-> <<f, k>>, stmt |-> t[f].body[k]]]
                    = Parts(<<>>, f, Kids(t, <<>>, f))
<1>1. <<>> \in Places /\ Even(<<>>) /\ 1 \in Nat
  BY DEF Places, Even
<1>2. Kids(t, <<>>, f) = t[f].body
  BY <1>1, StmtAtIsKid
<1>3. \A k : <<>> \o <<f, k>> = <<f, k>>
  OBVIOUS
<1> QED
  BY <1>2, <1>3 DEF Parts

\* What is found at the beginning of a body: an argument, a variable of the
\* module, or if the body is one of a template, something of its caller.
LEMMA BodyAgrees ==
    ASSUME NEW t, NEW l, NEW a, Good(t, l, a), NEW f \in Nat,
           Len(a) > 1 => t[f].template /\ f \notin l,
           NEW s \in Scopes, s = [n \in t[f].args |-> <<f, 0>>]
    PROVE  Agrees(t, Append(a, s), Child(<<>>, f, 1))
<1> DEFINE c == Append(a, s)
           p == Child(<<>>, f, 1)
<1>1. <<>> \in Places /\ Even(<<>>) /\ 1 \in Nat /\ a \in Seq(Scopes)
  BY DEF Places, Even, Good
<1>2. Len(p) > 1 /\ p[1] = f
  BY DEF Child
<1> SUFFICES ASSUME NEW n, Held(c, n) PROVE Means(t, p, n, Look(c, n))
  BY DEF Agrees
<1>3. Lexical(t, p, n) = OfFunction(t, f, n)
  <2>1. Earlier(t, <<>>, f, 1, n) = {} /\ InHeadOf(t, <<>>, f, n) = {}
    BY DEF Earlier, InHeadOf
  <2>2. DefinedAt(t, p, n) = NoDefinition
    BY <1>1, <2>1, DefinedAtIs, Zenon
  <2> QED
    BY <1>1, <2>2, LexicalIs
<1> HIDE DEF p
<1>4. CASE n \in DOMAIN s
  <2>1. Look(c, n) = s[n]
    BY <1>1, <1>4, LookPushed
  <2>2. n \in t[f].args /\ s[n] = <<f, 0>>
    BY <1>4
  <2> QED
    BY <1>3, <2>1, <2>2 DEF Means, OfFunction
<1>5. CASE n \notin DOMAIN s
  <2>1. Held(a, n) /\ Look(c, n) = Look(a, n)
    BY <1>1, <1>5, LookPushed
  <2>2. n \notin t[f].args
    BY <1>5
  <2>3. Lexical(t, p, n) = Global(t, n)
    BY <1>3, <2>2 DEF OfFunction
  <2>4. Look(a, n) = Global(t, n) \/ (Len(a) > 1 /\ Local(l, Look(a, n)))
    BY <2>1, GoodLook
  <2>5. Len(Global(t, n)) <= 1
    <3>1. CASE Global(t, n) = <<>>
      BY <3>1
    <3>2. CASE \E g : Global(t, n) = <<g>>
      BY <3>2
    <3> QED
      BY <3>1, <3>2, LenGlobal
  <2>6. CASE Len(a) > 1 /\ Local(l, Look(a, n))
    <3>1. Look(c, n)[1] # f /\ Len(Look(c, n)) > 1
      BY <2>1, <2>6 DEF Local
    <3>2. t[f].template /\ Len(Lexical(t, p, n)) <= 1
      BY <2>3, <2>5, <2>6
    <3>3. Len(p) > 1 /\ t[p[1]].template /\ Look(c, n)[1] # p[1]
      BY <1>2, <3>1, <3>2
    <3> QED
      BY <3>1, <3>2, <3>3, Zenon DEF Means
  <2> QED
    BY <2>1, <2>3, <2>4, <2>6, Zenon DEF Means
<1> QED
  BY <1>4, <1>5

LEMMA GoesBody ==
    ASSUME NEW t, NEW m, NEW l, l \subseteq m, NEW a, Good(t, l, a),
           NEW f \in Nat, f \in m, Len(a) > 1 => t[f].template /\ f \notin l,
           NEW s \in Scopes, s = [n \in t[f].args |-> <<f, 0>>],
           t[f].body \in Seq(Statements),
           NEW I, NEW end \in I, end.do = "endBody", StmtItems \subseteq I
    PROVE  Goes(t, m, Append(a, s), Parts(<<>>, f, Kids(t, <<>>, f)) \o <<end>>, a)
<1> DEFINE c == Append(a, s)
           items == Parts(<<>>, f, Kids(t, <<>>, f))
           one == <<end>>
<1>1. <<>> \in Places /\ Even(<<>>) /\ 1 \in Nat /\ Owner(<<>>, f) \in m
  BY DEF Places, Even, Owner
<1>2. Kids(t, <<>>, f) \in Seq(Statements)
  BY BodyIsParts
<1>3. a \in Seq(Scopes) /\ a # <<>> /\ Good(t, m, a)
  BY GoodMore DEF Good
<1>4. Good(t, m, c)
  <2>1. \A n \in DOMAIN s : Local(m, s[n])
    BY DEF Local
  <2> QED
    BY <1>3, <2>1, GoodPushed
<1>5. Len(c) > 1 /\ Under(c) = a
  <2>1. Len(c) = Len(a) + 1 /\ Len(a) \in Nat /\ Len(a) # 0 /\ Under(c) = a
    BY <1>3, StackPushed
  <2> QED
    BY <2>1
<1>6. Sees(t, c, Child(<<>>, f, 1))
  <2>1. Knows(c, Kids(t, <<>>, f), 1)
    BY DEF Knows
  <2> QED
    BY <1>1, <2>1, BodyAgrees, SeesChild
<1> HIDE DEF c
<1>7. PICK d : /\ Goes(t, m, c, items, d)
               /\ Good(t, m, d) /\ Len(d) = Len(c) /\ Under(d) = Under(c)
  BY <1>1, <1>2, <1>4, <1>5, <1>6, GoesParts
<1>8. Goes(t, m, d, one, a)
  <2>1. Good(t, m, d) /\ Len(d) > 1 /\ Under(d) = a /\ d \in Seq(Scopes)
    BY <1>5, <1>7 DEF Good
  <2>2. Step(t, m, d, end, a)
    BY <2>1 DEF Step, Meets
  <2> QED
    BY <1>3, <2>1, <2>2, GoesOne
<1>9. items \in Seq(I) /\ one \in Seq(I)
  <2>1. items \in Seq(StmtItems)
    BY <1>1, <1>2, PartsType
  <2> QED
    BY <2>1, SeqOfMore
<1> HIDE DEF items, one
<1>10. Goes(t, m, c, items \o one, a)
  BY <1>7, <1>8, <1>9, GoesConcat
<1> QED
  BY <1>10, Zenon DEF items, one, c


-----------------------------------------------------------------------------
(* The invariant. *)

\* The functions whose bodies are or were analysed, or will be without a call.
Entered == {f \in FuncsOf(program) : program[f].template => f \in made}

\* The scopes between two declarations.
Outermost(b) == Good(program, Entered, b) /\ Len(b) = 1 /\ Knows(b, program, decl)

ResolvedAreMeant == \A u \in resolved : Means(program, u.at, u.name, u.to)

\* From the scopes that there are, the agenda leads back to the outermost.
NamesInv ==
    errors = {} =>
        /\ ResolvedAreMeant
        /\ phase = "analyze" =>
              \E b \in Seq(Scopes) : Outermost(b) /\ Goes(program, Entered, vars, agenda, b)

LEMMA ScopesAreOpen ==
    ASSUME StackInv, phase = "analyze" PROVE vars # <<>>
<1>1. PICK a \in Situations : Standing(a)
  BY DEF StackInv
<1>2. a.depth \in Nat \ {0} /\ a.depth <= Len(vars)
  BY <1>1 DEF Situations, Standing
<1> QED
  BY <1>2

LEMMA NamesAtHead ==
    ASSUME TypeOK, NamesInv, errors = {}, phase = "analyze", agenda # <<>>, vars # <<>>
    PROVE  \E b, c \in Seq(Scopes) :
              /\ Outermost(b) /\ Good(program, Entered, vars)
              /\ Step(program, Entered, vars, Now, c) /\ Goes(program, Entered, c, Rest, b)
<1>1. PICK b \in Seq(Scopes) : Outermost(b) /\ Goes(program, Entered, vars, agenda, b)
  BY DEF NamesInv
<1>2. agenda \in Seq(Items(program, Len(blocks)))
  BY DEF TypeOK
<1>3. PICK c \in Seq(Scopes) : /\ Step(program, Entered, vars, Head(agenda), c)
                               /\ Goes(program, Entered, c, Tail(agenda), b)
  BY <1>1, <1>2, GoesHead
<1>4. Good(program, Entered, vars)
  BY <1>3 DEF Step
<1> QED
  BY <1>1, <1>3, <1>4 DEF Now, Rest

\* What a statement finds at the head of the agenda.
LEMMA StatementAtHead ==
    ASSUME vars # <<>>, NEW c, Step(program, Entered, vars, Now, c), Now.do \in {"stmt", "finish"}
    PROVE  /\ Placed(program, Entered, vars, Now.at, Now.stmt)
           /\ Sees(program, vars, Now.at) /\ Agrees(program, vars, Now.at)
           /\ Defining(vars, Now, c)
BY DEF Step, Meets, Sees

\* A step that makes no instance and is not one over the declarations.
LEMMA NamesOfStep ==
    ASSUME Stays, made' = made, NEW b \in Seq(Scopes), Outermost(b),
           Goes(program, Entered, vars', agenda', b),
           \A u \in resolved' : Means(program, u.at, u.name, u.to)
    PROVE  NamesInv'
<1>1. program' = program /\ decl' = decl
  BY DEF Stays
<1>2. Entered' = Entered
  BY <1>1 DEF Entered, FuncsOf
<1>3. Outermost(b)'
  BY <1>1, <1>2 DEF Outermost
<1> QED
  BY <1>1, <1>2, <1>3 DEF NamesInv, ResolvedAreMeant

\* A step out of the analysis, or one after it.
LEMMA NamesOutside ==
    ASSUME NamesInv, errors = {}, program' = program, resolved' = resolved, phase' # "analyze"
    PROVE  NamesInv'
BY DEF NamesInv, ResolvedAreMeant

\* getVariable finds what is meant.
LEMMA ResolvedFine ==
    ASSUME NamesInv, errors = {}, NEW place, Agrees(program, vars, place),
           NEW e, Evaluate(e, place)
    PROVE  \A u \in resolved' : Means(program, u.at, u.name, u.to)
<1>1. \A u \in resolved : Means(program, u.at, u.name, u.to)
  BY DEF NamesInv, ResolvedAreMeant
<1>2. CASE ~(e.op = "use" /\ Found(e.name))
  BY <1>1, <1>2 DEF Evaluate
<1>3. CASE e.op = "use" /\ Found(e.name)
  <2>1. resolved' = resolved \cup {[at |-> place, name |-> e.name, to |-> GetVariable(e.name)]}
    BY <1>3 DEF Evaluate
  <2>2. Held(vars, e.name) /\ GetVariable(e.name) = Look(vars, e.name)
    BY <1>3 DEF Held, HoldersIn, Look, GetVariable, Holders, Found, Greatest
  <2>3. Means(program, place, e.name, GetVariable(e.name))
    BY <2>2 DEF Agrees
  <2> QED
    BY <1>1, <2>1, <2>3
<1> QED
  BY <1>2, <1>3


-----------------------------------------------------------------------------
(* Action by action. *)

\* An action on a statement that defines nothing.
LEMMA NamesOfStatement ==
    ASSUME TypeOK, NamesInv, vars # <<>>, errors = {}, phase = "analyze", agenda # <<>>,
           Now.do \in {"stmt", "finish"}, Now.stmt.op # "var",
           Stays, made' = made, vars' = vars, agenda' = Rest,
           resolved' = resolved \/ (\E e : Evaluate(e, Now.at))
    PROVE  NamesInv'
<1>1. PICK b \in Seq(Scopes), c \in Seq(Scopes) :
         /\ Outermost(b) /\ Step(program, Entered, vars, Now, c)
         /\ Goes(program, Entered, c, Rest, b)
  BY NamesAtHead
<1>2. Agrees(program, vars, Now.at) /\ Defining(vars, Now, c)
  BY <1>1, StatementAtHead
<1>3. c = vars
  BY <1>2 DEF Defining
<1>4. \A u \in resolved' : Means(program, u.at, u.name, u.to)
  <2>1. CASE resolved' = resolved
    BY <2>1 DEF NamesInv, ResolvedAreMeant
  <2>2. CASE \E e : Evaluate(e, Now.at)
    BY <1>2, <2>2, ResolvedFine
  <2> QED
    BY <2>1, <2>2
<1>5. Goes(program, Entered, vars', agenda', b)
  BY <1>1, <1>3
<1> QED
  BY <1>1, <1>4, <1>5, NamesOfStep

LEMMA NamesOfPlainStatements ==
    ASSUME TypeOK, NamesInv, vars # <<>>, errors = {}, errors' = {},
           Refuse \/ ReturnOutside \/ AddExprStmt \/ Return \/ IfFails \/ BreakContinue
    PROVE  NamesInv'
<1>1. CASE Refuse
  BY <1>1 DEF Refuse, Report
<1>2. CASE ReturnOutside
  BY <1>2, NamesOutside DEF ReturnOutside, Crash
<1>3. CASE AddExprStmt
  BY <1>3, NamesOfStatement DEF AddExprStmt, Finish, AtHead, Now
<1>4. CASE Return
  <2>1. resolved' = resolved \/ (\E e : Evaluate(e, Now.at))
    BY <1>4 DEF Return
  <2> QED
    BY <1>4, <2>1, NamesOfStatement DEF Return, Finish, AtHead, Now
<1>5. CASE IfFails
  BY <1>5, EvaluationReports DEF IfFails
<1>6. CASE BreakContinue
  <2>1. CASE Crash
    BY <2>1, NamesOutside DEF Crash
  <2>2. CASE ~Crash
    BY <1>6, <2>2, NamesOfStatement DEF BreakContinue, AtHead, Now
  <2> QED
    BY <2>1, <2>2
<1> QED
  BY <1>1, <1>2, <1>3, <1>4, <1>5, <1>6

\* Where there is a scope and it is not that of the module, there are two.
LEMMA InnerScope ==
    ASSUME vars \in Seq(Scopes), vars # <<>>, ~InGlobalScope PROVE Len(vars) > 1
<1> DEFINE n == Len(vars)
<1>1. n \in Nat /\ n # 0 /\ n # 1
  BY DEF InGlobalScope
<1> HIDE DEF n
<1>2. n > 1
  BY <1>1
<1> QED
  BY <1>2 DEF n

LEMMA NamesOfStart ==
    ASSUME TypeOK, NamesInv, vars # <<>>, errors = {}, Start PROVE NamesInv'
<1> DEFINE finish == [Now EXCEPT !.do = "finish"]
<1>1. /\ phase = "analyze" /\ agenda # <<>> /\ Now.do = "stmt" /\ ~Refused(Now.stmt)
      /\ Now.stmt.op \in {"var", "expr", "ret", "if"}
      /\ agenda' = <<finish>> \o Rest /\ vars' = vars /\ made' = made /\ resolved' = resolved
      /\ Stays
  BY DEF Start, AtHead, Now
<1>2. PICK b \in Seq(Scopes), c \in Seq(Scopes) :
         /\ Outermost(b) /\ Good(program, Entered, vars)
         /\ Step(program, Entered, vars, Now, c) /\ Goes(program, Entered, c, Rest, b)
  BY <1>1, NamesAtHead
<1>3. /\ Placed(program, Entered, vars, Now.at, Now.stmt)
      /\ Sees(program, vars, Now.at) /\ Defining(vars, Now, c)
  BY <1>1, <1>2, StatementAtHead
<1>4. finish.do = "finish" /\ finish.at = Now.at /\ finish.stmt = Now.stmt
  <2>1. Now \in StmtItems
    BY <1>1, TypesAtHead, ItemKinds
  <2> QED
    BY <2>1 DEF StmtItems
<1> HIDE DEF finish
<1>5. vars \in Seq(Scopes) /\ Rest \in Seq(Items(program, Len(blocks)))
  BY <1>1, TypesAtHead
<1>6. Defining(vars, finish, c)
  <2>1. CASE Now.stmt.op = "var"
    <3>1. Now.stmt.name \notin DOMAIN Top(vars)
      BY <1>1, <2>1 DEF Refused, Top
    <3>2. c = With(vars, Now.stmt.name, Now.at)
      BY <1>3, <2>1, <3>1 DEF Defining
    <3> QED
      BY <1>4, <2>1, <3>1, <3>2 DEF Defining
  <2>2. CASE Now.stmt.op # "var"
    <3>1. ~InGlobalScope
      BY <1>1, <2>2 DEF Refused
    <3>3. Len(vars) > 1
      BY <1>5, <3>1, InnerScope
    <3>4. c = vars
      BY <1>3, <2>2 DEF Defining
    <3> QED
      BY <1>4, <2>2, <3>3, <3>4 DEF Defining
  <2> QED
    BY <2>1, <2>2
<1>7. Step(program, Entered, vars, finish, c)
  BY <1>2, <1>3, <1>4, <1>6, Zenon DEF Step
<1>8. Goes(program, Entered, vars, <<finish>>, c)
  BY <1>5, <1>7, GoesOne
<1> DEFINE S == Items(program, Len(blocks)) \cup {finish}
           one == <<finish>>
<1>9. one \in Seq(S) /\ Rest \in Seq(S)
  BY <1>5, SeqOfMore
<1> HIDE DEF S, one
<1>10. Goes(program, Entered, vars, one \o Rest, b)
  BY <1>2, <1>8, <1>9, GoesConcat DEF one
<1>11. \A u \in resolved' : Means(program, u.at, u.name, u.to)
  BY <1>1 DEF NamesInv, ResolvedAreMeant
<1>12. Goes(program, Entered, vars', agenda', b)
  BY <1>1, <1>10 DEF one
<1> QED
  BY <1>1, <1>2, <1>11, <1>12, NamesOfStep

LEMMA ExceptIsWith ==
    ASSUME NEW a \in Seq(Scopes), a # <<>>, NEW s
    PROVE  [a EXCEPT ![Len(a)] = s] = Append(Under(a), s)
<1> DEFINE T == Scopes \cup {s}
           u == Under(a)
           x == [a EXCEPT ![Len(a)] = s]
           y == Append(u, s)
           n == Len(a)
<1>1. n \in Nat \ {0} /\ DOMAIN a = 1..n
  OBVIOUS
<1>2. u \in Seq(Scopes) /\ Len(u) = n - 1 /\ \A k \in 1..(n - 1) : u[k] = a[k]
  BY StackSplit
<1> HIDE DEF u
<1>3. u \in Seq(T) /\ s \in T
  BY <1>2, SeqOfMore
<1>4. /\ y \in Seq(T) /\ Len(y) = Len(u) + 1
      /\ \A k \in 1..Len(u) : y[k] = u[k]
      /\ y[Len(u) + 1] = s
  BY <1>3, AppendProperties
<1>5. x[n] = s /\ \A k \in 1..(n - 1) : x[k] = a[k]
  <2>1. \A z \in DOMAIN a : /\ [a EXCEPT ![z] = s][z] = s
                            /\ \A k \in DOMAIN a : k # z => [a EXCEPT ![z] = s][k] = a[k]
    OBVIOUS
  <2> HIDE DEF n
  <2>2. n \in DOMAIN a /\ \A k \in 1..(n - 1) : k \in DOMAIN a /\ k # n
    BY <1>1
  <2>3. x[n] = s /\ \A k \in DOMAIN a : k # n => x[k] = a[k]
    BY <2>1, <2>2, Zenon DEF n
  <2> QED
    BY <2>2, <2>3
<1>6. DOMAIN x = 1..n /\ x = [k \in DOMAIN x |-> x[k]]
  BY <1>1
<1> HIDE DEF x, y, n
<1>7. DOMAIN y = 1..n /\ y = [k \in DOMAIN y |-> y[k]]
  BY <1>1, <1>2, <1>4
<1>8. y[n] = s /\ \A k \in 1..(n - 1) : y[k] = a[k]
  BY <1>1, <1>2, <1>4
<1>9. \A k \in 1..n : x[k] = y[k]
  BY <1>1, <1>5, <1>8
<1>10. x = y
  BY <1>6, <1>7, <1>9
<1> QED
  BY <1>10 DEF x, y, u, n

LEMMA NamesOfDefineVar ==
    ASSUME TypeOK, NamesInv, vars # <<>>, errors = {}, errors' = {}, DefineVar PROVE NamesInv'
<1>1. CASE Crash
  BY <1>1, NamesOutside DEF Crash
<1>2. CASE ~Crash
  <2>1. /\ phase = "analyze" /\ agenda # <<>> /\ Now.do = "finish" /\ Now.stmt.op = "var"
        /\ Evaluate(Now.stmt.e, Now.at) /\ agenda' = Rest /\ made' = made
        /\ Stays
    BY <1>2 DEF DefineVar, Finish, AtHead, Now
  <2>2. HasValue(Now.stmt.e)
    BY <2>1, EvaluationReports
  <2>3. vars' = [vars EXCEPT ![Len(vars)] =
                    [n \in DOMAIN vars[Len(vars)] \cup {Now.stmt.name} |->
                        IF n = Now.stmt.name THEN Now.at ELSE vars[Len(vars)][n]]]
    BY <1>2, <2>2 DEF DefineVar
  <2>4. vars \in Seq(Scopes)
    BY DEF TypeOK
  <2>5. vars' = With(vars, Now.stmt.name, Now.at)
    BY <2>3, <2>4, ExceptIsWith DEF With, Top
  <2>6. PICK b \in Seq(Scopes), c \in Seq(Scopes) :
           /\ Outermost(b) /\ Step(program, Entered, vars, Now, c)
           /\ Goes(program, Entered, c, Rest, b)
    BY <2>1, NamesAtHead
  <2>7. Agrees(program, vars, Now.at) /\ Defining(vars, Now, c)
    BY <2>1, <2>6, StatementAtHead
  <2>8. c = vars'
    BY <2>1, <2>5, <2>7 DEF Defining
  <2>9. \A u \in resolved' : Means(program, u.at, u.name, u.to)
    BY <2>1, <2>7, ResolvedFine
  <2> QED
    BY <2>1, <2>6, <2>8, <2>9, NamesOfStep
<1> QED
  BY <1>1, <1>2

\* The items that open and close scopes, and those that only move.
LEMMA NamesOfItem ==
    ASSUME TypeOK, NamesInv, vars # <<>>, errors = {}, phase = "analyze", agenda # <<>>,
           Stays, made' = made, resolved' = resolved, agenda' = Rest,
           \/ Now.do \in {"moveTo", "jumpTo"} /\ vars' = vars
           \/ Now.do = "openScope" /\ vars' = Append(vars, <<>>)
           \/ Now.do \in {"closeScope", "closeLoop", "endBody"} /\ vars' = Under(vars)
    PROVE  NamesInv'
<1>1. PICK b \in Seq(Scopes), c \in Seq(Scopes) :
         /\ Outermost(b) /\ Step(program, Entered, vars, Now, c)
         /\ Goes(program, Entered, c, Rest, b)
  BY NamesAtHead
<1>2. c = vars'
  BY <1>1 DEF Step, Meets
<1>3. \A u \in resolved' : Means(program, u.at, u.name, u.to)
  BY DEF NamesInv, ResolvedAreMeant
<1> QED
  BY <1>1, <1>2, <1>3, NamesOfStep

LEMMA NamesOfScopes ==
    ASSUME TypeOK, NamesInv, vars # <<>>, errors = {},
           EndBody \/ CloseLoop \/ OpenScope \/ CloseScope \/ MoveOrJump
    PROVE  NamesInv'
<1>1. /\ phase = "analyze" /\ agenda # <<>> /\ Stays /\ made' = made
      /\ resolved' = resolved /\ agenda' = Rest
  BY DEF EndBody, CloseLoop, OpenScope, CloseScope, MoveOrJump, AtHead, Now
<1>2. \/ Now.do \in {"moveTo", "jumpTo"} /\ vars' = vars
      \/ Now.do = "openScope" /\ vars' = Append(vars, <<>>)
      \/ Now.do \in {"closeScope", "closeLoop", "endBody"} /\ vars' = Under(vars)
  BY DEF EndBody, CloseLoop, OpenScope, CloseScope, MoveOrJump, AtHead, Now, Under
<1> QED
  BY <1>1, <1>2, NamesOfItem

LEMMA NamesOfLoopCondition ==
    ASSUME TypeOK, NamesInv, vars # <<>>, errors = {}, errors' = {}, LoopCondition PROVE NamesInv'
<1>1. /\ phase = "analyze" /\ agenda # <<>> /\ Now.do = "loopCond"
      /\ Evaluate(Now.cond, Now.at) /\ vars' = vars /\ made' = made /\ Stays
  BY DEF LoopCondition, AtHead, Now
<1>2. HasValue(Now.cond)
  BY <1>1, EvaluationReports
<1>3. agenda' = Rest
  BY <1>2 DEF LoopCondition
<1>4. PICK b \in Seq(Scopes), c \in Seq(Scopes) :
         /\ Outermost(b) /\ Step(program, Entered, vars, Now, c)
         /\ Goes(program, Entered, c, Rest, b)
  BY <1>1, NamesAtHead
<1>5. c = vars /\ Agrees(program, vars, Now.at)
  BY <1>1, <1>4 DEF Step, Meets, Sees
<1>6. \A u \in resolved' : Means(program, u.at, u.name, u.to)
  BY <1>1, <1>5, ResolvedFine
<1> QED
  BY <1>1, <1>3, <1>4, <1>5, <1>6, NamesOfStep


LEMMA PlacedInside ==
    ASSUME NEW t, NEW m, NEW a, Len(a) > 1, NEW p, NEW s, Placed(t, m, a, p, s)
    PROVE  p \in Places /\ s = StmtAt(t, p) /\ Even(p) /\ p # <<>> /\ p[1] \in m
<1> DEFINE n == Len(a)
<1>1. n # 1
  <2>1. 1 > 1 <=> FALSE
    OBVIOUS
  <2> HIDE DEF n
  <2>2. n > 1 => n # 1
    BY <2>1
  <2> QED
    BY <2>2 DEF n
<1> QED
  BY <1>1, Zenon DEF Placed

\* What a condition finds at the head of the agenda, and its branches.
LEMMA BranchesAtHead ==
    ASSUME TypeOK, NamesInv, vars # <<>>, errors = {}, phase = "analyze", agenda # <<>>,
           Now.do = "finish", Now.stmt.op = "if"
    PROVE  /\ \E b \in Seq(Scopes) : Outermost(b) /\ Goes(program, Entered, vars, Rest, b)
           /\ Good(program, Entered, vars) /\ Len(vars) > 1
           /\ Now.at \in Places /\ Even(Now.at) /\ Now.at # <<>> /\ Now.at[1] \in Entered
           /\ StmtAt(program, Now.at).op = "if" /\ Agrees(program, vars, Now.at)
           /\ Kids(program, Now.at, 1) = Now.stmt.then /\ Now.stmt.then \in Seq(Statements)
           /\ Kids(program, Now.at, 2) = Now.stmt.else /\ Now.stmt.else \in Seq(Statements)
<1> DEFINE p == Now.at
           s == Now.stmt
<1>1. PICK b \in Seq(Scopes), c \in Seq(Scopes) :
         /\ Outermost(b) /\ Good(program, Entered, vars)
         /\ Step(program, Entered, vars, Now, c) /\ Goes(program, Entered, c, Rest, b)
  BY NamesAtHead
<1>2. /\ Placed(program, Entered, vars, p, s) /\ Agrees(program, vars, p)
      /\ Defining(vars, Now, c)
  BY <1>1, StatementAtHead
<1>3. c = vars /\ Len(vars) > 1
  BY <1>2 DEF Defining
<1>4. p \in Places /\ s = StmtAt(program, p) /\ Even(p) /\ p # <<>> /\ p[1] \in Entered
  BY <1>2, <1>3, PlacedInside
<1>5. s \in Statements /\ s.op = "if"
  BY TypesAtHead
<1>6. s.then \in Seq(Statements) /\ s.else \in Seq(Statements)
  BY <1>5, StatementsAssumption
<1> HIDE DEF p, s
<1>7. Kids(program, p, 1) = s.then /\ Kids(program, p, 2) = s.else
  <2>1. 1 \in Nat /\ 2 \in Nat
    OBVIOUS
  <2>2. Kids(program, p, 1) = StmtsIn(s, 1) /\ Kids(program, p, 2) = StmtsIn(s, 2)
    BY <1>4, <2>1, StmtAtIsKid
  <2>3. StmtsIn(s, 1) = s.then /\ StmtsIn(s, 2) = s.else
    BY <1>5 DEF StmtsIn
  <2> QED
    BY <2>2, <2>3
<1> QED
  BY <1>1, <1>2, <1>3, <1>4, <1>5, <1>6, <1>7 DEF p, s

\* Items of a branch, among others.
LEMMA BranchType ==
    ASSUME NEW p \in Places, NEW part \in Nat, NEW stmts \in Seq(Statements), NEW q, NEW n,
           NEW S, Items(q, n) \subseteq S
    PROVE  Scoped(Parts(p, part, stmts)) \in Seq(S)
<1>1. Parts(p, part, stmts) \in Seq(Items(q, n))
  BY PartsType, StmtItemsType
<1>2. Scoped(Parts(p, part, stmts)) \in Seq(Items(q, n))
  BY <1>1, ScopedType
<1> QED
  BY <1>2, SeqOfMore

LEMMA MoveSeqs ==
    ASSUME NEW b \in Nat, NEW S, Moves \subseteq S
    PROVE  MoveTo(b) \in Seq(S) /\ JumpTo(b) \in Seq(S)
<1>1. [do |-> "moveTo", block |-> b] \in S /\ [do |-> "jumpTo", block |-> b] \in S
  BY DEF Moves
<1> QED
  BY <1>1 DEF MoveTo, JumpTo

LEMMA NamesOfConstantIf ==
    ASSUME TypeOK, NamesInv, vars # <<>>, errors = {}, ConstantIf PROVE NamesInv'
<1> DEFINE p == Now.at
           isTrue == Now.stmt.e.op = "true"
           taken == IF isTrue THEN 1 ELSE 2
           left == IF isTrue THEN 2 ELSE 1
           branch == Scoped(Parts(p, taken, Kids(program, p, taken)))
           other == Parts(p, left, Kids(program, p, left))
           mute == [do |-> "mute", other |-> other]
           one == <<mute>>
           S == Items(program, Len(blocks)) \cup {mute}
<1>1. /\ phase = "analyze" /\ agenda # <<>> /\ Now.do = "finish" /\ Now.stmt.op = "if"
      /\ vars' = vars /\ made' = made /\ resolved' = resolved /\ Stays
  BY DEF ConstantIf, Finish, AtHead, Now
<1>2. PICK b \in Seq(Scopes) : Outermost(b) /\ Goes(program, Entered, vars, Rest, b)
  BY <1>1, BranchesAtHead
<1>3. /\ Good(program, Entered, vars) /\ Len(vars) > 1
      /\ p \in Places /\ Even(p) /\ p # <<>> /\ p[1] \in Entered
      /\ StmtAt(program, p).op = "if" /\ Agrees(program, vars, p)
      /\ Kids(program, p, 1) = Now.stmt.then /\ Kids(program, p, 2) = Now.stmt.else
      /\ Kids(program, p, 1) \in Seq(Statements) /\ Kids(program, p, 2) \in Seq(Statements)
  BY <1>1, BranchesAtHead
<1>4. /\ taken \in Nat /\ left \in Nat
      /\ Kids(program, p, taken) \in Seq(Statements) /\ Kids(program, p, left) \in Seq(Statements)
  BY <1>3
<1>5. agenda' = branch \o one \o Rest
  <2>1. CASE isTrue
    BY <1>3, <2>1 DEF ConstantIf
  <2>2. CASE ~isTrue
    BY <1>3, <2>2 DEF ConstantIf
  <2> QED
    BY <2>1, <2>2
<1> HIDE DEF p, isTrue, taken, left
<1>6. Goes(program, Entered, vars, branch, vars)
  BY <1>3, <1>4, GoesScoped
<1>7. Waits(program, Entered, vars, other)
  BY <1>3, <1>4 DEF Waits
<1>8. branch \in Seq(S) /\ Rest \in Seq(S)
  <2>1. Rest \in Seq(Items(program, Len(blocks)))
    BY <1>1, TypesAtHead
  <2>2. Items(program, Len(blocks)) \subseteq S
    OBVIOUS
  <2>3. branch \in Seq(S)
    BY <1>3, <1>4, <2>2, BranchType
  <2> QED
    BY <2>1, <2>2, <2>3, SeqOfMore
<1> HIDE DEF branch, other
<1>9. one \in Seq(S) /\ mute.do = "mute" /\ mute.other = other
  OBVIOUS
<1> HIDE DEF mute, S
<1>10. vars \in Seq(Scopes)
  BY DEF TypeOK
<1>11. Goes(program, Entered, vars, one, vars)
  <2>1. Step(program, Entered, vars, mute, vars)
    BY <1>3, <1>7, <1>9, Zenon DEF Step
  <2> QED
    BY <1>10, <2>1, GoesOne
<1> HIDE DEF one
<1>12. Goes(program, Entered, vars, branch \o one \o Rest, b)
  BY <1>2, <1>6, <1>8, <1>9, <1>11, GoesThree
<1>13. Goes(program, Entered, vars', agenda', b)
  BY <1>1, <1>5, <1>12
<1>14. \A u \in resolved' : Means(program, u.at, u.name, u.to)
  BY <1>1 DEF NamesInv, ResolvedAreMeant
<1> QED
  BY <1>1, <1>2, <1>13, <1>14, NamesOfStep

LEMMA NamesOfMute ==
    ASSUME TypeOK, NamesInv, vars # <<>>, errors = {}, Mute PROVE NamesInv'
<1> DEFINE S == Items(program, Len(blocks)) \cup Moves
<1>1. /\ phase = "analyze" /\ agenda # <<>> /\ Now.do = "mute"
      /\ agenda' = Scoped(Now.other) \o MoveTo(at) \o Rest
      /\ vars' = vars /\ made' = made /\ resolved' = resolved /\ Stays
  BY DEF Mute, AtHead, Now
<1>2. PICK b \in Seq(Scopes), c \in Seq(Scopes) :
         /\ Outermost(b) /\ Good(program, Entered, vars)
         /\ Step(program, Entered, vars, Now, c) /\ Goes(program, Entered, c, Rest, b)
  BY <1>1, NamesAtHead
<1>3. c = vars /\ Waits(program, Entered, vars, Now.other)
  BY <1>1, <1>2 DEF Step, Meets
<1>4. PICK p \in Places, part \in Nat :
         /\ Even(p) /\ p # <<>> /\ p[1] \in Entered
         /\ StmtAt(program, p).op = "if" /\ Kids(program, p, part) \in Seq(Statements)
         /\ Now.other = Parts(p, part, Kids(program, p, part))
         /\ Agrees(program, vars, p)
  BY <1>3 DEF Waits
<1>5. Goes(program, Entered, vars, Scoped(Now.other), vars)
  BY <1>2, <1>4, GoesScoped
<1>6. Goes(program, Entered, vars, MoveTo(at), vars)
  BY <1>2, GoesMoves
<1>7. Items(program, Len(blocks)) \subseteq S /\ Moves \subseteq S
  OBVIOUS
<1> HIDE DEF S
<1>8. Scoped(Now.other) \in Seq(S)
  BY <1>4, <1>7, BranchType
<1>9. MoveTo(at) \in Seq(S)
  <2>1. at \in Nat
    BY DEF TypeOK
  <2> QED
    BY <1>7, <2>1, MoveSeqs
<1>10. Rest \in Seq(S)
  BY <1>1, <1>7, TypesAtHead, SeqOfMore
<1>11. Goes(program, Entered, vars, Scoped(Now.other) \o MoveTo(at) \o Rest, b)
  BY <1>2, <1>3, <1>5, <1>6, <1>8, <1>9, <1>10, GoesThree
<1>12. Goes(program, Entered, vars', agenda', b)
  BY <1>1, <1>11
<1>13. \A u \in resolved' : Means(program, u.at, u.name, u.to)
  BY <1>1 DEF NamesInv, ResolvedAreMeant
<1> QED
  BY <1>1, <1>2, <1>12, <1>13, NamesOfStep

LEMMA NamesOfRunTimeIf ==
    ASSUME TypeOK, NamesInv, vars # <<>>, errors = {}, RunTimeIf PROVE NamesInv'
<1>1. CASE Crash
  BY <1>1, NamesOutside DEF Crash
<1>2. CASE ~Crash
  <2> DEFINE n == Len(blocks)
             p == Now.at
             hasElse == Now.stmt.else # <<>>
             merge == IF hasElse THEN n + 3 ELSE n + 2
             then == Scoped(Parts(p, 1, Kids(program, p, 1)))
             else == Scoped(Parts(p, 2, Kids(program, p, 2)))
             other == IF hasElse THEN MoveTo(n + 2) \o else \o JumpTo(merge) ELSE <<>>
             jump == JumpTo(merge)
             move == MoveTo(merge)
             S == Items(program, Len(blocks)) \cup Moves
  <2>1. /\ phase = "analyze" /\ agenda # <<>> /\ Now.do = "finish" /\ Now.stmt.op = "if"
        /\ vars' = vars /\ made' = made /\ Stays /\ Evaluate(Now.stmt.e, p)
    BY <1>2 DEF RunTimeIf, Finish, AtHead, Now
  <2>2. PICK b \in Seq(Scopes) : Outermost(b) /\ Goes(program, Entered, vars, Rest, b)
    BY <2>1, BranchesAtHead
  <2>3. /\ Good(program, Entered, vars) /\ Len(vars) > 1
        /\ p \in Places /\ Even(p) /\ p # <<>> /\ p[1] \in Entered
        /\ StmtAt(program, p).op = "if" /\ Agrees(program, vars, p)
        /\ Kids(program, p, 1) = Now.stmt.then /\ Kids(program, p, 2) = Now.stmt.else
        /\ Kids(program, p, 1) \in Seq(Statements) /\ Kids(program, p, 2) \in Seq(Statements)
    BY <2>1, BranchesAtHead
  <2>4. agenda' = then \o jump \o other \o move \o Rest
    BY <1>2, <2>3 DEF RunTimeIf
  <2>5. n \in Nat /\ n + 2 \in Nat /\ n + 3 \in Nat /\ merge \in Nat
    BY DEF TypeOK
  <2>6. Items(program, Len(blocks)) \subseteq S /\ Moves \subseteq S
    OBVIOUS
  <2>7. 1 \in Nat /\ 2 \in Nat /\ StmtAt(program, p).op # "for"
    BY <2>3
  <2> HIDE DEF n, p, hasElse, merge, S
  <2>8. /\ Goes(program, Entered, vars, then, vars) /\ Goes(program, Entered, vars, else, vars)
    BY <2>3, <2>7, GoesScoped
  <2>9. then \in Seq(S) /\ else \in Seq(S)
    BY <2>3, <2>6, <2>7, BranchType
  <2> HIDE DEF then, else
  <2>10. \A k : /\ Goes(program, Entered, vars, MoveTo(k), vars)
                /\ Goes(program, Entered, vars, JumpTo(k), vars)
    BY <2>3, GoesMoves
  <2>11. \A k \in Nat : MoveTo(k) \in Seq(S) /\ JumpTo(k) \in Seq(S)
    BY <2>6, MoveSeqs
  <2>12. /\ jump \in Seq(S) /\ Goes(program, Entered, vars, jump, vars)
         /\ move \in Seq(S) /\ Goes(program, Entered, vars, move, vars)
    BY <2>5, <2>10, <2>11
  <2>13. other \in Seq(S) /\ Goes(program, Entered, vars, other, vars)
    <3>1. CASE hasElse
      <4> DEFINE begin == MoveTo(n + 2)
                 finish == JumpTo(merge)
      <4>1. /\ begin \in Seq(S) /\ Goes(program, Entered, vars, begin, vars)
            /\ finish \in Seq(S) /\ Goes(program, Entered, vars, finish, vars)
        BY <2>5, <2>10, <2>11
      <4> HIDE DEF begin, finish
      <4>2. begin \o else \o finish \in Seq(S)
        BY <2>9, <4>1, ThreeParts
      <4>3. Goes(program, Entered, vars, begin \o else \o finish, vars)
        BY <2>8, <2>9, <4>1, GoesThree
      <4> QED
        BY <3>1, <4>2, <4>3, Zenon DEF begin, finish
    <3>2. CASE ~hasElse
      <4>1. vars \in Seq(Scopes) /\ other = <<>>
        BY <3>2 DEF TypeOK
      <4>2. Walk(program, Entered, vars, <<>>, vars)
        BY <4>1, WalkNil
      <4>3. <<>> \in Seq(S)
        OBVIOUS
      <4> HIDE DEF other
      <4> QED
        BY <4>1, <4>2, <4>3, Zenon DEF Goes
    <3> QED
      BY <3>1, <3>2
  <2>14. Rest \in Seq(S)
    BY <2>1, <2>6, TypesAtHead, SeqOfMore
  <2> HIDE DEF jump, move, other
  <2> DEFINE front == then \o jump \o other
  <2>15. front \in Seq(S) /\ Goes(program, Entered, vars, front, vars)
    <3>1. front \in Seq(S)
      BY <2>9, <2>12, <2>13, ThreeParts
    <3>2. Goes(program, Entered, vars, front, vars)
      BY <2>8, <2>9, <2>12, <2>13, GoesThree
    <3> QED
      BY <3>1, <3>2
  <2> HIDE DEF front
  <2>16. Goes(program, Entered, vars, front \o move \o Rest, b)
    BY <2>2, <2>12, <2>14, <2>15, GoesThree
  <2>17. Goes(program, Entered, vars', agenda', b)
    BY <2>1, <2>4, <2>16 DEF front
  <2>18. \A u \in resolved' : Means(program, u.at, u.name, u.to)
    BY <2>1, <2>3, ResolvedFine
  <2> QED
    BY <2>1, <2>2, <2>17, <2>18, NamesOfStep
<1> QED
  BY <1>1, <1>2


LEMMA NamesOfEnterLoop ==
    ASSUME TypeOK, NamesInv, vars # <<>>, errors = {}, EnterLoop PROVE NamesInv'
<1>1. CASE Crash
  BY <1>1, NamesOutside DEF Crash
<1>2. CASE ~Crash
  <2> DEFINE n == Len(blocks)
             p == Now.at
             s == Now.stmt
             cond == [do |-> "loopCond", at |-> Child(p, 2, 1), cond |-> s.cond, merge |-> n + 5]
             items == (Optional(p, 1, s.init) \o JumpTo(n + 2) \o MoveTo(n + 2))
                      \o (<<cond>> \o (MoveTo(n + 3) \o Optional(p, 3, s.iter) \o JumpTo(n + 2)
                                       \o MoveTo(n + 4) \o Parts(p, 4, s.body) \o JumpTo(n + 3)
                                       \o MoveTo(n + 5))
                          \o Item("closeLoop"))
             T == StmtItems \cup ScopeItems \cup Moves \cup {cond}
             S == T \cup Items(program, Len(blocks))
  <2>1. /\ phase = "analyze" /\ agenda # <<>> /\ Now.do = "stmt" /\ s.op = "for"
        /\ ~Refused(s) /\ vars' = Append(vars, <<>>)
        /\ made' = made /\ resolved' = resolved /\ Stays
    BY <1>2 DEF EnterLoop, AtHead, Now
  <2>2. agenda' = items \o Rest
    BY <1>2 DEF EnterLoop, Child
  <2>3. PICK b \in Seq(Scopes), c \in Seq(Scopes) :
           /\ Outermost(b) /\ Good(program, Entered, vars)
           /\ Step(program, Entered, vars, Now, c) /\ Goes(program, Entered, c, Rest, b)
    BY <2>1, NamesAtHead
  <2>4. /\ Placed(program, Entered, vars, p, s) /\ Agrees(program, vars, p)
        /\ Defining(vars, Now, c)
    BY <2>1, <2>3, StatementAtHead
  <2>5. c = vars
    BY <2>1, <2>4 DEF Defining
  <2>6. Len(vars) > 1
    <3>1. ~InGlobalScope
      BY <2>1 DEF Refused
    <3> QED
      BY <3>1, InnerScope DEF TypeOK
  <2>7. p \in Places /\ s = StmtAt(program, p) /\ Even(p) /\ p # <<>> /\ p[1] \in Entered
    BY <2>4, <2>6, PlacedInside
  <2>8. n \in Nat /\ s \in Statements
    BY <2>1, TypesAtHead
  <2>9. Rest \in Seq(Items(program, Len(blocks)))
    BY <2>1, TypesAtHead
  <2>10. cond.do = "loopCond" /\ cond.at = Child(p, 2, 1)
    OBVIOUS
  <2> HIDE DEF n, p, s, cond
  <2>11. Goes(program, Entered, Append(vars, <<>>), items, vars) /\ items \in Seq(T)
    BY <2>1, <2>3, <2>4, <2>7, <2>8, <2>10, GoesLoop, ZenonT(60)
  <2> HIDE DEF items, T
  <2>12. items \in Seq(S) /\ Rest \in Seq(S)
    BY <2>9, <2>11, SeqOfMore
  <2> HIDE DEF S
  <2>13. Goes(program, Entered, Append(vars, <<>>), items \o Rest, b)
    BY <2>3, <2>5, <2>11, <2>12, GoesConcat
  <2>14. Goes(program, Entered, vars', agenda', b)
    BY <2>1, <2>2, <2>13
  <2>15. \A u \in resolved' : Means(program, u.at, u.name, u.to)
    BY <2>1 DEF NamesInv, ResolvedAreMeant
  <2> QED
    BY <2>1, <2>3, <2>14, <2>15, NamesOfStep
<1> QED
  BY <1>1, <1>2

\* The arguments of a function as a scope.
LEMMA ArgumentsAreAScope ==
    ASSUME TypeOK, NEW f \in FuncsOf(program)
    PROVE  [n \in program[f].args |-> <<f, 0>>] \in Scopes
<1>1. program[f] \in Statements /\ program[f].op = "func" /\ f \in Nat
  BY BodyIsOfStatements DEF FuncsOf
<1>2. program[f].args \subseteq Names
  BY <1>1 DEF Names
<1>3. <<f, 0>> \in Places
  BY <1>1 DEF Places
<1> DEFINE D == program[f].args
           x == <<f, 0>>
<1> HIDE DEF D, x
<1>4. [n \in D |-> x] \in [D -> Places]
  BY <1>3 DEF x
<1> QED
  BY <1>2, <1>4 DEF Scopes, D, x

\* A body that is begun.
LEMMA GoesBegun ==
    ASSUME TypeOK, NEW f \in FuncsOf(program), NEW m, NEW l, l \subseteq m, f \in m,
           Good(program, l, vars), Len(vars) > 1 => program[f].template /\ f \notin l,
           NEW rest \in Seq(Items(program, Len(blocks))), BeginBody(f, at, rest),
           NEW b, Goes(program, m, vars, rest, b)
    PROVE  Goes(program, m, vars', agenda', b)
<1> DEFINE I == Items(program, Len(blocks))
           s == [n \in program[f].args |-> <<f, 0>>]
           end == [do |-> "endBody", func |-> f, block |-> at, depth |-> Len(vars),
                   loops |-> loops]
           body == BodyOf(f, at)
<1>1. f \in Nat /\ s \in Scopes /\ program[f].body \in Seq(Statements)
  BY ArgumentsAreAScope, BodyIsOfStatements DEF FuncsOf
<1>2. StmtItems \subseteq I
  BY DEF Items
<1>3. at \in 0..Len(blocks) /\ Len(blocks) \in Nat
  BY DEF TypeOK
<1>4. end \in I /\ body \in Seq(I)
  <2>1. Len(blocks) <= Len(blocks)
    BY <1>3
  <2> QED
    BY <1>3, <2>1, EndOfBody, BodyOfType
<1>5. end.do = "endBody"
  OBVIOUS
<1>6. body = Parts(<<>>, f, Kids(program, <<>>, f)) \o <<end>>
  BY <1>1, BodyIsParts DEF BodyOf
<1>7. vars' = Append(vars, s) /\ agenda' = body \o rest
  BY DEF BeginBody
<1> HIDE DEF end, body, I
<1>8. Goes(program, m, Append(vars, s), Parts(<<>>, f, Kids(program, <<>>, f)) \o <<end>>, vars)
  BY <1>1, <1>2, <1>4, <1>5, GoesBody
<1> HIDE DEF s
<1>9. Goes(program, m, Append(vars, s), body \o rest, b)
  BY <1>4, <1>6, <1>8, GoesConcat DEF I
<1> QED
  BY <1>7, <1>9

LEMMA NamesOfInstantiate ==
    ASSUME TypeOK, NamesInv, vars # <<>>, errors = {}, Instantiate PROVE NamesInv'
<1> DEFINE f == Evaluated.callee
           m == Entered \cup {f}
<1>1. /\ phase = "analyze" /\ agenda # <<>> /\ program[f].template /\ f \notin made
      /\ made' = made \cup {f} /\ BeginBody(f, at, agenda)
      /\ resolved' = resolved /\ Stays
  BY DEF Instantiate, Pending
<1>2. f \in FuncsOf(program)
  BY CalleeIsAFunction
<1> HIDE DEF f
<1>3. f \notin Entered
  BY <1>1 DEF Entered
<1>4. program' = program /\ decl' = decl
  BY <1>1 DEF Stays
<1>5. Entered' = m
  BY <1>1, <1>2, <1>4 DEF Entered, FuncsOf
<1>6. PICK b \in Seq(Scopes) : Outermost(b) /\ Goes(program, Entered, vars, agenda, b)
  BY <1>1 DEF NamesInv
<1>7. Good(program, Entered, vars)
  BY <1>1, NamesAtHead
<1>8. Entered \subseteq m /\ f \in m
  OBVIOUS
<1> HIDE DEF m
<1>9. Goes(program, m, vars, agenda, b)
  BY <1>6, <1>8, GoesMore
<1>10. agenda \in Seq(Items(program, Len(blocks)))
  BY DEF TypeOK
<1>11. Goes(program, m, vars', agenda', b)
  BY <1>1, <1>2, <1>3, <1>7, <1>8, <1>9, <1>10, GoesBegun
<1>12. Outermost(b)'
  <2>1. Good(program, m, b)
    BY <1>6, <1>8, GoodMore DEF Outermost
  <2> QED
    BY <1>4, <1>5, <1>6, <2>1 DEF Outermost
<1>13. ResolvedAreMeant'
  BY <1>1, <1>4 DEF NamesInv, ResolvedAreMeant
<1> QED
  BY <1>4, <1>5, <1>11, <1>12, <1>13 DEF NamesInv


\* A variable of the module that is new is the first of its name.
LEMMA FirstIsGlobal ==
    ASSUME NEW p, Len(p) \in Nat, NEW a, NEW d \in 1..Len(p), Knows(a, p, d),
           p[d].op = "var", p[d].name \notin DOMAIN Top(a)
    PROVE  Global(p, p[d].name) = <<d>>
<1> DEFINE n == p[d].name
           G == {g \in 1..Len(p) : Defines(p[g], n)}
<1>1. d \in G
  BY DEF Defines
<1>2. ASSUME NEW g \in G PROVE d <= g
  <2> SUFFICES ASSUME g < d PROVE FALSE
    OBVIOUS
  <2>1. g \in 1..(d - 1) /\ p[g].op = "var" /\ p[g].name = n
    BY DEF Defines
  <2> QED
    BY <2>1 DEF Knows
<1>3. G \subseteq Nat
  OBVIOUS
<1> HIDE DEF G
<1>4. Least(G) = d /\ G # {}
  BY <1>1, <1>2, <1>3, LeastIs
<1> QED
  BY <1>4 DEF Global, G

\* A step over a declaration, back to scopes that know it.
LEMMA NamesOfDeclared ==
    ASSUME NamesInv, errors = {}, phase = "analyze", phase' = "analyze", program' = program,
           made' = made, resolved' = resolved, decl \in Nat, decl' = decl + 1,
           NEW b \in Seq(Scopes), Good(program, Entered, b), Len(b) = 1, Knows(b, program, decl),
           program[decl].op = "var" => program[decl].name \in DOMAIN Top(b),
           Goes(program, Entered, vars', agenda', b)
    PROVE  NamesInv'
<1>1. Entered' = Entered
  BY DEF Entered, FuncsOf
<1>2. Knows(b, program, decl + 1)
  <2>1. \A j \in 1..(decl + 1 - 1) : j \in 1..(decl - 1) \/ j = decl
    OBVIOUS
  <2> QED
    BY <2>1 DEF Knows
<1>3. Outermost(b)'
  BY <1>1, <1>2 DEF Outermost
<1>4. ResolvedAreMeant'
  BY DEF NamesInv, ResolvedAreMeant
<1> QED
  BY <1>1, <1>3, <1>4 DEF NamesInv

\* A declaration that is a statement, met with the outermost scopes.
LEMMA StepOfDeclaration ==
    ASSUME NEW m, NEW p \in Seq(Statements), NEW d \in 1..Len(p), NEW a, Good(p, m, a),
           Len(a) = 1, Knows(a, p, d), NEW b,
           Defining(a, [do |-> "stmt", at |-> <<d>>, stmt |-> p[d]], b)
    PROVE  Step(p, m, a, [do |-> "stmt", at |-> <<d>>, stmt |-> p[d]], b)
<1> DEFINE item == [do |-> "stmt", at |-> <<d>>, stmt |-> p[d]]
           q == <<d>>
<1>1. Len(q) = 1 /\ q[1] = d /\ q \in Places
  BY DEF Places
<1> HIDE DEF q
<1>2. StmtAt(p, q) = p[d] /\ Siblings(p, q) = p /\ Index(q) = d
  BY <1>1 DEF StmtAt, Siblings, Index
<1>3. Placed(p, m, a, q, p[d])
  BY <1>1, <1>2 DEF Placed
<1>4. Agrees(p, a, <<d>>)
  BY GoodOutside
<1>5. Sees(p, a, q)
  BY <1>2, <1>4 DEF Sees, q
<1>6. item.do = "stmt" /\ item.at = q /\ item.stmt = p[d] /\ Defining(a, item, b)
  BY DEF q
<1> HIDE DEF item
<1>7. Step(p, m, a, item, b)
  BY <1>3, <1>5, <1>6 DEF Step
<1> QED
  BY <1>7 DEF item

LEMMA NamesOfDeclare ==
    ASSUME TypeOK, NamesInv, vars # <<>>, errors = {}, errors' = {}, Declare PROVE NamesInv'
<1> DEFINE d == program[decl]
<1>1. /\ phase = "analyze" /\ phase' = "analyze" /\ agenda = <<>> /\ decl' = decl + 1
      /\ decl \in Nat /\ decl \in 1..Len(program)
      /\ program' = program /\ made' = made /\ resolved' = resolved
  BY DEF Declare, TypeOK
<1>2. program \in Seq(Statements) /\ d \in Statements /\ vars \in Seq(Scopes)
  BY <1>1, StatementsAssumption DEF TypeOK
<1>3. PICK b \in Seq(Scopes) : Outermost(b) /\ Goes(program, Entered, vars, <<>>, b)
  BY <1>1 DEF NamesInv
<1>4. b = vars
  BY <1>3, GoesNowhere
<1>5. Good(program, Entered, vars) /\ Len(vars) = 1 /\ Knows(vars, program, decl)
  BY <1>3, <1>4 DEF Outermost
<1>6. Goes(program, Entered, vars, <<>>, vars)
  BY <1>2, WalkNil DEF Goes
<1> HIDE DEF d
<1>7. CASE d.op = "func" /\ ~InGlobalScope
  BY <1>5, <1>7 DEF InGlobalScope
<1>8. CASE d.op = "func" /\ InGlobalScope /\ d.template
  <2>1. vars' = vars /\ agenda' = <<>>
    BY <1>1, <1>8 DEF Declare, d
  <2> QED
    BY <1>1, <1>2, <1>5, <1>6, <1>8, <2>1, NamesOfDeclared DEF d
<1>9. CASE d.op = "func" /\ InGlobalScope /\ ~d.template
  <2>1. BeginBody(decl, at, <<>>)
    BY <1>1, <1>9 DEF Declare, d
  <2>2. decl \in FuncsOf(program) /\ decl \in Entered
    BY <1>1, <1>9 DEF FuncsOf, Entered, d
  <2>3. <<>> \in Seq(Items(program, Len(blocks))) /\ ~(Len(vars) > 1)
    BY <1>5
  <2>4. Goes(program, Entered, vars', agenda', vars)
    BY <1>5, <1>6, <2>1, <2>2, <2>3, GoesBegun
  <2> QED
    BY <1>1, <1>2, <1>5, <1>9, <2>4, NamesOfDeclared DEF d
<1>10. CASE d.op # "func"
  <2> DEFINE item == [do |-> "stmt", at |-> <<decl>>, stmt |-> d]
             n == d.name
             c == With(vars, n, <<decl>>)
  <2>1. vars' = vars /\ agenda' = <<item>>
    BY <1>10 DEF Declare, d
  <2>2. item.do = "stmt" /\ item.at = <<decl>> /\ item.stmt = d
    OBVIOUS
  <2>3. \A e : Defining(vars, item, e) => Step(program, Entered, vars, item, e)
    BY <1>1, <1>2, <1>5, StepOfDeclaration DEF d
  <2> HIDE DEF item
  <2>4. CASE d.op # "var"
    <3>1. Defining(vars, item, vars)
      BY <2>2, <2>4 DEF Defining
    <3>2. Goes(program, Entered, vars, <<item>>, vars)
      BY <1>2, <2>3, <3>1, GoesOne
    <3> QED
      BY <1>1, <1>2, <1>5, <2>1, <2>4, <3>2, NamesOfDeclared DEF d
  <2>5. CASE d.op = "var" /\ n \in DOMAIN Top(vars)
    <3>1. Defining(vars, item, <<>>)
      BY <2>2, <2>5 DEF Defining
    <3>2. <<>> \in Seq(Scopes)
      OBVIOUS
    <3>3. Walk(program, Entered, vars, <<item>>, <<>>)
      BY <1>2, <2>3, <3>1, <3>2, WalkOne
    <3>4. Goes(program, Entered, vars, <<item>>, vars)
      BY <3>3 DEF Goes
    <3> QED
      BY <1>1, <1>2, <1>5, <2>1, <2>5, <3>4, NamesOfDeclared DEF d
  <2>6. CASE d.op = "var" /\ n \notin DOMAIN Top(vars)
    <3>1. n \in Names /\ <<decl>> \in Places
      BY <1>1, <1>2, <2>6, NamesOfStatements DEF Places
    <3>2. Global(program, n) = <<decl>>
      BY <1>1, <1>2, <1>5, <2>6, FirstIsGlobal DEF d
    <3>3. Good(program, Entered, c)
      BY <1>5, <3>1, <3>2, GoodWith
    <3>4. /\ c \in Seq(Scopes) /\ Len(c) = Len(vars)
          /\ \A x : x \in DOMAIN Top(c) <=> x \in DOMAIN Top(vars) \/ x = n
      BY <1>2, <3>1, WithIs
    <3>5. Defining(vars, item, c)
      BY <2>2, <2>6 DEF Defining
    <3> HIDE DEF c
    <3>6. Goes(program, Entered, vars, <<item>>, c)
      BY <1>2, <2>3, <3>4, <3>5, GoesOne
    <3>7. Knows(c, program, decl) /\ n \in DOMAIN Top(c)
      BY <1>5, <3>4 DEF Knows
    <3>8. Len(c) = 1
      BY <1>5, <3>4
    <3> QED
      BY <1>1, <2>1, <3>3, <3>4, <3>6, <3>7, <3>8, NamesOfDeclared DEF d
  <2> QED
    BY <2>4, <2>5, <2>6
<1> QED
  BY <1>7, <1>8, <1>9, <1>10

-----------------------------------------------------------------------------
(* The theorem. *)

LEMMA NamesOfInit == Init => NamesInv
<1> SUFFICES ASSUME Init PROVE NamesInv
  OBVIOUS
<1> DEFINE s == <<>>
           a == <<s>>
<1>1. vars = a /\ agenda = <<>> /\ decl = 1 /\ resolved = {}
  BY DEF Init
<1>2. s \in Scopes /\ DOMAIN s = {}
  BY EmptyScope
<1> HIDE DEF s
<1>3. a \in Seq(Scopes) /\ a # <<>> /\ Len(a) = 1 /\ a[1] = s
  BY <1>2
<1> HIDE DEF a
<1>4. Good(program, Entered, a)
  BY <1>2, <1>3 DEF Good
<1>5. Knows(a, program, decl)
  BY <1>1 DEF Knows
<1>6. Goes(program, Entered, a, <<>>, a)
  BY <1>3, WalkNil DEF Goes
<1> QED
  BY <1>1, <1>3, <1>4, <1>5, <1>6 DEF NamesInv, Outermost, ResolvedAreMeant

LEMMA NamesOfNext == IInv /\ NamesInv /\ [Next]_state => NamesInv'
<1> SUFFICES ASSUME IInv, NamesInv, [Next]_state, errors' = {} PROVE NamesInv'
  BY DEF NamesInv
<1>1. CASE UNCHANGED state
  <2>1. Entered' = Entered
    BY <1>1 DEF Entered, FuncsOf, state
  <2>2. \A b : Outermost(b)' <=> Outermost(b)
    BY <1>1, <2>1 DEF Outermost, state
  <2> QED
    BY <1>1, <2>1, <2>2 DEF NamesInv, ResolvedAreMeant, state
<1>2. CASE Next
  <2>1. TypeOK /\ StackInv
    BY DEF IInv
  <2>2. errors = {}
    BY <1>2, ReportsStay
  <2>3. CASE StartPasses \/ RunOnFunction \/ Verdict
    <3>1. program' = program /\ resolved' = resolved /\ phase' # "analyze"
      BY <2>3 DEF StartPasses, RunOnFunction, Verdict
    <3> QED
      BY <2>2, <3>1, NamesOutside
  <2>4. CASE ~(StartPasses \/ RunOnFunction \/ Verdict)
    <3>1. phase = "analyze"
      BY <1>2, <2>4 DEF Next, Declare, Instantiate, EndBody, Refuse, ReturnOutside, Start, DefineVar,
        AddExprStmt, Return, IfFails, ConstantIf, Mute, RunTimeIf, EnterLoop, LoopCondition,
        CloseLoop, BreakContinue, OpenScope, CloseScope, MoveOrJump, Finish, AtHead
    <3>2. vars # <<>>
      BY <2>1, <3>1, ScopesAreOpen
    <3>3. CASE Declare
      BY <2>1, <2>2, <3>2, <3>3, NamesOfDeclare
    <3>4. CASE Instantiate
      BY <2>1, <2>2, <3>2, <3>4, NamesOfInstantiate
    <3>5. CASE Refuse \/ ReturnOutside \/ AddExprStmt \/ Return \/ IfFails \/ BreakContinue
      BY <2>1, <2>2, <3>2, <3>5, NamesOfPlainStatements
    <3>6. CASE Start
      BY <2>1, <2>2, <3>2, <3>6, NamesOfStart
    <3>7. CASE DefineVar
      BY <2>1, <2>2, <3>2, <3>7, NamesOfDefineVar
    <3>8. CASE ConstantIf
      BY <2>1, <2>2, <3>2, <3>8, NamesOfConstantIf
    <3>9. CASE Mute
      BY <2>1, <2>2, <3>2, <3>9, NamesOfMute
    <3>10. CASE RunTimeIf
      BY <2>1, <2>2, <3>2, <3>10, NamesOfRunTimeIf
    <3>11. CASE EnterLoop
      BY <2>1, <2>2, <3>2, <3>11, NamesOfEnterLoop
    <3>12. CASE LoopCondition
      BY <2>1, <2>2, <3>2, <3>12, NamesOfLoopCondition
    <3>13. CASE EndBody \/ CloseLoop \/ OpenScope \/ CloseScope \/ MoveOrJump
      BY <2>1, <2>2, <3>2, <3>13, NamesOfScopes
    <3> QED
      BY <1>2, <2>4, <3>3, <3>4, <3>5, <3>6, <3>7, <3>8, <3>9, <3>10, <3>11, <3>12, <3>13 DEF Next
  <2> QED
    BY <2>3, <2>4
<1> QED
  BY <1>1, <1>2

\* Whatever the program, a use of a name is resolved to the nearest definition
\* before it in the text, to an argument or to a variable of the module, and in
\* the body of a template that defines no such name, to those of the module or
\* to what the caller that made the instance has (getVariable, analyzeVarDef).
THEOREM NamesAlwaysLexical == Spec => []NamesAreLexical
<1>1. NamesInv => NamesAreLexical
  BY DEF NamesInv, ResolvedAreMeant, NamesAreLexical
<1> QED
  BY <1>1, NamesOfInit, NamesOfNext, InvAlways, PTL DEF Spec
=============================================================================
