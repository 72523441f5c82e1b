------------------------ MODULE LoweringReturnProofs ------------------------
(***************************************************************************)
(* Proof that the missing returns are found (MissingReturnsAreFound), for  *)
(* every set of programs: the function is refused whose text can be run to *)
(* its end, whatever blocks its branches and loops have been turned into.  *)
(*                                                                         *)
(* Blocks are made long before the jumps to them are written, and in the   *)
(* middle of a body others are analysed: what the graph of a function will *)
(* be is to be read off the blocks and the agenda together.  The agenda of *)
(* a body is walked for that (Walk) as a run of the program would walk it: *)
(* a mark says before every item whether a run can come to it.  A walk is  *)
(* judged by a set S of blocks that no jump leaves (Shut, View): to move   *)
(* to a block of S that is still open makes the mark alive, and where it   *)
(* is alive, a jump must go to a block of S and a statement must be        *)
(* allowed to end as its text may (Step).                                  *)
(*                                                                         *)
(* Two things are kept of each body that is being analysed.  There is a    *)
(* set S and a walk that ends dead unless the text can be run through      *)
(* (Upper), so that blocks are come to only as the text says; and if it    *)
(* can be, then every walk, whichever set it is judged by, ends alive      *)
(* (Lower).  An action replaces the items at the head by others and writes *)
(* one terminator.  That it turns walks of the old into walks of the new   *)
(* items and back, with the new blocks that are needed, is shown without   *)
(* regard to the rest of the agenda (Turns), for each kind of statement    *)
(* from the equations of its text.  At the end of a body no items are left *)
(* and S says what dead code elimination will find (Fin).                  *)
(*                                                                         *)
(* First walks and the statements; then the agenda, cut at the ends of the *)
(* bodies on it (Hold); then the actions, one by one; last, what the       *)
(* passes find, and that they are the first to report a function.          *)
(***************************************************************************)
EXTENDS LoweringReturns, LoweringProofs

-----------------------------------------------------------------------------
(* The walk of control along the agenda. *)

\* Whether a run can come to an item, and the loops that are open there.
Marks == [live : BOOLEAN, loops : Seq(LoopPairs)]
Mark(l, lp) == [live |-> l, loops |-> lp]

\* The open ones among the blocks S, and what a walk is judged by: the blocks
\* that a run may come to, the open ones of them, and whether they are to be
\* no more than needed.
OpenIn(bs, S) == {b \in DOMAIN bs : b \in S /\ bs[b].term = Open}
View(bs, S, tight) == [within |-> S, live |-> OpenIn(bs, S), tight |-> tight]

\* The block that an item goes to.
Moves == {"moveTo", "endBody"}
To(item) == IF item.do \in Moves THEN item.block ELSE Null

\* Where statement s leaves the innermost of the loops for is in the view.
Lets(c, lp, s) ==
    /\ s \in Breaking => lp[Len(lp)].break \in c.within
    /\ s \in Continuing => lp[Len(lp)].continue \in c.within

\* An item that is met with mark x leaves mark y.
Passing == {"openScope", "closeScope", "closeLoop", "mute"}
Step(c, x, item, y) ==
    /\ y.loops = IF item.do = "closeLoop" THEN SubSeq(x.loops, 1, Len(x.loops) - 1) ELSE x.loops
    /\ x.live /\ item.do \in {"stmt", "finish"} =>
          Lets(c, x.loops, item.stmt) /\ (item.stmt \in Completing => y.live)
    /\ x.live /\ item.do = "loopCond" =>
          /\ MayHold(item.cond) => item.merge - 1 \in c.within
          /\ MayFail(item.cond) => item.merge \in c.within
    /\ x.live /\ item.do \in Passing => y.live
    /\ x.live /\ item.do = "jumpTo" => item.block \in c.within
    /\ item.do \in Moves /\ item.block \in c.live => y.live
    /\ item.do \in Moves /\ c.tight => ~x.live

Walk(c, x, items, y) ==
    \E h \in [1..(Len(items) + 1) -> Marks] :
        /\ h[1] = x /\ h[Len(items) + 1] = y
        /\ \A k \in 1..Len(items) : Step(c, h[k], items[k], h[k + 1])

\* Walks, put together and taken apart.
LEMMA WalkNil ==
    ASSUME NEW c, NEW x \in Marks PROVE Walk(c, x, <<>>, x)
<1> DEFINE h == [k \in 1..1 |-> x]
<1>1. Len(<<>>) = 0 /\ 1..Len(<<>>) = {}
  OBVIOUS
<1>2. h \in [1..(Len(<<>>) + 1) -> Marks] /\ h[1] = x /\ h[Len(<<>>) + 1] = x
  BY <1>1
<1> QED
  BY <1>1, <1>2 DEF Walk

LEMMA WalkNowhere ==
    ASSUME NEW c, NEW x, NEW y, Walk(c, x, <<>>, y) PROVE x = y
BY DEF Walk

LEMMA WalkEnds ==
    ASSUME NEW c, NEW S, NEW x, NEW y, NEW items \in Seq(S), Walk(c, x, items, y)
    PROVE  x \in Marks /\ y \in Marks
<1>1. Len(items) \in Nat
  OBVIOUS
<1>2. 1 \in 1..(Len(items) + 1) /\ Len(items) + 1 \in 1..(Len(items) + 1)
  BY <1>1
<1> QED
  BY <1>2 DEF Walk

LEMMA WalkOne ==
    ASSUME NEW c, NEW x \in Marks, NEW y \in Marks, NEW item, Step(c, x, item, y)
    PROVE  Walk(c, x, <<item>>, y)
<1> DEFINE h == [k \in 1..2 |-> IF k = 1 THEN x ELSE y]
<1>1. Len(<<item>>) = 1 /\ <<item>>[1] = item
  OBVIOUS
<1>2. h \in [1..2 -> Marks] /\ h[1] = x /\ h[2] = y
  OBVIOUS
<1> HIDE DEF h
<1> QED
  BY <1>1, <1>2 DEF Walk

LEMMA WalkConcat ==
    ASSUME NEW c, NEW S, NEW x, NEW y, NEW z, NEW a \in Seq(S), NEW b \in Seq(S),
           Walk(c, x, a, y), Walk(c, y, b, z)
    PROVE  Walk(c, x, a \o b, z)
<1> DEFINE i == Len(a)
           n == Len(b)
           ab == a \o b
<1>1. PICK f \in [1..(i + 1) -> Marks] :
        /\ f[1] = x /\ f[i + 1] = y
        /\ \A k \in 1..i : Step(c, f[k], a[k], f[k + 1])
  BY DEF Walk
<1>2. PICK g \in [1..(n + 1) -> Marks] :
        /\ g[1] = y /\ g[n + 1] = z
        /\ \A k \in 1..n : Step(c, g[k], b[k], g[k + 1])
  BY DEF Walk
<1> DEFINE h == [k \in 1..(i + n + 1) |-> IF k <= i THEN f[k] ELSE g[k - i]]
<1>3. /\ i \in Nat /\ n \in Nat /\ Len(ab) = i + n
      /\ \A k \in 1..i : ab[k] = a[k]
      /\ \A k \in 1..n : ab[i + k] = b[k]
  OBVIOUS
<1>4. /\ \A k \in 1..(i + 1) : h[k] = f[k]
      /\ \A k \in 1..(n + 1) : h[i + k] = g[k]
  BY <1>1, <1>2, <1>3
<1>5. h \in [1..(i + n + 1) -> Marks]
  BY <1>1, <1>2, <1>3
<1> HIDE DEF h, ab
<1>6. \A k \in 1..(i + n) : Step(c, h[k], ab[k], h[k + 1])
  <2> TAKE k \in 1..(i + n)
  <2>1. CASE k \in 1..i
    <3>1. k \in 1..(i + 1) /\ k + 1 \in 1..(i + 1)
      BY <2>1, <1>3
    <3>2. h[k] = f[k] /\ h[k + 1] = f[k + 1] /\ ab[k] = a[k]
      BY <2>1, <3>1, <1>3, <1>4
    <3>3. Step(c, f[k], a[k], f[k + 1])
      BY <2>1, <1>1
    <3> QED
      BY <3>2, <3>3
  <2>2. CASE k \notin 1..i
    <3>1. k - i \in 1..n /\ i + (k - i) = k /\ i + ((k - i) + 1) = k + 1
      BY <2>2, <1>3
    <3>2. h[k] = g[k - i] /\ h[k + 1] = g[(k - i) + 1] /\ ab[k] = b[k - i]
      BY <3>1, <1>3, <1>4, SMTT(60)
    <3> QED
      BY <3>1, <3>2, <1>2
  <2> QED
    BY <2>1, <2>2
<1>7. h[1] = x /\ h[Len(ab) + 1] = z
  BY <1>1, <1>2, <1>3, <1>4
<1> QED
  BY <1>3, <1>5, <1>6, <1>7 DEF Walk, ab

\* A walk over two lists stops between them.
LEMMA WalkSplit ==
    ASSUME NEW c, NEW S, NEW x, NEW z, NEW a \in Seq(S), NEW b \in Seq(S),
           Walk(c, x, a \o b, z)
    PROVE  \E y \in Marks : Walk(c, x, a, y) /\ Walk(c, y, b, z)
<1> DEFINE i == Len(a)
           n == Len(b)
           ab == a \o b
<1>1. /\ i \in Nat /\ n \in Nat /\ Len(ab) = i + n
      /\ \A k \in 1..i : ab[k] = a[k]
      /\ \A k \in 1..n : ab[i + k] = b[k]
  OBVIOUS
<1>2. PICK h \in [1..(i + n + 1) -> Marks] :
        /\ h[1] = x /\ h[i + n + 1] = z
        /\ \A k \in 1..(i + n) : Step(c, h[k], ab[k], h[k + 1])
  BY <1>1 DEF Walk
<1> DEFINE f == [k \in 1..(i + 1) |-> h[k]]
           g == [k \in 1..(n + 1) |-> h[i + k]]
<1>3. /\ f \in [1..(i + 1) -> Marks] /\ \A k \in 1..(i + 1) : f[k] = h[k]
      /\ g \in [1..(n + 1) -> Marks] /\ \A k \in 1..(n + 1) : g[k] = h[i + k]
  BY <1>1, <1>2
<1> HIDE DEF f, g, ab
<1>4. \A k \in 1..i : Step(c, f[k], a[k], f[k + 1])
  <2> TAKE k \in 1..i
  <2>1. k \in 1..(i + n) /\ k \in 1..(i + 1) /\ k + 1 \in 1..(i + 1)
    BY <1>1
  <2>2. f[k] = h[k] /\ f[k + 1] = h[k + 1] /\ ab[k] = a[k]
    BY <1>1, <1>3, <2>1
  <2>3. Step(c, h[k], ab[k], h[k + 1])
    BY <1>2, <2>1
  <2> QED
    BY <2>2, <2>3
<1>5. \A k \in 1..n : Step(c, g[k], b[k], g[k + 1])
  <2> TAKE k \in 1..n
  <2>1. /\ i + k \in 1..(i + n) /\ (i + k) + 1 = i + (k + 1)
        /\ k \in 1..(n + 1) /\ k + 1 \in 1..(n + 1)
    BY <1>1
  <2>2. g[k] = h[i + k] /\ g[k + 1] = h[i + (k + 1)]
    BY <1>3, <2>1
  <2>3. ab[i + k] = b[k]
    BY <1>1
  <2>4. Step(c, h[i + k], ab[i + k], h[(i + k) + 1])
    BY <1>2, <2>1
  <2> QED
    BY <2>1, <2>2, <2>3, <2>4
<1>6. Walk(c, x, a, h[i + 1])
  <2>1. f[1] = x /\ f[i + 1] = h[i + 1]
    BY <1>1, <1>2, <1>3
  <2> QED
    BY <1>3, <1>4, <2>1 DEF Walk
<1>7. Walk(c, h[i + 1], b, z)
  <2>1. g[1] = h[i + 1] /\ g[n + 1] = z
    BY <1>1, <1>2, <1>3
  <2> QED
    BY <1>3, <1>5, <2>1 DEF Walk
<1>8. h[i + 1] \in Marks
  BY <1>1, <1>2
<1> QED
  BY <1>6, <1>7, <1>8

LEMMA WalkHead ==
    ASSUME NEW c, NEW S, NEW x, NEW z, NEW item \in S, NEW b \in Seq(S), Walk(c, x, <<item>> \o b, z)
    PROVE  \E y \in Marks : Step(c, x, item, y) /\ Walk(c, y, b, z)
<1>1. <<item>> \in Seq(S) /\ Len(<<item>>) = 1 /\ <<item>>[1] = item
  OBVIOUS
<1>2. PICK y \in Marks : Walk(c, x, <<item>>, y) /\ Walk(c, y, b, z)
  BY <1>1, WalkSplit
<1>3. Step(c, x, item, y)
  <2>1. PICK h \in [1..2 -> Marks] : h[1] = x /\ h[2] = y /\ \A k \in 1..1 : Step(c, h[k], <<item>>[k], h[k + 1])
    BY <1>1, <1>2 DEF Walk
  <2> QED
    BY <1>1, <2>1
<1> QED
  BY <1>2, <1>3

LEMMA WalkBefore ==
    ASSUME NEW c, NEW S, NEW x \in Marks, NEW y \in Marks, NEW z, NEW item \in S, NEW b \in Seq(S),
           Step(c, x, item, y), Walk(c, y, b, z)
    PROVE  Walk(c, x, <<item>> \o b, z)
<1>1. <<item>> \in Seq(S) /\ Walk(c, x, <<item>>, y)
  BY WalkOne
<1> QED
  BY <1>1, WalkConcat

\* A view that says more, and in which no move is possible that was not before.
LEMMA WalkInto ==
    ASSUME NEW c, NEW d, NEW S, NEW x, NEW y, NEW items \in Seq(S),
           c.within \subseteq d.within, d.tight => c.tight,
           \A k \in 1..Len(items) : To(items[k]) \in d.live => To(items[k]) \in c.live,
           Walk(c, x, items, y)
    PROVE  Walk(d, x, items, y)
<1>1. PICK h \in [1..(Len(items) + 1) -> Marks] :
        /\ h[1] = x /\ h[Len(items) + 1] = y
        /\ \A k \in 1..Len(items) : Step(c, h[k], items[k], h[k + 1])
  BY DEF Walk
<1>2. \A k \in 1..Len(items) : Step(d, h[k], items[k], h[k + 1])
  <2> TAKE k \in 1..Len(items)
  <2> DEFINE m == h[k]
             n == h[k + 1]
             item == items[k]
  <2>1. Step(c, m, item, n)
    BY <1>1
  <2>2. To(item) \in d.live => To(item) \in c.live
    OBVIOUS
  <2> HIDE DEF m, n, item
  <2>3. Step(d, m, item, n)
    BY <2>1, <2>2 DEF Step, To, Lets
  <2> QED
    BY <2>3 DEF m, n, item
<1> QED
  BY <1>1, <1>2 DEF Walk

\* With less before an item there is no more behind it.
LEMMA StepLess ==
    ASSUME NEW c, NEW x, NEW y, NEW w, NEW item, w.loops = x.loops, w.live => x.live,
           Step(c, x, item, y)
    PROVE  Step(c, w, item, y)
BY DEF Step

\* With less at its beginning a walk comes to less.
LEMMA WalkLess ==
    ASSUME NEW c, NEW S, NEW x, NEW y, NEW items \in Seq(S), NEW w \in Marks,
           w.loops = x.loops, w.live => x.live, Walk(c, x, items, y)
    PROVE  \E v \in Marks : Walk(c, w, items, v) /\ v.loops = y.loops /\ (v.live => y.live)
<1>1. CASE items = <<>>
  <2>1. x = y
    BY <1>1, WalkNowhere
  <2>2. Walk(c, w, items, w)
    BY <1>1, WalkNil
  <2> QED
    BY <2>1, <2>2
<1>2. CASE items # <<>>
  <2>1. PICK h \in [1..(Len(items) + 1) -> Marks] :
          /\ h[1] = x /\ h[Len(items) + 1] = y
          /\ \A k \in 1..Len(items) : Step(c, h[k], items[k], h[k + 1])
    BY DEF Walk
  <2>2. Len(items) \in Nat \ {0}
    BY <1>2
  <2> DEFINE n == Len(items)
             g == [k \in 1..(n + 1) |-> IF k = 1 THEN w ELSE h[k]]
  <2>3. /\ g \in [1..(n + 1) -> Marks] /\ g[1] = w
        /\ \A k \in 2..(n + 1) : g[k] = h[k]
    BY <2>1, <2>2
  <2> HIDE DEF g
  <2>4. \A k \in 1..n : Step(c, g[k], items[k], g[k + 1])
    <3> TAKE k \in 1..n
    <3>1. Step(c, h[k], items[k], h[k + 1])
      BY <2>1
    <3>2. g[k + 1] = h[k + 1]
      <4>1. k + 1 \in 2..(n + 1)
        BY <2>2
      <4> QED
        BY <2>3, <4>1
    <3>3. CASE k = 1
      BY <2>1, <2>3, <3>1, <3>2, <3>3, StepLess
    <3>4. CASE k # 1
      <4>1. k \in 2..(n + 1)
        BY <2>2, <3>4
      <4>2. g[k] = h[k]
        BY <2>3, <4>1
      <4> QED
        BY <3>1, <3>2, <4>2
    <3> QED
      BY <3>3, <3>4
  <2>5. n + 1 \in 2..(n + 1)
    BY <2>2
  <2>6. g[n + 1] = y
    BY <2>1, <2>3, <2>5
  <2>7. Walk(c, w, items, y)
    BY <2>3, <2>4, <2>6 DEF Walk
  <2>8. y \in Marks
    BY <2>7, WalkEnds
  <2> QED
    BY <2>7, <2>8
<1> QED
  BY <1>1, <1>2

-----------------------------------------------------------------------------
(* Statements one after the other. *)

Listing(items, stmts) ==
    /\ Len(items) = Len(stmts)
    /\ \A k \in 1..Len(stmts) : items[k].do = "stmt" /\ items[k].stmt = stmts[k]

LetsAll(c, lp, stmts) ==
    /\ Reaches(stmts, Breaking) => lp[Len(lp)].break \in c.within
    /\ Reaches(stmts, Continuing) => lp[Len(lp)].continue \in c.within

\* The marks.
LEMMA MarkIs ==
    ASSUME NEW l \in BOOLEAN, NEW lp \in Seq(LoopPairs)
    PROVE  Mark(l, lp) \in Marks /\ Mark(l, lp).live = l /\ Mark(l, lp).loops = lp
BY DEF Mark, Marks

LEMMA MarkOf ==
    ASSUME NEW x \in Marks
    PROVE  x.live \in BOOLEAN /\ x.loops \in Seq(LoopPairs) /\ x = Mark(x.live, x.loops)
BY DEF Mark, Marks

\* Of statements in a list as much is walked as the text says.
LEMMA ListingDown ==
    ASSUME NEW c, NEW lp \in Seq(LoopPairs), NEW l \in BOOLEAN, NEW S, NEW T,
           NEW items \in Seq(S), NEW stmts \in Seq(T), Listing(items, stmts),
           l => LetsAll(c, lp, stmts)
    PROVE  Walk(c, Mark(l, lp), items, Mark(l /\ Completes(stmts), lp))
<1> DEFINE n == Len(items)
           h == [k \in 1..(n + 1) |-> Mark(l /\ Passed(stmts, k), lp)]
<1>1. n \in Nat /\ Len(stmts) = n
  BY DEF Listing
<1>2. \A k \in 1..(n + 1) : (l /\ Passed(stmts, k)) \in BOOLEAN
  BY DEF Passed
<1>3. h \in [1..(n + 1) -> Marks] /\ \A k \in 1..(n + 1) : h[k] = Mark(l /\ Passed(stmts, k), lp)
  BY <1>2, MarkIs
<1> HIDE DEF h
<1>4. h[1] = Mark(l, lp)
  <2>1. Passed(stmts, 1) /\ 1 \in 1..(n + 1)
    BY <1>1 DEF Passed
  <2>2. (l /\ Passed(stmts, 1)) = l
    BY <2>1
  <2> QED
    BY <1>3, <2>1, <2>2
<1>5. h[n + 1] = Mark(l /\ Completes(stmts), lp)
  <2>1. n + 1 \in 1..(n + 1) /\ (n + 1) - 1 = n
    BY <1>1
  <2>2. Passed(stmts, n + 1) = Completes(stmts)
    BY <1>1, <2>1 DEF Passed, Completes, AllOf
  <2> QED
    BY <1>3, <2>1, <2>2
<1>6. \A k \in 1..n : Step(c, h[k], items[k], h[k + 1])
  <2> TAKE k \in 1..n
  <2> DEFINE x == h[k]
             y == h[k + 1]
             item == items[k]
  <2>1. k \in 1..(n + 1) /\ k + 1 \in 1..(n + 1)
    BY <1>1
  <2>2. /\ x.live = (l /\ Passed(stmts, k)) /\ x.loops = lp
        /\ y.live = (l /\ Passed(stmts, k + 1)) /\ y.loops = lp
    <3> DEFINE v == (l /\ Passed(stmts, k))
               w == (l /\ Passed(stmts, k + 1))
    <3>1. v \in BOOLEAN /\ w \in BOOLEAN
      BY <1>2, <2>1
    <3>2. x = Mark(v, lp) /\ y = Mark(w, lp)
      BY <1>3, <2>1
    <3> HIDE DEF v, w, x, y
    <3>3. x.live = v /\ x.loops = lp
      BY <3>1, <3>2, MarkIs
    <3>4. y.live = w /\ y.loops = lp
      BY <3>1, <3>2, MarkIs
    <3> QED
      BY <3>3, <3>4 DEF v, w
  <2>3. item.do = "stmt" /\ item.stmt = stmts[k]
    BY <1>1 DEF Listing
  <2>4. x.live => Lets(c, lp, stmts[k])
    BY <1>1, <2>2 DEF Reaches, Lets, LetsAll
  <2>5. x.live /\ stmts[k] \in Completing => y.live
    <3> SUFFICES ASSUME l, Passed(stmts, k), stmts[k] \in Completing, NEW j \in 1..((k + 1) - 1)
                 PROVE  stmts[j] \in Completing
      BY <2>2 DEF Passed
    <3>1. j \in 1..(k - 1) \/ j = k
      BY <1>1
    <3> QED
      BY <3>1 DEF Passed
  <2> HIDE DEF x, y, item
  <2>6. Step(c, x, item, y)
    BY <2>2, <2>3, <2>4, <2>5 DEF Step, Passing, Moves
  <2> QED
    BY <2>6 DEF x, y, item
<1> QED
  BY <1>3, <1>4, <1>5, <1>6 DEF Walk

\* And it is walked only if the text says so.
LEMMA ListingUp ==
    ASSUME NEW c, NEW x, NEW y, NEW S, NEW T, NEW items \in Seq(S), NEW stmts \in Seq(T),
           Listing(items, stmts), Walk(c, x, items, y)
    PROVE  /\ y.loops = x.loops
           /\ x.live => LetsAll(c, x.loops, stmts) /\ (Completes(stmts) => y.live)
<1> DEFINE n == Len(items)
<1>1. n \in Nat /\ Len(stmts) = n
  BY DEF Listing
<1>2. PICK h \in [1..(n + 1) -> Marks] :
        /\ h[1] = x /\ h[n + 1] = y
        /\ \A k \in 1..n : Step(c, h[k], items[k], h[k + 1])
  BY DEF Walk
<1>3. ASSUME NEW k \in 1..n
      PROVE  /\ h[k + 1].loops = h[k].loops
             /\ h[k].live => Lets(c, h[k].loops, stmts[k]) /\ (stmts[k] \in Completing => h[k + 1].live)
  <2> DEFINE u == h[k]
             v == h[k + 1]
             item == items[k]
  <2>1. item.do = "stmt" /\ item.stmt = stmts[k]
    BY <1>1 DEF Listing
  <2>2. Step(c, u, item, v)
    BY <1>2
  <2> HIDE DEF u, v, item
  <2>3. /\ v.loops = u.loops
        /\ u.live => Lets(c, u.loops, stmts[k]) /\ (stmts[k] \in Completing => v.live)
    BY <2>1, <2>2 DEF Step
  <2> QED
    BY <2>3 DEF u, v
<1> DEFINE I == {k \in Nat : k <= n => /\ h[k + 1].loops = x.loops
                                       /\ x.live /\ Passed(stmts, k + 1) => h[k + 1].live}
<1>4. 0 \in I
  BY <1>2
<1>5. ASSUME NEW k \in Nat, k \in I PROVE k + 1 \in I
  <2> SUFFICES ASSUME k + 1 <= n
               PROVE  /\ h[(k + 1) + 1].loops = x.loops
                      /\ x.live /\ Passed(stmts, (k + 1) + 1) => h[(k + 1) + 1].live
    OBVIOUS
  <2>1. k + 1 \in 1..n /\ k <= n
    BY <1>1
  <2>2. /\ h[k + 1].loops = x.loops
        /\ x.live /\ Passed(stmts, k + 1) => h[k + 1].live
    BY <1>5, <2>1
  <2>3. Passed(stmts, (k + 1) + 1) => Passed(stmts, k + 1) /\ stmts[k + 1] \in Completing
    <3> SUFFICES ASSUME Passed(stmts, (k + 1) + 1) PROVE Passed(stmts, k + 1) /\ stmts[k + 1] \in Completing
      OBVIOUS
    <3>1. \A j \in 1..(k + 1) : stmts[j] \in Completing
      BY DEF Passed
    <3> QED
      BY <3>1 DEF Passed
  <2> QED
    BY <1>3, <2>1, <2>2, <2>3
<1> HIDE DEF I
<1>6. Nat \subseteq I
  BY <1>4, <1>5, SetInduction
<1>7. \A k \in 1..n : /\ h[k].loops = x.loops
                      /\ x.live /\ Passed(stmts, k) => h[k].live
  <2> TAKE k \in 1..n
  <2>1. k - 1 \in Nat /\ k - 1 <= n /\ (k - 1) + 1 = k
    BY <1>1
  <2>2. k - 1 \in I
    BY <1>6, <2>1
  <2> QED
    BY <2>1, <2>2 DEF I
<1>8. y.loops = x.loops /\ (x.live /\ Passed(stmts, n + 1) => y.live)
  <2>1. n \in I
    BY <1>1, <1>6
  <2> QED
    BY <1>1, <1>2, <2>1 DEF I
<1>9. Completes(stmts) => Passed(stmts, n + 1)
  BY <1>1 DEF Completes, AllOf, Passed
<1>10. x.live => LetsAll(c, x.loops, stmts)
  BY <1>1, <1>3, <1>7 DEF LetsAll, Reaches, Lets
<1> QED
  BY <1>8, <1>9, <1>10

-----------------------------------------------------------------------------
(* The blocks that items go to. *)

Tos(items) == {To(items[k]) : k \in 1..Len(items)} \ {Null}
Distinct(items) ==
    \A k \in 1..Len(items) : \A j \in 1..(k - 1) :
        To(items[k]) = Null \/ To(items[j]) # To(items[k])

\* The blocks of two lists of items.
LEMMA TosConcat ==
    ASSUME NEW S, NEW s \in Seq(S), NEW t \in Seq(S) PROVE Tos(s \o t) = Tos(s) \cup Tos(t)
<1> DEFINE i == Len(s)
           n == Len(t)
           st == s \o t
<1>1. /\ i \in Nat /\ n \in Nat /\ Len(st) = i + n
      /\ \A k \in 1..i : st[k] = s[k]
      /\ \A k \in 1..n : st[i + k] = t[k]
  OBVIOUS
<1> HIDE DEF st
<1>2. \A k \in 1..i : k \in 1..(i + n)
  BY <1>1
<1>3. \A k \in 1..n : i + k \in 1..(i + n)
  BY <1>1
<1>4. \A k \in 1..(i + n) : k \in 1..i \/ (k - i \in 1..n /\ i + (k - i) = k)
  BY <1>1
<1>5. Tos(st) \subseteq Tos(s) \cup Tos(t)
  <2> SUFFICES ASSUME NEW k \in 1..(i + n), To(st[k]) # Null PROVE To(st[k]) \in Tos(s) \cup Tos(t)
    BY <1>1 DEF Tos
  <2>1. CASE k \in 1..i
    BY <1>1, <2>1 DEF Tos
  <2>2. CASE k \notin 1..i
    <3>1. k - i \in 1..n /\ st[k] = t[k - i]
      BY <1>1, <1>4, <2>2
    <3> QED
      BY <3>1 DEF Tos
  <2> QED
    BY <2>1, <2>2
<1>6. Tos(s) \subseteq Tos(st)
  <2> SUFFICES ASSUME NEW k \in 1..i, To(s[k]) # Null PROVE To(s[k]) \in Tos(st)
    BY DEF Tos
  <2>1. k \in 1..Len(st) /\ st[k] = s[k]
    BY <1>1, <1>2
  <2> QED
    BY <2>1 DEF Tos
<1>7. Tos(t) \subseteq Tos(st)
  <2> SUFFICES ASSUME NEW k \in 1..n, To(t[k]) # Null PROVE To(t[k]) \in Tos(st)
    BY DEF Tos
  <2>1. i + k \in 1..Len(st) /\ st[i + k] = t[k]
    BY <1>1, <1>3
  <2> QED
    BY <2>1 DEF Tos
<1> QED
  BY <1>5, <1>6, <1>7 DEF st

LEMMA DistinctConcat ==
    ASSUME NEW S, NEW s \in Seq(S), NEW t \in Seq(S)
    PROVE  Distinct(s \o t) <=> Distinct(s) /\ Distinct(t) /\ Tos(s) \cap Tos(t) = {}
<1> DEFINE i == Len(s)
           n == Len(t)
           st == s \o t
<1>1. /\ i \in Nat /\ n \in Nat /\ Len(st) = i + n
      /\ \A k \in 1..i : st[k] = s[k]
      /\ \A k \in 1..n : st[i + k] = t[k]
  OBVIOUS
<1> HIDE DEF st
<1>2. ASSUME Distinct(st) PROVE Distinct(s) /\ Distinct(t) /\ Tos(s) \cap Tos(t) = {}
  <2>1. \A k \in 1..(i + n) : \A j \in 1..(k - 1) : To(st[k]) = Null \/ To(st[j]) # To(st[k])
    BY <1>1, <1>2 DEF Distinct
  <2>2. ASSUME NEW k \in 1..i, NEW j \in 1..(k - 1) PROVE To(s[k]) = Null \/ To(s[j]) # To(s[k])
    <3>1. k \in 1..(i + n) /\ j \in 1..i /\ st[k] = s[k] /\ st[j] = s[j]
      BY <1>1
    <3> QED
      BY <2>1, <3>1
  <2>3. ASSUME NEW k \in 1..n, NEW j \in 1..(k - 1) PROVE To(t[k]) = Null \/ To(t[j]) # To(t[k])
    <3>1. i + k \in 1..(i + n) /\ i + j \in 1..((i + k) - 1) /\ j \in 1..n
      BY <1>1
    <3>2. st[i + k] = t[k] /\ st[i + j] = t[j]
      BY <1>1, <3>1
    <3> QED
      BY <2>1, <3>1, <3>2
  <2>4. ASSUME NEW k \in 1..n, NEW j \in 1..i PROVE To(t[k]) = Null \/ To(s[j]) # To(t[k])
    <3>1. i + k \in 1..(i + n) /\ j \in 1..((i + k) - 1)
      BY <1>1
    <3>2. st[i + k] = t[k] /\ st[j] = s[j]
      BY <1>1
    <3> QED
      BY <2>1, <3>1, <3>2
  <2>5. Tos(s) \cap Tos(t) = {}
    BY <2>4 DEF Tos
  <2> QED
    BY <2>2, <2>3, <2>5 DEF Distinct
<1>3. ASSUME Distinct(s), Distinct(t), Tos(s) \cap Tos(t) = {} PROVE Distinct(st)
  <2> SUFFICES ASSUME NEW k \in 1..(i + n), NEW j \in 1..(k - 1), To(st[k]) # Null
               PROVE  To(st[j]) # To(st[k])
    BY <1>1 DEF Distinct
  <2>1. CASE k \in 1..i
    <3>1. j \in 1..i /\ st[k] = s[k] /\ st[j] = s[j]
      BY <1>1, <2>1
    <3> QED
      BY <1>3, <2>1, <3>1 DEF Distinct
  <2>2. CASE k \notin 1..i /\ j \in 1..i
    <3>1. k - i \in 1..n /\ i + (k - i) = k
      BY <1>1, <2>2
    <3>2. st[k] = t[k - i] /\ st[j] = s[j]
      BY <1>1, <2>2, <3>1
    <3>3. To(st[k]) \in Tos(t)
      BY <3>1, <3>2 DEF Tos
    <3>4. To(st[j]) # Null => To(st[j]) \in Tos(s)
      BY <2>2, <3>2 DEF Tos
    <3> QED
      BY <1>3, <3>3, <3>4
  <2>3. CASE k \notin 1..i /\ j \notin 1..i
    <3>1. k - i \in 1..n /\ i + (k - i) = k /\ j - i \in 1..((k - i) - 1) /\ i + (j - i) = j
          /\ j - i \in 1..n
      BY <1>1, <2>3
    <3>2. st[k] = t[k - i] /\ st[j] = t[j - i]
      BY <1>1, <3>1
    <3> QED
      BY <1>3, <3>1, <3>2 DEF Distinct
  <2> QED
    BY <2>1, <2>2, <2>3
<1> QED
  BY <1>2, <1>3 DEF st

LEMMA DistinctAll ==
    ASSUME NEW S, NEW s \in Seq(S), NEW t \in Seq(S), Distinct(s), Distinct(t),
           Tos(s) \cap Tos(t) = {}
    PROVE  s \o t \in Seq(S) /\ Distinct(s \o t) /\ Tos(s \o t) = Tos(s) \cup Tos(t)
<1>1. Distinct(s \o t)
  BY DistinctConcat
<1>2. Tos(s \o t) = Tos(s) \cup Tos(t)
  BY TosConcat
<1> QED
  BY <1>1, <1>2

\* Items that go nowhere.
LEMMA TosNone ==
    ASSUME NEW items, \A k \in 1..Len(items) : items[k].do \notin Moves
    PROVE  Tos(items) = {} /\ Distinct(items)
BY DEF Tos, Distinct, To

LEMMA TosOne ==
    ASSUME NEW item PROVE Tos(<<item>>) = {To(item)} \ {Null} /\ Distinct(<<item>>)
<1>1. Len(<<item>>) = 1 /\ <<item>>[1] = item
  OBVIOUS
<1> QED
  BY <1>1 DEF Tos, Distinct

LEMMA TosNil == Tos(<<>>) = {} /\ Distinct(<<>>)
BY DEF Tos, Distinct

-----------------------------------------------------------------------------
(* The blocks a run may come to. *)

\* A run that is in S stays there.
Shut(bs, S) == \A b \in S \cap DOMAIN bs : Targets(bs[b].term) \subseteq S

\* At block a, if a run may come to it.
Here(bs, S, a, lp) == Mark(a \in OpenIn(bs, S), lp)

\* What follows from the text for the blocks bs of function f, begun at e,
\* from block a on, if items are still to be done and done says whether the
\* text can be run through: there are blocks to which a run may come, and
\* behind the items it is at the end only if done; ...
Upper(done, f, bs, e, a, lp, items) ==
    \E S \in SUBSET DOMAIN bs, y \in Marks :
        /\ e \in S /\ Shut(bs, S) /\ \A b \in S : bs[b].func = f
        /\ \A b \in OpenIn(bs, S) : b = a \/ b \in Tos(items)
        /\ Walk(View(bs, S, TRUE), Here(bs, S, a, lp), items, y)
        /\ y.live => done

\* ... and whichever blocks there are, it is at the end if done.
Lower(done, bs, e, a, lp, items) ==
    done => \A S \in SUBSET Nat, y \in Marks :
        /\ e \in S /\ Shut(bs, S)
        /\ Walk(View(bs, S, FALSE), Here(bs, S, a, lp), items, y)
        => y.live

\* No item goes to block a, or twice to a block.
Fresh(a, items) == Distinct(items) /\ a \notin Tos(items)

\* Blocks cs are blocks bs with a terminator for a if that was open, and more.
Wrote(bs, a, term, cs) ==
    /\ DOMAIN bs \subseteq DOMAIN cs
    /\ \A b \in DOMAIN bs :
        /\ cs[b].func = bs[b].func
        /\ cs[b].term = IF b = a /\ bs[b].term = Open THEN term ELSE bs[b].term
    /\ \A b \in DOMAIN cs \ DOMAIN bs : cs[b].term = Open

\* From old items in front, at block a with loops lp, to new items at c with
\* loops mp: walks of the old items are walks of the new ones, with the new
\* blocks they need, ...
TurnsUp(bs, a, lp, old, cs, c, mp, new) ==
    \A S \in SUBSET DOMAIN bs, z \in Marks :
        Shut(bs, S) /\ Walk(View(bs, S, TRUE), Here(bs, S, a, lp), old, z) =>
            \E S2 \in SUBSET DOMAIN cs, z2 \in Marks :
                /\ S \subseteq S2 /\ Shut(cs, S2)
                /\ \A b \in S2 : b \in S \/ (a \in S /\ cs[b].func = bs[a].func)
                /\ OpenIn(cs, S2) \cap DOMAIN bs \subseteq OpenIn(bs, S)
                /\ \A b \in OpenIn(cs, S2) :
                      b = c \/ b \in Tos(new) \/ (b \in S /\ b # a /\ b \notin Tos(old))
                /\ Walk(View(cs, S2, TRUE), Here(cs, S2, c, mp), new, z2)
                /\ z2.loops = z.loops /\ (z2.live => z.live)

\* ... and the other way round.
TurnsDown(bs, a, lp, old, cs, c, mp, new) ==
    \A S \in SUBSET Nat, z \in Marks :
        Shut(cs, S) /\ Walk(View(cs, S, FALSE), Here(cs, S, c, mp), new, z) =>
            \E z2 \in Marks :
                /\ Walk(View(bs, S, FALSE), Here(bs, S, a, lp), old, z2)
                /\ z2.loops = z.loops /\ (z2.live => z.live)

Turns(bs, a, lp, old, term, cs, c, mp, new) ==
    /\ Wrote(bs, a, term, cs)
    /\ Fresh(c, new)
    /\ ({c} \cup Tos(new)) \cap DOMAIN bs \subseteq {a} \cup Tos(old)
    /\ TurnsUp(bs, a, lp, old, cs, c, mp, new)
    /\ TurnsDown(bs, a, lp, old, cs, c, mp, new)

\* What is shut among the blocks after a step was shut before it.
LEMMA WroteShut ==
    ASSUME NEW bs, NEW a, NEW term, NEW cs, Wrote(bs, a, term, cs), NEW S, Shut(cs, S)
    PROVE  Shut(bs, S)
<1> SUFFICES ASSUME NEW b \in S \cap DOMAIN bs PROVE Targets(bs[b].term) \subseteq S
  BY DEF Shut
<1>1. CASE bs[b].term = Open
  BY <1>1, TargetsOf
<1>2. CASE bs[b].term # Open
  BY <1>2 DEF Shut, Wrote
<1> QED
  BY <1>1, <1>2

\* A turn of the items in front keeps both halves, and the items fresh.
LEMMA UpperTurns ==
    ASSUME NEW T, NEW old \in Seq(T), NEW new \in Seq(T), NEW rest \in Seq(T),
           NEW bs, NEW a, NEW lp, NEW term, NEW cs, NEW c, NEW mp,
           Turns(bs, a, lp, old, term, cs, c, mp, new), Tos(rest) \subseteq DOMAIN bs,
           Null \notin DOMAIN cs,
           NEW done, NEW f, NEW e, Upper(done, f, bs, e, a, lp, old \o rest)
    PROVE  Upper(done, f, cs, e, c, mp, new \o rest)
<1>1. PICK S \in SUBSET DOMAIN bs, y \in Marks :
        /\ e \in S /\ Shut(bs, S) /\ \A b \in S : bs[b].func = f
        /\ \A b \in OpenIn(bs, S) : b = a \/ b \in Tos(old \o rest)
        /\ Walk(View(bs, S, TRUE), Here(bs, S, a, lp), old \o rest, y)
        /\ y.live => done
  BY DEF Upper
<1>2. PICK z \in Marks : /\ Walk(View(bs, S, TRUE), Here(bs, S, a, lp), old, z)
                         /\ Walk(View(bs, S, TRUE), z, rest, y)
  BY <1>1, WalkSplit
<1>3. PICK S2 \in SUBSET DOMAIN cs, z2 \in Marks :
        /\ S \subseteq S2 /\ Shut(cs, S2)
        /\ \A b \in S2 : b \in S \/ (a \in S /\ cs[b].func = bs[a].func)
        /\ OpenIn(cs, S2) \cap DOMAIN bs \subseteq OpenIn(bs, S)
        /\ \A b \in OpenIn(cs, S2) :
              b = c \/ b \in Tos(new) \/ (b \in S /\ b # a /\ b \notin Tos(old))
        /\ Walk(View(cs, S2, TRUE), Here(cs, S2, c, mp), new, z2)
        /\ z2.loops = z.loops /\ (z2.live => z.live)
  BY <1>1, <1>2 DEF Turns, TurnsUp
<1>4. PICK v \in Marks : /\ Walk(View(bs, S, TRUE), z2, rest, v)
                         /\ v.live => y.live
  BY <1>2, <1>3, WalkLess
<1>5. Walk(View(cs, S2, TRUE), z2, rest, v)
  <2>1. /\ View(bs, S, TRUE).within = S /\ View(bs, S, TRUE).tight = TRUE
        /\ View(bs, S, TRUE).live = OpenIn(bs, S)
        /\ View(cs, S2, TRUE).within = S2 /\ View(cs, S2, TRUE).tight = TRUE
        /\ View(cs, S2, TRUE).live = OpenIn(cs, S2)
    BY DEF View
  <2>2. \A k \in 1..Len(rest) : To(rest[k]) \in OpenIn(cs, S2) => To(rest[k]) \in OpenIn(bs, S)
    <3> SUFFICES ASSUME NEW k \in 1..Len(rest), To(rest[k]) \in OpenIn(cs, S2)
                 PROVE  To(rest[k]) \in OpenIn(bs, S)
      OBVIOUS
    <3>1. To(rest[k]) # Null
      BY DEF OpenIn
    <3>2. To(rest[k]) \in DOMAIN bs
      BY <3>1 DEF Tos
    <3> QED
      BY <1>3, <3>2
  <2> DEFINE p == View(bs, S, TRUE)
             q == View(cs, S2, TRUE)
  <2>3. /\ p.within \subseteq q.within /\ (q.tight => p.tight)
        /\ \A k \in 1..Len(rest) : To(rest[k]) \in q.live => To(rest[k]) \in p.live
    BY <1>3, <2>1, <2>2
  <2>4. Walk(p, z2, rest, v)
    BY <1>4
  <2> HIDE DEF p, q
  <2>5. Walk(q, z2, rest, v)
    BY <2>3, <2>4, WalkInto
  <2> QED
    BY <2>5 DEF q
<1>6. Walk(View(cs, S2, TRUE), Here(cs, S2, c, mp), new \o rest, v)
  BY <1>3, <1>5, WalkConcat
<1>7. \A b \in S2 : cs[b].func = f
  <2> SUFFICES ASSUME NEW b \in S2 PROVE cs[b].func = f
    OBVIOUS
  <2>1. CASE b \in S
    BY <1>1, <2>1 DEF Turns, Wrote
  <2>2. CASE b \notin S
    BY <1>1, <1>3, <2>2
  <2> QED
    BY <2>1, <2>2
<1>8. \A b \in OpenIn(cs, S2) : b = c \/ b \in Tos(new \o rest)
  <2> SUFFICES ASSUME NEW b \in OpenIn(cs, S2), b # c, b \notin Tos(new) PROVE b \in Tos(rest)
    BY TosConcat
  <2>1. b \in S /\ b # a /\ b \notin Tos(old)
    BY <1>3
  <2>2. b \in OpenIn(bs, S)
    BY <1>1, <1>3, <2>1
  <2> QED
    BY <1>1, <2>1, <2>2, TosConcat
<1> QED
  BY <1>1, <1>3, <1>4, <1>6, <1>7, <1>8 DEF Upper

LEMMA LowerTurns ==
    ASSUME NEW T, NEW old \in Seq(T), NEW new \in Seq(T), NEW rest \in Seq(T),
           NEW bs, NEW a, NEW lp, NEW term, NEW cs, NEW c, NEW mp,
           Turns(bs, a, lp, old, term, cs, c, mp, new), Fresh(a, old \o rest),
           Null \notin DOMAIN bs,
           NEW done, NEW e, Lower(done, bs, e, a, lp, old \o rest)
    PROVE  Lower(done, cs, e, c, mp, new \o rest)
<1> SUFFICES ASSUME done, NEW S \in SUBSET Nat, NEW y \in Marks, e \in S, Shut(cs, S),
                    Walk(View(cs, S, FALSE), Here(cs, S, c, mp), new \o rest, y)
             PROVE  y.live
  BY DEF Lower
<1>1. PICK z \in Marks : /\ Walk(View(cs, S, FALSE), Here(cs, S, c, mp), new, z)
                         /\ Walk(View(cs, S, FALSE), z, rest, y)
  BY WalkSplit
<1>2. PICK z2 \in Marks : /\ Walk(View(bs, S, FALSE), Here(bs, S, a, lp), old, z2)
                         /\ z2.loops = z.loops /\ (z2.live => z.live)
  BY <1>1 DEF Turns, TurnsDown
<1>3. Walk(View(bs, S, FALSE), z, rest, y)
  <2>1. /\ View(bs, S, FALSE).within = S /\ View(bs, S, FALSE).tight = FALSE
        /\ View(bs, S, FALSE).live = OpenIn(bs, S)
        /\ View(cs, S, FALSE).within = S /\ View(cs, S, FALSE).tight = FALSE
        /\ View(cs, S, FALSE).live = OpenIn(cs, S)
    BY DEF View
  <2>2. \A k \in 1..Len(rest) : To(rest[k]) \in OpenIn(bs, S) => To(rest[k]) \in OpenIn(cs, S)
    <3> SUFFICES ASSUME NEW k \in 1..Len(rest), To(rest[k]) \in OpenIn(bs, S)
                 PROVE  To(rest[k]) \in OpenIn(cs, S)
      OBVIOUS
    <3>1. To(rest[k]) # Null
      BY DEF OpenIn
    <3>2. To(rest[k]) \in Tos(rest)
      BY <3>1 DEF Tos
    <3>3. To(rest[k]) # a
      BY <3>2, TosConcat DEF Fresh
    <3> QED
      BY <3>3 DEF OpenIn, Turns, Wrote
  <2> DEFINE v == View(cs, S, FALSE)
             w == View(bs, S, FALSE)
  <2>3. /\ v.within \subseteq w.within /\ (w.tight => v.tight)
        /\ \A k \in 1..Len(rest) : To(rest[k]) \in w.live => To(rest[k]) \in v.live
    BY <2>1, <2>2
  <2>4. Walk(v, z, rest, y)
    BY <1>1
  <2> HIDE DEF v, w
  <2>5. Walk(w, z, rest, y)
    BY <2>3, <2>4, WalkInto
  <2> QED
    BY <2>5 DEF w
<1>4. PICK v \in Marks : Walk(View(bs, S, FALSE), z2, rest, v) /\ (v.live => y.live)
  BY <1>2, <1>3, WalkLess
<1>5. Walk(View(bs, S, FALSE), Here(bs, S, a, lp), old \o rest, v)
  BY <1>2, <1>4, WalkConcat
<1>6. Shut(bs, S)
  BY WroteShut DEF Turns
<1>7. v.live
  BY <1>5, <1>6 DEF Lower
<1> QED
  BY <1>4, <1>7

LEMMA FreshTurns ==
    ASSUME NEW T, NEW old \in Seq(T), NEW new \in Seq(T), NEW rest \in Seq(T),
           NEW bs, NEW a, NEW lp, NEW term, NEW cs, NEW c, NEW mp,
           Turns(bs, a, lp, old, term, cs, c, mp, new), Fresh(a, old \o rest),
           Tos(rest) \subseteq DOMAIN bs
    PROVE  Fresh(c, new \o rest)
<1>1. Distinct(rest) /\ Tos(rest) \cap Tos(old) = {} /\ a \notin Tos(rest)
  BY TosConcat, DistinctConcat DEF Fresh
<1>2. Tos(rest) \cap ({c} \cup Tos(new)) = {}
  BY <1>1 DEF Turns
<1> QED
  BY <1>1, <1>2, TosConcat, DistinctConcat DEF Fresh, Turns

-----------------------------------------------------------------------------
(* Items that are done with. *)

\* Walks of one item, the mark at block a, and blocks that were not written.
LEMMA WalkOnly ==
    ASSUME NEW c, NEW x, NEW y, NEW item, Walk(c, x, <<item>>, y)
    PROVE  Step(c, x, item, y)
<1>1. Len(<<item>>) = 1 /\ <<item>>[1] = item /\ 1 \in 1..1 /\ 1 + 1 = 2
  OBVIOUS
<1>2. PICK h \in [1..2 -> Marks] :
        h[1] = x /\ h[2] = y /\ \A k \in 1..1 : Step(c, h[k], <<item>>[k], h[k + 1])
  BY <1>1 DEF Walk
<1> QED
  BY <1>1, <1>2

LEMMA HereIs ==
    ASSUME NEW bs, NEW S, NEW a, NEW lp \in Seq(LoopPairs)
    PROVE  /\ Here(bs, S, a, lp) \in Marks /\ Here(bs, S, a, lp).loops = lp
           /\ Here(bs, S, a, lp).live <=> a \in OpenIn(bs, S)
<1> DEFINE l == a \in OpenIn(bs, S)
<1>1. l \in BOOLEAN
  OBVIOUS
<1>2. Here(bs, S, a, lp) = Mark(l, lp)
  BY DEF Here
<1> HIDE DEF l
<1>3. Mark(l, lp) \in Marks /\ Mark(l, lp).live = l /\ Mark(l, lp).loops = lp
  BY <1>1, MarkIs
<1>4. Mark(l, lp).live <=> l
  BY <1>1, <1>3
<1> QED
  BY <1>2, <1>3, <1>4 DEF l

LEMMA WroteSame ==
    ASSUME NEW bs, NEW a PROVE Wrote(bs, a, Open, bs)
BY DEF Wrote

\* Of a block that was open and still is, or of none.
LEMMA SameOpen ==
    ASSUME NEW bs, NEW a, NEW cs, Wrote(bs, a, Open, cs), DOMAIN cs = DOMAIN bs, NEW S
    PROVE  OpenIn(cs, S) = OpenIn(bs, S) /\ (Shut(cs, S) <=> Shut(bs, S))
<1>1. \A b \in DOMAIN bs : cs[b].term = bs[b].term
  BY DEF Wrote
<1> QED
  BY <1>1 DEF OpenIn, Shut

\* An item behind which everything is as before.
LEMMA TurnPass ==
    ASSUME NEW it, it.do \notin Moves, NEW lp \in Seq(LoopPairs), NEW mp \in Seq(LoopPairs),
           NEW bs, NEW a, NEW cs, Wrote(bs, a, Open, cs), DOMAIN cs = DOMAIN bs,
           \A v : \A x, y \in Marks :
                x.loops = lp => (Step(v, x, it, y) <=> y.loops = mp /\ (x.live => y.live))
    PROVE  Turns(bs, a, lp, <<it>>, Open, cs, a, mp, <<>>)
<1>1. Tos(<<it>>) = {} /\ Tos(<<>>) = {} /\ Distinct(<<>>)
  BY TosOne, TosNil DEF To
<1>2. TurnsUp(bs, a, lp, <<it>>, cs, a, mp, <<>>)
  <2> SUFFICES ASSUME NEW S \in SUBSET DOMAIN bs, NEW z \in Marks, Shut(bs, S),
                      Walk(View(bs, S, TRUE), Here(bs, S, a, lp), <<it>>, z)
               PROVE  \E S2 \in SUBSET DOMAIN cs, z2 \in Marks :
                        /\ S \subseteq S2 /\ Shut(cs, S2)
                        /\ \A b \in S2 : b \in S \/ (a \in S /\ cs[b].func = bs[a].func)
                        /\ OpenIn(cs, S2) \cap DOMAIN bs \subseteq OpenIn(bs, S)
                        /\ \A b \in OpenIn(cs, S2) :
                              b = a \/ b \in Tos(<<>>) \/ (b \in S /\ b # a /\ b \notin Tos(<<it>>))
                        /\ Walk(View(cs, S2, TRUE), Here(cs, S2, a, mp), <<>>, z2)
                        /\ z2.loops = z.loops /\ (z2.live => z.live)
    BY DEF TurnsUp
  <2> DEFINE z2 == Here(cs, S, a, mp)
             x == Here(bs, S, a, lp)
  <2>1. OpenIn(cs, S) = OpenIn(bs, S) /\ Shut(cs, S)
    BY SameOpen
  <2>2. z2 \in Marks /\ z2.loops = mp /\ (z2.live <=> a \in OpenIn(bs, S))
    BY <2>1, HereIs
  <2>3. x \in Marks /\ x.loops = lp /\ (x.live <=> a \in OpenIn(bs, S))
    BY HereIs
  <2>4. z.loops = mp /\ (x.live => z.live)
    BY <2>3, WalkOnly
  <2>5. Walk(View(cs, S, TRUE), z2, <<>>, z2)
    BY <2>2, WalkNil
  <2>6. \A b \in OpenIn(cs, S) : b \in S
    BY DEF OpenIn
  <2> QED
    BY <1>1, <2>1, <2>2, <2>3, <2>4, <2>5, <2>6
<1>3. TurnsDown(bs, a, lp, <<it>>, cs, a, mp, <<>>)
  <2> SUFFICES ASSUME NEW S \in SUBSET Nat, NEW z \in Marks, Shut(cs, S),
                      Walk(View(cs, S, FALSE), Here(cs, S, a, mp), <<>>, z)
               PROVE  Walk(View(bs, S, FALSE), Here(bs, S, a, lp), <<it>>, z)
    BY DEF TurnsDown
  <2>1. OpenIn(cs, S) = OpenIn(bs, S)
    BY SameOpen
  <2>2. z = Here(cs, S, a, mp)
    BY WalkNowhere
  <2> DEFINE x == Here(bs, S, a, lp)
  <2>3. x \in Marks /\ x.loops = lp /\ (x.live <=> a \in OpenIn(bs, S))
    BY HereIs
  <2>4. z.loops = mp /\ (z.live <=> a \in OpenIn(bs, S))
    BY <2>1, <2>2, HereIs
  <2>5. Step(View(bs, S, FALSE), x, it, z)
    BY <2>3, <2>4
  <2> QED
    BY <2>3, <2>5, WalkOne
<1> QED
  BY <1>1, <1>2, <1>3 DEF Turns, Fresh

\* An item that ends the block.
LEMMA TurnWrite ==
    ASSUME NEW it, it.do \notin Moves, NEW lp \in Seq(LoopPairs),
           NEW bs, NEW a, NEW term, term # Open, NEW cs, Wrote(bs, a, term, cs), DOMAIN cs = DOMAIN bs,
           \A v : \A x, y \in Marks :
                x.loops = lp => (Step(v, x, it, y) <=>
                                    y.loops = lp /\ (x.live => Targets(term) \subseteq v.within))
    PROVE  Turns(bs, a, lp, <<it>>, term, cs, a, lp, <<>>)
<1>1. Tos(<<it>>) = {} /\ Tos(<<>>) = {} /\ Distinct(<<>>)
  BY TosOne, TosNil DEF To
<1>2. \A S : a \notin OpenIn(cs, S) /\ OpenIn(cs, S) \subseteq OpenIn(bs, S)
  BY DEF OpenIn, Wrote
<1>3. TurnsUp(bs, a, lp, <<it>>, cs, a, lp, <<>>)
  <2> SUFFICES ASSUME NEW S \in SUBSET DOMAIN bs, NEW z \in Marks, Shut(bs, S),
                      Walk(View(bs, S, TRUE), Here(bs, S, a, lp), <<it>>, z)
               PROVE  \E S2 \in SUBSET DOMAIN cs, z2 \in Marks :
                        /\ S \subseteq S2 /\ Shut(cs, S2)
                        /\ \A b \in S2 : b \in S \/ (a \in S /\ cs[b].func = bs[a].func)
                        /\ OpenIn(cs, S2) \cap DOMAIN bs \subseteq OpenIn(bs, S)
                        /\ \A b \in OpenIn(cs, S2) :
                              b = a \/ b \in Tos(<<>>) \/ (b \in S /\ b # a /\ b \notin Tos(<<it>>))
                        /\ Walk(View(cs, S2, TRUE), Here(cs, S2, a, lp), <<>>, z2)
                        /\ z2.loops = z.loops /\ (z2.live => z.live)
    BY DEF TurnsUp
  <2> DEFINE z2 == Here(cs, S, a, lp)
             x == Here(bs, S, a, lp)
             v == View(bs, S, TRUE)
  <2>1. z2 \in Marks /\ z2.loops = lp /\ ~z2.live
    BY <1>2, HereIs
  <2>2. x \in Marks /\ x.loops = lp /\ (x.live <=> a \in OpenIn(bs, S))
    BY HereIs
  <2>3. v.within = S
    BY DEF View
  <2>4. z.loops = lp /\ (x.live => Targets(term) \subseteq S)
    BY <2>2, <2>3, WalkOnly
  <2>5. Shut(cs, S)
    <3> SUFFICES ASSUME NEW b \in S PROVE Targets(cs[b].term) \subseteq S
      BY DEF Shut
    <3>1. CASE b = a /\ bs[b].term = Open
      <4>1. cs[b].term = term /\ x.live
        BY <2>2, <3>1 DEF Wrote, OpenIn
      <4> QED
        BY <2>4, <4>1
    <3>2. CASE ~(b = a /\ bs[b].term = Open)
      <4>1. cs[b].term = bs[b].term
        BY <3>2 DEF Wrote
      <4> QED
        BY <4>1 DEF Shut
    <3> QED
      BY <3>1, <3>2
  <2>6. Walk(View(cs, S, TRUE), z2, <<>>, z2)
    BY <2>1, WalkNil
  <2>7. \A b \in OpenIn(cs, S) : b \in S /\ b # a
    BY <1>2 DEF OpenIn
  <2> HIDE DEF z2, x, v
  <2>8. Walk(View(cs, S, TRUE), Here(cs, S, a, lp), <<>>, z2)
    BY <2>6 DEF z2
  <2> QED
    BY <1>1, <1>2, <2>1, <2>4, <2>5, <2>7, <2>8
<1>4. TurnsDown(bs, a, lp, <<it>>, cs, a, lp, <<>>)
  <2> SUFFICES ASSUME NEW S \in SUBSET Nat, NEW z \in Marks, Shut(cs, S),
                      Walk(View(cs, S, FALSE), Here(cs, S, a, lp), <<>>, z)
               PROVE  Walk(View(bs, S, FALSE), Here(bs, S, a, lp), <<it>>, z)
    BY DEF TurnsDown
  <2> DEFINE x == Here(bs, S, a, lp)
             v == View(bs, S, FALSE)
  <2>1. z = Here(cs, S, a, lp)
    BY WalkNowhere
  <2>2. x \in Marks /\ x.loops = lp /\ (x.live <=> a \in OpenIn(bs, S)) /\ z.loops = lp
    BY <2>1, HereIs
  <2>3. v.within = S
    BY DEF View
  <2>4. x.live => Targets(term) \subseteq S
    <3> SUFFICES ASSUME a \in OpenIn(bs, S) PROVE Targets(term) \subseteq S
      BY <2>2
    <3>1. a \in S \cap DOMAIN cs /\ cs[a].term = term
      BY DEF OpenIn, Wrote
    <3> QED
      BY <3>1 DEF Shut
  <2>5. Step(v, x, it, z)
    BY <2>2, <2>3, <2>4
  <2> QED
    BY <2>2, <2>5, WalkOne
<1> QED
  BY <1>1, <1>3, <1>4 DEF Turns, Fresh

\* An item that goes to block c.
LEMMA TurnMove ==
    ASSUME NEW it, it.do \in Moves, NEW lp \in Seq(LoopPairs),
           NEW bs, NEW a, NEW term, Targets(term) = {}, NEW cs, Wrote(bs, a, term, cs),
           DOMAIN cs = DOMAIN bs, Null \notin DOMAIN bs, Fresh(a, <<it>>)
    PROVE  Turns(bs, a, lp, <<it>>, term, cs, To(it), lp, <<>>)
<1> DEFINE c == To(it)
<1>1. Tos(<<it>>) = {c} \ {Null} /\ Tos(<<>>) = {} /\ Distinct(<<>>)
  BY TosOne, TosNil
<1>2. c = Null \/ c # a
  BY <1>1 DEF Fresh
<1>3. /\ it.do \notin Passing /\ it.do \notin {"stmt", "finish", "closeLoop", "jumpTo", "loopCond"}
      /\ it.block = c
  BY DEF Moves, Passing, To
<1> HIDE DEF c
<1>4. ASSUME NEW v, NEW x, NEW y
      PROVE  Step(v, x, it, y) <=> /\ y.loops = x.loops
                                   /\ c \in v.live => y.live
                                   /\ v.tight => ~x.live
  BY <1>3 DEF Step
<1>5. TurnsUp(bs, a, lp, <<it>>, cs, c, lp, <<>>)
  <2> SUFFICES ASSUME NEW S \in SUBSET DOMAIN bs, NEW z \in Marks, Shut(bs, S),
                      Walk(View(bs, S, TRUE), Here(bs, S, a, lp), <<it>>, z)
               PROVE  \E S2 \in SUBSET DOMAIN cs, z2 \in Marks :
                        /\ S \subseteq S2 /\ Shut(cs, S2)
                        /\ \A b \in S2 : b \in S \/ (a \in S /\ cs[b].func = bs[a].func)
                        /\ OpenIn(cs, S2) \cap DOMAIN bs \subseteq OpenIn(bs, S)
                        /\ \A b \in OpenIn(cs, S2) :
                              b = c \/ b \in Tos(<<>>) \/ (b \in S /\ b # a /\ b \notin Tos(<<it>>))
                        /\ Walk(View(cs, S2, TRUE), Here(cs, S2, c, lp), <<>>, z2)
                        /\ z2.loops = z.loops /\ (z2.live => z.live)
    BY DEF TurnsUp
  <2> DEFINE z2 == Here(cs, S, c, lp)
             x == Here(bs, S, a, lp)
             v == View(bs, S, TRUE)
  <2>1. z2 \in Marks /\ z2.loops = lp /\ (z2.live <=> c \in OpenIn(cs, S))
    BY HereIs
  <2>2. x \in Marks /\ x.loops = lp /\ (x.live <=> a \in OpenIn(bs, S))
    BY HereIs
  <2>3. v.live = OpenIn(bs, S) /\ v.tight
    BY DEF View
  <2>4. z.loops = lp /\ (c \in OpenIn(bs, S) => z.live) /\ a \notin OpenIn(bs, S)
    BY <1>4, <2>2, <2>3, WalkOnly
  <2>5. \A b \in S : cs[b].term = bs[b].term
    BY <2>4 DEF OpenIn, Wrote
  <2>6. Shut(cs, S) /\ OpenIn(cs, S) = OpenIn(bs, S)
    BY <2>5 DEF Shut, OpenIn
  <2>7. \A b \in OpenIn(cs, S) : b \in S /\ b # a /\ b # Null
    BY <2>4, <2>6 DEF OpenIn
  <2> HIDE DEF z2, x, v
  <2>8. Walk(View(cs, S, TRUE), Here(cs, S, c, lp), <<>>, z2)
    BY <2>1, WalkNil DEF z2
  <2> QED
    BY <1>1, <2>1, <2>4, <2>6, <2>7, <2>8
<1>6. TurnsDown(bs, a, lp, <<it>>, cs, c, lp, <<>>)
  <2> SUFFICES ASSUME NEW S \in SUBSET Nat, NEW z \in Marks, Shut(cs, S),
                      Walk(View(cs, S, FALSE), Here(cs, S, c, lp), <<>>, z)
               PROVE  Walk(View(bs, S, FALSE), Here(bs, S, a, lp), <<it>>, z)
    BY DEF TurnsDown
  <2> DEFINE x == Here(bs, S, a, lp)
             v == View(bs, S, FALSE)
  <2>1. z = Here(cs, S, c, lp)
    BY WalkNowhere
  <2>2. x \in Marks /\ x.loops = lp /\ z.loops = lp /\ (z.live <=> c \in OpenIn(cs, S))
    BY <2>1, HereIs
  <2>3. v.live = OpenIn(bs, S) /\ ~v.tight
    BY DEF View
  <2>4. c \in OpenIn(bs, S) => c \in OpenIn(cs, S)
    BY <1>2 DEF OpenIn, Wrote
  <2>5. Step(v, x, it, z)
    BY <1>4, <2>2, <2>3, <2>4, ZenonT(60)
  <2> QED
    BY <2>2, <2>5, WalkOne
<1>7. Fresh(c, <<>>) /\ ({c} \cup Tos(<<>>)) \cap DOMAIN bs \subseteq {a} \cup Tos(<<it>>)
  BY <1>1 DEF Fresh
<1> QED
  BY <1>5, <1>6, <1>7 DEF Turns, c

\* An item in the place of which others are put that say the same.
LEMMA TurnSame ==
    ASSUME NEW it, it.do \notin Moves, NEW lp \in Seq(LoopPairs), NEW bs, NEW a,
           NEW new, Tos(new) = {}, Distinct(new),
           \A v : \A x, z \in Marks : x.loops = lp /\ Walk(v, x, new, z) => Step(v, x, it, z),
           \A v : \A x, z \in Marks : x.loops = lp /\ Step(v, x, it, z) =>
                \E z2 \in Marks : /\ Walk(v, x, new, z2)
                                  /\ z2.loops = z.loops /\ (z2.live => z.live)
    PROVE  Turns(bs, a, lp, <<it>>, Open, bs, a, lp, new)
<1>1. Tos(<<it>>) = {}
  BY TosOne DEF To
<1>2. TurnsUp(bs, a, lp, <<it>>, bs, a, lp, new)
  <2> SUFFICES ASSUME NEW S \in SUBSET DOMAIN bs, NEW z \in Marks, Shut(bs, S),
                      Walk(View(bs, S, TRUE), Here(bs, S, a, lp), <<it>>, z)
               PROVE  \E S2 \in SUBSET DOMAIN bs, z2 \in Marks :
                        /\ S \subseteq S2 /\ Shut(bs, S2)
                        /\ \A b \in S2 : b \in S \/ (a \in S /\ bs[b].func = bs[a].func)
                        /\ OpenIn(bs, S2) \cap DOMAIN bs \subseteq OpenIn(bs, S)
                        /\ \A b \in OpenIn(bs, S2) :
                              b = a \/ b \in Tos(new) \/ (b \in S /\ b # a /\ b \notin Tos(<<it>>))
                        /\ Walk(View(bs, S2, TRUE), Here(bs, S2, a, lp), new, z2)
                        /\ z2.loops = z.loops /\ (z2.live => z.live)
    BY DEF TurnsUp
  <2>1. Here(bs, S, a, lp) \in Marks /\ Here(bs, S, a, lp).loops = lp
    BY HereIs
  <2>2. Step(View(bs, S, TRUE), Here(bs, S, a, lp), it, z)
    BY WalkOnly
  <2>3. PICK z2 \in Marks : /\ Walk(View(bs, S, TRUE), Here(bs, S, a, lp), new, z2)
                            /\ z2.loops = z.loops /\ (z2.live => z.live)
    BY <2>1, <2>2
  <2>4. \A b \in OpenIn(bs, S) : b \in S
    BY DEF OpenIn
  <2> QED
    BY <1>1, <2>3, <2>4
<1>3. TurnsDown(bs, a, lp, <<it>>, bs, a, lp, new)
  <2> SUFFICES ASSUME NEW S \in SUBSET Nat, NEW z \in Marks,
                      Walk(View(bs, S, FALSE), Here(bs, S, a, lp), new, z)
               PROVE  Walk(View(bs, S, FALSE), Here(bs, S, a, lp), <<it>>, z)
    BY DEF TurnsDown
  <2>1. Here(bs, S, a, lp) \in Marks /\ Here(bs, S, a, lp).loops = lp
    BY HereIs
  <2> QED
    BY <2>1, WalkOne
<1> QED
  BY <1>1, <1>2, <1>3, WroteSame DEF Turns, Fresh

-----------------------------------------------------------------------------
(* Items that stand for a list of statements. *)

Reads(items, stmts) ==
    /\ Tos(items) = {} /\ Distinct(items)
    /\ \A c : \A lp \in Seq(LoopPairs), l \in BOOLEAN :
          (l => LetsAll(c, lp, stmts)) =>
              Walk(c, Mark(l, lp), items, Mark(l /\ Completes(stmts), lp))
    /\ \A c : \A x, y \in Marks : Walk(c, x, items, y) =>
          /\ y.loops = x.loops
          /\ x.live => LetsAll(c, x.loops, stmts) /\ (Completes(stmts) => y.live)

\* A list of statements is read as such, and so it is in a scope.
LEMMA ListingReads ==
    ASSUME NEW S, NEW T, NEW items \in Seq(S), NEW stmts \in Seq(T), Listing(items, stmts)
    PROVE  Reads(items, stmts)
<1>1. \A k \in 1..Len(items) : items[k].do \notin Moves
  BY DEF Listing, Moves
<1>2. Tos(items) = {} /\ Distinct(items)
  BY <1>1, TosNone
<1>3. \A c : \A lp \in Seq(LoopPairs), l \in BOOLEAN :
          (l => LetsAll(c, lp, stmts)) =>
              Walk(c, Mark(l, lp), items, Mark(l /\ Completes(stmts), lp))
  BY ListingDown
<1>4. \A c : \A x, y \in Marks : Walk(c, x, items, y) =>
          /\ y.loops = x.loops
          /\ x.live => LetsAll(c, x.loops, stmts) /\ (Completes(stmts) => y.live)
  BY ListingUp
<1> QED
  BY <1>2, <1>3, <1>4 DEF Reads

\* What the single items do.
LEMMA StepOver ==
    ASSUME NEW c, NEW x, NEW y, NEW item, item.do \in Passing \ {"closeLoop"}
    PROVE  Step(c, x, item, y) <=> y.loops = x.loops /\ (x.live => y.live)
BY DEF Step, Passing, Moves

LEMMA StepJump ==
    ASSUME NEW c, NEW x, NEW y, NEW b
    PROVE  Step(c, x, [do |-> "jumpTo", block |-> b], y) <=>
               y.loops = x.loops /\ (x.live => b \in c.within)
BY DEF Step, Passing, Moves

LEMMA StepMove ==
    ASSUME NEW c, NEW x, NEW y, NEW b
    PROVE  Step(c, x, [do |-> "moveTo", block |-> b], y) <=>
               y.loops = x.loops /\ (b \in c.live => y.live) /\ (c.tight => ~x.live)
BY DEF Step, Passing, Moves

LEMMA WalkOver ==
    ASSUME NEW c, NEW x \in Marks, NEW item, item.do \in Passing \ {"closeLoop"}
    PROVE  Walk(c, x, <<item>>, x)
BY StepOver, WalkOne

ScopeMarks == {[do |-> "openScope"], [do |-> "closeScope"]}

LEMMA ScopedReads ==
    ASSUME NEW S, NEW items \in Seq(S), NEW stmts, Reads(items, stmts), ScopeMarks \subseteq S
    PROVE  Reads(Scoped(items), stmts)
<1> DEFINE open == [do |-> "openScope"]
           close == [do |-> "closeScope"]
<1>1. open \in S /\ close \in S /\ <<open>> \in Seq(S) /\ <<close>> \in Seq(S)
      /\ <<open>> \o items \in Seq(S)
  BY DEF ScopeMarks
<1>2. open.do \in Passing \ {"closeLoop"} /\ close.do \in Passing \ {"closeLoop"}
  BY DEF Passing
<1>3. Scoped(items) = <<open>> \o items \o <<close>>
  BY DEF Scoped, Item
<1>4. Tos(<<open>>) = {} /\ Tos(<<close>>) = {} /\ Distinct(<<open>>) /\ Distinct(<<close>>)
  BY TosOne DEF To, Moves
<1> HIDE DEF open, close
<1>5. Tos(Scoped(items)) = {} /\ Distinct(Scoped(items))
  <2> DEFINE s == <<open>>
             t == <<close>>
  <2>1. s \in Seq(S) /\ t \in Seq(S) /\ Scoped(items) = (s \o items) \o t
    BY <1>1, <1>3
  <2>2. Tos(s) = {} /\ Tos(t) = {} /\ Distinct(s) /\ Distinct(t)
    BY <1>4
  <2>3. Tos(items) = {} /\ Distinct(items)
    BY DEF Reads
  <2> HIDE DEF s, t
  <2>4. s \o items \in Seq(S) /\ Distinct(s \o items) /\ Tos(s \o items) = {}
    BY <2>1, <2>2, <2>3, DistinctAll
  <2> DEFINE r == s \o items
  <2>5. r \in Seq(S) /\ Distinct(r) /\ Tos(r) = {}
    BY <2>4
  <2> HIDE DEF r
  <2>6. Distinct(r \o t) /\ Tos(r \o t) = {}
    BY <2>1, <2>2, <2>5, DistinctAll
  <2> QED
    BY <2>1, <2>6 DEF r
<1>6. ASSUME NEW c, NEW lp \in Seq(LoopPairs), NEW l \in BOOLEAN, l => LetsAll(c, lp, stmts)
      PROVE  Walk(c, Mark(l, lp), Scoped(items), Mark(l /\ Completes(stmts), lp))
  <2> DEFINE x == Mark(l, lp)
             y == Mark(l /\ Completes(stmts), lp)
  <2>1. (l /\ Completes(stmts)) \in BOOLEAN
    BY DEF Completes, AllOf
  <2>2. x \in Marks /\ y \in Marks
    BY <2>1, MarkIs
  <2>3. Walk(c, x, items, y)
    BY <1>6 DEF Reads
  <2> HIDE DEF x, y
  <2>4. Walk(c, x, <<open>>, x) /\ Walk(c, y, <<close>>, y)
    BY <1>2, <2>2, WalkOver
  <2>5. Walk(c, x, <<open>> \o items, y)
    BY <1>1, <2>3, <2>4, WalkConcat
  <2>6. Walk(c, x, Scoped(items), y)
    BY <1>1, <1>3, <2>4, <2>5, WalkConcat
  <2> QED
    BY <2>6 DEF x, y
<1>7. ASSUME NEW c, NEW x \in Marks, NEW y \in Marks, Walk(c, x, Scoped(items), y)
      PROVE  /\ y.loops = x.loops
             /\ x.live => LetsAll(c, x.loops, stmts) /\ (Completes(stmts) => y.live)
  <2>1. PICK v \in Marks : Walk(c, x, <<open>> \o items, v) /\ Walk(c, v, <<close>>, y)
    BY <1>1, <1>3, <1>7, WalkSplit
  <2>2. PICK u \in Marks : Step(c, x, open, u) /\ Walk(c, u, items, v)
    BY <1>1, <2>1, WalkHead
  <2>3. Step(c, v, close, y)
    BY <2>1, WalkOnly
  <2>4. /\ u.loops = x.loops /\ (x.live => u.live)
        /\ y.loops = v.loops /\ (v.live => y.live)
    BY <1>2, <2>2, <2>3, StepOver
  <2>5. /\ v.loops = u.loops
        /\ u.live => LetsAll(c, u.loops, stmts) /\ (Completes(stmts) => v.live)
    BY <2>2 DEF Reads
  <2> QED
    BY <2>4, <2>5
<1> QED
  BY <1>5, <1>6, <1>7 DEF Reads

\* Statements behind which there is a jump to block b.
LEMMA LegDown ==
    ASSUME NEW S, NEW items \in Seq(S), NEW stmts, Reads(items, stmts), NEW c,
           NEW lp \in Seq(LoopPairs), NEW l \in BOOLEAN, NEW b,
           [do |-> "jumpTo", block |-> b] \in S,
           l => LetsAll(c, lp, stmts) /\ (Completes(stmts) => b \in c.within)
    PROVE  Walk(c, Mark(l, lp), items \o JumpTo(b), Mark(FALSE, lp))
<1> DEFINE x == Mark(l, lp)
           y == Mark(l /\ Completes(stmts), lp)
           z == Mark(FALSE, lp)
           jump == [do |-> "jumpTo", block |-> b]
<1>1. (l /\ Completes(stmts)) \in BOOLEAN /\ FALSE \in BOOLEAN
  BY DEF Completes, AllOf
<1>2. y \in Marks /\ y.loops = lp /\ (y.live = (l /\ Completes(stmts))) /\ z \in Marks /\ z.loops = lp
  BY <1>1, MarkIs
<1>3. Walk(c, x, items, y)
  BY DEF Reads
<1> HIDE DEF x, y, z
<1>4. Step(c, y, jump, z)
  BY <1>2, StepJump
<1>5. Walk(c, y, <<jump>>, z)
  BY <1>2, <1>4, WalkOne
<1>6. <<jump>> \in Seq(S) /\ JumpTo(b) = <<jump>>
  BY DEF JumpTo
<1> HIDE DEF jump
<1>7. Walk(c, x, items \o JumpTo(b), z)
  BY <1>3, <1>5, <1>6, WalkConcat
<1> QED
  BY <1>7 DEF x, z

LEMMA LegUp ==
    ASSUME NEW S, NEW items \in Seq(S), NEW stmts, Reads(items, stmts), NEW c,
           NEW x \in Marks, NEW y, NEW b, [do |-> "jumpTo", block |-> b] \in S,
           Walk(c, x, items \o JumpTo(b), y)
    PROVE  /\ y.loops = x.loops
           /\ x.live => LetsAll(c, x.loops, stmts) /\ (Completes(stmts) => b \in c.within)
<1> DEFINE jump == [do |-> "jumpTo", block |-> b]
<1>1. <<jump>> \in Seq(S) /\ JumpTo(b) = <<jump>>
  BY DEF JumpTo
<1>2. PICK v \in Marks : Walk(c, x, items, v) /\ Walk(c, v, <<jump>>, y)
  BY <1>1, WalkSplit
<1>3. Step(c, v, jump, y)
  BY <1>2, WalkOnly
<1>4. y.loops = v.loops /\ (v.live => b \in c.within)
  BY <1>3, StepJump
<1>5. /\ v.loops = x.loops
      /\ x.live => LetsAll(c, x.loops, stmts) /\ (Completes(stmts) => v.live)
  BY <1>2 DEF Reads
<1> QED
  BY <1>4, <1>5

\* A block to go to.
LEMMA WalkMove ==
    ASSUME NEW c, NEW lp \in Seq(LoopPairs), NEW l \in BOOLEAN, NEW b, b \in c.live => l
    PROVE  Walk(c, Mark(FALSE, lp), MoveTo(b), Mark(l, lp))
<1>1. FALSE \in BOOLEAN
  OBVIOUS
<1>2. /\ Mark(FALSE, lp) \in Marks /\ Mark(FALSE, lp).loops = lp /\ ~Mark(FALSE, lp).live
      /\ Mark(l, lp) \in Marks /\ Mark(l, lp).loops = lp /\ Mark(l, lp).live = l
  BY <1>1, MarkIs
<1>3. Step(c, Mark(FALSE, lp), [do |-> "moveTo", block |-> b], Mark(l, lp))
  BY <1>2, StepMove, ZenonT(60)
<1> QED
  BY <1>2, <1>3, WalkOne DEF MoveTo

LEMMA MoveUp ==
    ASSUME NEW c, NEW x, NEW y, NEW b, Walk(c, x, MoveTo(b), y)
    PROVE  y.loops = x.loops /\ (b \in c.live => y.live)
<1>1. Step(c, x, [do |-> "moveTo", block |-> b], y)
  BY WalkOnly DEF MoveTo
<1> QED
  BY <1>1, StepMove

\* A jump where control is, if it is there.
LEMMA WalkJump ==
    ASSUME NEW c, NEW lp \in Seq(LoopPairs), NEW l \in BOOLEAN, NEW b, l => b \in c.within
    PROVE  Walk(c, Mark(l, lp), JumpTo(b), Mark(FALSE, lp))
<1>1. FALSE \in BOOLEAN
  OBVIOUS
<1>2. /\ Mark(FALSE, lp) \in Marks /\ Mark(FALSE, lp).loops = lp
      /\ Mark(l, lp) \in Marks /\ Mark(l, lp).loops = lp /\ Mark(l, lp).live = l
  BY <1>1, MarkIs
<1>3. Step(c, Mark(l, lp), [do |-> "jumpTo", block |-> b], Mark(FALSE, lp))
  BY <1>2, StepJump
<1> QED
  BY <1>2, <1>3, WalkOne DEF JumpTo

LEMMA JumpUp ==
    ASSUME NEW c, NEW x, NEW y, NEW b, Walk(c, x, JumpTo(b), y)
    PROVE  y.loops = x.loops /\ (x.live => b \in c.within)
<1>1. Step(c, x, [do |-> "jumpTo", block |-> b], y)
  BY WalkOnly DEF JumpTo
<1> QED
  BY <1>1, StepJump

LEMMA TosMove ==
    ASSUME NEW b PROVE /\ Tos(MoveTo(b)) = {b} \ {Null} /\ Distinct(MoveTo(b))
                       /\ Tos(JumpTo(b)) = {} /\ Distinct(JumpTo(b))
<1>1. To([do |-> "moveTo", block |-> b]) = b /\ To([do |-> "jumpTo", block |-> b]) = Null
  BY DEF To, Moves
<1> QED
  BY <1>1, TosOne DEF MoveTo, JumpTo

\* The branch that is not taken: nothing is written while it is analysed.
LEMMA TurnMute ==
    ASSUME NEW T, NEW items \in Seq(T), NEW stmts, Reads(items, stmts),
           NEW it, it.do = "mute", NEW lp \in Seq(LoopPairs),
           NEW bs, Null \notin DOMAIN bs, NEW a, [do |-> "moveTo", block |-> a] \in T
    PROVE  Turns(bs, a, lp, <<it>>, Open, bs, Null, lp, items \o MoveTo(a))
<1> DEFINE new == items \o MoveTo(a)
<1>1. Tos(<<it>>) = {}
  BY TosOne DEF To, Moves
<1>2. MoveTo(a) \in Seq(T)
  BY DEF MoveTo
<1>3. Tos(new) = {a} \ {Null} /\ Distinct(new)
  <2>1. Tos(items) = {} /\ Distinct(items)
    BY DEF Reads
  <2>2. Tos(items) \cap Tos(MoveTo(a)) = {}
    BY <2>1
  <2> QED
    BY <1>2, <2>1, <2>2, TosMove, DistinctAll
<1> HIDE DEF new
<1>4. ASSUME NEW v, NEW x, NEW y PROVE Step(v, x, it, y) <=> y.loops = x.loops /\ (x.live => y.live)
  <2>1. it.do \in Passing \ {"closeLoop"}
    BY DEF Passing
  <2> QED
    BY <2>1, StepOver
<1>5. TurnsUp(bs, a, lp, <<it>>, bs, Null, lp, new)
  <2> SUFFICES ASSUME NEW S \in SUBSET DOMAIN bs, NEW z \in Marks, Shut(bs, S),
                      Walk(View(bs, S, TRUE), Here(bs, S, a, lp), <<it>>, z)
               PROVE  \E S2 \in SUBSET DOMAIN bs, z2 \in Marks :
                        /\ S \subseteq S2 /\ Shut(bs, S2)
                        /\ \A b \in S2 : b \in S \/ (a \in S /\ bs[b].func = bs[a].func)
                        /\ OpenIn(bs, S2) \cap DOMAIN bs \subseteq OpenIn(bs, S)
                        /\ \A b \in OpenIn(bs, S2) :
                              b = Null \/ b \in Tos(new) \/ (b \in S /\ b # a /\ b \notin Tos(<<it>>))
                        /\ Walk(View(bs, S2, TRUE), Here(bs, S2, Null, lp), new, z2)
                        /\ z2.loops = z.loops /\ (z2.live => z.live)
    BY DEF TurnsUp
  <2> DEFINE l == a \in OpenIn(bs, S)
             v == View(bs, S, TRUE)
             z2 == Mark(l, lp)
  <2>1. l \in BOOLEAN /\ FALSE \in BOOLEAN
    OBVIOUS
  <2>2. z2 \in Marks /\ z2.loops = lp /\ (z2.live <=> a \in OpenIn(bs, S))
    BY <2>1, MarkIs
  <2>3. z.loops = lp /\ (a \in OpenIn(bs, S) => z.live)
    <3> DEFINE x == Here(bs, S, a, lp)
    <3>1. x.loops = lp /\ (x.live <=> a \in OpenIn(bs, S))
      BY HereIs
    <3>2. Step(v, x, it, z)
      BY WalkOnly
    <3> QED
      BY <1>4, <3>1, <3>2
  <2>4. Here(bs, S, Null, lp) = Mark(FALSE, lp)
    <3>1. (Null \in OpenIn(bs, S)) = FALSE
      BY DEF OpenIn
    <3> QED
      BY <3>1 DEF Here
  <2>5. a \in v.live => l
    BY DEF View
  <2>6. \A b \in OpenIn(bs, S) : b \in S /\ b # Null
    BY DEF OpenIn
  <2> HIDE DEF l, v
  <2>7. Walk(v, Mark(FALSE, lp), items, Mark(FALSE, lp))
    <3>1. (FALSE /\ Completes(stmts)) = FALSE
      OBVIOUS
    <3> QED
      BY <2>1, <3>1 DEF Reads
  <2>8. Walk(v, Mark(FALSE, lp), MoveTo(a), z2)
    BY <2>1, <2>5, WalkMove
  <2> HIDE DEF z2
  <2>9. Walk(v, Mark(FALSE, lp), new, z2)
    BY <1>2, <2>7, <2>8, WalkConcat DEF new
  <2> QED
    BY <1>1, <1>3, <2>2, <2>3, <2>4, <2>6, <2>9 DEF v
<1>6. TurnsDown(bs, a, lp, <<it>>, bs, Null, lp, new)
  <2> SUFFICES ASSUME NEW S \in SUBSET Nat, NEW z \in Marks,
                      Walk(View(bs, S, FALSE), Here(bs, S, Null, lp), new, z)
               PROVE  Walk(View(bs, S, FALSE), Here(bs, S, a, lp), <<it>>, z)
    BY DEF TurnsDown
  <2> DEFINE v == View(bs, S, FALSE)
             w == Here(bs, S, Null, lp)
  <2>1. PICK y \in Marks : Walk(v, w, items, y) /\ Walk(v, y, MoveTo(a), z)
    BY <1>2, WalkSplit DEF new
  <2>2. w \in Marks /\ w.loops = lp
    BY HereIs
  <2>3. y.loops = lp
    BY <2>1, <2>2, ZenonT(60) DEF Reads
  <2>4. z.loops = lp /\ (a \in OpenIn(bs, S) => z.live)
    <3>1. v.live = OpenIn(bs, S)
      BY DEF View
    <3> HIDE DEF v, w
    <3>2. z.loops = y.loops /\ (a \in v.live => z.live)
      BY <2>1, MoveUp
    <3> QED
      BY <2>3, <3>1, <3>2
  <2> DEFINE x == Here(bs, S, a, lp)
  <2>5. x \in Marks /\ x.loops = lp /\ (x.live <=> a \in OpenIn(bs, S))
    BY HereIs
  <2>6. Step(v, x, it, z)
    BY <1>4, <2>4, <2>5
  <2> QED
    BY <2>5, <2>6, WalkOne
<1> QED
  BY <1>3, <1>5, <1>6, WroteSame DEF Turns, Fresh, new

-----------------------------------------------------------------------------
(* An if whose condition is not constant: items p and q stand for its       *)
(* branches, k is the block of the second, m the one behind the if.         *)

Jumps(bs) == [do : {"moveTo", "jumpTo"}, block : bs]

Other(s, q, k, m) == IF s.else # <<>> THEN MoveTo(k) \o q \o JumpTo(m) ELSE <<>>
Branches(s, p, q, k, m) == p \o JumpTo(m) \o Other(s, q, k, m) \o MoveTo(m)

\* The items of the branches, and the blocks that they go to.
LEMMA BranchItems ==
    ASSUME NEW T, NEW p \in Seq(T), NEW q \in Seq(T), NEW s, NEW k, NEW m, Jumps({k, m}) \subseteq T
    PROVE  /\ MoveTo(k) \in Seq(T) /\ JumpTo(m) \in Seq(T) /\ MoveTo(m) \in Seq(T)
           /\ MoveTo(k) \o q \in Seq(T) /\ (MoveTo(k) \o q) \o JumpTo(m) \in Seq(T)
           /\ p \o JumpTo(m) \in Seq(T) /\ Other(s, q, k, m) \in Seq(T)
           /\ (p \o JumpTo(m)) \o Other(s, q, k, m) \in Seq(T)
<1>1. MoveTo(k) \in Seq(T) /\ JumpTo(m) \in Seq(T) /\ MoveTo(m) \in Seq(T)
  BY DEF MoveTo, JumpTo, Jumps
<1>2. MoveTo(k) \o q \in Seq(T) /\ p \o JumpTo(m) \in Seq(T)
  BY <1>1
<1>3. (MoveTo(k) \o q) \o JumpTo(m) \in Seq(T)
  BY <1>1, <1>2
<1>4. Other(s, q, k, m) \in Seq(T)
  BY <1>3 DEF Other
<1> QED
  BY <1>1, <1>2, <1>3, <1>4

LEMMA BranchTos ==
    ASSUME NEW T, NEW p \in Seq(T), NEW q \in Seq(T), NEW s, NEW k, NEW m, Jumps({k, m}) \subseteq T,
           Reads(p, s.then), Reads(q, s.else), s.else # <<>> => k # m, k # Null, m # Null
    PROVE  /\ Distinct(Branches(s, p, q, k, m))
           /\ Tos(Branches(s, p, q, k, m)) = IF s.else # <<>> THEN {k, m} ELSE {m}
<1> DEFINE o == Other(s, q, k, m)
           g == MoveTo(k)
           j == JumpTo(m)
           d == MoveTo(m)
<1>1. /\ g \in Seq(T) /\ j \in Seq(T) /\ d \in Seq(T) /\ g \o q \in Seq(T)
      /\ p \o j \in Seq(T) /\ o \in Seq(T) /\ (p \o j) \o o \in Seq(T)
  BY BranchItems
<1>2. /\ Tos(p) = {} /\ Distinct(p) /\ Tos(q) = {} /\ Distinct(q)
      /\ Tos(g) = {k} /\ Distinct(g) /\ Tos(j) = {} /\ Distinct(j) /\ Tos(d) = {m} /\ Distinct(d)
  BY TosMove DEF Reads
<1>3. o = IF s.else # <<>> THEN (g \o q) \o j ELSE <<>>
  BY DEF Other
<1>4. Branches(s, p, q, k, m) = ((p \o j) \o o) \o d
  BY DEF Branches
<1> HIDE DEF o, g, j, d
<1>5. Distinct(g \o q) /\ Tos(g \o q) = {k}
  BY <1>1, <1>2, DistinctAll, SMTT(60)
<1>6. Distinct((g \o q) \o j) /\ Tos((g \o q) \o j) = {k}
  <2> DEFINE r == g \o q
  <2>1. r \in Seq(T) /\ Distinct(r) /\ Tos(r) = {k}
    BY <1>1, <1>5
  <2> HIDE DEF r
  <2>2. Distinct(j) /\ Tos(j) = {} /\ Tos(r) \cap Tos(j) = {} /\ Tos(r) \cup Tos(j) = {k}
    BY <1>2, <2>1
  <2>3. Distinct(r \o j) /\ Tos(r \o j) = {k}
    BY <1>1, <2>2, <2>1, DistinctAll, ZenonT(60)
  <2> QED
    BY <2>3 DEF r
<1>7. Distinct(o) /\ Tos(o) = IF s.else # <<>> THEN {k} ELSE {}
  BY <1>3, <1>6, TosNil
<1>8. Distinct(p \o j) /\ Tos(p \o j) = {}
  <2>1. /\ j \in Seq(T) /\ Distinct(p) /\ Distinct(j)
        /\ Tos(p) \cap Tos(j) = {} /\ Tos(p) \cup Tos(j) = {}
    BY <1>1, <1>2
  <2>2. Distinct(p \o j) /\ Tos(p \o j) = Tos(p) \cup Tos(j)
    BY <2>1, DistinctAll
  <2> QED
    BY <2>1, <2>2
<1>9. Distinct((p \o j) \o o) /\ Tos((p \o j) \o o) = Tos(o)
  <2> DEFINE r == p \o j
  <2>1. r \in Seq(T) /\ Distinct(r) /\ Tos(r) = {}
    BY <1>1, <1>8
  <2> HIDE DEF r
  <2>2. Tos(r) \cap Tos(o) = {} /\ Tos(r) \cup Tos(o) = Tos(o) /\ Distinct(o) /\ o \in Seq(T)
    BY <1>1, <1>7, <2>1
  <2>3. Distinct(r \o o) /\ Tos(r \o o) = Tos(o)
    BY <2>2, <2>1, DistinctAll
  <2> QED
    BY <2>3 DEF r
<1>10. Distinct(((p \o j) \o o) \o d) /\ Tos(((p \o j) \o o) \o d) = Tos(o) \cup {m}
  <2> DEFINE r == (p \o j) \o o
  <2>1. r \in Seq(T) /\ Distinct(r) /\ Tos(r) = Tos(o)
    BY <1>1, <1>9
  <2>2. Tos(r) \cap Tos(d) = {}
    BY <1>2, <1>7, <2>1
  <2> HIDE DEF r
  <2>3. Distinct(r \o d) /\ Tos(r \o d) = Tos(o) \cup {m}
    BY <1>1, <1>2, <2>1, <2>2, DistinctAll
  <2> QED
    BY <2>3 DEF r
<1> QED
  BY <1>4, <1>7, <1>10

\* Walks of the branches: where control may be in them, ...
LEMMA BranchesDown ==
    ASSUME NEW T, NEW p \in Seq(T), NEW q \in Seq(T), NEW s, NEW k, NEW m, Jumps({k, m}) \subseteq T,
           Reads(p, s.then), Reads(q, s.else), NEW c, NEW lp \in Seq(LoopPairs),
           NEW l \in BOOLEAN, NEW r \in BOOLEAN,
           l => /\ LetsAll(c, lp, s.then) /\ LetsAll(c, lp, s.else)
                /\ Completes(s.then) \/ Completes(s.else) => m \in c.within,
           s.else # <<>> /\ k \in c.live => l, m \in c.live => r
    PROVE  Walk(c, Mark(l, lp), Branches(s, p, q, k, m), Mark(r, lp))
<1> DEFINE o == Other(s, q, k, m)
           x == Mark(l, lp)
           u == Mark(FALSE, lp)
<1>1. /\ MoveTo(k) \in Seq(T) /\ JumpTo(m) \in Seq(T) /\ MoveTo(m) \in Seq(T)
      /\ MoveTo(k) \o q \in Seq(T)
      /\ p \o JumpTo(m) \in Seq(T) /\ o \in Seq(T) /\ (p \o JumpTo(m)) \o o \in Seq(T)
  BY BranchItems
<1>2. /\ Jumps({k, m}) \subseteq T => [do |-> "jumpTo", block |-> m] \in T
      /\ FALSE \in BOOLEAN
  BY DEF Jumps
<1>3. u \in Marks
  BY <1>2, MarkIs
<1>4. Walk(c, x, p \o JumpTo(m), u)
  BY <1>2, LegDown
<1>5. Walk(c, u, o, u)
  <2>1. CASE s.else = <<>>
    BY <1>3, <2>1, WalkNil DEF Other
  <2>2. CASE s.else # <<>>
    <3>1. Walk(c, u, MoveTo(k), x)
      BY <2>2, WalkMove
    <3> DEFINE y == Mark(l /\ Completes(s.else), lp)
    <3>2. (l /\ Completes(s.else)) \in BOOLEAN
      BY DEF Completes, AllOf
    <3>3. Walk(c, x, q, y)
      BY DEF Reads
    <3>4. Walk(c, y, JumpTo(m), u)
      BY <3>2, WalkJump
    <3> HIDE DEF x, y, u, o
    <3>5. Walk(c, u, MoveTo(k) \o q, y)
      BY <1>1, <3>1, <3>3, WalkConcat
    <3>6. Walk(c, u, (MoveTo(k) \o q) \o JumpTo(m), u)
      BY <1>1, <3>4, <3>5, WalkConcat
    <3> QED
      BY <2>2, <3>6 DEF o, Other
  <2> QED
    BY <2>1, <2>2
<1>6. Walk(c, u, MoveTo(m), Mark(r, lp))
  BY WalkMove
<1> HIDE DEF o, x, u
<1>7. Walk(c, x, (p \o JumpTo(m)) \o o, u)
  BY <1>1, <1>4, <1>5, WalkConcat
<1>8. Walk(c, x, ((p \o JumpTo(m)) \o o) \o MoveTo(m), Mark(r, lp))
  BY <1>1, <1>6, <1>7, WalkConcat
<1> QED
  BY <1>8 DEF Branches, o, x

\* What a walk of them from x to z shows.
BranchesSay(s, k, m, c, x, z) ==
    /\ z.loops = x.loops
    /\ x.live => LetsAll(c, x.loops, s.then) /\ (Completes(s.then) => m \in c.within)
    /\ s.else # <<>> /\ k \in c.live =>
            LetsAll(c, x.loops, s.else) /\ (Completes(s.else) => m \in c.within)
    /\ m \in c.live => z.live

\* ... and what such a walk says.
LEMMA BranchesUp ==
    ASSUME NEW T, NEW p \in Seq(T), NEW q \in Seq(T), NEW s, NEW k, NEW m, Jumps({k, m}) \subseteq T,
           Reads(p, s.then), Reads(q, s.else), NEW c, NEW x \in Marks, NEW z,
           Walk(c, x, Branches(s, p, q, k, m), z)
    PROVE  BranchesSay(s, k, m, c, x, z)
<1> DEFINE o == Other(s, q, k, m)
<1>1. /\ MoveTo(k) \in Seq(T) /\ JumpTo(m) \in Seq(T) /\ MoveTo(m) \in Seq(T)
      /\ MoveTo(k) \o q \in Seq(T)
      /\ p \o JumpTo(m) \in Seq(T) /\ o \in Seq(T) /\ (p \o JumpTo(m)) \o o \in Seq(T)
  BY BranchItems
<1>2. [do |-> "jumpTo", block |-> m] \in T
  BY DEF Jumps
<1>3. Branches(s, p, q, k, m) = ((p \o JumpTo(m)) \o o) \o MoveTo(m)
  BY DEF Branches
<1>4. o = IF s.else # <<>> THEN (MoveTo(k) \o q) \o JumpTo(m) ELSE <<>>
  BY DEF Other
<1> HIDE DEF o
<1>5. PICK w \in Marks : Walk(c, x, (p \o JumpTo(m)) \o o, w) /\ Walk(c, w, MoveTo(m), z)
  BY <1>1, <1>3, WalkSplit
<1>6. PICK y \in Marks : Walk(c, x, p \o JumpTo(m), y) /\ Walk(c, y, o, w)
  BY <1>1, <1>5, WalkSplit
<1>7. /\ y.loops = x.loops
      /\ x.live => LetsAll(c, x.loops, s.then) /\ (Completes(s.then) => m \in c.within)
  BY <1>2, <1>6, LegUp
<1>8. /\ w.loops = y.loops
      /\ s.else # <<>> /\ k \in c.live =>
            LetsAll(c, y.loops, s.else) /\ (Completes(s.else) => m \in c.within)
  <2>1. CASE s.else = <<>>
    BY <1>4, <1>6, <2>1, WalkNowhere
  <2>2. CASE s.else # <<>>
    <3>1. PICK g \in Marks : Walk(c, y, MoveTo(k) \o q, g) /\ Walk(c, g, JumpTo(m), w)
      BY <1>1, <1>4, <1>6, <2>2, WalkSplit
    <3>2. PICK h \in Marks : Walk(c, y, MoveTo(k), h) /\ Walk(c, h, q, g)
      BY <1>1, <3>1, WalkSplit
    <3>3. h.loops = y.loops /\ (k \in c.live => h.live)
      BY <3>2, MoveUp
    <3>4. g.loops = h.loops /\ (h.live => LetsAll(c, h.loops, s.else) /\ (Completes(s.else) => g.live))
      BY <3>2 DEF Reads
    <3>5. w.loops = g.loops /\ (g.live => m \in c.within)
      BY <3>1, JumpUp
    <3> QED
      BY <3>3, <3>4, <3>5
  <2> QED
    BY <2>1, <2>2
<1>9. z.loops = w.loops /\ (m \in c.live => z.live)
  BY <1>5, MoveUp
<1> QED
  BY <1>7, <1>8, <1>9 DEF BranchesSay

\* Blocks N of those that are new, if control is at a: a run can come to them.
Wider(bs, a, cs, S, N) ==
    /\ S \cup N \in SUBSET DOMAIN cs /\ Shut(cs, S \cup N)
    /\ \A b \in S \cup N : b \in S \/ (a \in S /\ cs[b].func = bs[a].func)
    /\ OpenIn(cs, S \cup N) \cap DOMAIN bs \subseteq OpenIn(bs, S)
    /\ \A b \in OpenIn(cs, S \cup N) : b \in N \/ (b \in S /\ b # a)
    /\ \A b \in DOMAIN cs \ DOMAIN bs : b \in OpenIn(cs, S \cup N) <=> b \in N

\* With a terminator for a, a run comes to the blocks N it goes to.
LEMMA Widened ==
    ASSUME NEW bs, NEW a, NEW term, term # Open, NEW cs, Wrote(bs, a, term, cs),
           \A b \in DOMAIN cs \ DOMAIN bs : cs[b].func = bs[a].func,
           NEW S \in SUBSET DOMAIN bs, Shut(bs, S), NEW N \in SUBSET (DOMAIN cs \ DOMAIN bs),
           a \in OpenIn(bs, S) => Targets(term) \subseteq S \cup N,
           a \notin OpenIn(bs, S) => N = {}
    PROVE  Wider(bs, a, cs, S, N)
<1>1. S \cup N \in SUBSET DOMAIN cs
  BY DEF Wrote
<1>2. Shut(cs, S \cup N)
  <2> SUFFICES ASSUME NEW b \in S \cup N PROVE Targets(cs[b].term) \subseteq S \cup N
    BY DEF Shut
  <2>1. CASE b \in N
    <3>1. cs[b].term = Open
      BY <2>1 DEF Wrote
    <3> QED
      BY <3>1, TargetsOf
  <2>2. CASE b \in S /\ b = a /\ bs[b].term = Open
    <3>1. cs[b].term = term /\ a \in OpenIn(bs, S)
      BY <2>2 DEF Wrote, OpenIn
    <3> QED
      BY <3>1
  <2>3. CASE b \in S /\ ~(b = a /\ bs[b].term = Open)
    <3>1. cs[b].term = bs[b].term
      BY <2>3 DEF Wrote
    <3> QED
      BY <2>3, <3>1 DEF Shut
  <2> QED
    BY <2>1, <2>2, <2>3
<1>3. \A b \in S \cup N : b \in S \/ (a \in S /\ cs[b].func = bs[a].func)
  BY DEF OpenIn
<1>4. OpenIn(cs, S \cup N) \cap DOMAIN bs \subseteq OpenIn(bs, S)
  BY DEF OpenIn, Wrote
<1>5. \A b \in OpenIn(cs, S \cup N) : b \in N \/ (b \in S /\ b # a)
  BY DEF OpenIn, Wrote
<1>6. \A b \in DOMAIN cs \ DOMAIN bs : b \in OpenIn(cs, S \cup N) <=> b \in N
  BY DEF OpenIn, Wrote
<1> QED
  BY <1>1, <1>2, <1>3, <1>4, <1>5, <1>6 DEF Wider

\* And where control was at a, a run goes where the terminator does.
LEMMA Followed ==
    ASSUME NEW bs, NEW a, NEW term, NEW cs, Wrote(bs, a, term, cs), NEW S, Shut(cs, S)
    PROVE  /\ a \in OpenIn(bs, S) => Targets(term) \subseteq S
           /\ \A b \in DOMAIN cs \ DOMAIN bs : b \in S => b \in OpenIn(cs, S)
<1>1. ASSUME a \in OpenIn(bs, S) PROVE Targets(term) \subseteq S
  <2>1. a \in S \cap DOMAIN cs /\ cs[a].term = term
    BY <1>1 DEF OpenIn, Wrote
  <2> QED
    BY <2>1 DEF Shut
<1> QED
  BY <1>1 DEF OpenIn, Wrote

\* What the text says of such an if.
OneOf(s) ==
    /\ s \in Completing <=> Completes(s.then) \/ Completes(s.else)
    /\ \A c, lp : Lets(c, lp, s) <=> LetsAll(c, lp, s.then) /\ LetsAll(c, lp, s.else)

\* Either branch may be run, as the text says.
LEMMA IfSays ==
    ASSUME NEW s \in Statements, s.op = "if", ~IsConstant(s.e)
    PROVE  OneOf(s)
<1>1. MayHold(s.e) /\ s.e.op # "true"
  BY DEF MayHold, IsConstant
<1>2. s \in Completing <=> Completes(s.then) \/ Completes(s.else)
  BY <1>1, CompletingAssumption
<1>3. /\ s \in Breaking <=> Reaches(s.then, Breaking) \/ Reaches(s.else, Breaking)
      /\ s \in Continuing <=> Reaches(s.then, Continuing) \/ Reaches(s.else, Continuing)
  BY <1>1, BreakingAssumption, ContinuingAssumption DEF ThenReaches, ElseReaches
<1>4. \A c, lp : Lets(c, lp, s) <=> LetsAll(c, lp, s.then) /\ LetsAll(c, lp, s.else)
  BY <1>3 DEF Lets, LetsAll
<1> QED
  BY <1>2, <1>4 DEF OneOf

LEMMA NilSays == Completes(<<>>) /\ \A c, lp : LetsAll(c, lp, <<>>)
BY DEF Completes, AllOf, LetsAll, Reaches

\* An if becomes its branches.
LEMMA TurnIf ==
    ASSUME NEW T, NEW p \in Seq(T), NEW q \in Seq(T), NEW s,
           OneOf(s), Reads(p, s.then), Reads(q, s.else), NEW it, it.do = "finish", it.stmt = s,
           NEW bs, NEW a, NEW cs, NEW c, NEW k, NEW m, NEW place, Null \notin DOMAIN cs,
           {c, k, m} \subseteq DOMAIN cs \ DOMAIN bs, c # k, c # m, s.else = <<>> <=> k = m,
           Jumps({k, m}) \subseteq T, Wrote(bs, a, Fork(place, c, k), cs),
           \A b \in DOMAIN cs \ DOMAIN bs : cs[b].func = bs[a].func, NEW lp \in Seq(LoopPairs)
    PROVE  Turns(bs, a, lp, <<it>>, Fork(place, c, k), cs, c, lp, Branches(s, p, q, k, m))
<1> DEFINE term == Fork(place, c, k)
           new == Branches(s, p, q, k, m)
<1>1. /\ k \in DOMAIN cs \ DOMAIN bs /\ m \in DOMAIN cs \ DOMAIN bs /\ c \in DOMAIN cs \ DOMAIN bs
      /\ k # Null /\ m # Null /\ c # Null /\ c # k /\ c # m
      /\ s.else # <<>> => k # m
      /\ s.else = <<>> => k = m
      /\ m = k \/ (m # k /\ s.else # <<>>)
  OBVIOUS
<1>2. term # Open /\ Targets(term) = {c, k}
  BY TargetsOf DEF Fork, Open
<1>4. Tos(<<it>>) = {}
  BY TosOne DEF To, Moves
<1> HIDE DEF term, new
<1>3. Distinct(new) /\ Tos(new) = IF s.else # <<>> THEN {k, m} ELSE {m}
  <2>1. Jumps({k, m}) \subseteq T /\ (s.else # <<>> => k # m) /\ k # Null /\ m # Null
    BY <1>1
  <2>2. /\ Distinct(Branches(s, p, q, k, m))
        /\ Tos(Branches(s, p, q, k, m)) = IF s.else # <<>> THEN {k, m} ELSE {m}
    BY <2>1, BranchTos
  <2> QED
    BY <2>2 DEF new
<1>5. /\ s \in Completing <=> Completes(s.then) \/ Completes(s.else)
      /\ \A v, lq : Lets(v, lq, s) <=> LetsAll(v, lq, s.then) /\ LetsAll(v, lq, s.else)
  BY DEF OneOf
<1>6. ASSUME NEW v, NEW x, NEW y
      PROVE  Step(v, x, it, y) <=>
                /\ y.loops = x.loops
                /\ x.live => Lets(v, x.loops, s) /\ (s \in Completing => y.live)
  BY DEF Step, Passing, Moves
<1>7. TurnsUp(bs, a, lp, <<it>>, cs, c, lp, new)
  <2> SUFFICES ASSUME NEW S \in SUBSET DOMAIN bs, NEW z \in Marks, Shut(bs, S),
                      Walk(View(bs, S, TRUE), Here(bs, S, a, lp), <<it>>, z)
               PROVE  \E S2 \in SUBSET DOMAIN cs, z2 \in Marks :
                        /\ S \subseteq S2 /\ Shut(cs, S2)
                        /\ \A b \in S2 : b \in S \/ (a \in S /\ cs[b].func = bs[a].func)
                        /\ OpenIn(cs, S2) \cap DOMAIN bs \subseteq OpenIn(bs, S)
                        /\ \A b \in OpenIn(cs, S2) :
                              b = c \/ b \in Tos(new) \/ (b \in S /\ b # a /\ b \notin Tos(<<it>>))
                        /\ Walk(View(cs, S2, TRUE), Here(cs, S2, c, lp), new, z2)
                        /\ z2.loops = z.loops /\ (z2.live => z.live)
    BY DEF TurnsUp
  <2> DEFINE l == a \in OpenIn(bs, S)
             r == l /\ s \in Completing
             N == IF l THEN {c, k} \cup {b \in {m} : s \in Completing} ELSE {}
             S2 == S \cup N
             z2 == Mark(r, lp)
             v == View(cs, S2, TRUE)
  <2>1. N \in SUBSET (DOMAIN cs \ DOMAIN bs) /\ (l => Targets(term) \subseteq S \cup N) /\ (~l => N = {})
    BY <1>1, <1>2
  <2>2. /\ c \in N <=> l
        /\ k \in N => l
        /\ m \in N => r
    <3>1. Completes(s.else) \/ s.else # <<>>
      BY NilSays
    <3>2. m = k /\ l => r
      BY <1>1, <1>5, <3>1
    <3> QED
      BY <1>1, <3>2
  <2>3. /\ N \subseteq {c} \cup Tos(new) /\ l \in BOOLEAN /\ r \in BOOLEAN
        /\ (l => {c, k} \subseteq S2) /\ (r => m \in S2)
    BY <1>1, <1>3
  <2> HIDE DEF N
  <2>4. /\ S2 \in SUBSET DOMAIN cs /\ Shut(cs, S2)
        /\ \A b \in S2 : b \in S \/ (a \in S /\ cs[b].func = bs[a].func)
        /\ OpenIn(cs, S2) \cap DOMAIN bs \subseteq OpenIn(bs, S)
        /\ \A b \in OpenIn(cs, S2) : b \in N \/ (b \in S /\ b # a)
        /\ \A b \in DOMAIN cs \ DOMAIN bs : b \in OpenIn(cs, S2) <=> b \in N
    <3>1. a \in OpenIn(bs, S) => Targets(term) \subseteq S \cup N
      BY <2>1
    <3>2. a \notin OpenIn(bs, S) => N = {}
      BY <2>1
    <3>3. Wrote(bs, a, term, cs)
      BY DEF term
    <3> HIDE DEF l, r, z2, v, S2
    <3>4. Wider(bs, a, cs, S, N)
      BY <1>2, <2>1, <3>1, <3>2, <3>3, Widened
    <3> QED
      BY <3>4 DEF S2, Wider
  <2>5. S \subseteq S2
    OBVIOUS
  <2>6. z2 \in Marks /\ z2.loops = lp /\ z2.live = r
    BY <2>3, MarkIs
  <2>7. z.loops = lp /\ (l => Lets(View(bs, S, TRUE), lp, s) /\ (s \in Completing => z.live))
    <3> DEFINE x == Here(bs, S, a, lp)
               u == View(bs, S, TRUE)
    <3>1. x.loops = lp /\ (x.live <=> l)
      BY HereIs
    <3>2. Step(u, x, it, z)
      BY WalkOnly
    <3> HIDE DEF x, l, u
    <3>3. z.loops = x.loops /\ (x.live => Lets(u, x.loops, s) /\ (s \in Completing => z.live))
      BY <1>6, <3>2
    <3>4. z.loops = lp /\ (l => Lets(u, lp, s) /\ (s \in Completing => z.live))
      BY <3>1, <3>3
    <3> QED
      BY <3>4 DEF u
  <2>8. Here(cs, S2, c, lp) = Mark(l, lp)
    <3>2. c \in OpenIn(cs, S2) <=> l
      BY <1>1, <2>2, <2>4
    <3> HIDE DEF S2
    <3>1. (c \in OpenIn(cs, S2)) = l
      BY <2>3, <3>2
    <3> QED
      BY <3>1 DEF Here
  <2>9. v.within = S2 /\ v.live = OpenIn(cs, S2)
    BY DEF View
  <2>10. l => Lets(v, lp, s)
    <3>1. View(bs, S, TRUE).within = S
      BY DEF View
    <3> QED
      BY <2>5, <2>7, <2>9, <3>1 DEF Lets
  <2>11. /\ k \in v.live => l
         /\ m \in v.live => r
    BY <1>1, <2>2, <2>4, <2>9
  <2>12. r => m \in v.within
    BY <2>3, <2>9
  <2>13. r <=> l /\ s \in Completing
    OBVIOUS
  <2> HIDE DEF l, r, v, S2, z2
  <2>14. Walk(v, Mark(l, lp), new, Mark(r, lp))
    <3>1. l => /\ LetsAll(v, lp, s.then) /\ LetsAll(v, lp, s.else)
               /\ Completes(s.then) \/ Completes(s.else) => m \in v.within
      BY <1>5, <2>10, <2>12, <2>13
    <3>2. (s.else # <<>> /\ k \in v.live => l) /\ (m \in v.live => r)
      BY <2>11
    <3> QED
      BY <2>3, <3>1, <3>2, BranchesDown DEF new
  <2>15. z2.loops = z.loops /\ (z2.live => z.live)
    BY <2>6, <2>7, <2>13
  <2>16. \A b \in OpenIn(cs, S2) : b = c \/ b \in Tos(new) \/ (b \in S /\ b # a /\ b \notin Tos(<<it>>))
    BY <1>4, <2>3, <2>4
  <2> QED
    BY <2>4, <2>5, <2>6, <2>8, <2>14, <2>15, <2>16 DEF z2, v
<1>8. TurnsDown(bs, a, lp, <<it>>, cs, c, lp, new)
  <2> SUFFICES ASSUME NEW S \in SUBSET Nat, NEW z \in Marks, Shut(cs, S),
                      Walk(View(cs, S, FALSE), Here(cs, S, c, lp), new, z)
               PROVE  Walk(View(bs, S, FALSE), Here(bs, S, a, lp), <<it>>, z)
    BY DEF TurnsDown
  <2> DEFINE v == View(cs, S, FALSE)
             w == Here(cs, S, c, lp)
             x == Here(bs, S, a, lp)
             u == View(bs, S, FALSE)
  <2>1. x \in Marks /\ x.loops = lp /\ (x.live <=> a \in OpenIn(bs, S))
    BY HereIs
  <2>2. w \in Marks /\ w.loops = lp /\ (w.live <=> c \in OpenIn(cs, S))
    BY HereIs
  <2>3. v.within = S /\ v.live = OpenIn(cs, S) /\ u.within = S
    BY DEF View
  <2> HIDE DEF v, w, x, u
  <2>5. Walk(v, w, new, z)
    BY DEF v, w
  <2>6. /\ z.loops = lp
        /\ w.live => LetsAll(v, lp, s.then) /\ (Completes(s.then) => m \in v.within)
        /\ s.else # <<>> /\ k \in v.live =>
             LetsAll(v, lp, s.else) /\ (Completes(s.else) => m \in v.within)
        /\ m \in v.live => z.live
    <3>1. Walk(v, w, Branches(s, p, q, k, m), z)
      BY <2>5 DEF new
    <3>2. BranchesSay(s, k, m, v, w, z)
      BY <2>2, <3>1, BranchesUp
    <3> QED
      BY <2>2, <3>2 DEF BranchesSay
  <2>7. /\ x.live => c \in S /\ k \in S
        /\ \A b \in DOMAIN cs \ DOMAIN bs : b \in S => b \in OpenIn(cs, S)
    <3>1. Wrote(bs, a, term, cs)
      BY DEF term
    <3> QED
      BY <1>2, <2>1, <3>1, Followed
  <2>8. ASSUME x.live PROVE Lets(u, lp, s) /\ (s \in Completing => z.live)
    <3>1. w.live /\ k \in v.live
      BY <1>1, <2>2, <2>3, <2>7, <2>8
    <3>2. LetsAll(v, lp, s.else) /\ (Completes(s.else) => m \in S)
      BY <1>1, <2>3, <2>6, <2>7, <2>8, <3>1, NilSays
    <3>3. s \in Completing => m \in v.live
      BY <1>1, <1>5, <2>3, <2>6, <2>7, <3>1, <3>2
    <3>4. Lets(v, lp, s)
      BY <1>5, <2>6, <3>1, <3>2
    <3> QED
      BY <2>3, <2>6, <3>3, <3>4 DEF Lets
  <2>9. Step(u, x, it, z)
    BY <1>6, <2>1, <2>6, <2>8
  <2> QED
    BY <2>1, <2>9, WalkOne DEF u, x
<1>9. Fresh(c, new) /\ ({c} \cup Tos(new)) \cap DOMAIN bs \subseteq {a} \cup Tos(<<it>>)
  BY <1>1, <1>3 DEF Fresh
<1> QED
  BY <1>7, <1>8, <1>9 DEF Turns, term, new

-----------------------------------------------------------------------------
(* A loop: items i, j and w stand for the indexator, the iteration and the  *)
(* body, h for the condition; q, r, b and m are the blocks of the condition,*)
(* the iteration, the body and behind the loop.                             *)

Rounds(i, h, j, w, q, r, b, m) ==
    i \o JumpTo(q) \o MoveTo(q)
    \o (<<h>> \o (MoveTo(r) \o j \o JumpTo(q) \o MoveTo(b) \o w \o JumpTo(r) \o MoveTo(m))
        \o Item("closeLoop"))

\* Items of T that go to the blocks X, to each once.
Goes(T, s, X) == s \in Seq(T) /\ Distinct(s) /\ Tos(s) = X

\* Where the items of a loop go.
LEMMA GoesConcat ==
    ASSUME NEW T, NEW s, NEW t, NEW X, NEW Y, Goes(T, s, X), Goes(T, t, Y), X \cap Y = {}
    PROVE  Goes(T, s \o t, X \cup Y)
BY DistinctAll DEF Goes

LEMMA GoesMore ==
    ASSUME NEW T, NEW s, NEW t, NEW X, Goes(T, s, X), Goes(T, t, {}) PROVE Goes(T, s \o t, X)
<1>1. X \cap {} = {} /\ X \cup {} = X
  OBVIOUS
<1> QED
  BY <1>1, GoesConcat

LEMMA GoesMove ==
    ASSUME NEW T, NEW b, Jumps({b}) \subseteq T, b # Null
    PROVE  Goes(T, MoveTo(b), {b}) /\ Goes(T, JumpTo(b), {})
<1>1. MoveTo(b) \in Seq(T) /\ JumpTo(b) \in Seq(T)
  BY DEF MoveTo, JumpTo, Jumps
<1> QED
  BY <1>1, TosMove DEF Goes

\* The lists that they are put together from, one item or list at a time.
RoundParts(T, i, h, j, w, q, r, b, m) ==
    LET a1 == i \o JumpTo(q)
        a2 == a1 \o MoveTo(q)
        b1 == MoveTo(r) \o j
        b2 == b1 \o JumpTo(q)
        b3 == b2 \o MoveTo(b)
        b4 == b3 \o w
        b5 == b4 \o JumpTo(r)
        b6 == b5 \o MoveTo(m)
        d1 == <<h>> \o b6
        d2 == d1 \o Item("closeLoop")
    IN  /\ Goes(T, a1, {}) /\ Goes(T, a2, {q})
        /\ Goes(T, b1, {r}) /\ Goes(T, b2, {r}) /\ Goes(T, b3, {r, b})
        /\ Goes(T, b4, {r, b}) /\ Goes(T, b5, {r, b}) /\ Goes(T, b6, {r, b, m})
        /\ Goes(T, d1, {r, b, m}) /\ Goes(T, d2, {r, b, m})
        /\ Rounds(i, h, j, w, q, r, b, m) = a2 \o d2
        /\ Goes(T, a2 \o d2, {q, r, b, m})

LEMMA RoundItems ==
    ASSUME NEW T, NEW i, NEW h \in T, NEW j, NEW w, NEW q, NEW r, NEW b, NEW m,
           Goes(T, i, {}), Goes(T, j, {}), Goes(T, w, {}), To(h) = Null,
           Jumps({q, r, b, m}) \subseteq T, [do |-> "closeLoop"] \in T,
           Null \notin {q, r, b, m}, q # r, q # b, q # m, r # b, r # m, b # m
    PROVE  RoundParts(T, i, h, j, w, q, r, b, m)
<1> DEFINE a1 == i \o JumpTo(q)
           a2 == a1 \o MoveTo(q)
           b1 == MoveTo(r) \o j
           b2 == b1 \o JumpTo(q)
           b3 == b2 \o MoveTo(b)
           b4 == b3 \o w
           b5 == b4 \o JumpTo(r)
           b6 == b5 \o MoveTo(m)
           d1 == <<h>> \o b6
           d2 == d1 \o Item("closeLoop")
<1>1. /\ Goes(T, JumpTo(q), {}) /\ Goes(T, JumpTo(r), {})
      /\ Goes(T, MoveTo(q), {q}) /\ Goes(T, MoveTo(r), {r})
      /\ Goes(T, MoveTo(b), {b}) /\ Goes(T, MoveTo(m), {m})
  <2>1. /\ Jumps({q}) \subseteq T /\ Jumps({r}) \subseteq T
        /\ Jumps({b}) \subseteq T /\ Jumps({m}) \subseteq T
    BY DEF Jumps
  <2> QED
    BY <2>1, GoesMove
<1>2. Goes(T, <<h>>, {}) /\ Goes(T, Item("closeLoop"), {})
  <2>1. To([do |-> "closeLoop"]) = Null
    BY DEF To, Moves
  <2>2. <<h>> \in Seq(T) /\ <<[do |-> "closeLoop"]>> \in Seq(T)
    OBVIOUS
  <2> QED
    BY <2>1, <2>2, TosOne DEF Goes, Item
<1>3. Rounds(i, h, j, w, q, r, b, m) = a2 \o d2
  BY DEF Rounds
<1>4. Goes(T, a1, {})
  BY <1>1, GoesMore
<1> HIDE DEF a1
<1>5. Goes(T, a2, {q})
  <2>1. {} \cap {q} = {} /\ {} \cup {q} = {q}
    OBVIOUS
  <2> QED
    BY <1>1, <1>4, <2>1, GoesConcat
<1>6. Goes(T, b1, {r})
  BY <1>1, GoesMore
<1> HIDE DEF a2, b1
<1>7. Goes(T, b2, {r})
  BY <1>1, <1>6, GoesMore
<1> HIDE DEF b2
<1>8. Goes(T, b3, {r, b})
  <2>1. {r} \cap {b} = {} /\ {r} \cup {b} = {r, b}
    OBVIOUS
  <2> QED
    BY <1>1, <1>7, <2>1, GoesConcat
<1> HIDE DEF b3
<1>9. Goes(T, b4, {r, b})
  BY <1>8, GoesMore
<1> HIDE DEF b4
<1>10. Goes(T, b5, {r, b})
  BY <1>1, <1>9, GoesMore
<1> HIDE DEF b5
<1>11. Goes(T, b6, {r, b, m})
  <2>1. {r, b} \cap {m} = {} /\ {r, b} \cup {m} = {r, b, m}
    OBVIOUS
  <2> QED
    BY <1>1, <1>10, <2>1, GoesConcat
<1> HIDE DEF b6
<1>12. Goes(T, d1, {r, b, m})
  <2>1. {} \cap {r, b, m} = {} /\ {} \cup {r, b, m} = {r, b, m}
    OBVIOUS
  <2> QED
    BY <1>2, <1>11, <2>1, GoesConcat
<1> HIDE DEF d1
<1>13. Goes(T, d2, {r, b, m})
  BY <1>2, <1>12, GoesMore
<1> HIDE DEF d2
<1>14. Goes(T, a2 \o d2, {q, r, b, m})
  <2>1. {q} \cap {r, b, m} = {} /\ {q} \cup {r, b, m} = {q, r, b, m}
    OBVIOUS
  <2> QED
    BY <1>5, <1>13, <2>1, GoesConcat
<1> QED
  BY <1>3, <1>4, <1>5, <1>6, <1>7, <1>8, <1>9, <1>10, <1>11, <1>12, <1>13, <1>14
     DEF a1, a2, b1, b2, b3, b4, b5, b6, d1, d2, RoundParts

\* The condition and the end of a loop.
LEMMA StepCond ==
    ASSUME NEW c, NEW x, NEW h, NEW y, h.do = "loopCond"
    PROVE  Step(c, x, h, y) <=>
                /\ y.loops = x.loops
                /\ x.live => /\ MayHold(h.cond) => h.merge - 1 \in c.within
                             /\ MayFail(h.cond) => h.merge \in c.within
BY DEF Step, Passing, Moves

LEMMA StepClose ==
    ASSUME NEW c, NEW x, NEW y
    PROVE  Step(c, x, [do |-> "closeLoop"], y) <=>
                y.loops = SubSeq(x.loops, 1, Len(x.loops) - 1) /\ (x.live => y.live)
BY DEF Step, Passing, Moves

\* Loops mp are lp with the loop of blocks m and r on top.
OnTop(mp, lp, m, r) ==
    /\ lp = SubSeq(mp, 1, Len(mp) - 1)
    /\ mp[Len(mp)].break = m /\ mp[Len(mp)].continue = r

\* Walks of a loop: where control may be in a round of it, ...
LEMMA RoundsDown ==
    ASSUME NEW T, NEW i, NEW h \in T, NEW j, NEW w, NEW q, NEW r, NEW b, NEW m,
           Goes(T, i, {}), Goes(T, j, {}), Goes(T, w, {}), To(h) = Null,
           Jumps({q, r, b, m}) \subseteq T, [do |-> "closeLoop"] \in T,
           Null \notin {q, r, b, m}, q # r, q # b, q # m, r # b, r # m, b # m,
           NEW is, NEW js, NEW ws, Reads(i, is), Reads(j, js), Reads(w, ws),
           NEW c, NEW mp \in Seq(LoopPairs), NEW lp \in Seq(LoopPairs),
           OnTop(mp, lp, m, r),
           NEW l \in BOOLEAN, NEW nr \in BOOLEAN, NEW nb \in BOOLEAN, NEW nm \in BOOLEAN,
           l \/ nr => q \in c.within,
           l => LetsAll(c, mp, is), nr => LetsAll(c, mp, js),
           nb => LetsAll(c, mp, ws) /\ (Completes(ws) => r \in c.within),
           q \in c.live => l, r \in c.live => nr, b \in c.live => nb, m \in c.live => nm,
           h.do = "loopCond",
           l => /\ MayHold(h.cond) => h.merge - 1 \in c.within
                /\ MayFail(h.cond) => h.merge \in c.within
    PROVE  Walk(c, Mark(l, mp), Rounds(i, h, j, w, q, r, b, m), Mark(nm, lp))
<1> DEFINE a1 == i \o JumpTo(q)
           a2 == a1 \o MoveTo(q)
           b1 == MoveTo(r) \o j
           b2 == b1 \o JumpTo(q)
           b3 == b2 \o MoveTo(b)
           b4 == b3 \o w
           b5 == b4 \o JumpTo(r)
           b6 == b5 \o MoveTo(m)
           d1 == <<h>> \o b6
           d2 == d1 \o Item("closeLoop")
           u == Mark(FALSE, mp)
           v == Mark(l, mp)
           z == Mark(nm, lp)
<1>1. /\ Goes(T, a1, {}) /\ Goes(T, a2, {q})
      /\ Goes(T, b1, {r}) /\ Goes(T, b2, {r}) /\ Goes(T, b3, {r, b})
      /\ Goes(T, b4, {r, b}) /\ Goes(T, b5, {r, b}) /\ Goes(T, b6, {r, b, m})
      /\ Goes(T, d1, {r, b, m}) /\ Goes(T, d2, {r, b, m})
      /\ Rounds(i, h, j, w, q, r, b, m) = a2 \o d2
  <2>1. RoundParts(T, i, h, j, w, q, r, b, m)
    BY RoundItems
  <2> QED
    BY <2>1 DEF RoundParts
<1>2. /\ a1 \in Seq(T) /\ a2 \in Seq(T) /\ b1 \in Seq(T) /\ b2 \in Seq(T) /\ b3 \in Seq(T)
      /\ b4 \in Seq(T) /\ b5 \in Seq(T) /\ b6 \in Seq(T) /\ d1 \in Seq(T) /\ d2 \in Seq(T)
      /\ i \in Seq(T) /\ j \in Seq(T) /\ w \in Seq(T)
  <2> HIDE DEF a1, a2, b1, b2, b3, b4, b5, b6, d1, d2
  <2> QED
    BY <1>1 DEF Goes
<1>3. /\ MoveTo(q) \in Seq(T) /\ MoveTo(r) \in Seq(T) /\ MoveTo(b) \in Seq(T) /\ MoveTo(m) \in Seq(T)
      /\ JumpTo(q) \in Seq(T) /\ JumpTo(r) \in Seq(T)
      /\ <<h>> \in Seq(T) /\ Item("closeLoop") \in Seq(T)
  BY DEF MoveTo, JumpTo, Jumps, Item
<1>4. FALSE \in BOOLEAN
  OBVIOUS
<1>5. /\ u \in Marks /\ u.loops = mp /\ u.live = FALSE
      /\ v \in Marks /\ v.loops = mp /\ v.live = l
      /\ z \in Marks /\ z.loops = lp /\ z.live = nm
  BY <1>4, MarkIs
<1>6. ASSUME NEW items, NEW stmts, Reads(items, stmts), NEW k \in BOOLEAN, k => LetsAll(c, mp, stmts)
      PROVE  \E k2 \in BOOLEAN : /\ k2 <=> k /\ Completes(stmts)
                                 /\ Walk(c, Mark(k, mp), items, Mark(k2, mp))
  <2>1. (k /\ Completes(stmts)) \in BOOLEAN
    BY DEF Completes, AllOf
  <2>2. Walk(c, Mark(k, mp), items, Mark(k /\ Completes(stmts), mp))
    BY <1>6 DEF Reads
  <2> QED
    BY <2>1, <2>2
<1>7. PICK ki \in BOOLEAN : (ki <=> l /\ Completes(is)) /\ Walk(c, v, i, Mark(ki, mp))
  BY <1>6
<1>8. PICK kj \in BOOLEAN : (kj <=> nr /\ Completes(js)) /\ Walk(c, Mark(nr, mp), j, Mark(kj, mp))
  BY <1>6
<1>9. PICK kw \in BOOLEAN : (kw <=> nb /\ Completes(ws)) /\ Walk(c, Mark(nb, mp), w, Mark(kw, mp))
  BY <1>6
<1>10. /\ Walk(c, Mark(ki, mp), JumpTo(q), u) /\ Walk(c, Mark(kj, mp), JumpTo(q), u)
       /\ Walk(c, Mark(kw, mp), JumpTo(r), u)
  <2>1. (ki => q \in c.within) /\ (kj => q \in c.within) /\ (kw => r \in c.within)
    BY <1>7, <1>8, <1>9
  <2> QED
    BY <2>1, WalkJump
<1>11. /\ Walk(c, u, MoveTo(q), v) /\ Walk(c, u, MoveTo(r), Mark(nr, mp))
       /\ Walk(c, u, MoveTo(b), Mark(nb, mp)) /\ Walk(c, u, MoveTo(m), Mark(nm, mp))
  BY WalkMove
<1>12. Walk(c, v, <<h>>, u)
  <2> HIDE DEF u, v
  <2>1. Step(c, v, h, u)
    BY <1>5, StepCond
  <2> QED
    BY <1>5, <2>1, WalkOne
<1>13. Walk(c, Mark(nm, mp), Item("closeLoop"), z)
  <2>1. Mark(nm, mp) \in Marks /\ Mark(nm, mp).loops = mp /\ Mark(nm, mp).live = nm
    BY MarkIs
  <2>2. Step(c, Mark(nm, mp), [do |-> "closeLoop"], z)
    BY <1>5, <2>1, StepClose DEF OnTop
  <2> QED
    BY <1>5, <2>1, <2>2, WalkOne DEF Item
<1> HIDE DEF u, v, z
<1>14. Walk(c, v, a1, u)
  BY <1>2, <1>3, <1>7, <1>10, WalkConcat
<1> HIDE DEF a1
<1>15. Walk(c, v, a2, v)
  BY <1>2, <1>3, <1>11, <1>14, WalkConcat
<1> HIDE DEF a2
<1>16. Walk(c, u, b1, Mark(kj, mp))
  BY <1>2, <1>3, <1>8, <1>11, WalkConcat
<1> HIDE DEF b1
<1>17. Walk(c, u, b2, u)
  BY <1>2, <1>3, <1>10, <1>16, WalkConcat
<1> HIDE DEF b2
<1>18. Walk(c, u, b3, Mark(nb, mp))
  BY <1>2, <1>3, <1>11, <1>17, WalkConcat
<1> HIDE DEF b3
<1>19. Walk(c, u, b4, Mark(kw, mp))
  BY <1>2, <1>9, <1>18, WalkConcat
<1> HIDE DEF b4
<1>20. Walk(c, u, b5, u)
  BY <1>2, <1>3, <1>10, <1>19, WalkConcat
<1> HIDE DEF b5
<1>21. Walk(c, u, b6, Mark(nm, mp))
  BY <1>2, <1>3, <1>11, <1>20, WalkConcat
<1> HIDE DEF b6
<1>22. Walk(c, v, d1, Mark(nm, mp))
  BY <1>2, <1>3, <1>12, <1>21, WalkConcat
<1> HIDE DEF d1
<1>23. Walk(c, v, d2, z)
  BY <1>2, <1>3, <1>13, <1>22, WalkConcat
<1> HIDE DEF d2
<1>24. Walk(c, v, a2 \o d2, z)
  BY <1>2, <1>15, <1>23, WalkConcat
<1> QED
  BY <1>1, <1>24 DEF v, z

\* What a walk of them from x to z shows.
RoundsSay(h, is, js, ws, q, r, b, m, c, x, z) ==
    /\ z.loops = SubSeq(x.loops, 1, Len(x.loops) - 1)
    /\ x.live /\ Completes(is) => q \in c.within
    /\ q \in c.live => /\ MayHold(h.cond) => h.merge - 1 \in c.within
                       /\ MayFail(h.cond) => h.merge \in c.within
    /\ r \in c.live => LetsAll(c, x.loops, js)
    /\ b \in c.live => LetsAll(c, x.loops, ws) /\ (Completes(ws) => r \in c.within)
    /\ m \in c.live => z.live

\* ... and what such a walk says.
LEMMA RoundsUp ==
    ASSUME NEW T, NEW i, NEW h \in T, NEW j, NEW w, NEW q, NEW r, NEW b, NEW m,
           Goes(T, i, {}), Goes(T, j, {}), Goes(T, w, {}), To(h) = Null,
           Jumps({q, r, b, m}) \subseteq T, [do |-> "closeLoop"] \in T,
           Null \notin {q, r, b, m}, q # r, q # b, q # m, r # b, r # m, b # m,
           NEW is, NEW js, NEW ws, Reads(i, is), Reads(j, js), Reads(w, ws),
           h.do = "loopCond", NEW c, NEW x \in Marks, NEW z,
           Walk(c, x, Rounds(i, h, j, w, q, r, b, m), z)
    PROVE  RoundsSay(h, is, js, ws, q, r, b, m, c, x, z)
<1> DEFINE a1 == i \o JumpTo(q)
           a2 == a1 \o MoveTo(q)
           b1 == MoveTo(r) \o j
           b2 == b1 \o JumpTo(q)
           b3 == b2 \o MoveTo(b)
           b4 == b3 \o w
           b5 == b4 \o JumpTo(r)
           b6 == b5 \o MoveTo(m)
           d1 == <<h>> \o b6
           d2 == d1 \o Item("closeLoop")
<1>1. /\ Goes(T, a1, {}) /\ Goes(T, a2, {q})
      /\ Goes(T, b1, {r}) /\ Goes(T, b2, {r}) /\ Goes(T, b3, {r, b})
      /\ Goes(T, b4, {r, b}) /\ Goes(T, b5, {r, b}) /\ Goes(T, b6, {r, b, m})
      /\ Goes(T, d1, {r, b, m}) /\ Goes(T, d2, {r, b, m})
      /\ Rounds(i, h, j, w, q, r, b, m) = a2 \o d2
  <2>1. RoundParts(T, i, h, j, w, q, r, b, m)
    BY RoundItems
  <2> QED
    BY <2>1 DEF RoundParts
<1>2. /\ a1 \in Seq(T) /\ a2 \in Seq(T) /\ b1 \in Seq(T) /\ b2 \in Seq(T) /\ b3 \in Seq(T)
      /\ b4 \in Seq(T) /\ b5 \in Seq(T) /\ b6 \in Seq(T) /\ d1 \in Seq(T) /\ d2 \in Seq(T)
      /\ i \in Seq(T) /\ j \in Seq(T) /\ w \in Seq(T)
  <2> HIDE DEF a1, a2, b1, b2, b3, b4, b5, b6, d1, d2
  <2> QED
    BY <1>1 DEF Goes
<1>3. /\ MoveTo(q) \in Seq(T) /\ MoveTo(r) \in Seq(T) /\ MoveTo(b) \in Seq(T) /\ MoveTo(m) \in Seq(T)
      /\ JumpTo(q) \in Seq(T) /\ JumpTo(r) \in Seq(T)
      /\ <<h>> \in Seq(T) /\ Item("closeLoop") \in Seq(T)
  BY DEF MoveTo, JumpTo, Jumps, Item
<1> HIDE DEF d2
<1>4. PICK k1 \in Marks : Walk(c, x, a2, k1) /\ Walk(c, k1, d2, z)
  BY <1>1, <1>2, WalkSplit
<1> HIDE DEF a1
<1>5. PICK k2 \in Marks : Walk(c, x, a1, k2) /\ Walk(c, k2, MoveTo(q), k1)
  BY <1>2, <1>3, <1>4, WalkSplit
<1>6. PICK k3 \in Marks : Walk(c, x, i, k3) /\ Walk(c, k3, JumpTo(q), k2)
  BY <1>2, <1>3, <1>5, WalkSplit DEF a1
<1> HIDE DEF d1
<1>7. PICK k4 \in Marks : Walk(c, k1, d1, k4) /\ Walk(c, k4, Item("closeLoop"), z)
  BY <1>2, <1>3, <1>4, WalkSplit DEF d2
<1> HIDE DEF b6
<1>8. PICK k5 \in Marks : Step(c, k1, h, k5) /\ Walk(c, k5, b6, k4)
  BY <1>2, <1>3, <1>7, WalkHead DEF d1
<1> HIDE DEF b5
<1>9. PICK k6 \in Marks : Walk(c, k5, b5, k6) /\ Walk(c, k6, MoveTo(m), k4)
  BY <1>2, <1>3, <1>8, WalkSplit DEF b6
<1> HIDE DEF b4
<1>10. PICK k7 \in Marks : Walk(c, k5, b4, k7) /\ Walk(c, k7, JumpTo(r), k6)
  BY <1>2, <1>3, <1>9, WalkSplit DEF b5
<1> HIDE DEF b3
<1>11. PICK k8 \in Marks : Walk(c, k5, b3, k8) /\ Walk(c, k8, w, k7)
  BY <1>2, <1>10, WalkSplit DEF b4
<1> HIDE DEF b2
<1>12. PICK k9 \in Marks : Walk(c, k5, b2, k9) /\ Walk(c, k9, MoveTo(b), k8)
  BY <1>2, <1>3, <1>11, WalkSplit DEF b3
<1> HIDE DEF b1
<1>13. PICK k10 \in Marks : Walk(c, k5, b1, k10) /\ Walk(c, k10, JumpTo(q), k9)
  BY <1>2, <1>3, <1>12, WalkSplit DEF b2
<1>14. PICK k11 \in Marks : Walk(c, k5, MoveTo(r), k11) /\ Walk(c, k11, j, k10)
  BY <1>2, <1>3, <1>13, WalkSplit DEF b1
<1>15. /\ k3.loops = x.loops /\ (x.live /\ Completes(is) => k3.live)
       /\ k2.loops = k3.loops /\ (k3.live => q \in c.within)
       /\ k1.loops = k2.loops /\ (q \in c.live => k1.live)
  <2>1. k3.loops = x.loops /\ (x.live /\ Completes(is) => k3.live)
    BY <1>6 DEF Reads
  <2>2. k2.loops = k3.loops /\ (k3.live => q \in c.within)
    BY <1>6, JumpUp
  <2>3. k1.loops = k2.loops /\ (q \in c.live => k1.live)
    BY <1>5, MoveUp
  <2> QED
    BY <2>1, <2>2, <2>3
<1>16. /\ k5.loops = k1.loops
       /\ k1.live => /\ MayHold(h.cond) => h.merge - 1 \in c.within
                     /\ MayFail(h.cond) => h.merge \in c.within
  BY <1>8, StepCond
<1>17. /\ k11.loops = k5.loops /\ (r \in c.live => k11.live)
       /\ k10.loops = k11.loops /\ (k11.live => LetsAll(c, k11.loops, js))
       /\ k9.loops = k10.loops
  <2>1. k11.loops = k5.loops /\ (r \in c.live => k11.live)
    BY <1>14, MoveUp
  <2>2. k10.loops = k11.loops /\ (k11.live => LetsAll(c, k11.loops, js))
    BY <1>14 DEF Reads
  <2>3. k9.loops = k10.loops
    BY <1>13, JumpUp
  <2> QED
    BY <2>1, <2>2, <2>3
<1>18. /\ k8.loops = k9.loops /\ (b \in c.live => k8.live)
       /\ k7.loops = k8.loops
       /\ k8.live => LetsAll(c, k8.loops, ws) /\ (Completes(ws) => k7.live)
       /\ k6.loops = k7.loops /\ (k7.live => r \in c.within)
  <2>1. k8.loops = k9.loops /\ (b \in c.live => k8.live)
    BY <1>12, MoveUp
  <2>2. /\ k7.loops = k8.loops
        /\ k8.live => LetsAll(c, k8.loops, ws) /\ (Completes(ws) => k7.live)
    BY <1>11 DEF Reads
  <2>3. k6.loops = k7.loops /\ (k7.live => r \in c.within)
    BY <1>10, JumpUp
  <2> QED
    BY <2>1, <2>2, <2>3
<1>19. k4.loops = k6.loops /\ (m \in c.live => k4.live)
  BY <1>9, MoveUp
<1>20. z.loops = SubSeq(k4.loops, 1, Len(k4.loops) - 1) /\ (k4.live => z.live)
  <2>1. Step(c, k4, [do |-> "closeLoop"], z)
    BY <1>7, WalkOnly DEF Item
  <2> QED
    BY <2>1, StepClose
<1>21. /\ k5.loops = x.loops /\ k11.loops = x.loops /\ k8.loops = x.loops /\ k4.loops = x.loops
  BY <1>15, <1>16, <1>17, <1>18, <1>19
<1> QED
  BY <1>15, <1>16, <1>17, <1>18, <1>19, <1>20, <1>21 DEF RoundsSay

\* What the text says of a loop, its indexator and its iteration.
IfAny(s) == IF s = None THEN <<>> ELSE <<s>>

LoopOf(s) ==
    /\ s \in Completing <=> Ends(s)
    /\ \A c, lp : Lets(c, lp, s)
    /\ Completes(IfAny(s.init)) /\ \A c, lp : LetsAll(c, lp, IfAny(s.init))
    /\ Reaches(IfAny(s.iter), Breaking) <=> s.iter # None /\ s.iter \in Breaking

\* A loop ends as the text says, and nothing in it leaves a loop around it.
LEMMA LoopSays ==
    ASSUME NEW s \in Statements, s.op = "for" PROVE LoopOf(s)
<1>1. s \in Completing <=> Ends(s)
  BY CompletingAssumption
<1>2. \A c, lp : Lets(c, lp, s)
  BY BreakingAssumption, ContinuingAssumption DEF Lets
<1>3. s.init = None \/ (s.init \in Statements /\ s.init.op = "var")
  BY StatementsAssumption
<1>4. \A t : Len(<<t>>) = 1 /\ <<t>>[1] = t /\ 1..1 = {1}
  OBVIOUS
<1>5. \A t, X : Reaches(<<t>>, X) <=> t \in X
  BY <1>4 DEF Reaches, Passed
<1>6. \A X : ~Reaches(<<>>, X)
  BY DEF Reaches
<1>7. Completes(IfAny(s.init)) /\ \A c, lp : LetsAll(c, lp, IfAny(s.init))
  <2>1. CASE s.init = None
    BY <2>1, NilSays DEF IfAny
  <2>2. CASE s.init # None
    <3>1. s.init \in Completing /\ s.init \notin Breaking /\ s.init \notin Continuing
      BY <1>3, <2>2, CompletingAssumption, BreakingAssumption, ContinuingAssumption
    <3>2. Completes(<<s.init>>)
      BY <1>4, <3>1 DEF Completes, AllOf
    <3>3. \A c, lp : LetsAll(c, lp, <<s.init>>)
      BY <1>5, <3>1 DEF LetsAll
    <3> QED
      BY <2>2, <3>2, <3>3 DEF IfAny
  <2> QED
    BY <2>1, <2>2
<1>8. Reaches(IfAny(s.iter), Breaking) <=> s.iter # None /\ s.iter \in Breaking
  BY <1>5, <1>6 DEF IfAny
<1> QED
  BY <1>1, <1>2, <1>7, <1>8 DEF LoopOf

\* The blocks that a run can come to if it comes to the loop.
RoundBlocks(s, c, q, r, b, m) ==
    {c, q} \cup {x \in {b} : MayHold(s.cond)} \cup {x \in {r} : Repeats(s)}
    \cup {x \in {m} : Ends(s)}

CondOf(h, s, b, m) ==
    h.do = "loopCond" /\ h.cond = s.cond /\ h.merge = m /\ h.merge - 1 = b

\* A loop becomes its rounds.
LEMMA TurnFor ==
    ASSUME NEW T, NEW i, NEW h \in T, NEW j, NEW w, NEW q, NEW r, NEW b, NEW m,
           Goes(T, i, {}), Goes(T, j, {}), Goes(T, w, {}), To(h) = Null,
           Jumps({q, r, b, m}) \subseteq T, [do |-> "closeLoop"] \in T,
           Null \notin {q, r, b, m}, q # r, q # b, q # m, r # b, r # m, b # m,
           NEW s, LoopOf(s),
           Reads(i, IfAny(s.init)), Reads(j, IfAny(s.iter)), Reads(w, s.body),
           CondOf(h, s, b, m),
           NEW it, it.do = "stmt", it.stmt = s,
           NEW bs, NEW a, NEW cs, NEW c, Null \notin DOMAIN cs, c \notin {q, r, b, m},
           {c, q, r, b, m} \subseteq DOMAIN cs \ DOMAIN bs, Wrote(bs, a, Jump(c), cs),
           \A d \in DOMAIN cs \ DOMAIN bs : cs[d].func = bs[a].func,
           NEW lp \in Seq(LoopPairs), NEW mp \in Seq(LoopPairs),
           OnTop(mp, lp, m, r)
    PROVE  Turns(bs, a, lp, <<it>>, Jump(c), cs, c, mp, Rounds(i, h, j, w, q, r, b, m))
<1> DEFINE term == Jump(c)
           new == Rounds(i, h, j, w, q, r, b, m)
<1>1. term # Open /\ Targets(term) = {c}
  BY TargetsOf DEF Jump, Open
<1>2. Tos(<<it>>) = {}
  BY TosOne DEF To, Moves
<1>3. Distinct(new) /\ Tos(new) = {q, r, b, m}
  <2>1. RoundParts(T, i, h, j, w, q, r, b, m)
    BY RoundItems
  <2>2. \E g : new = g /\ Goes(T, g, {q, r, b, m})
    BY <2>1 DEF RoundParts
  <2> QED
    BY <2>2 DEF Goes
<1> HIDE DEF term, new
<1>4. /\ s \in Completing <=> Ends(s)
      /\ \A v, lq : Lets(v, lq, s)
      /\ Completes(IfAny(s.init)) /\ \A v, lq : LetsAll(v, lq, IfAny(s.init))
      /\ Reaches(IfAny(s.iter), Breaking) <=> s.iter # None /\ s.iter \in Breaking
  BY DEF LoopOf
<1>5. ASSUME NEW v, NEW x, NEW y
      PROVE  Step(v, x, it, y) <=> y.loops = x.loops /\ (x.live => (Ends(s) => y.live))
  <2>1. Step(v, x, it, y) <=> /\ y.loops = x.loops
                              /\ x.live => Lets(v, x.loops, s) /\ (s \in Completing => y.live)
    BY DEF Step, Passing, Moves
  <2> QED
    BY <1>4, <2>1
<1>6. TurnsUp(bs, a, lp, <<it>>, cs, c, mp, new)
  <2> SUFFICES ASSUME NEW S \in SUBSET DOMAIN bs, NEW z \in Marks, Shut(bs, S),
                      Walk(View(bs, S, TRUE), Here(bs, S, a, lp), <<it>>, z)
               PROVE  \E S2 \in SUBSET DOMAIN cs, z2 \in Marks :
                        /\ S \subseteq S2 /\ Shut(cs, S2)
                        /\ \A d \in S2 : d \in S \/ (a \in S /\ cs[d].func = bs[a].func)
                        /\ OpenIn(cs, S2) \cap DOMAIN bs \subseteq OpenIn(bs, S)
                        /\ \A d \in OpenIn(cs, S2) :
                              d = c \/ d \in Tos(new) \/ (d \in S /\ d # a /\ d \notin Tos(<<it>>))
                        /\ Walk(View(cs, S2, TRUE), Here(cs, S2, c, mp), new, z2)
                        /\ z2.loops = z.loops /\ (z2.live => z.live)
    BY DEF TurnsUp
  <2> DEFINE l == a \in OpenIn(bs, S)
             nr == l /\ Repeats(s)
             nb == l /\ MayHold(s.cond)
             nm == l /\ Ends(s)
             N == IF l THEN RoundBlocks(s, c, q, r, b, m) ELSE {}
             S2 == S \cup N
             z2 == Mark(nm, lp)
             v == View(cs, S2, TRUE)
  <2>1. /\ N \in SUBSET (DOMAIN cs \ DOMAIN bs)
        /\ l => Targets(term) \subseteq S \cup N
        /\ ~l => N = {}
    BY <1>1 DEF RoundBlocks
  <2>2. /\ c \in N <=> l
        /\ q \in N <=> l
        /\ r \in N <=> nr
        /\ b \in N <=> nb
        /\ m \in N <=> nm
    BY DEF RoundBlocks
  <2>3. /\ N \subseteq {c} \cup Tos(new)
        /\ l \in BOOLEAN /\ nr \in BOOLEAN /\ nb \in BOOLEAN /\ nm \in BOOLEAN
    BY <1>3 DEF RoundBlocks, Repeats, Ends, MayHold
  <2>4. /\ nr <=> l /\ Repeats(s)
        /\ nb <=> l /\ MayHold(s.cond)
        /\ nm <=> l /\ Ends(s)
    OBVIOUS
  <2> HIDE DEF N, nr, nb, nm
  <2>5. Wider(bs, a, cs, S, N)
    <3>1. a \in OpenIn(bs, S) => Targets(term) \subseteq S \cup N
      BY <2>1
    <3>2. a \notin OpenIn(bs, S) => N = {}
      BY <2>1
    <3>3. Wrote(bs, a, term, cs)
      BY DEF term
    <3> HIDE DEF l, z2, v, S2
    <3> QED
      BY <1>1, <2>1, <3>1, <3>2, <3>3, Widened
  <2>6. /\ S2 \in SUBSET DOMAIN cs /\ Shut(cs, S2)
        /\ \A d \in S2 : d \in S \/ (a \in S /\ cs[d].func = bs[a].func)
        /\ OpenIn(cs, S2) \cap DOMAIN bs \subseteq OpenIn(bs, S)
        /\ \A d \in OpenIn(cs, S2) : d \in N \/ (d \in S /\ d # a)
        /\ \A d \in DOMAIN cs \ DOMAIN bs : d \in OpenIn(cs, S2) <=> d \in N
    BY <2>5 DEF Wider
  <2>7. S \subseteq S2 /\ N \subseteq S2
    OBVIOUS
  <2>8. z2 \in Marks /\ z2.loops = lp /\ z2.live = nm
    BY <2>3, MarkIs
  <2>9. z.loops = lp /\ (l => (Ends(s) => z.live))
    <3> DEFINE x == Here(bs, S, a, lp)
               u == View(bs, S, TRUE)
    <3>1. x.loops = lp /\ (x.live <=> l)
      BY HereIs
    <3>2. Step(u, x, it, z)
      BY WalkOnly
    <3> HIDE DEF x, l, u
    <3>3. z.loops = x.loops /\ (x.live => (Ends(s) => z.live))
      BY <1>5, <3>2
    <3> QED
      BY <3>1, <3>3
  <2>10. Here(cs, S2, c, mp) = Mark(l, mp)
    <3>1. c \in OpenIn(cs, S2) <=> l
      BY <2>2, <2>6
    <3> HIDE DEF S2
    <3>2. (c \in OpenIn(cs, S2)) = l
      BY <2>3, <3>1
    <3> QED
      BY <3>2 DEF Here
  <2>11. v.within = S2 /\ v.live = OpenIn(cs, S2)
    BY DEF View
  <2> HIDE DEF l, v, S2, z2
  <2>12. (q \in v.live => l) /\ (r \in v.live => nr) /\ (b \in v.live => nb) /\ (m \in v.live => nm)
    BY <2>2, <2>6, <2>11
  <2>13. /\ l => q \in v.within
         /\ nr => r \in v.within
         /\ nb => b \in v.within
         /\ nm => m \in v.within
         /\ nr => l
         /\ nb => l
    BY <2>2, <2>4, <2>7, <2>11
  <2>14. Walk(v, Mark(l, mp), new, z2)
    <3>1. l \/ nr => q \in v.within
      BY <2>13
    <3>2. l => LetsAll(v, mp, IfAny(s.init))
      BY <1>4
    <3>3. nr => LetsAll(v, mp, IfAny(s.iter))
      <4>1. nr /\ Reaches(IfAny(s.iter), Breaking) => nm
        BY <1>4, <2>4 DEF Ends
      <4> QED
        BY <2>13, <4>1 DEF LetsAll, OnTop
    <3>4. nb => LetsAll(v, mp, s.body) /\ (Completes(s.body) => r \in v.within)
      <4>1. nb /\ Reaches(s.body, Breaking) => nm
        BY <2>4 DEF Ends
      <4>2. nb /\ (Reaches(s.body, Continuing) \/ Completes(s.body)) => nr
        BY <2>4 DEF Repeats
      <4> QED
        BY <2>13, <4>1, <4>2 DEF LetsAll, OnTop
    <3>5. l => /\ MayHold(h.cond) => h.merge - 1 \in v.within
               /\ MayFail(h.cond) => h.merge \in v.within
      <4>1. l /\ MayFail(s.cond) => nm
        BY <2>4 DEF Ends
      <4> QED
        BY <2>4, <2>13, <4>1 DEF CondOf
    <3>6. h.do = "loopCond"
      BY DEF CondOf
    <3>7. Walk(v, Mark(l, mp), Rounds(i, h, j, w, q, r, b, m), Mark(nm, lp))
      BY <2>3, <2>12, <3>1, <3>2, <3>3, <3>4, <3>5, <3>6, RoundsDown, ZenonT(100)
    <3> QED
      BY <3>7 DEF new, z2
  <2>15. z2.loops = z.loops /\ (z2.live => z.live)
    BY <2>4, <2>8, <2>9
  <2>16. \A d \in OpenIn(cs, S2) : d = c \/ d \in Tos(new) \/ (d \in S /\ d # a /\ d \notin Tos(<<it>>))
    BY <1>2, <2>3, <2>6
  <2> QED
    BY <2>6, <2>7, <2>8, <2>10, <2>14, <2>15, <2>16 DEF v
<1>7. TurnsDown(bs, a, lp, <<it>>, cs, c, mp, new)
  <2> SUFFICES ASSUME NEW S \in SUBSET Nat, NEW z \in Marks, Shut(cs, S),
                      Walk(View(cs, S, FALSE), Here(cs, S, c, mp), new, z)
               PROVE  Walk(View(bs, S, FALSE), Here(bs, S, a, lp), <<it>>, z)
    BY DEF TurnsDown
  <2> DEFINE v == View(cs, S, FALSE)
             y == Here(cs, S, c, mp)
             x == Here(bs, S, a, lp)
             u == View(bs, S, FALSE)
  <2>1. x \in Marks /\ x.loops = lp /\ (x.live <=> a \in OpenIn(bs, S))
    BY HereIs
  <2>2. y \in Marks /\ y.loops = mp /\ (y.live <=> c \in OpenIn(cs, S))
    BY HereIs
  <2>3. v.within = S /\ v.live = OpenIn(cs, S)
    BY DEF View
  <2> HIDE DEF v, y, x, u
  <2>4. Walk(v, y, new, z)
    BY DEF v, y
  <2>5. RoundsSay(h, IfAny(s.init), IfAny(s.iter), s.body, q, r, b, m, v, y, z)
    <3>1. y \in Marks
      BY <2>2
    <3>2. Walk(v, y, Rounds(i, h, j, w, q, r, b, m), z)
      BY <2>4 DEF new
    <3>3. h.do = "loopCond"
      BY DEF CondOf
    <3> QED
      BY <3>1, <3>2, <3>3, RoundsUp
  <2>6. /\ z.loops = lp
        /\ y.live /\ Completes(IfAny(s.init)) => q \in S
        /\ q \in v.live => /\ MayHold(s.cond) => b \in S
                           /\ MayFail(s.cond) => m \in S
        /\ r \in v.live => LetsAll(v, mp, IfAny(s.iter))
        /\ b \in v.live => LetsAll(v, mp, s.body) /\ (Completes(s.body) => r \in S)
        /\ m \in v.live => z.live
    BY <2>2, <2>3, <2>5 DEF RoundsSay, OnTop, CondOf
  <2>7. /\ x.live => c \in S
        /\ \A d \in DOMAIN cs \ DOMAIN bs : d \in S => d \in OpenIn(cs, S)
    <3>1. Wrote(bs, a, term, cs)
      BY DEF term
    <3> QED
      BY <1>1, <2>1, <3>1, Followed
  <2>8. /\ c \in S => y.live
        /\ q \in S => q \in v.live
        /\ r \in S => r \in v.live
        /\ b \in S => b \in v.live
        /\ m \in S => m \in v.live
    BY <2>2, <2>3, <2>7
  <2>9. ASSUME x.live, Ends(s) PROVE z.live
    <3>1. q \in v.live
      BY <1>4, <2>6, <2>7, <2>8, <2>9
    <3>2. MayHold(s.cond) => b \in v.live
      BY <2>6, <2>8, <3>1
    <3>3. MayHold(s.cond) /\ Reaches(s.body, Breaking) => m \in S
      BY <2>3, <2>6, <3>2 DEF LetsAll, OnTop
    <3>4. Repeats(s) => r \in v.live
      BY <2>3, <2>6, <2>8, <3>2 DEF Repeats, LetsAll, OnTop
    <3>5. Repeats(s) /\ s.iter # None /\ s.iter \in Breaking => m \in S
      BY <1>4, <2>3, <2>6, <3>4 DEF LetsAll, OnTop
    <3>6. m \in S
      BY <2>6, <2>9, <3>1, <3>3, <3>5 DEF Ends
    <3> QED
      BY <2>6, <2>8, <3>6
  <2>10. Step(u, x, it, z)
    BY <1>5, <2>1, <2>6, <2>9
  <2> QED
    BY <2>1, <2>10, WalkOne DEF u, x
<1>8. Fresh(c, new) /\ ({c} \cup Tos(new)) \cap DOMAIN bs \subseteq {a} \cup Tos(<<it>>)
  BY <1>3 DEF Fresh
<1> QED
  BY <1>6, <1>7, <1>8 DEF Turns, term, new

-----------------------------------------------------------------------------
(* The beginning of a body, with block c.                                  *)

\* In the body that is left for that time nothing happens.
LEMMA TurnBegin ==
    ASSUME NEW T, NEW items \in Seq(T), NEW stmts, Reads(items, stmts),
           NEW a, NEW end \in T, end.do = "endBody", end.block = a, NEW lp \in Seq(LoopPairs),
           NEW bs, a \in {Null} \cup DOMAIN bs, NEW cs, NEW c, c \notin DOMAIN bs, c # Null, Null \notin DOMAIN bs,
           Wrote(bs, a, Open, cs), DOMAIN cs = DOMAIN bs \cup {c}
    PROVE  Turns(bs, a, lp, <<>>, Open, cs, c, lp, items \o <<end>>)
<1> DEFINE new == items \o <<end>>
<1>1. <<end>> \in Seq(T) /\ To(end) = a
  BY DEF To, Moves
<1>2. Tos(new) = {a} \ {Null} /\ Distinct(new)
  <2>1. Goes(T, items, {})
    BY DEF Reads, Goes
  <2>2. Goes(T, <<end>>, {a} \ {Null})
    BY <1>1, TosOne DEF Goes
  <2>3. {} \cap ({a} \ {Null}) = {} /\ {} \cup ({a} \ {Null}) = {a} \ {Null}
    OBVIOUS
  <2>4. Goes(T, items \o <<end>>, {a} \ {Null})
    BY <2>1, <2>2, <2>3, GoesConcat
  <2> QED
    BY <2>4 DEF Goes
<1>3. end.do \in Moves /\ end.do \notin Passing
      /\ end.do \notin {"stmt", "finish", "closeLoop", "jumpTo", "loopCond"}
  BY DEF Moves, Passing
<1>4. ASSUME NEW v, NEW x, NEW y
      PROVE  Step(v, x, end, y) <=> /\ y.loops = x.loops
                                    /\ a \in v.live => y.live
                                    /\ v.tight => ~x.live
  BY <1>3 DEF Step
<1>5. \A b \in DOMAIN bs : cs[b].term = bs[b].term
  BY DEF Wrote
<1>6. cs[c].term = Open
  BY DEF Wrote
<1> HIDE DEF new
<1>7. TurnsUp(bs, a, lp, <<>>, cs, c, lp, new)
  <2> SUFFICES ASSUME NEW S \in SUBSET DOMAIN bs, NEW z \in Marks, Shut(bs, S),
                      Walk(View(bs, S, TRUE), Here(bs, S, a, lp), <<>>, z)
               PROVE  \E S2 \in SUBSET DOMAIN cs, z2 \in Marks :
                        /\ S \subseteq S2 /\ Shut(cs, S2)
                        /\ \A b \in S2 : b \in S \/ (a \in S /\ cs[b].func = bs[a].func)
                        /\ OpenIn(cs, S2) \cap DOMAIN bs \subseteq OpenIn(bs, S)
                        /\ \A b \in OpenIn(cs, S2) :
                              b = c \/ b \in Tos(new) \/ (b \in S /\ b # a /\ b \notin Tos(<<>>))
                        /\ Walk(View(cs, S2, TRUE), Here(cs, S2, c, lp), new, z2)
                        /\ z2.loops = z.loops /\ (z2.live => z.live)
    BY DEF TurnsUp
  <2> DEFINE l == a \in OpenIn(bs, S)
             v == View(cs, S, TRUE)
  <2>1. z = Mark(l, lp)
    BY WalkNowhere DEF Here
  <2>2. l \in BOOLEAN /\ FALSE \in BOOLEAN
    OBVIOUS
  <2>3. OpenIn(cs, S) = OpenIn(bs, S) /\ Shut(cs, S)
    BY <1>5 DEF OpenIn, Shut
  <2>4. Here(cs, S, c, lp) = Mark(FALSE, lp)
    <3>1. (c \in OpenIn(cs, S)) = FALSE
      BY DEF OpenIn
    <3> QED
      BY <3>1 DEF Here
  <2>5. v.live = OpenIn(bs, S) /\ v.tight
    BY <2>3 DEF View
  <2>6. a \in v.live => l
    BY <2>5
  <2> HIDE DEF l, v
  <2>7. Walk(v, Mark(FALSE, lp), items, Mark(FALSE, lp))
    <3>1. (FALSE /\ Completes(stmts)) = FALSE
      OBVIOUS
    <3> QED
      BY <2>2, <3>1 DEF Reads
  <2>8. /\ Mark(FALSE, lp) \in Marks /\ Mark(FALSE, lp).loops = lp /\ ~Mark(FALSE, lp).live
        /\ z \in Marks /\ z.loops = lp /\ z.live = l
    BY <2>1, <2>2, MarkIs
  <2>9. Walk(v, Mark(FALSE, lp), <<end>>, z)
    <3>1. Step(v, Mark(FALSE, lp), end, z)
      BY <1>4, <2>6, <2>8
    <3> QED
      BY <2>8, <3>1, WalkOne
  <2>10. Walk(v, Mark(FALSE, lp), new, z)
    BY <1>1, <2>7, <2>9, WalkConcat DEF new
  <2>11. \A b \in OpenIn(cs, S) : b \in S /\ b # Null
    BY DEF OpenIn
  <2>12. Tos(<<>>) = {} /\ S \in SUBSET DOMAIN cs
    BY TosNil
  <2> QED
    BY <1>2, <2>3, <2>4, <2>8, <2>10, <2>11, <2>12 DEF v
<1>8. TurnsDown(bs, a, lp, <<>>, cs, c, lp, new)
  <2> SUFFICES ASSUME NEW S \in SUBSET Nat, NEW z \in Marks,
                      Walk(View(cs, S, FALSE), Here(cs, S, c, lp), new, z)
               PROVE  \E z2 \in Marks :
                        /\ Walk(View(bs, S, FALSE), Here(bs, S, a, lp), <<>>, z2)
                        /\ z2.loops = z.loops /\ (z2.live => z.live)
    BY DEF TurnsDown
  <2> DEFINE v == View(cs, S, FALSE)
             x == Here(bs, S, a, lp)
             w == Here(cs, S, c, lp)
  <2>1. x \in Marks /\ x.loops = lp /\ (x.live <=> a \in OpenIn(bs, S))
    BY HereIs
  <2>2. w \in Marks /\ w.loops = lp
    BY HereIs
  <2>3. v.live = OpenIn(cs, S)
    BY DEF View
  <2>4. Walk(View(bs, S, FALSE), x, <<>>, x)
    BY <2>1, WalkNil
  <2> HIDE DEF v, w
  <2>5. PICK y \in Marks : Walk(v, w, items, y) /\ Walk(v, y, <<end>>, z)
    BY <1>1, WalkSplit DEF new, v, w
  <2>6. y.loops = lp
    BY <2>2, <2>5 DEF Reads
  <2>7. Step(v, y, end, z)
    BY <2>5, WalkOnly
  <2>8. z.loops = lp /\ (a \in OpenIn(cs, S) => z.live)
    BY <1>4, <2>3, <2>6, <2>7
  <2>9. a \in OpenIn(bs, S) => a \in OpenIn(cs, S)
    BY <1>5 DEF OpenIn
  <2> QED
    BY <2>1, <2>4, <2>8, <2>9
<1>9. Fresh(c, new) /\ ({c} \cup Tos(new)) \cap DOMAIN bs \subseteq {a} \cup Tos(<<>>)
  BY <1>2 DEF Fresh
<1> QED
  BY <1>7, <1>8, <1>9 DEF Turns, new

\* In the new body a run is where it begins.
LEMMA BodyBegins ==
    ASSUME NEW T, NEW items \in Seq(T), NEW stmts, Reads(items, stmts), \A v, lq : LetsAll(v, lq, stmts),
           NEW f, NEW cs, NEW c \in DOMAIN cs, cs[c].term = Open, cs[c].func = f,
           NEW lp \in Seq(LoopPairs)
    PROVE  /\ Upper(Completes(stmts), f, cs, c, c, lp, items)
           /\ Lower(Completes(stmts), cs, c, c, lp, items)
           /\ Fresh(c, items)
<1>1. Upper(Completes(stmts), f, cs, c, c, lp, items)
  <2> DEFINE S == {c}
             l == TRUE /\ Completes(stmts)
             y == Mark(l, lp)
             v == View(cs, S, TRUE)
  <2>1. TRUE \in BOOLEAN /\ l \in BOOLEAN
    BY DEF Completes, AllOf
  <2>2. y \in Marks /\ y.live = l
    BY <2>1, MarkIs
  <2>3. Shut(cs, S)
    BY TargetsOf DEF Shut
  <2>4. Here(cs, S, c, lp) = Mark(TRUE, lp)
    <3>1. (c \in OpenIn(cs, S)) = TRUE
      BY DEF OpenIn
    <3> QED
      BY <3>1 DEF Here
  <2>5. Walk(v, Mark(TRUE, lp), items, y)
    <3> HIDE DEF v
    <3> QED
      BY <2>1 DEF Reads
  <2>6. \A b \in OpenIn(cs, S) : b = c
    BY DEF OpenIn
  <2>7. S \in SUBSET DOMAIN cs /\ c \in S /\ \A b \in S : cs[b].func = f
    OBVIOUS
  <2>8. y.live => Completes(stmts)
    BY <2>2
  <2> HIDE DEF S, y, l
  <2> QED
    BY <2>2, <2>3, <2>4, <2>5, <2>6, <2>7, <2>8 DEF Upper
<1>2. Lower(Completes(stmts), cs, c, c, lp, items)
  <2> SUFFICES ASSUME Completes(stmts), NEW S \in SUBSET Nat, NEW y \in Marks, c \in S,
                      Walk(View(cs, S, FALSE), Here(cs, S, c, lp), items, y)
               PROVE  y.live
    BY DEF Lower
  <2> DEFINE x == Here(cs, S, c, lp)
             v == View(cs, S, FALSE)
  <2>1. x \in Marks /\ x.live
    BY HereIs DEF OpenIn
  <2>2. Walk(v, x, items, y)
    OBVIOUS
  <2> HIDE DEF x, v
  <2> QED
    BY <2>1, <2>2 DEF Reads
<1>3. Fresh(c, items)
  BY DEF Reads, Fresh
<1> QED
  BY <1>1, <1>2, <1>3

-----------------------------------------------------------------------------
(* The bodies that are being analysed, and those that were.  An agenda is  *)
(* cut at the end of each of them: what stands before it is walked by its  *)
(* function.                                                               *)

Tasks(p) == UNION {Items(p, n) : n \in Nat}

Cut(p, items, pre, end, post) ==
    /\ pre \in Seq(Tasks(p)) /\ end \in Tasks(p) /\ post \in Seq(Tasks(p))
    /\ items = (pre \o <<end>>) \o post
    /\ end.do = "endBody"

Plain(items) == \A k \in 1..Len(items) : items[k].do # "endBody"

\* The cuts of an agenda from which items are taken, or to which some are put.
LEMMA CutAfter ==
    ASSUME NEW p, NEW rest, NEW mid, NEW end, NEW post, Cut(p, rest, mid, end, post),
           NEW old \in Seq(Tasks(p))
    PROVE  Cut(p, old \o rest, old \o mid, end, post)
<1> DEFINE T == Tasks(p)
<1>1. mid \in Seq(T) /\ end \in T /\ post \in Seq(T) /\ rest = (mid \o <<end>>) \o post
  BY DEF Cut
<1> HIDE DEF T
<1>2. <<end>> \in Seq(T)
  BY <1>1
<1>3. old \in Seq(T)
  BY DEF T
<1>4. old \o ((mid \o <<end>>) \o post) = ((old \o mid) \o <<end>>) \o post
  BY <1>1, <1>2, <1>3
<1>5. old \o mid \in Seq(T)
  BY <1>1, <1>3
<1> QED
  BY <1>1, <1>4, <1>5 DEF Cut, T

\* A cut is not within items that are no ends.
LEMMA CutLater ==
    ASSUME NEW p, NEW new \in Seq(Tasks(p)), NEW rest \in Seq(Tasks(p)), Plain(new),
           NEW pre, NEW end, NEW post, Cut(p, new \o rest, pre, end, post)
    PROVE  \E mid \in Seq(Tasks(p)) : pre = new \o mid /\ Cut(p, rest, mid, end, post)
<1> DEFINE T == Tasks(p)
           n == Len(new)
           m == Len(pre)
           r == Len(rest)
           q == Len(post)
<1>1. /\ pre \in Seq(T) /\ end \in T /\ post \in Seq(T)
      /\ new \o rest = (pre \o <<end>>) \o post /\ end.do = "endBody"
  BY DEF Cut
<1>2. new \in Seq(T) /\ rest \in Seq(T)
  OBVIOUS
<1> HIDE DEF T
<1> DEFINE all == new \o rest
           head == pre \o <<end>>
<1>3. /\ head \in Seq(T) /\ Len(head) = m + 1 /\ head[m + 1] = end
      /\ \A k \in 1..m : head[k] = pre[k]
      /\ n \in Nat /\ m \in Nat /\ r \in Nat /\ q \in Nat
  BY <1>1, <1>2
<1>4. /\ all \in Seq(T) /\ Len(all) = n + r
      /\ \A k \in 1..n : all[k] = new[k]
      /\ \A k \in 1..r : all[n + k] = rest[k]
  BY <1>2
<1>5. all = head \o post
  BY <1>1
<1>6. /\ Len(all) = m + 1 + q
      /\ \A k \in 1..(m + 1) : all[k] = head[k]
      /\ \A k \in 1..q : all[m + 1 + k] = post[k]
  BY <1>1, <1>3, <1>5
<1> HIDE DEF all, head
<1>7. n <= m
  <2>1. ASSUME m < n PROVE FALSE
    <3>1. m + 1 \in 1..n /\ m + 1 \in 1..(m + 1)
      BY <1>3, <2>1
    <3>2. new[m + 1] = end
      BY <1>3, <1>4, <1>6, <3>1
    <3> QED
      BY <1>1, <3>1, <3>2 DEF Plain
  <2> QED
    BY <1>3, <2>1
<1> DEFINE mid == [k \in 1..(m - n) |-> rest[k]]
<1>8. m - n \in Nat /\ m - n + 1 + q = r
  <2>1. n + r = m + 1 + q /\ n \in Nat /\ m \in Nat /\ r \in Nat /\ q \in Nat
    BY <1>3, <1>4, <1>6
  <2> HIDE DEF n, m, r, q
  <2> QED
    BY <1>7, <2>1
<1>9. mid \in Seq(T) /\ Len(mid) = m - n /\ \A k \in 1..(m - n) : mid[k] = rest[k]
  <2>1. \A k \in 1..(m - n) : rest[k] \in T
    BY <1>2, <1>3, <1>8
  <2> QED
    BY <1>8, <2>1
<1> HIDE DEF mid
<1>10. pre = new \o mid
  <2> DEFINE nm == new \o mid
  <2>1. /\ nm \in Seq(T) /\ Len(nm) = m
        /\ \A k \in 1..n : nm[k] = new[k]
        /\ \A k \in 1..(m - n) : nm[n + k] = mid[k]
    BY <1>2, <1>3, <1>8, <1>9
  <2> HIDE DEF nm
  <2>2. ASSUME NEW k \in 1..m PROVE nm[k] = pre[k]
    <3>1. pre[k] = all[k]
      <4>1. k \in 1..(m + 1)
        BY <1>3
      <4> QED
        BY <1>3, <1>6, <4>1
    <3>2. CASE k \in 1..n
      BY <1>4, <2>1, <3>1, <3>2
    <3>3. CASE k \notin 1..n
      <4>1. k - n \in 1..(m - n) /\ n + (k - n) = k /\ k - n \in 1..r
        BY <1>3, <1>8, <3>3
      <4>2. nm[n + (k - n)] = mid[k - n] /\ all[n + (k - n)] = rest[k - n]
        BY <1>4, <2>1, <4>1
      <4> QED
        BY <1>9, <3>1, <4>1, <4>2
    <3> QED
      BY <3>2, <3>3
  <2>3. nm = pre
    BY <1>1, <2>1, <2>2
  <2> QED
    BY <2>3 DEF nm
<1>11. rest = (mid \o <<end>>) \o post
  <2> DEFINE me == mid \o <<end>>
             mep == me \o post
  <2>1. /\ me \in Seq(T) /\ Len(me) = m - n + 1 /\ me[m - n + 1] = end
        /\ \A k \in 1..(m - n) : me[k] = mid[k]
    BY <1>1, <1>9
  <2> HIDE DEF me
  <2>2. /\ mep \in Seq(T) /\ Len(mep) = r
        /\ \A k \in 1..(m - n + 1) : mep[k] = me[k]
        /\ \A k \in 1..q : mep[m - n + 1 + k] = post[k]
    BY <1>1, <1>8, <2>1, SMTT(60)
  <2> HIDE DEF mep
  <2>3. ASSUME NEW k \in 1..r PROVE mep[k] = rest[k]
    <3>1. CASE k \in 1..(m - n)
      <4>1. k \in 1..(m - n + 1)
        BY <1>8, <3>1
      <4> QED
        BY <1>9, <2>1, <2>2, <3>1, <4>1
    <3>2. CASE k = m - n + 1
      <4>1. k \in 1..(m - n + 1) /\ n + k = m + 1 /\ m + 1 \in 1..(m + 1)
        BY <1>3, <1>8, <3>2
      <4>2. rest[k] = end
        BY <1>3, <1>4, <1>6, <4>1
      <4> QED
        BY <2>1, <2>2, <3>2, <4>1, <4>2
    <3>3. CASE k \notin 1..(m - n + 1)
      <4>1. k - (m - n + 1) \in 1..q /\ m - n + 1 + (k - (m - n + 1)) = k
            /\ n + k = m + 1 + (k - (m - n + 1))
        BY <1>3, <1>8, <3>3
      <4>2. mep[k] = post[k - (m - n + 1)]
        BY <2>2, <4>1
      <4>3. rest[k] = post[k - (m - n + 1)]
        BY <1>4, <1>6, <4>1
      <4> QED
        BY <4>2, <4>3
    <3> QED
      BY <3>1, <3>2, <3>3, <1>8
  <2>4. mep = rest
    BY <1>2, <2>2, <2>3
  <2> QED
    BY <2>4 DEF mep, me
<1> QED
  BY <1>1, <1>9, <1>10, <1>11 DEF Cut, T

\* At an end that comes first there is a cut, and the others are later.
LEMMA CutHere ==
    ASSUME NEW p, NEW e \in Tasks(p), NEW rest \in Seq(Tasks(p)),
           NEW pre, NEW end, NEW post, Cut(p, <<e>> \o rest, pre, end, post)
    PROVE  \/ pre = <<>> /\ end = e /\ post = rest
           \/ \E mid \in Seq(Tasks(p)) : pre = <<e>> \o mid /\ Cut(p, rest, mid, end, post)
<1> DEFINE T == Tasks(p)
<1>1. /\ pre \in Seq(T) /\ end \in T /\ post \in Seq(T)
      /\ <<e>> \o rest = (pre \o <<end>>) \o post /\ end.do = "endBody"
  BY DEF Cut
<1>2. rest \in Seq(T) /\ e \in T
  OBVIOUS
<1> HIDE DEF T
<1>3. CASE pre = <<>>
  <2>1. <<e>> \o rest = <<end>> \o post
    BY <1>1, <1>3
  <2>2. Head(<<e>> \o rest) = e /\ Tail(<<e>> \o rest) = rest
    BY <1>2
  <2>3. Head(<<end>> \o post) = end /\ Tail(<<end>> \o post) = post
    BY <1>1
  <2> QED
    BY <1>3, <2>1, <2>2, <2>3
<1>4. CASE pre # <<>>
  <2> DEFINE mid == Tail(pre)
  <2>1. mid \in Seq(T) /\ Head(pre) \in T /\ pre = <<Head(pre)>> \o mid
    BY <1>1, <1>4
  <2>2. PICK x \in T : x = Head(pre)
    BY <2>1
  <2> HIDE DEF mid
  <2>3. pre = <<x>> \o mid
    BY <2>1, <2>2
  <2>4. (pre \o <<end>>) \o post = <<x>> \o ((mid \o <<end>>) \o post)
    <3>1. <<end>> \in Seq(T) /\ <<x>> \in Seq(T)
      BY <1>1, <2>2
    <3> QED
      BY <1>1, <2>1, <2>3, <3>1
  <2> DEFINE r == (mid \o <<end>>) \o post
  <2>5. r \in Seq(T)
    BY <1>1, <2>1
  <2>6. <<e>> \o rest = <<x>> \o r
    BY <1>1, <2>4
  <2> HIDE DEF r
  <2>7. e = x /\ rest = r
    <3>1. Head(<<e>> \o rest) = e /\ Tail(<<e>> \o rest) = rest
      BY <1>2
    <3>2. Head(<<x>> \o r) = x /\ Tail(<<x>> \o r) = r
      BY <2>2, <2>5
    <3> QED
      BY <2>6, <3>1, <3>2
  <2> QED
    BY <1>1, <2>1, <2>3, <2>7 DEF Cut, T, r
<1> QED
  BY <1>3, <1>4

\* The blocks of a function, and the first of them.
Of(bs, f) == {b \in 1..Len(bs) : bs[b].func = f}
First(bs, f) == CHOOSE b \in Of(bs, f) : \A c \in Of(bs, f) : b <= c

Done(p, f) == Completes(p[f].body)

\* Behind the bodies there is at most a variable of the module, or a stray
\* statement.
HasEnd(p, items) == \E pre, end, post : Cut(p, items, pre, end, post)
AtModuleLevel(items) ==
    Len(items) <= 1 /\ \A k \in 1..Len(items) : items[k].do \in {"stmt", "finish"}
Tailed(p, items) == HasEnd(p, items) \/ AtModuleLevel(items)

\* How the body stands whose end is at a cut of the agenda.
Stands(p, bs, a, lp, pre, end, post) ==
    /\ Of(bs, end.func) # {}
    /\ Fresh(a, pre)
    /\ Upper(Done(p, end.func), end.func, bs, First(bs, end.func), a, lp, pre)
    /\ Lower(Done(p, end.func), bs, First(bs, end.func), a, lp, pre)
    /\ Tos(<<end>> \o post) \cap Of(bs, end.func) = {}
    /\ p[end.func].template \/ post = <<>>
    /\ Tailed(p, post)

\* A function whose body was analysed is not written to any more.
Apart(p, bs, a, items, f) ==
    \A pre, end, post : Cut(p, items, pre, end, post) =>
        a \notin Of(bs, f) /\ Tos(pre) \cap Of(bs, f) = {}

\* Its blocks are those that the text says: an open one can be come to if
\* and only if the body can be run to its end.
Fin(p, bs, f) ==
    \E S \in SUBSET Of(bs, f) :
        /\ First(bs, f) \in S /\ Shut(bs, S)
        /\ OpenIn(bs, S) # {} => Done(p, f)
        /\ Done(p, f) => \A R \in SUBSET S :
                            First(bs, f) \in R /\ Shut(bs, R) => OpenIn(bs, R) # {}

\* The blocks of a function and its first one stay when blocks are written.
LEMMA OfStays ==
    ASSUME NEW B, NEW bs \in Seq(B), NEW C, NEW cs \in Seq(C), NEW a, NEW term,
           Wrote(bs, a, term, cs), NEW f
    PROVE  /\ Of(bs, f) \subseteq Of(cs, f) /\ Of(cs, f) \cap DOMAIN bs = Of(bs, f)
           /\ Of(bs, f) # {} => Of(cs, f) # {} /\ First(cs, f) = First(bs, f)
<1> DEFINE n == Len(bs)
           m == Len(cs)
<1>1. n \in Nat /\ m \in Nat /\ DOMAIN bs = 1..n /\ DOMAIN cs = 1..m
  OBVIOUS
<1>2. 1..n \subseteq 1..m /\ \A b \in 1..n : cs[b].func = bs[b].func
  BY <1>1 DEF Wrote
<1>3. /\ Of(bs, f) = {b \in 1..n : bs[b].func = f}
      /\ Of(cs, f) = {b \in 1..m : cs[b].func = f}
  BY DEF Of
<1> HIDE DEF n, m
<1>4. Of(bs, f) \subseteq Of(cs, f) /\ Of(cs, f) \cap DOMAIN bs = Of(bs, f)
  BY <1>1, <1>2, <1>3
<1>5. ASSUME Of(bs, f) # {} PROVE First(cs, f) = First(bs, f)
  <2>1. Of(bs, f) \subseteq Nat
    BY <1>1, <1>3
  <2>2. PICK x \in Of(bs, f) : \A y \in Of(bs, f) : x <= y
    BY <1>5, <2>1, LeastExists
  <2>3. x \in 1..n /\ \A y \in Of(cs, f) : y \in Of(bs, f) \/ (y \in Nat /\ y > n)
    BY <1>1, <1>2, <1>3
  <2>4. \A y \in Of(cs, f) : x <= y
    BY <1>1, <2>2, <2>3
  <2>5. x \in Of(cs, f) /\ Of(cs, f) \subseteq Nat
    BY <1>1, <1>3, <1>4
  <2>6. \A z \in Of(bs, f) : (\A y \in Of(bs, f) : z <= y) => z = x
    BY <2>1, <2>2
  <2>7. \A z \in Of(cs, f) : (\A y \in Of(cs, f) : z <= y) => z = x
    BY <2>4, <2>5
  <2>8. First(bs, f) = x
    BY <2>2, <2>6 DEF First
  <2>9. First(cs, f) = x
    BY <2>4, <2>5, <2>7 DEF First
  <2> QED
    BY <2>8, <2>9
<1> QED
  BY <1>4, <1>5

\* Where the items around a cut go.
LEMMA TosOfCut ==
    ASSUME NEW p, NEW rest, NEW mid, NEW end, NEW post, Cut(p, rest, mid, end, post)
    PROVE  Tos(mid) \subseteq Tos(rest) /\ Tos(<<end>> \o post) \subseteq Tos(rest)
<1> DEFINE T == Tasks(p)
           ep == <<end>> \o post
<1>1. mid \in Seq(T) /\ end \in T /\ post \in Seq(T) /\ rest = (mid \o <<end>>) \o post
  BY DEF Cut
<1> HIDE DEF T
<1>2. ep \in Seq(T) /\ rest = mid \o ep
  <2>1. <<end>> \in Seq(T)
    BY <1>1
  <2> QED
    BY <1>1, <2>1
<1> HIDE DEF ep
<1>3. Tos(mid \o ep) = Tos(mid) \cup Tos(ep)
  BY <1>1, <1>2, TosConcat
<1> QED
  BY <1>2, <1>3 DEF ep

\* A turn of the agenda before a cut: the body that ends there stands.
LEMMA BodyTurned ==
    ASSUME NEW p, NEW B, NEW bs \in Seq(B), NEW C, NEW cs \in Seq(C),
           NEW a, NEW lp, NEW c, NEW mp, NEW term,
           NEW old \in Seq(Tasks(p)), NEW new \in Seq(Tasks(p)), NEW mid \in Seq(Tasks(p)),
           NEW end, NEW post, Tos(mid) \subseteq DOMAIN bs, Tos(<<end>> \o post) \subseteq DOMAIN bs,
           Turns(bs, a, lp, old, term, cs, c, mp, new),
           Stands(p, bs, a, lp, old \o mid, end, post)
    PROVE  Stands(p, cs, c, mp, new \o mid, end, post)
<1> DEFINE T == Tasks(p)
           f == end.func
           e == First(bs, f)
           d == Done(p, f)
<1>1. /\ Of(bs, f) # {} /\ Fresh(a, old \o mid) /\ Upper(d, f, bs, e, a, lp, old \o mid)
      /\ Lower(d, bs, e, a, lp, old \o mid)
      /\ Tos(<<end>> \o post) \cap Of(bs, f) = {}
      /\ p[f].template \/ post = <<>>
      /\ Tailed(p, post)
  BY DEF Stands
<1>2. Wrote(bs, a, term, cs)
  BY DEF Turns
<1>3. Of(cs, f) \cap DOMAIN bs = Of(bs, f) /\ Of(cs, f) # {} /\ First(cs, f) = e
  BY <1>1, <1>2, OfStays
<1>4. Null \notin DOMAIN bs /\ Null \notin DOMAIN cs
  BY DEF Null
<1>5. old \in Seq(T) /\ new \in Seq(T) /\ mid \in Seq(T)
  OBVIOUS
<1> HIDE DEF T, f, e, d
<1>6. Fresh(c, new \o mid)
  BY <1>1, <1>5, FreshTurns
<1>7. Upper(d, f, cs, e, c, mp, new \o mid)
  BY <1>1, <1>4, <1>5, UpperTurns
<1>8. Lower(d, cs, e, c, mp, new \o mid)
  BY <1>1, <1>4, <1>5, LowerTurns
<1>9. Tos(<<end>> \o post) \cap Of(cs, f) = {}
  BY <1>1, <1>3
<1> QED
  BY <1>1, <1>3, <1>6, <1>7, <1>8, <1>9 DEF Stands, f, e, d

\* And the functions that are apart from it stay so.
LEMMA ApartTurned ==
    ASSUME NEW p, NEW B, NEW bs \in Seq(B), NEW C, NEW cs \in Seq(C),
           NEW a, NEW lp, NEW c, NEW mp, NEW term,
           NEW old \in Seq(Tasks(p)), NEW new \in Seq(Tasks(p)), NEW rest \in Seq(Tasks(p)),
           Plain(new), Tos(rest) \subseteq DOMAIN bs,
           Turns(bs, a, lp, old, term, cs, c, mp, new),
           \A b \in DOMAIN cs \ DOMAIN bs : a \in DOMAIN bs /\ cs[b].func = bs[a].func,
           c \in DOMAIN cs \/ c = Null,
           NEW f, Apart(p, bs, a, old \o rest, f)
    PROVE  Apart(p, cs, c, new \o rest, f)
<1> SUFFICES ASSUME NEW pre, NEW end, NEW post, Cut(p, new \o rest, pre, end, post)
             PROVE  c \notin Of(cs, f) /\ Tos(pre) \cap Of(cs, f) = {}
  BY DEF Apart
<1>1. PICK mid \in Seq(Tasks(p)) : pre = new \o mid /\ Cut(p, rest, mid, end, post)
  BY CutLater
<1>2. Cut(p, old \o rest, old \o mid, end, post)
  BY <1>1, CutAfter
<1>3. a \notin Of(bs, f) /\ Tos(old \o mid) \cap Of(bs, f) = {}
  BY <1>2 DEF Apart
<1>4. /\ Tos(old \o mid) = Tos(old) \cup Tos(mid) /\ Tos(new \o mid) = Tos(new) \cup Tos(mid)
      /\ Tos(mid) \subseteq DOMAIN bs
  <2>1. Tos(mid) \subseteq Tos(rest)
    BY <1>1, TosOfCut
  <2>2. mid \in Seq(Tasks(p))
    BY <1>1
  <2> QED
    BY <2>1, <2>2, TosConcat
<1>5. ({c} \cup Tos(new)) \cap DOMAIN bs \subseteq {a} \cup Tos(old)
  BY DEF Turns
<1>6. Of(cs, f) \cap DOMAIN bs = Of(bs, f)
  <2>1. Wrote(bs, a, term, cs)
    BY DEF Turns
  <2> QED
    BY <2>1, OfStays
<1>7. \A b \in DOMAIN cs \ DOMAIN bs : b \notin Of(cs, f)
  <2>1. a \in DOMAIN bs => bs[a].func # f
    BY <1>3 DEF Of
  <2> QED
    BY <2>1 DEF Of
<1>8. Of(cs, f) \subseteq DOMAIN cs
  BY DEF Of
<1> QED
  BY <1>1, <1>3, <1>4, <1>5, <1>6, <1>7, <1>8

\* What is said of a finished body stays, as nothing is written to it.
LEMMA FinTurned ==
    ASSUME NEW p, NEW B, NEW bs \in Seq(B), NEW C, NEW cs \in Seq(C), NEW a, NEW term,
           Wrote(bs, a, term, cs), NEW f, term = Open \/ a \notin Of(bs, f), Of(bs, f) # {},
           Fin(p, bs, f)
    PROVE  Fin(p, cs, f)
<1> DEFINE e == First(bs, f)
           d == Done(p, f)
<1>1. PICK S \in SUBSET Of(bs, f) :
        /\ e \in S /\ Shut(bs, S)
        /\ OpenIn(bs, S) # {} => d
        /\ d => \A R \in SUBSET S : e \in R /\ Shut(bs, R) => OpenIn(bs, R) # {}
  BY DEF Fin
<1>2. Of(bs, f) \subseteq Of(cs, f) /\ First(cs, f) = e
  BY OfStays
<1>3. Of(bs, f) \subseteq DOMAIN bs /\ DOMAIN bs \subseteq DOMAIN cs
  BY DEF Of, Wrote
<1>4. \A b \in Of(bs, f) : cs[b].term = bs[b].term
  BY <1>3 DEF Wrote
<1>5. \A R \in SUBSET Of(bs, f) : /\ Shut(cs, R) <=> Shut(bs, R)
                                  /\ OpenIn(cs, R) = OpenIn(bs, R)
  <2> TAKE R \in SUBSET Of(bs, f)
  <2>1. R \cap DOMAIN cs = R /\ R \cap DOMAIN bs = R /\ \A b \in R : cs[b].term = bs[b].term
    BY <1>3, <1>4
  <2>2. Shut(cs, R) <=> Shut(bs, R)
    BY <2>1 DEF Shut
  <2>3. \A b : b \in OpenIn(cs, R) <=> b \in OpenIn(bs, R)
    BY <2>1 DEF OpenIn
  <2> QED
    BY <2>2, <2>3
<1> HIDE DEF e, d
<1>6. S \in SUBSET Of(cs, f) /\ Shut(cs, S) /\ (OpenIn(cs, S) # {} => d)
  BY <1>1, <1>2, <1>5
<1>7. d => \A R \in SUBSET S : e \in R /\ Shut(cs, R) => OpenIn(cs, R) # {}
  BY <1>1, <1>5
<1> QED
  BY <1>1, <1>2, <1>6, <1>7 DEF Fin, d

\* What holds of the bodies between any two steps.
Runs(p, items, f) == \E pre, end, post : Cut(p, items, pre, end, post) /\ end.func = f

BodiesStand(p, bs, a, lp, items) ==
    \A pre, end, post : Cut(p, items, pre, end, post) => Stands(p, bs, a, lp, pre, end, post)

OthersRest(p, bs, a, items) ==
    \A f : Of(bs, f) # {} /\ ~Runs(p, items, f) =>
        Apart(p, bs, a, items, f) /\ (p[f].ret => Fin(p, bs, f))

Begun(p, bs, next, instances) ==
    \A f : Of(bs, f) # {} => /\ f \in FuncsOf(p)
                             /\ IF p[f].template THEN f \in instances ELSE f < next

Hold(p, bs, a, lp, items, next, instances) ==
    /\ BodiesStand(p, bs, a, lp, items)
    /\ OthersRest(p, bs, a, items)
    /\ Begun(p, bs, next, instances)
    /\ Tailed(p, items)

\* No function is begun by a step that begins none.
LEMMA BegunTurned ==
    ASSUME NEW p, NEW B, NEW bs \in Seq(B), NEW C, NEW cs \in Seq(C), NEW a, NEW term,
           Wrote(bs, a, term, cs),
           \A b \in DOMAIN cs \ DOMAIN bs : a \in DOMAIN bs /\ cs[b].func = bs[a].func,
           NEW next, NEW instances, Begun(p, bs, next, instances)
    PROVE  /\ \A f : Of(cs, f) # {} => Of(bs, f) # {}
           /\ Begun(p, cs, next, instances)
<1>1. ASSUME NEW f, Of(cs, f) # {} PROVE Of(bs, f) # {}
  <2>1. PICK b \in DOMAIN cs : cs[b].func = f
    BY <1>1 DEF Of
  <2>2. CASE b \in DOMAIN bs
    BY <2>1, <2>2 DEF Of, Wrote
  <2>3. CASE b \notin DOMAIN bs
    BY <2>1, <2>3 DEF Of
  <2> QED
    BY <2>2, <2>3
<1> QED
  BY <1>1 DEF Begun

\* A turn of the agenda that neither begins nor ends a body.
LEMMA HoldTurned ==
    ASSUME NEW p, NEW B, NEW bs \in Seq(B), NEW C, NEW cs \in Seq(C),
           NEW a, NEW lp, NEW c, NEW mp, NEW term,
           NEW old \in Seq(Tasks(p)), NEW new \in Seq(Tasks(p)), NEW rest \in Seq(Tasks(p)),
           Plain(old), Plain(new), Tos(rest) \subseteq DOMAIN bs,
           Turns(bs, a, lp, old, term, cs, c, mp, new),
           \A b \in DOMAIN cs \ DOMAIN bs : a \in DOMAIN bs /\ cs[b].func = bs[a].func,
           c \in DOMAIN cs \/ c = Null,
           HasEnd(p, old \o rest) \/ (term = Open /\ AtModuleLevel(new \o rest)),
           NEW next, NEW instances, Hold(p, bs, a, lp, old \o rest, next, instances)
    PROVE  Hold(p, cs, c, mp, new \o rest, next, instances)
<1>1. /\ BodiesStand(p, bs, a, lp, old \o rest) /\ OthersRest(p, bs, a, old \o rest)
      /\ Begun(p, bs, next, instances)
  BY DEF Hold
<1>2. Wrote(bs, a, term, cs)
  BY DEF Turns
<1>3. BodiesStand(p, cs, c, mp, new \o rest)
  <2> SUFFICES ASSUME NEW pre, NEW end, NEW post, Cut(p, new \o rest, pre, end, post)
               PROVE  Stands(p, cs, c, mp, pre, end, post)
    BY DEF BodiesStand
  <2>1. PICK mid \in Seq(Tasks(p)) : pre = new \o mid /\ Cut(p, rest, mid, end, post)
    BY CutLater
  <2>2. Cut(p, old \o rest, old \o mid, end, post)
    BY <2>1, CutAfter
  <2>3. Stands(p, bs, a, lp, old \o mid, end, post)
    BY <1>1, <2>2 DEF BodiesStand
  <2>4. Tos(mid) \subseteq DOMAIN bs /\ Tos(<<end>> \o post) \subseteq DOMAIN bs
    BY <2>1, TosOfCut
  <2>5. Stands(p, cs, c, mp, new \o mid, end, post)
    BY <2>3, <2>4, BodyTurned
  <2> QED
    BY <2>1, <2>5
<1>4. /\ \A f : Of(cs, f) # {} => Of(bs, f) # {}
      /\ Begun(p, cs, next, instances)
  BY <1>1, <1>2, BegunTurned
<1>5. \A f : Runs(p, old \o rest, f) => Runs(p, new \o rest, f)
  <2> SUFFICES ASSUME NEW f, NEW pre, NEW end, NEW post, Cut(p, old \o rest, pre, end, post),
                      end.func = f
               PROVE  Runs(p, new \o rest, f)
    BY DEF Runs
  <2>1. PICK mid \in Seq(Tasks(p)) : Cut(p, rest, mid, end, post)
    BY CutLater
  <2>2. Cut(p, new \o rest, new \o mid, end, post)
    BY <2>1, CutAfter
  <2> QED
    BY <2>2 DEF Runs
<1>6. HasEnd(p, old \o rest) => HasEnd(p, new \o rest)
  <2> SUFFICES ASSUME NEW pre, NEW end, NEW post, Cut(p, old \o rest, pre, end, post)
               PROVE  HasEnd(p, new \o rest)
    BY DEF HasEnd
  <2>1. Runs(p, old \o rest, end.func)
    BY DEF Runs
  <2>2. Runs(p, new \o rest, end.func)
    BY <1>5, <2>1
  <2> QED
    BY <2>2 DEF HasEnd, Runs
<1>7. OthersRest(p, cs, c, new \o rest)
  <2> SUFFICES ASSUME NEW f, Of(cs, f) # {}, ~Runs(p, new \o rest, f)
               PROVE  Apart(p, cs, c, new \o rest, f) /\ (p[f].ret => Fin(p, cs, f))
    BY DEF OthersRest
  <2>1. Of(bs, f) # {} /\ ~Runs(p, old \o rest, f)
    BY <1>4, <1>5
  <2>2. Apart(p, bs, a, old \o rest, f) /\ (p[f].ret => Fin(p, bs, f))
    BY <1>1, <2>1 DEF OthersRest
  <2>3. Apart(p, cs, c, new \o rest, f)
    BY <2>2, ApartTurned
  <2>4. term = Open \/ a \notin Of(bs, f)
    BY <2>2 DEF Apart, HasEnd
  <2>5. p[f].ret => Fin(p, cs, f)
    BY <1>2, <2>1, <2>2, <2>4, FinTurned
  <2> QED
    BY <2>3, <2>5
<1>8. Tailed(p, new \o rest)
  BY <1>6 DEF Tailed
<1> QED
  BY <1>3, <1>4, <1>7, <1>8 DEF Hold

\* An empty agenda has no cut, and a body that is put in front has the first.
LEMMA NoCut ==
    ASSUME NEW p, NEW pre, NEW end, NEW post PROVE ~Cut(p, <<>>, pre, end, post)
<1> SUFFICES ASSUME Cut(p, <<>>, pre, end, post) PROVE FALSE
  OBVIOUS
<1> DEFINE T == Tasks(p)
<1>1. pre \in Seq(T) /\ end \in T /\ post \in Seq(T) /\ <<>> = (pre \o <<end>>) \o post
  BY DEF Cut
<1> HIDE DEF T
<1>2. pre \o <<end>> \in Seq(T) /\ Len(pre \o <<end>>) = Len(pre) + 1
  BY <1>1
<1>3. Len((pre \o <<end>>) \o post) = Len(pre) + 1 + Len(post) /\ Len(pre) \in Nat /\ Len(post) \in Nat
  BY <1>1, <1>2
<1> QED
  BY <1>1, <1>3

\* A cut of the rest behind the new items.
Behind(p, new, rest, pre, end, post) ==
    \E mid \in Seq(Tasks(p)) : pre = new \o mid /\ Cut(p, rest, mid, end, post)

LEMMA CutBegins ==
    ASSUME NEW p, NEW items \in Seq(Tasks(p)), NEW e \in Tasks(p), NEW rest \in Seq(Tasks(p)),
           Plain(items), NEW pre, NEW end, NEW post,
           Cut(p, (items \o <<e>>) \o rest, pre, end, post)
    PROVE  \/ pre = items /\ end = e /\ post = rest
           \/ Behind(p, items \o <<e>>, rest, pre, end, post)
<1> DEFINE T == Tasks(p)
           er == <<e>> \o rest
<1>1. items \in Seq(T) /\ e \in T /\ rest \in Seq(T) /\ <<e>> \in Seq(T)
  OBVIOUS
<1>2. er \in Seq(T)
  BY <1>1
<1>3. (items \o <<e>>) \o rest = items \o er
  <2> HIDE DEF T
  <2> QED
    BY <1>1
<1> HIDE DEF er
<1>4. PICK m \in Seq(T) : pre = items \o m /\ Cut(p, er, m, end, post)
  BY <1>2, <1>3, CutLater
<1>5. \/ m = <<>> /\ end = e /\ post = rest
      \/ \E mid \in Seq(T) : m = <<e>> \o mid /\ Cut(p, rest, mid, end, post)
  BY <1>4, CutHere DEF er
<1>6. CASE m = <<>> /\ end = e /\ post = rest
  BY <1>1, <1>4, <1>6
<1>7. ASSUME NEW mid \in Seq(T), m = <<e>> \o mid, Cut(p, rest, mid, end, post)
      PROVE  pre = (items \o <<e>>) \o mid
  <2> HIDE DEF T
  <2> QED
    BY <1>1, <1>4, <1>7
<1> QED
  BY <1>5, <1>6, <1>7 DEF Behind

LEMMA CutsBegin ==
    ASSUME NEW p, NEW items \in Seq(Tasks(p)), NEW e \in Tasks(p), NEW rest \in Seq(Tasks(p)),
           Plain(items), NEW new, new = items \o <<e>>
    PROVE  \A pre, end, post : Cut(p, new \o rest, pre, end, post) =>
               \/ pre = items /\ end = e /\ post = rest
               \/ Behind(p, new, rest, pre, end, post)
<1> TAKE pre, end, post
<1> HAVE Cut(p, new \o rest, pre, end, post)
<1>1. Cut(p, (items \o <<e>>) \o rest, pre, end, post)
  OBVIOUS
<1>2. \/ pre = items /\ end = e /\ post = rest
      \/ Behind(p, items \o <<e>>, rest, pre, end, post)
  BY <1>1, CutBegins
<1> QED
  BY <1>2

\* A body begins: that of a declaration, or that of an instance before the
\* rest of the body that needs it.
Opens(bs, f, cs) == cs = Append(bs, NewBlock(f))
Listed(cs) == \E C : cs \in Seq(C)

\* The entry block is the only block of its function.
LEMMA BeginWrites ==
    ASSUME NEW B, NEW bs \in Seq(B), NEW f, NEW cs, Opens(bs, f, cs), NEW a, Of(bs, f) = {}
    PROVE  /\ Wrote(bs, a, Open, cs) /\ DOMAIN cs = DOMAIN bs \cup {Len(bs) + 1}
           /\ Len(bs) + 1 \notin DOMAIN bs
           /\ cs[Len(bs) + 1].term = Open /\ cs[Len(bs) + 1].func = f
           /\ Of(cs, f) = {Len(bs) + 1} /\ First(cs, f) = Len(bs) + 1
           /\ \A g : g # f => Of(cs, g) = Of(bs, g)
           /\ Listed(cs)
<1> DEFINE n == Len(bs)
<1>1. n \in Nat /\ DOMAIN bs = 1..n /\ n + 1 \notin 1..n /\ 1..(n + 1) = (1..n) \cup {n + 1}
  OBVIOUS
<1>2. cs \in Seq(B \cup {NewBlock(f)})
  BY DEF Opens
<1>3. /\ DOMAIN cs = 1..(n + 1) /\ Len(cs) = n + 1 /\ \A b \in 1..n : cs[b] = bs[b]
      /\ cs[n + 1] = NewBlock(f)
  BY DEF Opens
<1>4. cs[n + 1].term = Open /\ cs[n + 1].func = f
  BY <1>3 DEF NewBlock
<1> HIDE DEF n
<1>5. Wrote(bs, a, Open, cs)
  BY <1>1, <1>3, <1>4 DEF Wrote
<1>6. \A g : Of(cs, g) = {b \in 1..(n + 1) : cs[b].func = g} /\ Of(bs, g) = {b \in 1..n : bs[b].func = g}
  BY <1>3 DEF Of, n
<1>7. Of(cs, f) = {n + 1}
  <2>1. \A b \in 1..n : bs[b].func # f
    BY <1>6
  <2>2. \A b \in 1..n : cs[b].func # f
    BY <1>3, <2>1
  <2> QED
    BY <1>1, <1>4, <1>6, <2>2
<1>8. First(cs, f) = n + 1
  BY <1>1, <1>7 DEF First
<1>9. ASSUME NEW g, g # f PROVE Of(cs, g) = Of(bs, g)
  <2>1. \A b \in 1..n : cs[b].func = bs[b].func
    BY <1>3
  <2>2. \A b : b \in Of(cs, g) <=> b \in Of(bs, g)
    BY <1>1, <1>4, <1>6, <1>9, <2>1
  <2> QED
    BY <2>2, <1>6
<1> QED
  BY <1>1, <1>2, <1>3, <1>4, <1>5, <1>7, <1>8, <1>9 DEF n, Listed

EndOf(e, f, a) == e.do = "endBody" /\ e.func = f /\ e.block = a

Counted(p, f, next, instances, later, more) ==
    /\ next <= later /\ instances \subseteq more
    /\ IF p[f].template THEN f \in more ELSE f < later

BeginsAt(p, bs, a, f, items, e, rest) ==
    /\ a \in {Null} \cup DOMAIN bs /\ Of(bs, f) = {}
    /\ Plain(items) /\ Reads(items, p[f].body) /\ \A v, lq : LetsAll(v, lq, p[f].body)
    /\ EndOf(e, f, a)
    /\ Tos(rest) \subseteq DOMAIN bs /\ (p[f].template \/ rest = <<>>)

\* A body begins, in the middle of another if it is that of a template.
LEMMA HoldBegins ==
    ASSUME NEW p, NEW B, NEW bs \in Seq(B), NEW cs, NEW a, NEW lp \in Seq(LoopPairs),
           NEW f \in FuncsOf(p), Opens(bs, f, cs), NEW items \in Seq(Tasks(p)),
           NEW e \in Tasks(p), NEW rest \in Seq(Tasks(p)), BeginsAt(p, bs, a, f, items, e, rest),
           NEW next \in Nat, NEW instances, NEW later \in Nat, NEW more,
           Hold(p, bs, a, lp, rest, next, instances),
           Counted(p, f, next, instances, later, more)
    PROVE  Hold(p, cs, Len(bs) + 1, lp, (items \o <<e>>) \o rest, later, more)
<1> DEFINE c == Len(bs) + 1
           T == Tasks(p)
           new == items \o <<e>>
<1>0. /\ a \in {Null} \cup DOMAIN bs /\ Of(bs, f) = {}
      /\ Plain(items) /\ Reads(items, p[f].body) /\ \A v, lq : LetsAll(v, lq, p[f].body)
      /\ EndOf(e, f, a)
      /\ Tos(rest) \subseteq DOMAIN bs /\ (p[f].template \/ rest = <<>>)
  BY DEF BeginsAt
<1>1. /\ BodiesStand(p, bs, a, lp, rest) /\ OthersRest(p, bs, a, rest)
      /\ Begun(p, bs, next, instances) /\ Tailed(p, rest)
  BY DEF Hold
<1>2. /\ Wrote(bs, a, Open, cs) /\ DOMAIN cs = DOMAIN bs \cup {c} /\ c \notin DOMAIN bs
      /\ cs[c].term = Open /\ cs[c].func = f
      /\ Of(cs, f) = {c} /\ First(cs, f) = c
      /\ \A g : g # f => Of(cs, g) = Of(bs, g)
      /\ Listed(cs)
  <2>1. Of(bs, f) = {}
    BY <1>0
  <2> HIDE DEF T, new, c
  <2>2. Wrote(bs, a, Open, cs)
    BY <2>1, BeginWrites
  <2>3. DOMAIN cs = DOMAIN bs \cup {c}
    BY <2>1, BeginWrites DEF c
  <2>4. c \notin DOMAIN bs
    BY DEF c
  <2>5. Of(cs, f) = {c} /\ First(cs, f) = c
    BY <2>1, BeginWrites DEF c
  <2>6. cs[c].term = Open /\ cs[c].func = f
    BY <2>2, <2>3, <2>4, <2>5 DEF Wrote, Of
  <2>7. \A g : g # f => Of(cs, g) = Of(bs, g)
    BY <2>1, BeginWrites, ZenonT(120)
  <2>8. Listed(cs)
    BY <2>1, BeginWrites
  <2> QED
    BY <2>2, <2>3, <2>4, <2>5, <2>6, <2>7, <2>8
<1>3. /\ c \in DOMAIN cs /\ c # Null /\ Null \notin DOMAIN bs
      /\ \A g : Of(bs, g) \subseteq DOMAIN bs
  BY <1>0, <1>2 DEF Null, Of
<1>4. items \in Seq(T) /\ new \in Seq(T) /\ rest \in Seq(T) /\ e \in T
  OBVIOUS
<1>5. Turns(bs, a, lp, <<>>, Open, cs, c, lp, new)
  <2>1. e.do = "endBody" /\ e.block = a
    BY <1>0 DEF EndOf
  <2> HIDE DEF T, c
  <2> QED
    BY <1>0, <1>2, <1>3, <1>4, <2>1, TurnBegin
<1>6. Tos(items) = {} /\ Tos(<<e>>) \subseteq {a} \ {Null}
  BY <1>0, TosOne DEF Reads, To, Moves, EndOf
<1>7. Tos(new) \subseteq {a} \ {Null}
  <2> HIDE DEF T
  <2>1. <<e>> \in Seq(T)
    BY <1>4
  <2>2. Tos(new) = Tos(items) \cup Tos(<<e>>)
    BY <1>4, <2>1, TosConcat, ZenonT(60)
  <2> QED
    BY <1>6, <2>2
<1> HIDE DEF c
<1>8. Stands(p, cs, c, lp, items, e, rest)
  <2>1. /\ Upper(Done(p, f), f, cs, c, c, lp, items)
        /\ Lower(Done(p, f), cs, c, c, lp, items)
        /\ Fresh(c, items)
    BY <1>0, <1>2, <1>3, <1>4, BodyBegins DEF Done
  <2>2. Tos(<<e>> \o rest) = Tos(<<e>>) \cup Tos(rest)
    <3> DEFINE s == <<e>>
    <3> HIDE DEF T
    <3>1. s \in Seq(T) /\ rest \in Seq(T)
      BY <1>4
    <3> HIDE DEF s
    <3>2. Tos(s \o rest) = Tos(s) \cup Tos(rest)
      BY <3>1, TosConcat
    <3> QED
      BY <3>2 DEF s
  <2>3. Tos(<<e>> \o rest) \cap {c} = {}
    BY <1>0, <1>2, <1>6, <2>2
  <2> QED
    BY <1>0, <1>1, <1>2, <2>1, <2>3 DEF Stands, EndOf
<1>9. \A pre, end, post : Cut(p, new \o rest, pre, end, post) =>
          \/ pre = items /\ end = e /\ post = rest
          \/ Behind(p, new, rest, pre, end, post)
  <2>1. Plain(items) /\ new = items \o <<e>>
    BY <1>0
  <2> HIDE DEF new
  <2> QED
    BY <2>1, CutsBegin
<1> HIDE DEF new, T
<1>10. BodiesStand(p, cs, c, lp, new \o rest)
  <2> SUFFICES ASSUME NEW pre, NEW end, NEW post, Cut(p, new \o rest, pre, end, post)
               PROVE  Stands(p, cs, c, lp, pre, end, post)
    BY DEF BodiesStand
  <2>1. CASE pre = items /\ end = e /\ post = rest
    BY <1>8, <2>1
  <2>2. ASSUME NEW mid \in Seq(T), pre = new \o mid, Cut(p, rest, mid, end, post)
        PROVE  Stands(p, cs, c, lp, pre, end, post)
    <3>1. Stands(p, bs, a, lp, mid, end, post)
      BY <1>1, <2>2 DEF BodiesStand
    <3>2. <<>> \o mid = mid /\ <<>> \in Seq(T)
      BY <2>2
    <3>3. Tos(mid) \subseteq DOMAIN bs /\ Tos(<<end>> \o post) \subseteq DOMAIN bs
      BY <1>0, <2>2, TosOfCut
    <3>4. PICK C : cs \in Seq(C)
      BY <1>2 DEF Listed
    <3>5. <<>> \in Seq(Tasks(p)) /\ new \in Seq(Tasks(p)) /\ mid \in Seq(Tasks(p))
      BY <1>4, <2>2, <3>2 DEF T
    <3>6. Stands(p, bs, a, lp, <<>> \o mid, end, post)
      BY <3>1, <3>2
    <3>7. Stands(p, cs, c, lp, new \o mid, end, post)
      BY <1>5, <3>3, <3>4, <3>5, <3>6, BodyTurned
    <3> QED
      BY <2>2, <3>7
  <2> QED
    BY <1>9, <2>1, <2>2 DEF Behind, T
<1>11. Cut(p, new \o rest, items, e, rest)
  BY <1>0, <1>4 DEF Cut, T, new, EndOf
<1>12. \A g : Runs(p, rest, g) => Runs(p, new \o rest, g)
  <2> SUFFICES ASSUME NEW g, NEW pre, NEW end, NEW post, Cut(p, rest, pre, end, post), end.func = g
               PROVE  Runs(p, new \o rest, g)
    BY DEF Runs
  <2>1. Cut(p, new \o rest, new \o pre, end, post)
    BY <1>4, CutAfter DEF T
  <2> QED
    BY <2>1 DEF Runs
<1>13. OthersRest(p, cs, c, new \o rest)
  <2> SUFFICES ASSUME NEW g, Of(cs, g) # {}, ~Runs(p, new \o rest, g)
               PROVE  Apart(p, cs, c, new \o rest, g) /\ (p[g].ret => Fin(p, cs, g))
    BY DEF OthersRest
  <2>1. g # f
    BY <1>0, <1>11 DEF Runs, EndOf
  <2>2. Of(cs, g) = Of(bs, g) /\ Of(bs, g) # {} /\ ~Runs(p, rest, g)
    BY <1>2, <1>12, <2>1
  <2>3. Apart(p, bs, a, rest, g) /\ (p[g].ret => Fin(p, bs, g))
    BY <1>1, <2>2 DEF OthersRest
  <2>4. Apart(p, cs, c, new \o rest, g)
    <3> SUFFICES ASSUME NEW pre, NEW end, NEW post, Cut(p, new \o rest, pre, end, post)
                 PROVE  Tos(pre) \cap Of(bs, g) = {}
      BY <1>0, <1>2, <1>3, <2>2 DEF Apart
    <3>1. CASE pre = items
      BY <1>6, <3>1
    <3>2. ASSUME NEW mid \in Seq(T), pre = new \o mid, Cut(p, rest, mid, end, post)
          PROVE  Tos(pre) \cap Of(bs, g) = {}
      <4>1. a \notin Of(bs, g) /\ Tos(mid) \cap Of(bs, g) = {}
        BY <2>3, <3>2 DEF Apart
      <4>2. Tos(pre) = Tos(new) \cup Tos(mid)
        BY <1>4, <3>2, TosConcat
      <4> QED
        BY <1>7, <4>1, <4>2
    <3> QED
      BY <1>9, <3>1, <3>2 DEF Behind, T
  <2>5. p[g].ret => Fin(p, cs, g)
    <3>1. PICK C : cs \in Seq(C)
      BY <1>2 DEF Listed
    <3> QED
      BY <1>2, <2>2, <2>3, <3>1, FinTurned
  <2> QED
    BY <2>4, <2>5
<1>14. Begun(p, cs, later, more)
  <2> SUFFICES ASSUME NEW g, Of(cs, g) # {}
               PROVE  g \in FuncsOf(p) /\ IF p[g].template THEN g \in more ELSE g < later
    BY DEF Begun
  <2>1. CASE g = f
    BY <2>1 DEF Counted
  <2>2. CASE g # f
    <3>1. g \in FuncsOf(p) /\ IF p[g].template THEN g \in instances ELSE g < next
      BY <1>1, <1>2, <2>2 DEF Begun
    <3>2. g \in Nat
      BY <3>1 DEF FuncsOf
    <3> QED
      BY <3>1, <3>2 DEF Counted
  <2> QED
    BY <2>1, <2>2
<1>15. Tailed(p, new \o rest)
  BY <1>11 DEF Tailed, HasEnd
<1> QED
  BY <1>10, <1>13, <1>14, <1>15 DEF Hold, new, c

\* A body that was analysed to its end.
LEMMA FinOf ==
    ASSUME NEW p, NEW B, NEW bs \in Seq(B), NEW a, NEW lp \in Seq(LoopPairs), NEW f,
           Upper(Done(p, f), f, bs, First(bs, f), a, lp, <<>>),
           Lower(Done(p, f), bs, First(bs, f), a, lp, <<>>)
    PROVE  Fin(p, bs, f)
<1> DEFINE e == First(bs, f)
           d == Done(p, f)
<1>1. PICK S \in SUBSET DOMAIN bs, y \in Marks :
        /\ e \in S /\ Shut(bs, S) /\ \A b \in S : bs[b].func = f
        /\ \A b \in OpenIn(bs, S) : b = a \/ b \in Tos(<<>>)
        /\ Walk(View(bs, S, TRUE), Here(bs, S, a, lp), <<>>, y)
        /\ y.live => d
  BY DEF Upper
<1>2. d => \A R \in SUBSET Nat, z \in Marks :
        /\ e \in R /\ Shut(bs, R)
        /\ Walk(View(bs, R, FALSE), Here(bs, R, a, lp), <<>>, z)
        => z.live
  BY DEF Lower
<1>3. DOMAIN bs \subseteq Nat /\ DOMAIN bs = 1..Len(bs)
  OBVIOUS
<1> HIDE DEF e, d
<1>4. S \in SUBSET Of(bs, f)
  BY <1>1, <1>3 DEF Of
<1>5. y = Here(bs, S, a, lp)
  BY <1>1, WalkNowhere
<1>6. y.live <=> a \in OpenIn(bs, S)
  BY <1>5, HereIs
<1>7. OpenIn(bs, S) # {} => d
  BY <1>1, <1>6, TosNil
<1>8. ASSUME d, NEW R \in SUBSET S, e \in R, Shut(bs, R) PROVE OpenIn(bs, R) # {}
  <2> DEFINE h == Here(bs, R, a, lp)
  <2>1. h \in Marks /\ (h.live <=> a \in OpenIn(bs, R))
    BY HereIs
  <2>2. Walk(View(bs, R, FALSE), h, <<>>, h)
    BY <2>1, WalkNil
  <2>3. R \in SUBSET Nat
    BY <1>1, <1>3
  <2>4. h.live
    BY <1>2, <1>8, <2>1, <2>2, <2>3
  <2> QED
    BY <2>1, <2>4
<1> QED
  BY <1>1, <1>4, <1>7, <1>8 DEF Fin, e, d

\* The body in front ends: its function rests from now on.
LEMMA HoldEnds ==
    ASSUME NEW p, NEW B, NEW bs \in Seq(B), NEW C, NEW cs \in Seq(C),
           NEW a, NEW lp \in Seq(LoopPairs), NEW c, NEW term,
           NEW e \in Tasks(p), e.do = "endBody", NEW rest \in Seq(Tasks(p)),
           Tos(rest) \subseteq DOMAIN bs, Wrote(bs, a, term, cs), DOMAIN cs = DOMAIN bs,
           Targets(term) = {}, p[e.func].ret => term = Open, p[e.func].template => c = e.block,
           NEW next, NEW instances, Hold(p, bs, a, lp, <<e>> \o rest, next, instances)
    PROVE  Hold(p, cs, c, lp, rest, next, instances)
<1> DEFINE T == Tasks(p)
           f == e.func
<1>1. /\ BodiesStand(p, bs, a, lp, <<e>> \o rest) /\ OthersRest(p, bs, a, <<e>> \o rest)
      /\ Begun(p, bs, next, instances)
  BY DEF Hold
<1>2. e \in T /\ rest \in Seq(T) /\ <<e>> \in Seq(T) /\ <<>> \in Seq(T)
  OBVIOUS
<1>3. Cut(p, <<e>> \o rest, <<>>, e, rest)
  <2>1. <<e>> \o rest = (<<>> \o <<e>>) \o rest
    OBVIOUS
  <2> QED
    BY <1>2, <2>1 DEF Cut
<1>4. Stands(p, bs, a, lp, <<>>, e, rest)
  BY <1>1, <1>3 DEF BodiesStand
<1>5. /\ Of(bs, f) # {}
      /\ Upper(Done(p, f), f, bs, First(bs, f), a, lp, <<>>)
      /\ Lower(Done(p, f), bs, First(bs, f), a, lp, <<>>)
      /\ Tos(<<e>> \o rest) \cap Of(bs, f) = {}
      /\ p[f].template \/ rest = <<>>
      /\ Tailed(p, rest)
  BY <1>4 DEF Stands
<1>6. Tos(<<e>> \o rest) = Tos(<<e>>) \cup Tos(rest) /\ Tos(<<e>>) = {e.block} \ {Null}
  <2>1. Tos(<<e>>) = {e.block} \ {Null}
    BY TosOne DEF To, Moves
  <2> DEFINE s == <<e>>
  <2>2. s \in Seq(T) /\ rest \in Seq(T)
    BY <1>2
  <2> HIDE DEF T, s
  <2>3. Tos(s \o rest) = Tos(s) \cup Tos(rest)
    BY <2>2, TosConcat
  <2> QED
    BY <2>1, <2>3 DEF s
<1>7. c = e.block \/ rest = <<>>
  BY <1>5
<1>8. /\ \A g : Of(cs, g) = Of(bs, g) /\ Null \notin Of(bs, g)
      /\ Null \notin DOMAIN bs
  <2>1. \A g : Of(cs, g) \cap DOMAIN bs = Of(bs, g)
    BY OfStays
  <2>2. \A g : Of(cs, g) \subseteq DOMAIN cs /\ Null \notin Of(bs, g)
    BY DEF Of, Null
  <2>3. Null \notin DOMAIN bs
    BY DEF Null
  <2> QED
    BY <2>1, <2>2, <2>3
<1>9. Fin(p, bs, f)
  BY <1>5, FinOf
<1> HIDE DEF f, T
<1>10. ASSUME NEW pre, NEW end, NEW post, Cut(p, rest, pre, end, post)
       PROVE  /\ pre \in Seq(T) /\ Cut(p, <<e>> \o rest, <<e>> \o pre, end, post)
              /\ Tos(<<e>> \o pre) = Tos(<<e>>) \cup Tos(pre) /\ Tos(pre) \subseteq Tos(rest)
              /\ Tos(<<end>> \o post) \subseteq Tos(rest) /\ c = e.block
  <2>1. pre \in Seq(T) /\ Cut(p, <<e>> \o rest, <<e>> \o pre, end, post)
    <3>1. pre \in Seq(T)
      BY <1>10 DEF T, Cut
    <3>2. <<e>> \in Seq(Tasks(p))
      BY <1>2 DEF T
    <3> DEFINE s == <<e>>
    <3> HIDE DEF s
    <3>3. Cut(p, s \o rest, s \o pre, end, post)
      BY <1>10, <3>2, CutAfter DEF s
    <3> QED
      BY <3>1, <3>3 DEF s
  <2>2. Tos(<<e>> \o pre) = Tos(<<e>>) \cup Tos(pre)
    <3> DEFINE s == <<e>>
    <3>1. s \in Seq(T) /\ pre \in Seq(T)
      BY <1>2, <2>1
    <3> HIDE DEF s
    <3>2. Tos(s \o pre) = Tos(s) \cup Tos(pre)
      BY <3>1, TosConcat
    <3> QED
      BY <3>2 DEF s
  <2>3. rest # <<>>
    BY <1>10, NoCut
  <2> QED
    BY <1>7, <1>10, <2>1, <2>2, <2>3, TosOfCut
<1>11. BodiesStand(p, cs, c, lp, rest)
  <2> SUFFICES ASSUME NEW pre, NEW end, NEW post, Cut(p, rest, pre, end, post)
               PROVE  Stands(p, cs, c, lp, pre, end, post)
    BY DEF BodiesStand
  <2>1. /\ pre \in Seq(T) /\ Cut(p, <<e>> \o rest, <<e>> \o pre, end, post)
        /\ Tos(<<e>> \o pre) = Tos(<<e>>) \cup Tos(pre) /\ Tos(pre) \subseteq Tos(rest)
        /\ Tos(<<end>> \o post) \subseteq Tos(rest) /\ c = e.block
    BY <1>10
  <2>2. Stands(p, bs, a, lp, <<e>> \o pre, end, post)
    BY <1>1, <2>1 DEF BodiesStand
  <2>3. Fresh(a, <<e>>)
    <3>1. Fresh(a, <<e>> \o pre)
      BY <2>2 DEF Stands
    <3> QED
      BY <2>1, <3>1, TosOne DEF Fresh
  <2>4. To(e) = c /\ e.do \in Moves
    BY <2>1 DEF To, Moves
  <2>5. Turns(bs, a, lp, <<e>>, term, cs, c, lp, <<>>)
    BY <1>8, <2>3, <2>4, TurnMove
  <2>6. Stands(p, cs, c, lp, <<>> \o pre, end, post)
    <3>1. <<e>> \in Seq(Tasks(p)) /\ <<>> \in Seq(Tasks(p)) /\ pre \in Seq(Tasks(p))
      BY <1>2, <2>1 DEF T
    <3>2. Tos(pre) \subseteq DOMAIN bs /\ Tos(<<end>> \o post) \subseteq DOMAIN bs
      BY <2>1
    <3> QED
      BY <2>2, <2>5, <3>1, <3>2, BodyTurned
  <2>7. <<>> \o pre = pre
    BY <2>1
  <2> QED
    BY <2>6, <2>7
<1>12. OthersRest(p, cs, c, rest)
  <2> SUFFICES ASSUME NEW g, Of(cs, g) # {}, ~Runs(p, rest, g)
               PROVE  Apart(p, cs, c, rest, g) /\ (p[g].ret => Fin(p, cs, g))
    BY DEF OthersRest
  <2>1. CASE g = f
    <3>1. Apart(p, cs, c, rest, g)
      <4> SUFFICES ASSUME NEW pre, NEW end, NEW post, Cut(p, rest, pre, end, post)
                   PROVE  c \notin Of(cs, g) /\ Tos(pre) \cap Of(cs, g) = {}
        BY DEF Apart
      <4>1. Tos(pre) \subseteq Tos(rest) /\ c = e.block
        BY <1>10
      <4> QED
        BY <1>5, <1>6, <1>8, <2>1, <4>1
    <3>2. p[g].ret => Fin(p, cs, g)
      <4>1. p[g].ret => term = Open
        BY <2>1 DEF f
      <4> QED
        BY <1>5, <1>9, <2>1, <4>1, FinTurned
    <3> QED
      BY <3>1, <3>2
  <2>2. CASE g # f
    <3>1. ~Runs(p, <<e>> \o rest, g)
      <4> SUFFICES ASSUME NEW pre, NEW end, NEW post, Cut(p, <<e>> \o rest, pre, end, post),
                          end.func = g
                   PROVE  FALSE
        BY DEF Runs
      <4>1. \/ pre = <<>> /\ end = e /\ post = rest
            \/ \E mid \in Seq(Tasks(p)) : pre = <<e>> \o mid /\ Cut(p, rest, mid, end, post)
        BY CutHere
      <4>2. end # e
        BY <2>2 DEF f
      <4> QED
        BY <4>1, <4>2 DEF Runs
    <3>2. Apart(p, bs, a, <<e>> \o rest, g) /\ (p[g].ret => Fin(p, bs, g)) /\ Of(bs, g) # {}
      BY <1>1, <1>8, <3>1 DEF OthersRest
    <3>3. a \notin Of(bs, g)
      BY <1>3, <3>2 DEF Apart
    <3>4. p[g].ret => Fin(p, cs, g)
      BY <3>2, <3>3, FinTurned
    <3>5. Apart(p, cs, c, rest, g)
      <4> SUFFICES ASSUME NEW pre, NEW end, NEW post, Cut(p, rest, pre, end, post)
                   PROVE  c \notin Of(cs, g) /\ Tos(pre) \cap Of(cs, g) = {}
        BY DEF Apart
      <4>1. /\ Cut(p, <<e>> \o rest, <<e>> \o pre, end, post)
            /\ Tos(<<e>> \o pre) = Tos(<<e>>) \cup Tos(pre) /\ c = e.block
        BY <1>10
      <4>2. Tos(<<e>> \o pre) \cap Of(bs, g) = {}
        BY <3>2, <4>1 DEF Apart
      <4> QED
        BY <1>6, <1>8, <4>1, <4>2
    <3> QED
      BY <3>4, <3>5
  <2> QED
    BY <2>1, <2>2
<1>13. Begun(p, cs, next, instances)
  BY <1>1, <1>8 DEF Begun
<1> QED
  BY <1>5, <1>11, <1>12, <1>13 DEF Hold

-----------------------------------------------------------------------------
(* The steps of the analysis, one by one. *)

HoldNow == Hold(program, blocks, at, loops, agenda, decl, made)

Ready ==
    /\ TypeOK /\ StackInv /\ HoldNow
    /\ phase = "analyze" /\ errors = {} /\ BreaksAreInLoops

\* Types of the agenda and of the loops.
LEMMA TasksOf ==
    ASSUME NEW p, NEW n \in Nat
    PROVE  Items(p, n) \subseteq Tasks(p) /\ Seq(Items(p, n)) \subseteq Seq(Tasks(p))
<1>1. Items(p, n) \subseteq Tasks(p)
  BY DEF Tasks
<1> DEFINE I == Items(p, n)
           T == Tasks(p)
<1>2. I \subseteq T
  BY <1>1
<1> HIDE DEF I, T
<1>3. Seq(I) \subseteq Seq(T)
  BY <1>2, SeqOfMore
<1> QED
  BY <1>1, <1>3 DEF I, T

LEMMA TosWithin ==
    ASSUME NEW p, NEW n \in Nat, NEW items \in Seq(Items(p, n))
    PROVE  Tos(items) \subseteq 1..n
<1> SUFFICES ASSUME NEW k \in 1..Len(items), To(items[k]) # Null PROVE To(items[k]) \in 1..n
  BY DEF Tos
<1>1. PICK it \in Items(p, n) : it = items[k]
  OBVIOUS
<1>2. it.do \in Moves /\ To(it) = it.block
  BY <1>1 DEF To
<1>3. it.block \in 0..n
  <2>1. CASE it.do = "moveTo"
    BY <2>1, ItemKinds DEF MoveItems
  <2>2. CASE it.do = "endBody"
    BY <2>2, ItemKinds DEF EndItems
  <2> QED
    BY <1>2, <2>1, <2>2 DEF Moves
<1> QED
  BY <1>1, <1>2, <1>3 DEF Null

LEMMA LoopsArePairs ==
    ASSUME TypeOK PROVE loops \in Seq(LoopPairs)
<1>1. Len(blocks) \in Nat /\ loops \in Seq(LoopBlocks(Len(blocks)))
  BY DEF TypeOK
<1>2. LoopBlocks(Len(blocks)) \subseteq LoopPairs
  BY <1>1 DEF LoopBlocks, LoopPairs
<1>3. Seq(LoopBlocks(Len(blocks))) \subseteq Seq(LoopPairs)
  BY <1>2, SeqOfMore
<1> QED
  BY <1>1, <1>3

LEMMA OneItem ==
    ASSUME NEW S, NEW s \in Seq(S), Len(s) <= 1, s # <<>>
    PROVE  Len(s) = 1 /\ Tail(s) = <<>> /\ Head(s) = s[1]
<1>1. Len(s) \in Nat /\ Len(s) # 0
  OBVIOUS
<1>2. Len(s) = 1
  BY <1>1, SMTT(60)
<1>3. Len(Tail(s)) = 0 /\ Tail(s) \in Seq(S)
  BY <1>2
<1>4. Tail(s) = <<>>
  BY <1>3
<1>5. Head(s) = s[1]
  OBVIOUS
<1> QED
  BY <1>2, <1>4, <1>5

\* Where no body is being analysed there is a variable of the module, or a
\* statement that is refused.
LEMMA ModuleLevel ==
    ASSUME Ready, agenda # <<>>, ~HasEnd(program, agenda)
    PROVE  /\ Rest = <<>> /\ Now.do \in {"stmt", "finish"} /\ InGlobalScope
           /\ Now.do = "finish" => Now.stmt.op = "var"
<1>1. TypeOK /\ StackInv /\ phase = "analyze" /\ errors = {} /\ Tailed(program, agenda)
  BY DEF Ready, HoldNow, Hold
<1>2. AtModuleLevel(agenda)
  BY <1>1 DEF Tailed
<1>3. agenda \in Seq(Items(program, Len(blocks)))
  BY <1>1 DEF TypeOK
<1>4. Len(agenda) = 1 /\ Rest = <<>> /\ Now = agenda[1]
  <2> DEFINE S == Items(program, Len(blocks))
  <2>1. PICK ag \in Seq(S) : ag = agenda
    BY <1>3
  <2> HIDE DEF S
  <2>2. Len(ag) <= 1 /\ ag # <<>>
    BY <1>2, <2>1 DEF AtModuleLevel
  <2>3. Len(ag) = 1 /\ Tail(ag) = <<>> /\ Head(ag) = ag[1]
    BY <2>1, <2>2, OneItem
  <2> QED
    BY <2>1, <2>3 DEF Rest, Now
<1>5. Now.do \in {"stmt", "finish"}
  BY <1>2, <1>4 DEF AtModuleLevel
<1>6. PICK a, c \in Situations : /\ Standing(a) /\ Effect(Mode, a, Now, c)
                                 /\ Leads(Mode, c, Rest, Outside)
  BY <1>1, StackAtHead
<1>7. c = Outside
  BY <1>4, <1>6, LeadsNowhere
<1>8. a = c /\ (Mode.level # "any" /\ Now.do = "finish" => Now.stmt.op = "var" \/ a.depth > 1)
  BY <1>5, <1>6 DEF Effect
<1>9. a.depth = 1 /\ Len(vars) = 1
  BY <1>1, <1>6, <1>7, <1>8 DEF Outside, Standing
<1>10. Mode.level # "any"
  BY <1>1, ModeFacts
<1> QED
  BY <1>4, <1>5, <1>8, <1>9, <1>10 DEF InGlobalScope

\* A step that turns the head of the agenda into new items.
LEMMA HeadTurned ==
    ASSUME Ready, TypeOK', program' = program, decl' = decl, made' = made, agenda # <<>>,
           NEW it, it = Now, it.do # "endBody", NEW new \in Seq(Tasks(program)), Plain(new),
           agenda' = new \o Rest, NEW term,
           Turns(blocks, at, loops, <<it>>, term, blocks', at', loops', new),
           \A b \in DOMAIN blocks' \ DOMAIN blocks :
                at \in DOMAIN blocks /\ blocks'[b].func = blocks[at].func,
           HasEnd(program, agenda) \/ (term = Open /\ AtModuleLevel(new \o Rest))
    PROVE  HoldNow'
<1>1. PICK p, bs, lp, a, n, i : /\ p = program /\ bs = blocks /\ lp = loops /\ a = at /\ n = decl
                                /\ i = made
  OBVIOUS
<1>2. PICK cs, mp, c : cs = blocks' /\ mp = loops' /\ c = at'
  OBVIOUS
<1>3. PICK rest : rest = Rest
  OBVIOUS
<1>4. TypeOK /\ Hold(p, bs, a, lp, agenda, n, i)
  BY <1>1 DEF Ready, HoldNow
<1>5. /\ Len(bs) \in Nat /\ bs \in Seq(Blocks(p, Len(bs)))
      /\ rest \in Seq(Items(p, Len(bs))) /\ it \in Items(p, Len(bs)) /\ agenda = <<it>> \o rest
  <2>1. Len(blocks) \in Nat /\ blocks \in Seq(Blocks(program, Len(blocks)))
    BY <1>4, TypesAtHead
  <2>2. Now \in Items(program, Len(blocks)) /\ Rest \in Seq(Items(program, Len(blocks)))
        /\ agenda = <<Now>> \o Rest
    BY <1>4, HeadOfAgenda
  <2> QED
    BY <1>1, <1>3, <2>1, <2>2
<1>6. rest \in Seq(Tasks(p)) /\ it \in Tasks(p) /\ <<it>> \in Seq(Tasks(p))
  <2>1. Items(p, Len(bs)) \subseteq Tasks(p) /\ Seq(Items(p, Len(bs))) \subseteq Seq(Tasks(p))
    BY <1>5, TasksOf
  <2>2. rest \in Seq(Tasks(p)) /\ it \in Tasks(p)
    BY <1>5, <2>1
  <2> QED
    BY <2>2
<1>7. Tos(rest) \subseteq DOMAIN bs
  BY <1>5, TosWithin
<1>8. cs \in Seq(Blocks(program', Len(cs))) /\ c \in 0..Len(cs)
  BY <1>2 DEF TypeOK
<1>9. c \in DOMAIN cs \/ c = Null
  BY <1>8 DEF Null
<1>10. Plain(<<it>>)
  BY DEF Plain
<1>11. Hold(p, bs, a, lp, <<it>> \o rest, n, i)
  BY <1>4, <1>5
<1>12. Turns(bs, a, lp, <<it>>, term, cs, c, mp, new)
  BY <1>1, <1>2
<1>13. \A b \in DOMAIN cs \ DOMAIN bs : a \in DOMAIN bs /\ cs[b].func = bs[a].func
  BY <1>1, <1>2
<1>14. HasEnd(p, <<it>> \o rest) \/ (term = Open /\ AtModuleLevel(new \o rest))
  BY <1>1, <1>3, <1>5
<1>15. new \in Seq(Tasks(p))
  BY <1>1
<1>16. Hold(p, cs, c, mp, new \o rest, n, i)
  <2> DEFINE old == <<it>>
  <2>1. old \in Seq(Tasks(p)) /\ Plain(old) /\ Hold(p, bs, a, lp, old \o rest, n, i)
        /\ Turns(bs, a, lp, old, term, cs, c, mp, new)
        /\ (HasEnd(p, old \o rest) \/ (term = Open /\ AtModuleLevel(new \o rest)))
    BY <1>6, <1>10, <1>11, <1>12, <1>14
  <2>2. rest \in Seq(Tasks(p))
    BY <1>6
  <2>3. \E B : bs \in Seq(B)
    BY <1>5
  <2>4. \E C : cs \in Seq(C)
    BY <1>8
  <2> HIDE DEF old
  <2> QED
    BY <1>7, <1>9, <1>13, <1>15, <2>1, <2>2, <2>3, <2>4, HoldTurned
<1> QED
  BY <1>1, <1>2, <1>3, <1>16 DEF HoldNow

After == TypeOK' /\ errors' = {} /\ phase' = "analyze"

\* A step that only takes the head away.
LEMMA NoItems ==
    ASSUME NEW p, NEW S, NEW rest \in Seq(S)
    PROVE  <<>> \in Seq(Tasks(p)) /\ Plain(<<>>) /\ <<>> \o rest = rest
BY DEF Plain

\* The scopes and the end of a loop write nothing.
LEMMA ReturnsOfScopes ==
    ASSUME Ready, After, OpenScope \/ CloseScope \/ CloseLoop PROVE HoldNow'
<1>1. /\ TypeOK /\ TypeOK' /\ program' = program /\ decl' = decl /\ made' = made
      /\ agenda # <<>> /\ agenda' = Rest /\ blocks' = blocks /\ at' = at
      /\ Now.do \in {"openScope", "closeScope", "closeLoop"}
      /\ loops' = IF Now.do = "closeLoop" THEN SubSeq(loops, 1, Len(loops) - 1) ELSE loops
  BY DEF Ready, After, OpenScope, CloseScope, CloseLoop, AtHead, Now, Stays
<1>2. PICK it : it = Now
  OBVIOUS
<1>3. loops \in Seq(LoopPairs) /\ loops' \in Seq(LoopPairs)
  <2>1. loops \in Seq(LoopPairs)
    BY <1>1, LoopsArePairs
  <2> QED
    BY <1>1, <2>1, Popped
<1>4. it.do \in Passing /\ it.do \notin Moves /\ it.do # "endBody"
  BY <1>1, <1>2 DEF Passing, Moves
<1>5. \A v : \A x, y \in Marks : x.loops = loops =>
            (Step(v, x, it, y) <=> y.loops = loops' /\ (x.live => y.live))
  BY <1>1, <1>2 DEF Step, Passing, Moves
<1>6. Turns(blocks, at, loops, <<it>>, Open, blocks, at, loops', <<>>)
  <2>1. Wrote(blocks, at, Open, blocks)
    BY WroteSame
  <2> QED
    BY <1>3, <1>4, <1>5, <2>1, TurnPass
<1>7. HasEnd(program, agenda)
  BY <1>1, ModuleLevel
<1>8. <<>> \in Seq(Tasks(program)) /\ Plain(<<>>) /\ agenda' = <<>> \o Rest
  BY <1>1, HeadOfAgenda, NoItems
<1> QED
  BY <1>1, <1>2, <1>4, <1>6, <1>7, <1>8, HeadTurned

Straight(s) == s \in Completing /\ s \notin Breaking /\ s \notin Continuing

\* A statement that is run straight through, and adds an instruction.
LEMMA StraightIs ==
    ASSUME NEW s \in Statements, s.op \in {"var", "expr"} PROVE Straight(s)
BY CompletingAssumption, BreakingAssumption, ContinuingAssumption DEF Straight

LEMMA AddInstWrites ==
    ASSUME NEW p, NEW n \in Nat, NEW bs \in Seq(Blocks(p, n)), NEW b \in 0..Len(bs), NEW place
    PROVE  /\ Wrote(bs, b, Open, AddInst(bs, b, place))
           /\ DOMAIN AddInst(bs, b, place) = DOMAIN bs
<1>1. CASE ~Writable(bs, b)
  <2>1. AddInst(bs, b, place) = bs
    BY <1>1 DEF AddInst
  <2> QED
    BY <2>1, WroteSame
<1>2. CASE Writable(bs, b)
  <2> DEFINE cs == [bs EXCEPT ![b].insts = Append(@, place)]
  <2>1. AddInst(bs, b, place) = cs
    BY <1>2 DEF AddInst
  <2>2. b \in DOMAIN bs /\ DOMAIN cs = DOMAIN bs
    BY <1>2 DEF Writable, Null
  <2>3. \A x \in DOMAIN bs : bs[x] \in Blocks(p, n)
    OBVIOUS
  <2>4. ASSUME NEW x \in DOMAIN bs PROVE cs[x].func = bs[x].func /\ cs[x].term = bs[x].term
    <3>1. bs[x] \in [func : 1..Len(p), insts : Seq(Places), term : Terms(n)]
      BY <2>3 DEF Blocks
    <3>2. CASE x # b
      BY <3>2
    <3>3. CASE x = b
      <4>1. cs[x] = [bs[x] EXCEPT !.insts = Append(@, place)]
        BY <2>2, <3>3
      <4> QED
        BY <3>1, <4>1
    <3> QED
      BY <3>2, <3>3
  <2> HIDE DEF cs
  <2>5. Wrote(bs, b, Open, cs)
    BY <2>2, <2>4 DEF Wrote
  <2> QED
    BY <2>1, <2>2, <2>5
<1> QED
  BY <1>1, <1>2

\* Variables and expressions.
LEMMA ReturnsOfStraight ==
    ASSUME Ready, After, DefineVar \/ AddExprStmt PROVE HoldNow'
<1>1. phase' = "analyze" /\ phase = "analyze" /\ TypeOK /\ TypeOK'
  BY DEF Ready, After
<1>2. /\ program' = program /\ decl' = decl /\ made' = made
      /\ agenda # <<>> /\ agenda' = Rest /\ at' = at /\ loops' = loops
      /\ Now.do = "finish" /\ Now.stmt.op \in {"var", "expr"}
      /\ blocks' = blocks \/ blocks' = AddInst(blocks, at, Now.at)
  BY <1>1 DEF DefineVar, AddExprStmt, Crash, Finish, AtHead, Now, Stays
<1>3. PICK it : it = Now
  OBVIOUS
<1>4. /\ loops \in Seq(LoopPairs) /\ it.stmt \in Statements /\ it.do \notin Moves
      /\ Len(blocks) \in Nat /\ blocks \in Seq(Blocks(program, Len(blocks))) /\ at \in 0..Len(blocks)
  BY <1>1, <1>2, <1>3, LoopsArePairs, TypesAtHead DEF Moves
<1>5. Straight(it.stmt)
  BY <1>2, <1>3, <1>4, StraightIs
<1>6. \A v : \A x, y \in Marks : x.loops = loops =>
            (Step(v, x, it, y) <=> y.loops = loops /\ (x.live => y.live))
  BY <1>2, <1>3, <1>5 DEF Step, Lets, Straight, Moves, Passing
<1>7. Wrote(blocks, at, Open, blocks') /\ DOMAIN blocks' = DOMAIN blocks
  BY <1>2, <1>4, AddInstWrites, WroteSame
<1>8. Turns(blocks, at, loops, <<it>>, Open, blocks', at, loops, <<>>)
  BY <1>4, <1>6, <1>7, TurnPass
<1>9. HasEnd(program, agenda) \/ AtModuleLevel(<<>> \o Rest)
  <2>1. AtModuleLevel(<<>> \o <<>>)
    BY DEF AtModuleLevel
  <2> QED
    BY <1>2, <2>1, ModuleLevel
<1>10. <<>> \in Seq(Tasks(program)) /\ Plain(<<>>) /\ agenda' = <<>> \o Rest
  BY <1>1, <1>2, HeadOfAgenda, NoItems
<1>11. it.do # "endBody"
  BY <1>2, <1>3
<1> QED
  BY <1>1, <1>2, <1>3, <1>7, <1>8, <1>9, <1>10, <1>11, HeadTurned

\* A terminator is written to a block, or dropped.
LEMMA AddTermWrote ==
    ASSUME NEW p, NEW n \in Nat, NEW bs \in Seq(Blocks(p, n)), NEW b \in 0..Len(bs), NEW term
    PROVE  /\ Wrote(bs, b, term, AddTerm(bs, b, term))
           /\ DOMAIN AddTerm(bs, b, term) = DOMAIN bs
<1>1. CASE ~Writable(bs, b)
  <2>1. AddTerm(bs, b, term) = bs
    BY <1>1 DEF AddTerm
  <2>2. \A x \in DOMAIN bs : ~(x = b /\ bs[x].term = Open)
    BY <1>1 DEF Writable, Null
  <2> QED
    BY <2>1, <2>2 DEF Wrote
<1>2. CASE Writable(bs, b)
  <2> DEFINE cs == [bs EXCEPT ![b].term = term]
  <2>1. AddTerm(bs, b, term) = cs
    BY <1>2 DEF AddTerm
  <2>2. b \in DOMAIN bs /\ DOMAIN cs = DOMAIN bs /\ bs[b].term = Open
    BY <1>2 DEF Writable, Null
  <2>3. \A x \in DOMAIN bs : bs[x] \in Blocks(p, n)
    OBVIOUS
  <2>4. ASSUME NEW x \in DOMAIN bs
        PROVE  cs[x].func = bs[x].func /\ cs[x].term = IF x = b THEN term ELSE bs[x].term
    <3>1. bs[x] \in [func : 1..Len(p), insts : Seq(Places), term : Terms(n)]
      BY <2>3 DEF Blocks
    <3>2. CASE x # b
      BY <3>2
    <3>3. CASE x = b
      <4>1. cs[x] = [bs[x] EXCEPT !.term = term]
        BY <2>2, <3>3
      <4> QED
        BY <3>1, <3>3, <4>1
    <3> QED
      BY <3>2, <3>3
  <2> HIDE DEF cs
  <2>5. Wrote(bs, b, term, cs)
    BY <2>2, <2>4 DEF Wrote
  <2> QED
    BY <2>1, <2>2, <2>5
<1> QED
  BY <1>1, <1>2

TermsAreNotOpen ==
    /\ \A b : Jump(b) # Open
    /\ \A place, b, c : Fork(place, b, c) # Open
    /\ \A place : Ret(place) # Open

LEMMA TermsNotOpen == TermsAreNotOpen
BY DEF TermsAreNotOpen, Jump, Fork, Ret, Open

\* What is common to the steps that write a terminator and go on.
LEMMA HeadWrites ==
    ASSUME Ready, After, program' = program, decl' = decl, made' = made, agenda # <<>>,
           agenda' = Rest, at' = at, loops' = loops, NEW term, term # Open,
           blocks' = AddTerm(blocks, at, term), NEW it, it = Now, it.do \notin Moves,
           HasEnd(program, agenda),
           \A v : \A x, y \in Marks : x.loops = loops =>
               (Step(v, x, it, y) <=> y.loops = loops /\ (x.live => Targets(term) \subseteq v.within))
    PROVE  HoldNow'
<1>1. TypeOK /\ TypeOK'
  BY DEF Ready, After
<1>2. /\ loops \in Seq(LoopPairs)
      /\ Len(blocks) \in Nat /\ blocks \in Seq(Blocks(program, Len(blocks))) /\ at \in 0..Len(blocks)
  BY <1>1, LoopsArePairs, TypesAtHead
<1>3. Wrote(blocks, at, term, blocks') /\ DOMAIN blocks' = DOMAIN blocks
  BY <1>2, AddTermWrote
<1>4. Turns(blocks, at, loops, <<it>>, term, blocks', at, loops, <<>>)
  BY <1>2, <1>3, TurnWrite
<1>5. <<>> \in Seq(Tasks(program)) /\ Plain(<<>>) /\ agenda' = <<>> \o Rest
  BY <1>1, HeadOfAgenda, NoItems
<1>6. it.do # "endBody"
  BY DEF Moves
<1> QED
  BY <1>1, <1>3, <1>4, <1>5, <1>6, HeadTurned

\* A return, a break or continue, a jump and the condition of a loop.
LEMMA ReturnsOfReturn == ASSUME Ready, After, Return PROVE HoldNow'
<1>1. TypeOK /\ errors' = {}
  BY DEF Ready, After
<1>2. /\ program' = program /\ decl' = decl /\ made' = made
      /\ agenda # <<>> /\ agenda' = Rest /\ at' = at /\ loops' = loops
      /\ Now.do = "finish" /\ Now.stmt.op = "ret"
      /\ blocks' = AddTerm(blocks, at, Ret(Now.at))
  BY <1>1 DEF Return, Finish, AtHead, Now, Stays, Report
<1>3. PICK it : it = Now
  OBVIOUS
<1>4. it.stmt \in Statements /\ it.do \notin Moves
  BY <1>1, <1>2, <1>3, TypesAtHead DEF Moves
<1>5. it.stmt \notin Completing /\ it.stmt \notin Breaking /\ it.stmt \notin Continuing
  BY <1>2, <1>3, <1>4, CompletingAssumption, BreakingAssumption, ContinuingAssumption
<1>6. Targets(Ret(Now.at)) = {} /\ Ret(Now.at) # Open
  BY TargetsOf, TermsNotOpen DEF TermsAreNotOpen
<1>7. \A v : \A x, y \in Marks : x.loops = loops =>
           (Step(v, x, it, y) <=>
               y.loops = loops /\ (x.live => Targets(Ret(Now.at)) \subseteq v.within))
  BY <1>2, <1>3, <1>5, <1>6 DEF Step, Lets, Moves, Passing
<1>8. HasEnd(program, agenda)
  <2>1. Now.stmt.op # "var"
    BY <1>2
  <2> QED
    BY <1>2, <2>1, ModuleLevel
<1> QED
  BY <1>2, <1>3, <1>4, <1>6, <1>7, <1>8, HeadWrites

LEMMA ReturnsOfBreak == ASSUME Ready, After, BreakContinue PROVE HoldNow'
<1>1. TypeOK /\ phase = "analyze" /\ phase' = "analyze"
  BY DEF Ready, After
<1> DEFINE top == loops[Len(loops)]
           b == IF Now.stmt.op = "break" THEN top.break ELSE top.continue
<1>2. /\ program' = program /\ decl' = decl /\ made' = made
      /\ agenda # <<>> /\ agenda' = Rest /\ at' = at /\ loops' = loops
      /\ Now.do = "stmt" /\ Now.stmt.op \in {"break", "continue"} /\ ~Refused(Now.stmt)
      /\ blocks' = AddTerm(blocks, at, Jump(b))
  BY <1>1 DEF BreakContinue, AtHead, Now, Stays, Crash
<1>3. PICK it : it = Now
  OBVIOUS
<1>4. it.stmt \in Statements /\ it.do \notin Moves
  BY <1>1, <1>2, <1>3, TypesAtHead DEF Moves
<1>5. /\ it.stmt \notin Completing
      /\ it.stmt \in Breaking <=> it.stmt.op = "break"
      /\ it.stmt \in Continuing <=> it.stmt.op = "continue"
  BY <1>2, <1>3, <1>4, CompletingAssumption, BreakingAssumption, ContinuingAssumption
<1>6. PICK c : c = b
  OBVIOUS
<1>7. Targets(Jump(c)) = {c} /\ Jump(c) # Open
  BY TargetsOf, TermsNotOpen DEF TermsAreNotOpen
<1>8. \A v : \A x, y \in Marks : x.loops = loops =>
           (Step(v, x, it, y) <=>
               y.loops = loops /\ (x.live => Targets(Jump(c)) \subseteq v.within))
  BY <1>2, <1>3, <1>5, <1>6, <1>7 DEF Step, Lets, Moves, Passing
<1>9. HasEnd(program, agenda)
  BY <1>2, ModuleLevel DEF Refused
<1> QED
  BY <1>2, <1>3, <1>4, <1>6, <1>7, <1>8, <1>9, HeadWrites

LEMMA ReturnsOfJump == ASSUME Ready, After, MoveOrJump, AtHead("jumpTo") PROVE HoldNow'
<1>1. TypeOK
  BY DEF Ready
<1>2. /\ program' = program /\ decl' = decl /\ made' = made
      /\ agenda # <<>> /\ agenda' = Rest /\ at' = at /\ loops' = loops
      /\ Now.do = "jumpTo"
      /\ blocks' = AddTerm(blocks, at, Jump(Now.block))
  BY <1>1 DEF MoveOrJump, AtHead, Now, Stays
<1>3. PICK it : it = Now
  OBVIOUS
<1>4. it.do \notin Moves
  BY <1>2, <1>3 DEF Moves
<1>5. Targets(Jump(it.block)) = {it.block} /\ Jump(it.block) # Open
  BY TargetsOf, TermsNotOpen DEF TermsAreNotOpen
<1>6. \A v : \A x, y \in Marks : x.loops = loops =>
           (Step(v, x, it, y) <=>
               y.loops = loops /\ (x.live => Targets(Jump(it.block)) \subseteq v.within))
  BY <1>2, <1>3, <1>5 DEF Step, Moves, Passing
<1>7. HasEnd(program, agenda)
  BY <1>2, ModuleLevel
<1> QED
  BY <1>2, <1>3, <1>4, <1>5, <1>6, <1>7, HeadWrites

LEMMA ReturnsOfCondition == ASSUME Ready, After, LoopCondition PROVE HoldNow'
<1>1. TypeOK /\ errors' = {}
  BY DEF Ready, After
<1> DEFINE e == Now.cond
           branch == CASE e.op \in {"none", "true"} -> Jump(Now.merge - 1)
                       [] e.op = "false" -> Jump(Now.merge)
                       [] OTHER -> Fork(Now.at, Now.merge - 1, Now.merge)
<1>2. HasValue(e)
  BY <1>1, EvaluationReports DEF LoopCondition
<1>3. /\ program' = program /\ decl' = decl /\ made' = made
      /\ agenda # <<>> /\ agenda' = Rest /\ at' = at /\ loops' = loops
      /\ Now.do = "loopCond"
      /\ blocks' = AddTerm(blocks, at, branch)
  BY <1>2 DEF LoopCondition, AtHead, Now, Stays
<1>4. PICK it : it = Now
  OBVIOUS
<1>5. it.do \notin Moves
  BY <1>3, <1>4 DEF Moves
<1>6. PICK term : term = branch
  OBVIOUS
<1>7. /\ term # Open
      /\ \A S : Targets(term) \subseteq S <=> /\ MayHold(it.cond) => it.merge - 1 \in S
                                              /\ MayFail(it.cond) => it.merge \in S
  <2> HIDE DEF branch
  <2>1. CASE e.op \in {"none", "true"}
    <3>1. term = Jump(it.merge - 1)
      BY <1>4, <1>6, <2>1 DEF branch
    <3>2. Targets(term) = {it.merge - 1} /\ term # Open
      BY <3>1, TargetsOf, TermsNotOpen DEF TermsAreNotOpen
    <3> QED
      BY <1>4, <2>1, <3>2 DEF MayHold, MayFail
  <2>2. CASE e.op = "false"
    <3>1. term = Jump(it.merge)
      BY <1>4, <1>6, <2>2 DEF branch
    <3>2. Targets(term) = {it.merge} /\ term # Open
      BY <3>1, TargetsOf, TermsNotOpen DEF TermsAreNotOpen
    <3> QED
      BY <1>4, <2>2, <3>2 DEF MayHold, MayFail
  <2>3. CASE e.op \notin {"none", "true", "false"}
    <3>1. term = Fork(it.at, it.merge - 1, it.merge)
      BY <1>4, <1>6, <2>3 DEF branch
    <3>2. Targets(term) = {it.merge - 1, it.merge} /\ term # Open
      BY <3>1, TargetsOf, TermsNotOpen DEF TermsAreNotOpen
    <3> QED
      BY <1>4, <2>3, <3>2 DEF MayHold, MayFail
  <2> QED
    BY <2>1, <2>2, <2>3
<1>8. \A v : \A x, y \in Marks : x.loops = loops =>
           (Step(v, x, it, y) <=> y.loops = loops /\ (x.live => Targets(term) \subseteq v.within))
  <2>1. it.do = "loopCond"
    BY <1>3, <1>4
  <2>2. ASSUME NEW v, NEW x \in Marks, NEW y \in Marks, x.loops = loops
        PROVE  Step(v, x, it, y) <=> y.loops = loops /\ (x.live => Targets(term) \subseteq v.within)
    <3>1. Step(v, x, it, y) <=>
                /\ y.loops = x.loops
                /\ x.live => /\ MayHold(it.cond) => it.merge - 1 \in v.within
                             /\ MayFail(it.cond) => it.merge \in v.within
      BY <2>1, StepCond
    <3> QED
      BY <1>7, <2>2, <3>1
  <2> QED
    BY <2>2
<1>9. HasEnd(program, agenda)
  BY <1>3, ModuleLevel
<1> HIDE DEF branch
<1>10. blocks' = AddTerm(blocks, at, term)
  BY <1>3, <1>6
<1> QED
  BY <1>3, <1>4, <1>5, <1>7, <1>8, <1>9, <1>10, HeadWrites

\* The block that an item goes to is not the one that is written.
LEMMA FreshAtHead ==
    ASSUME Ready, agenda # <<>>, HasEnd(program, agenda), NEW it, it = Now, it.do # "endBody"
    PROVE  at \notin Tos(<<it>>)
<1>1. PICK pre, end, post : Cut(program, agenda, pre, end, post)
  BY DEF HasEnd
<1>2. TypeOK /\ Stands(program, blocks, at, loops, pre, end, post)
  BY <1>1 DEF Ready, HoldNow, Hold, BodiesStand
<1>3. PICK p, rest : p = program /\ rest = Rest
  OBVIOUS
<1>4. /\ it \in Items(p, Len(blocks)) /\ rest \in Seq(Items(p, Len(blocks)))
      /\ agenda = <<it>> \o rest /\ Len(blocks) \in Nat
  BY <1>2, <1>3, HeadOfAgenda, TypesAtHead
<1>5. rest \in Seq(Tasks(p)) /\ it \in Tasks(p)
  BY <1>4, TasksOf
<1> DEFINE s == <<it>>
<1>6. s \in Seq(Tasks(p)) /\ Plain(s) /\ Cut(p, s \o rest, pre, end, post)
  BY <1>1, <1>3, <1>4, <1>5 DEF Plain
<1> HIDE DEF s
<1>7. PICK mid \in Seq(Tasks(p)) : pre = s \o mid
  BY <1>5, <1>6, CutLater, SMTT(60)
<1>8. Tos(pre) = Tos(s) \cup Tos(mid)
  BY <1>6, <1>7, TosConcat
<1>9. at \notin Tos(pre)
  BY <1>2 DEF Stands, Fresh
<1> QED
  BY <1>8, <1>9 DEF s

\* The insertion block becomes another.
LEMMA ReturnsOfMove == ASSUME Ready, After, MoveOrJump, AtHead("moveTo") PROVE HoldNow'
<1>1. TypeOK /\ TypeOK'
  BY DEF Ready, After
<1>2. /\ program' = program /\ decl' = decl /\ made' = made
      /\ agenda # <<>> /\ agenda' = Rest /\ at' = Now.block /\ loops' = loops
      /\ Now.do = "moveTo" /\ blocks' = blocks
  BY DEF MoveOrJump, AtHead, Now, Stays
<1>3. PICK it : it = Now
  OBVIOUS
<1>4. it.do \in Moves /\ To(it) = at' /\ it.do # "endBody"
  BY <1>2, <1>3 DEF Moves, To
<1>5. HasEnd(program, agenda)
  BY <1>2, ModuleLevel
<1>6. Fresh(at, <<it>>)
  BY <1>2, <1>3, <1>4, <1>5, FreshAtHead, TosOne DEF Fresh
<1>7. loops \in Seq(LoopPairs) /\ Null \notin DOMAIN blocks /\ Targets(Open) = {}
  <2>1. DOMAIN blocks = 1..Len(blocks)
    BY <1>1, <1>2, TypesAtHead
  <2> QED
    BY <1>1, <2>1, LoopsArePairs, TargetsOf DEF Null
<1>8. Turns(blocks, at, loops, <<it>>, Open, blocks, at', loops, <<>>)
  <2>1. Wrote(blocks, at, Open, blocks)
    BY WroteSame
  <2> QED
    BY <1>4, <1>6, <1>7, <2>1, TurnMove
<1>9. <<>> \in Seq(Tasks(program)) /\ Plain(<<>>) /\ agenda' = <<>> \o Rest
  BY <1>1, <1>2, HeadOfAgenda, NoItems
<1> QED
  BY <1>1, <1>2, <1>3, <1>4, <1>5, <1>8, <1>9, HeadTurned

\* The items that end no body.
Quiet(p) == {it \in Tasks(p) : it.do # "endBody"}

\* Every kind of item but the end of a body.
LEMMA QuietKinds ==
    ASSUME NEW p
    PROVE  /\ StmtItems \subseteq Quiet(p) /\ FinishItems \subseteq Quiet(p)
           /\ MuteItems \subseteq Quiet(p) /\ ScopeMarks \subseteq Quiet(p)
           /\ [do |-> "closeLoop"] \in Quiet(p)
           /\ \A b \in Nat : [do |-> "moveTo", block |-> b] \in Quiet(p)
           /\ \A b \in Nat \ {0} : Jumps({b}) \subseteq Quiet(p)
           /\ \A n \in Nat : CondItems(n) \subseteq Quiet(p)
<1>1. \A n \in Nat : Items(p, n) \subseteq Tasks(p)
  BY TasksOf
<1>2. /\ StmtItems \subseteq Items(p, 0) /\ FinishItems \subseteq Items(p, 0)
      /\ MuteItems \subseteq Items(p, 0) /\ ScopeItems \subseteq Items(p, 0)
      /\ \A n \in Nat : /\ CondItems(n) \subseteq Items(p, n) /\ MoveItems(n) \subseteq Items(p, n)
                        /\ JumpItems(n) \subseteq Items(p, n)
  BY DEF Items
<1>3. /\ StmtItems \subseteq Tasks(p) /\ FinishItems \subseteq Tasks(p)
      /\ MuteItems \subseteq Tasks(p) /\ ScopeItems \subseteq Tasks(p)
      /\ \A n \in Nat : /\ CondItems(n) \subseteq Tasks(p) /\ MoveItems(n) \subseteq Tasks(p)
                        /\ JumpItems(n) \subseteq Tasks(p)
  BY <1>1, <1>2
<1>4. StmtItems \subseteq Quiet(p) /\ FinishItems \subseteq Quiet(p) /\ MuteItems \subseteq Quiet(p)
  BY <1>3 DEF Quiet, StmtItems, FinishItems, MuteItems
<1>5. ScopeMarks \subseteq Quiet(p) /\ [do |-> "closeLoop"] \in Quiet(p)
  BY <1>3 DEF Quiet, ScopeItems, ScopeMarks
<1>6. \A n \in Nat : CondItems(n) \subseteq Quiet(p)
  BY <1>3 DEF Quiet, CondItems
<1>7. ASSUME NEW b \in Nat PROVE [do |-> "moveTo", block |-> b] \in Quiet(p)
  <2>1. [do |-> "moveTo", block |-> b] \in MoveItems(b)
    BY DEF MoveItems
  <2> QED
    BY <1>3, <2>1 DEF Quiet
<1>8. ASSUME NEW b \in Nat \ {0} PROVE Jumps({b}) \subseteq Quiet(p)
  <2>1. [do |-> "jumpTo", block |-> b] \in JumpItems(b)
    BY DEF JumpItems
  <2>2. [do |-> "jumpTo", block |-> b] \in Quiet(p) /\ [do |-> "moveTo", block |-> b] \in Quiet(p)
    BY <1>3, <1>7, <2>1 DEF Quiet
  <2>3. \A j \in Jumps({b}) : j = [do |-> "jumpTo", block |-> b] \/ j = [do |-> "moveTo", block |-> b]
    BY DEF Jumps
  <2> QED
    BY <2>2, <2>3
<1> QED
  BY <1>4, <1>5, <1>6, <1>7, <1>8

LEMMA QuietSeq ==
    ASSUME NEW p, NEW items \in Seq(Quiet(p)) PROVE items \in Seq(Tasks(p)) /\ Plain(items)
<1> DEFINE Q == Quiet(p)
<1>1. Q \subseteq Tasks(p) /\ \A x \in Q : x.do # "endBody"
  BY DEF Quiet
<1> HIDE DEF Q
<1>2. Seq(Q) \subseteq Seq(Tasks(p))
  BY <1>1, SeqOfMore
<1>3. items \in Seq(Q)
  BY DEF Q
<1>4. \A k \in 1..Len(items) : items[k] \in Q
  BY <1>3
<1> QED
  BY <1>1, <1>2, <1>3, <1>4 DEF Plain

LEMMA QuietScoped ==
    ASSUME NEW Q, ScopeMarks \subseteq Q, NEW items \in Seq(Q) PROVE Scoped(items) \in Seq(Q)
<1>1. Item("openScope") \in Seq(Q) /\ Item("closeScope") \in Seq(Q)
  BY DEF Item, ScopeMarks
<1> QED
  BY <1>1 DEF Scoped

\* The statements of items, and what is read in them.
StmtsOf(items) == [k \in 1..Len(items) |-> items[k].stmt]

\* The other branch of a constant is read like any statements.
LEMMA ReadsItems ==
    ASSUME NEW items \in Seq(StmtItems)
    PROVE  StmtsOf(items) \in Seq(Statements) /\ Reads(items, StmtsOf(items))
<1>1. \A k \in 1..Len(items) : items[k].do = "stmt" /\ items[k].stmt \in Statements
  <2>1. \A k \in 1..Len(items) : items[k] \in StmtItems
    OBVIOUS
  <2> QED
    BY <2>1 DEF StmtItems
<1>2. StmtsOf(items) \in Seq(Statements) /\ Len(StmtsOf(items)) = Len(items)
      /\ \A k \in 1..Len(items) : StmtsOf(items)[k] = items[k].stmt
  BY <1>1 DEF StmtsOf
<1>3. Listing(items, StmtsOf(items))
  BY <1>1, <1>2 DEF Listing
<1> QED
  BY <1>2, <1>3, ListingReads

\* The branch that is not taken.
LEMMA ReturnsOfMute == ASSUME Ready, After, Mute PROVE HoldNow'
<1>1. TypeOK /\ TypeOK'
  BY DEF Ready, After
<1>2. /\ program' = program /\ decl' = decl /\ made' = made
      /\ agenda # <<>> /\ agenda' = Scoped(Now.other) \o MoveTo(at) \o Rest
      /\ at' = Null /\ loops' = loops /\ Now.do = "mute" /\ blocks' = blocks
  BY DEF Mute, AtHead, Now, Stays
<1>3. PICK it, p, other, b, rest : it = Now /\ p = program /\ other = Now.other /\ b = at /\ rest = Rest
  OBVIOUS
<1> DEFINE Q == Quiet(p)
           new == Scoped(other) \o MoveTo(b)
<1>4. other \in Seq(StmtItems) /\ b \in Nat /\ rest \in Seq(Tasks(p))
  <2>1. Len(blocks) \in Nat /\ at \in 0..Len(blocks) /\ Now.other \in Seq(StmtItems)
        /\ Rest \in Seq(Items(program, Len(blocks)))
    BY <1>1, <1>2, TypesAtHead
  <2>2. Rest \in Seq(Tasks(program))
    BY <2>1, TasksOf
  <2> QED
    BY <1>3, <2>1, <2>2
<1>5. ScopeMarks \subseteq Q /\ StmtItems \subseteq Q /\ [do |-> "moveTo", block |-> b] \in Q
  BY <1>4, QuietKinds
<1> HIDE DEF Q
<1>6. other \in Seq(Q)
  BY <1>4, <1>5, SeqOfMore
<1>7. Scoped(other) \in Seq(Q)
  BY <1>5, <1>6, QuietScoped
<1>8. new \in Seq(Q)
  <2>1. MoveTo(b) \in Seq(Q)
    BY <1>5 DEF MoveTo
  <2> QED
    BY <1>7, <2>1
<1>9. Reads(Scoped(other), StmtsOf(other))
  BY <1>4, <1>5, <1>6, ReadsItems, ScopedReads
<1>10. loops \in Seq(LoopPairs) /\ Null \notin DOMAIN blocks
  <2>1. DOMAIN blocks = 1..Len(blocks)
    BY <1>1, <1>2, TypesAtHead
  <2> QED
    BY <1>1, <2>1, LoopsArePairs DEF Null
<1>11. Turns(blocks, b, loops, <<it>>, Open, blocks, Null, loops, new)
  BY <1>2, <1>3, <1>5, <1>7, <1>9, <1>10, TurnMute
<1>12. new \in Seq(Tasks(program)) /\ Plain(new)
  BY <1>3, <1>8, QuietSeq DEF Q
<1>13. HasEnd(program, agenda)
  BY <1>2, ModuleLevel
<1>14. agenda' = new \o Rest
  BY <1>2, <1>3
<1>15. it.do # "endBody"
  BY <1>2, <1>3
<1>16. Turns(blocks, at, loops, <<it>>, Open, blocks', at', loops', new)
  BY <1>2, <1>3, <1>11
<1> HIDE DEF new
<1> QED
  BY <1>1, <1>2, <1>3, <1>12, <1>13, <1>14, <1>15, <1>16, HeadTurned

\* A statement is read in the same way before and after its expression.
LEMMA StepFinish ==
    ASSUME NEW it, it.do = "stmt", NEW jt, jt.do = "finish", jt.stmt = it.stmt,
           NEW v, NEW x, NEW y
    PROVE  Step(v, x, it, y) <=> Step(v, x, jt, y)
BY DEF Step, Passing, Moves

LEMMA TurnStart ==
    ASSUME NEW it, it.do = "stmt", NEW jt, jt.do = "finish", jt.stmt = it.stmt,
           NEW lp \in Seq(LoopPairs), NEW bs, NEW a
    PROVE  Turns(bs, a, lp, <<it>>, Open, bs, a, lp, <<jt>>)
<1> DEFINE new == <<jt>>
<1>1. it.do \notin Moves /\ Tos(new) = {} /\ Distinct(new)
  BY TosOne DEF To, Moves, Null
<1>2. ASSUME NEW v, NEW x \in Marks, NEW z \in Marks
      PROVE  Walk(v, x, new, z) <=> Step(v, x, it, z)
  BY StepFinish, WalkOne, WalkOnly
<1> HIDE DEF new
<1>3. \A v : \A x, z \in Marks : x.loops = lp /\ Walk(v, x, new, z) => Step(v, x, it, z)
  BY <1>2
<1>4. \A v : \A x, z \in Marks : x.loops = lp /\ Step(v, x, it, z) =>
                \E z2 \in Marks : /\ Walk(v, x, new, z2)
                                  /\ z2.loops = z.loops /\ (z2.live => z.live)
  BY <1>2
<1>5. Turns(bs, a, lp, <<it>>, Open, bs, a, lp, new)
  BY <1>1, <1>3, <1>4, TurnSame
<1> QED
  BY <1>5 DEF new

\* A statement is begun.
LEMMA ReturnsOfStart == ASSUME Ready, After, Start PROVE HoldNow'
<1>1. TypeOK /\ TypeOK'
  BY DEF Ready, After
<1>2. /\ program' = program /\ decl' = decl /\ made' = made
      /\ agenda # <<>> /\ agenda' = <<[Now EXCEPT !.do = "finish"]>> \o Rest
      /\ at' = at /\ loops' = loops /\ Now.do = "stmt" /\ blocks' = blocks
      /\ Now.stmt.op \in {"var", "expr", "ret", "if"}
  BY DEF Start, AtHead, Now, Stays
<1>3. PICK it, jt : it = Now /\ jt = [Now EXCEPT !.do = "finish"]
  OBVIOUS
<1>4. Now \in StmtItems
  BY <1>1, <1>2, HeadOfAgenda, ItemKinds
<1>5. jt.do = "finish" /\ jt.stmt = it.stmt /\ it.do = "stmt" /\ jt \in FinishItems
  BY <1>2, <1>3, <1>4 DEF StmtItems, FinishItems
<1>6. loops \in Seq(LoopPairs)
  BY <1>1, LoopsArePairs
<1>7. Turns(blocks, at, loops, <<it>>, Open, blocks, at, loops, <<jt>>)
  BY <1>5, <1>6, TurnStart
<1>8. <<jt>> \in Seq(Tasks(program)) /\ Plain(<<jt>>)
  <2>1. <<jt>> \in Seq(Quiet(program))
    BY <1>5, QuietKinds
  <2> QED
    BY <2>1, QuietSeq
<1>9. HasEnd(program, agenda) \/ AtModuleLevel(<<jt>> \o Rest)
  <2>1. AtModuleLevel(<<jt>> \o <<>>)
    BY <1>5 DEF AtModuleLevel
  <2> QED
    BY <1>2, <2>1, ModuleLevel
<1>10. agenda' = <<jt>> \o Rest
  BY <1>2, <1>3
<1>11. it.do # "endBody"
  BY <1>5
<1>12. DOMAIN blocks' \ DOMAIN blocks = {} /\ Turns(blocks, at, loops, <<it>>, Open, blocks', at', loops', <<jt>>)
  BY <1>2, <1>7
<1> QED
  BY <1>1, <1>2, <1>3, <1>8, <1>9, <1>10, <1>11, <1>12, HeadTurned

\* An if of a constant is read as the branch that is taken.
OneSide(s, t) ==
    /\ s \in Completing <=> Completes(t)
    /\ \A c, lp : Lets(c, lp, s) <=> LetsAll(c, lp, t)

Taken(s) == IF s.e.op = "true" THEN s.then ELSE s.else

\* A constant decides which branch is run.
LEMMA ConstantSays ==
    ASSUME NEW s \in Statements, s.op = "if", IsConstant(s.e) PROVE OneSide(s, Taken(s))
<1>1. s.op \notin {"var", "expr", "func", "for", "break", "continue"}
  OBVIOUS
<1>2. s \in Completing <=> \/ MayHold(s.e) /\ Completes(s.then)
                           \/ s.e.op # "true" /\ Completes(s.else)
  BY <1>1, CompletingAssumption
<1>3. /\ s \in Breaking <=> ThenReaches(s, Breaking) \/ ElseReaches(s, Breaking)
      /\ s \in Continuing <=> ThenReaches(s, Continuing) \/ ElseReaches(s, Continuing)
  BY <1>1, BreakingAssumption, ContinuingAssumption
<1>4. CASE s.e.op = "true"
  <2>1. Taken(s) = s.then /\ MayHold(s.e)
    BY <1>4 DEF Taken, MayHold
  <2>2. s \in Completing <=> Completes(s.then)
    BY <1>2, <1>4, <2>1
  <2>3. /\ s \in Breaking <=> Reaches(s.then, Breaking)
        /\ s \in Continuing <=> Reaches(s.then, Continuing)
    BY <1>3, <1>4, <2>1 DEF ThenReaches, ElseReaches
  <2> QED
    BY <2>1, <2>2, <2>3 DEF OneSide, Lets, LetsAll
<1>5. CASE s.e.op = "false"
  <2>1. Taken(s) = s.else /\ ~MayHold(s.e) /\ s.e.op # "true"
    BY <1>5 DEF Taken, MayHold
  <2>2. s \in Completing <=> Completes(s.else)
    BY <1>2, <2>1
  <2>3. /\ s \in Breaking <=> Reaches(s.else, Breaking)
        /\ s \in Continuing <=> Reaches(s.else, Continuing)
    BY <1>3, <2>1 DEF ThenReaches, ElseReaches
  <2> QED
    BY <2>1, <2>2, <2>3 DEF OneSide, Lets, LetsAll
<1> QED
  BY <1>4, <1>5 DEF IsConstant

\* An if of a constant becomes the branch taken, and one that is not.
LEMMA TurnConstant ==
    ASSUME NEW T, NEW items \in Seq(T), NEW s, NEW t, Reads(items, t), OneSide(s, t),
           NEW it, it.do = "finish", it.stmt = s, NEW mute \in T, mute.do = "mute",
           NEW lp \in Seq(LoopPairs), NEW bs, NEW a
    PROVE  Turns(bs, a, lp, <<it>>, Open, bs, a, lp, items \o <<mute>>)
<1> DEFINE new == items \o <<mute>>
           last == <<mute>>
<1>1. it.do \notin Moves
  BY DEF Moves
<1>2. last \in Seq(T) /\ Tos(last) = {} /\ Distinct(last)
  BY TosOne DEF To, Moves, Null
<1>3. Tos(items) = {} /\ Distinct(items)
  BY DEF Reads
<1>4. mute.do \in Passing \ {"closeLoop"}
  BY DEF Passing
<1> HIDE DEF last
<1>5. new = items \o last
  BY DEF last
<1>6. Tos(new) = {} /\ Distinct(new)
  BY <1>2, <1>3, <1>5, DistinctAll
<1> HIDE DEF new
<1>7. ASSUME NEW v, NEW x \in Marks, NEW y \in Marks
      PROVE  Step(v, x, it, y) <=>
                 /\ y.loops = x.loops
                 /\ x.live => LetsAll(v, x.loops, t) /\ (Completes(t) => y.live)
  BY DEF Step, Moves, Passing, OneSide
<1>8. ASSUME NEW v, NEW x \in Marks, NEW z \in Marks, Walk(v, x, new, z)
      PROVE  Step(v, x, it, z)
  <2>1. PICK y \in Marks : Walk(v, x, items, y) /\ Walk(v, y, last, z)
    BY <1>2, <1>5, <1>8, WalkSplit
  <2>2. y.loops = x.loops /\ (x.live => LetsAll(v, x.loops, t) /\ (Completes(t) => y.live))
    BY <2>1 DEF Reads
  <2>3. Step(v, y, mute, z)
    BY <2>1, WalkOnly DEF last
  <2>4. z.loops = y.loops /\ (y.live => z.live)
    BY <1>4, <2>3, StepOver
  <2> QED
    BY <1>7, <2>2, <2>4
<1>9. ASSUME NEW v, NEW x \in Marks, NEW z \in Marks, Step(v, x, it, z)
      PROVE  \E z2 \in Marks : /\ Walk(v, x, new, z2)
                               /\ z2.loops = z.loops /\ (z2.live => z.live)
  <2>1. z.loops = x.loops /\ (x.live => LetsAll(v, x.loops, t) /\ (Completes(t) => z.live))
    BY <1>7, <1>9
  <2> DEFINE l == x.live
             lq == x.loops
             y == Mark(l /\ Completes(t), lq)
  <2>2. l \in BOOLEAN /\ lq \in Seq(LoopPairs) /\ x = Mark(l, lq)
    BY MarkOf
  <2>3. (l /\ Completes(t)) \in BOOLEAN
    OBVIOUS
  <2>4. y \in Marks /\ (y.live <=> l /\ Completes(t)) /\ y.loops = lq
    BY <2>2, <2>3, MarkIs
  <2>5. l => LetsAll(v, lq, t)
    BY <2>1
  <2>6. Walk(v, Mark(l, lq), items, y)
    <3> HIDE DEF l, lq
    <3> QED
      BY <2>2, <2>5 DEF Reads
  <2>7. Walk(v, y, last, y)
    <3> HIDE DEF y
    <3> QED
      BY <1>4, <2>4, WalkOver DEF last
  <2> HIDE DEF y
  <2>8. Walk(v, x, new, y)
    BY <1>2, <1>5, <2>2, <2>6, <2>7, WalkConcat
  <2> QED
    BY <2>1, <2>4, <2>8
<1>10. Turns(bs, a, lp, <<it>>, Open, bs, a, lp, new)
  BY <1>1, <1>6, <1>8, <1>9, TurnSame
<1> QED
  BY <1>10 DEF new

\* The statements of a branch or a body.
LEMMA PartsRead ==
    ASSUME NEW p, NEW place \in Places, NEW part \in Nat, NEW stmts \in Seq(Statements)
    PROVE  /\ Parts(place, part, stmts) \in Seq(StmtItems)
           /\ Parts(place, part, stmts) \in Seq(Quiet(p)) /\ Reads(Parts(place, part, stmts), stmts)
           /\ Scoped(Parts(place, part, stmts)) \in Seq(Quiet(p))
           /\ Reads(Scoped(Parts(place, part, stmts)), stmts)
<1> DEFINE items == Parts(place, part, stmts)
           Q == Quiet(p)
<1>1. /\ items \in Seq(StmtItems) /\ Len(items) = Len(stmts)
      /\ \A k \in 1..Len(stmts) : items[k].do = "stmt" /\ items[k].stmt = stmts[k]
  BY PartsType
<1>2. StmtItems \subseteq Q /\ ScopeMarks \subseteq Q
  BY QuietKinds
<1> HIDE DEF items, Q
<1>3. items \in Seq(Q)
  BY <1>1, <1>2, SeqOfMore
<1>4. Reads(items, stmts)
  BY <1>1, ListingReads DEF Listing
<1>5. Scoped(items) \in Seq(Q) /\ Reads(Scoped(items), stmts)
  BY <1>2, <1>3, <1>4, QuietScoped, ScopedReads
<1> QED
  BY <1>1, <1>3, <1>4, <1>5 DEF items, Q

LEMMA IfParts ==
    ASSUME NEW s \in Statements, s.op = "if"
    PROVE  s.then \in Seq(Statements) /\ s.else \in Seq(Statements) /\ Taken(s) \in Seq(Statements)
BY StatementsAssumption DEF Taken

\* An if of a constant.
LEMMA ReturnsOfConstantIf == ASSUME Ready, After, ConstantIf PROVE HoldNow'
<1>1. TypeOK /\ TypeOK'
  BY DEF Ready, After
<1> DEFINE s == Now.stmt
           isTrue == s.e.op = "true"
           then == Parts(Now.at, 1, s.then)
           else == Parts(Now.at, 2, s.else)
           items == Scoped(IF isTrue THEN then ELSE else)
           mute == [do |-> "mute", other |-> IF isTrue THEN else ELSE then]
           last == <<mute>>
<1>2. /\ program' = program /\ decl' = decl /\ made' = made
      /\ agenda # <<>> /\ agenda' = items \o last \o Rest
      /\ at' = at /\ loops' = loops /\ Now.do = "finish" /\ blocks' = blocks
      /\ s.op = "if" /\ IsConstant(s.e)
  BY DEF ConstantIf, Finish, AtHead, Now, Stays
<1>3. Now.at \in Places /\ s \in Statements
  BY <1>1, <1>2, TypesAtHead
<1>4. s.then \in Seq(Statements) /\ s.else \in Seq(Statements) /\ Taken(s) \in Seq(Statements)
  BY <1>2, <1>3, IfParts
<1>5. /\ then \in Seq(StmtItems) /\ Scoped(then) \in Seq(Quiet(program)) /\ Reads(Scoped(then), s.then)
      /\ else \in Seq(StmtItems) /\ Scoped(else) \in Seq(Quiet(program)) /\ Reads(Scoped(else), s.else)
  BY <1>3, <1>4, PartsRead
<1>6. OneSide(s, Taken(s))
  BY <1>2, <1>3, ConstantSays
<1> HIDE DEF s, then, else
<1>7. mute \in Quiet(program) /\ mute.do = "mute"
  <2>1. mute \in MuteItems
    BY <1>5 DEF MuteItems
  <2> QED
    BY <2>1, QuietKinds
<1>8. items \in Seq(Quiet(program)) /\ Reads(items, Taken(s))
  BY <1>5 DEF Taken
<1>9. PICK it, t, q : it = Now /\ t = Taken(s) /\ q = Quiet(program)
  OBVIOUS
<1>10. it.do = "finish" /\ it.stmt = s /\ loops \in Seq(LoopPairs)
  BY <1>1, <1>2, <1>9, LoopsArePairs DEF s
<1> HIDE DEF items, mute
<1> DEFINE new == items \o last
<1>11. Turns(blocks, at, loops, <<it>>, Open, blocks, at, loops, new)
  <2>1. items \in Seq(q) /\ Reads(items, t) /\ OneSide(s, t) /\ mute \in q /\ mute.do = "mute"
    BY <1>6, <1>7, <1>8, <1>9
  <2> QED
    BY <1>10, <2>1, TurnConstant
<1>12. last \in Seq(Quiet(program))
  BY <1>7
<1> HIDE DEF last
<1>13. new \in Seq(Quiet(program))
  BY <1>8, <1>12
<1>14. HasEnd(program, agenda)
  <2>1. Now.stmt.op # "var"
    BY <1>2 DEF s
  <2> QED
    BY <1>2, <2>1, ModuleLevel
<1>15. PICK nw : nw = new
  OBVIOUS
<1>16. nw \in Seq(Tasks(program)) /\ Plain(nw)
  BY <1>13, <1>15, QuietSeq
<1>17. agenda' = nw \o Rest
  BY <1>2, <1>15
<1>18. Turns(blocks, at, loops, <<it>>, Open, blocks', at', loops', nw)
  BY <1>2, <1>11, <1>15
<1>19. it.do # "endBody" /\ DOMAIN blocks' \ DOMAIN blocks = {}
  BY <1>2, <1>10
<1> HIDE DEF new
<1> QED
  BY <1>1, <1>2, <1>9, <1>14, <1>16, <1>17, <1>18, <1>19, HeadTurned

\* New blocks behind those there are.
LEMMA TwoSequences ==
    ASSUME NEW S, NEW s \in Seq(S), NEW T, NEW t \in Seq(T)
    PROVE  /\ DOMAIN (s \o t) = 1..(Len(s) + Len(t))
           /\ \A d \in 1..Len(s) : (s \o t)[d] = s[d]
OBVIOUS

More(ds, f, k) == ds \o [i \in 1..k |-> NewBlock(f)]

\* A block gets its terminator, and new blocks of its function are made.
LEMMA NewBlocksWrote ==
    ASSUME NEW p, NEW n \in Nat, NEW bs \in Seq(Blocks(p, n)), NEW b \in 1..Len(bs), NEW term,
           NEW k \in Nat, NEW cs,
           cs = More(AddTerm(bs, b, term), bs[b].func, k)
    PROVE  /\ Wrote(bs, b, term, cs)
           /\ DOMAIN cs \ DOMAIN bs = (Len(bs) + 1)..(Len(bs) + k)
           /\ \A d \in DOMAIN cs \ DOMAIN bs : cs[d].func = bs[b].func
<1> DEFINE m == Len(bs)
           f == bs[b].func
           ds == AddTerm(bs, b, term)
           new == [i \in 1..k |-> NewBlock(f)]
<1>1. m \in Nat /\ b \in 0..m /\ DOMAIN bs = 1..m
  OBVIOUS
<1>2. Wrote(bs, b, term, ds) /\ DOMAIN ds = DOMAIN bs
  BY <1>1, AddTermWrote
<1>3. PICK T : ds \in Seq(T)
  BY <1>1, AddTermGrows
<1>4. Len(ds) = m
  BY <1>1, AddTermGrows
<1>5. new \in Seq({NewBlock(f)}) /\ Len(new) = k /\ \A i \in 1..k : new[i] = NewBlock(f)
  OBVIOUS
<1>6. NewBlock(f).func = f /\ NewBlock(f).term = Open
  BY DEF NewBlock
<1> HIDE DEF ds, new, f
<1>7. cs = ds \o new
  BY DEF ds, new, f, More
<1>8. DOMAIN cs = 1..(m + k) /\ \A d \in 1..m : cs[d] = ds[d]
  <2>1. DOMAIN (ds \o new) = 1..(Len(ds) + Len(new)) /\ \A d \in 1..Len(ds) : (ds \o new)[d] = ds[d]
    BY <1>3, <1>5, TwoSequences
  <2> QED
    BY <1>4, <1>5, <1>7, <2>1
<1>9. \A d \in (m + 1)..(m + k) : cs[d] = NewBlock(f)
  <2>1. ASSUME NEW d \in (m + 1)..(m + k) PROVE cs[d] = NewBlock(f)
    <3>1. d - m \in 1..Len(new) /\ Len(ds) + (d - m) = d
      BY <1>1, <1>4, <1>5
    <3>2. (ds \o new)[Len(ds) + (d - m)] = new[d - m]
      BY <1>3, <1>5, <3>1, ConcatAt, SMTT(60)
    <3> QED
      BY <1>1, <1>5, <1>7, <3>1, <3>2
  <2> QED
    BY <2>1
<1>10. DOMAIN cs \ DOMAIN bs = (m + 1)..(m + k)
  BY <1>1, <1>8
<1>11. \A d \in DOMAIN bs : cs[d] = ds[d]
  BY <1>1, <1>8
<1>12. DOMAIN bs \subseteq DOMAIN cs
  BY <1>1, <1>8
<1> HIDE DEF m
<1>13. Wrote(bs, b, term, cs)
  BY <1>2, <1>6, <1>9, <1>10, <1>11, <1>12 DEF Wrote
<1> QED
  BY <1>6, <1>9, <1>10, <1>13 DEF m, f

\* An if whose condition is not constant.
LEMMA ReturnsOfRunTimeIf == ASSUME Ready, After, RunTimeIf PROVE HoldNow'
<1>1. TypeOK /\ TypeOK' /\ phase' # "crashed"
  BY DEF Ready, After
<1> DEFINE n == Len(blocks)
           s == Now.stmt
           hasElse == s.else # <<>>
           merge == IF hasElse THEN n + 3 ELSE n + 2
           fork == Fork(Now.at, n + 1, n + 2)
           then == Scoped(Parts(Now.at, 1, s.then))
           else == Scoped(Parts(Now.at, 2, s.else))
           other == IF hasElse THEN MoveTo(n + 2) \o else \o JumpTo(merge) ELSE <<>>
<1>2. ~Crash
  BY <1>1 DEF Crash
<1>3. /\ program' = program /\ decl' = decl /\ made' = made
      /\ agenda # <<>> /\ agenda' = then \o JumpTo(merge) \o other \o MoveTo(merge) \o Rest
      /\ at' = n + 1 /\ loops' = loops /\ Now.do = "finish"
      /\ blocks' = AddTerm(blocks, at, fork) \o [i \in 1..(merge - n) |-> NewBlock(blocks[at].func)]
      /\ s.op = "if" /\ ~IsConstant(s.e) /\ at # Null
  BY <1>2 DEF RunTimeIf, Finish, AtHead, Now, Stays
<1>4. n \in Nat /\ Now.at \in Places /\ s \in Statements /\ at \in 1..n
      /\ blocks \in Seq(Blocks(program, n)) /\ loops \in Seq(LoopPairs)
  <2>1. n \in Nat /\ Now.at \in Places /\ s \in Statements /\ at \in 0..n
        /\ blocks \in Seq(Blocks(program, n))
    BY <1>1, <1>3, TypesAtHead
  <2>2. at # 0
    BY <1>3 DEF Null
  <2> QED
    BY <1>1, <2>1, <2>2, LoopsArePairs
<1>5. s.then \in Seq(Statements) /\ s.else \in Seq(Statements)
  BY <1>3, <1>4, IfParts
<1>6. /\ then \in Seq(Quiet(program)) /\ Reads(then, s.then)
      /\ else \in Seq(Quiet(program)) /\ Reads(else, s.else)
  BY <1>4, <1>5, PartsRead
<1>7. OneOf(s)
  BY <1>3, <1>4, IfSays
<1>8. PICK it, p, q, k, m, Q, t : /\ it = Now /\ p = then /\ q = else /\ k = n + 2
                                  /\ m = merge /\ Q = Quiet(program) /\ t = s
  OBVIOUS
<1> DEFINE new == Branches(t, p, q, k, m)
<1>9. agenda' = new \o Rest
  <2>1. other = Other(t, q, k, m)
    BY <1>8 DEF Other
  <2> HIDE DEF other, then, else, merge, s
  <2> QED
    BY <1>3, <1>8, <2>1 DEF Branches
<1>10. it.do = "finish" /\ it.stmt = t
  BY <1>3, <1>8
<1> HIDE DEF then, else, other, s
<1>11. k \in Nat \ {0} /\ m \in Nat \ {0} /\ (t.else = <<>> <=> k = m) /\ m - n \in Nat
       /\ k # n + 1 /\ m # n + 1 /\ {n + 1, k, m} \subseteq (n + 1)..(n + (m - n))
  BY <1>4, <1>8
<1>12. blocks' = AddTerm(blocks, at, fork) \o [i \in 1..(m - n) |-> NewBlock(blocks[at].func)]
  BY <1>3, <1>8
<1>13. /\ Wrote(blocks, at, fork, blocks')
       /\ DOMAIN blocks' \ DOMAIN blocks = (n + 1)..(n + (m - n))
       /\ \A d \in DOMAIN blocks' \ DOMAIN blocks : blocks'[d].func = blocks[at].func
  <2> HIDE DEF fork
  <2>1. PICK d : d = m - n
    OBVIOUS
  <2>2. blocks' = More(AddTerm(blocks, at, fork), blocks[at].func, d) /\ d \in Nat
    BY <1>11, <1>12, <2>1 DEF More
  <2> HIDE DEF n
  <2>3. /\ Wrote(blocks, at, fork, blocks')
        /\ DOMAIN blocks' \ DOMAIN blocks = (Len(blocks) + 1)..(Len(blocks) + d)
        /\ \A b \in DOMAIN blocks' \ DOMAIN blocks : blocks'[b].func = blocks[at].func
    <3>1. at \in 1..Len(blocks) /\ n \in Nat
      BY <1>4 DEF n
    <3> QED
      BY <1>4, <2>2, <3>1, NewBlocksWrote
  <2> QED
    BY <2>1, <2>3 DEF n
<1>14. Null \notin DOMAIN blocks'
  BY <1>1, SMTT(60) DEF Null, TypeOK
<1>15. Jumps({k, m}) \subseteq Q
  <2>1. \A b \in {k, m} : Jumps({b}) \subseteq Q
    BY <1>8, <1>11, QuietKinds
  <2>2. Jumps({k, m}) = Jumps({k}) \cup Jumps({m})
    BY DEF Jumps
  <2> QED
    BY <2>1, <2>2
<1>16. PICK c : c = n + 1
  OBVIOUS
<1>17. Turns(blocks, at, loops, <<it>>, fork, blocks', c, loops, new)
  <2>1. p \in Seq(Q) /\ q \in Seq(Q) /\ OneOf(t) /\ Reads(p, t.then) /\ Reads(q, t.else)
    BY <1>6, <1>7, <1>8
  <2>2. {c, k, m} \subseteq DOMAIN blocks' \ DOMAIN blocks /\ c # k /\ c # m
    BY <1>11, <1>13, <1>16
  <2>3. fork = Fork(it.at, c, k)
    BY <1>8, <1>16
  <2>4. PICK place : place = it.at
    OBVIOUS
  <2>5. Wrote(blocks, at, Fork(place, c, k), blocks')
    BY <1>13, <2>3, <2>4
  <2> HIDE DEF fork, new
  <2>6. Turns(blocks, at, loops, <<it>>, Fork(place, c, k), blocks', c, loops, Branches(t, p, q, k, m))
    BY <1>4, <1>10, <1>11, <1>13, <1>14, <1>15, <2>1, <2>2, <2>5, TurnIf
  <2> QED
    BY <2>3, <2>4, <2>6 DEF new
<1>18. new \in Seq(Q)
  <2>1. p \in Seq(Q) /\ q \in Seq(Q)
    BY <1>6, <1>8
  <2>2. (p \o JumpTo(m)) \o Other(t, q, k, m) \in Seq(Q) /\ MoveTo(m) \in Seq(Q)
    BY <1>15, <2>1, BranchItems
  <2> QED
    BY <2>2 DEF Branches
<1>19. HasEnd(program, agenda)
  <2>1. Now.stmt.op # "var"
    BY <1>3 DEF s
  <2> QED
    BY <1>3, <2>1, ModuleLevel
<1> HIDE DEF new, fork
<1>20. new \in Seq(Tasks(program)) /\ Plain(new)
  BY <1>8, <1>18, QuietSeq
<1>21. Turns(blocks, at, loops, <<it>>, fork, blocks', at', loops', new)
  BY <1>3, <1>16, <1>17
<1>22. \A b \in DOMAIN blocks' \ DOMAIN blocks :
            at \in DOMAIN blocks /\ blocks'[b].func = blocks[at].func
  BY <1>4, <1>13
<1>23. it.do # "endBody"
  BY <1>10
<1> QED
  BY <1>1, <1>3, <1>8, <1>9, <1>19, <1>20, <1>21, <1>22, <1>23, HeadTurned

\* The parts of a loop, those that need not be there included.
LEMMA OptionalRead ==
    ASSUME NEW p, NEW place \in Places, NEW part \in Nat, NEW stmt, stmt = None \/ stmt \in Statements
    PROVE  /\ Optional(place, part, stmt) \in Seq(Quiet(p))
           /\ Reads(Optional(place, part, stmt), IfAny(stmt))
<1>1. CASE stmt = None
  <2>1. Optional(place, part, stmt) = <<>> /\ IfAny(stmt) = <<>>
    BY <1>1 DEF Optional, IfAny
  <2>2. <<>> \in Seq(Quiet(p)) /\ <<>> \in Seq(Statements) /\ Listing(<<>>, <<>>)
    BY DEF Listing
  <2>3. Reads(<<>>, <<>>)
    BY <2>2, ListingReads
  <2> QED
    BY <2>1, <2>2, <2>3
<1>2. CASE stmt # None
  <2>1. Optional(place, part, stmt) = Parts(place, part, <<stmt>>) /\ IfAny(stmt) = <<stmt>>
    BY <1>2 DEF Optional, IfAny
  <2>2. <<stmt>> \in Seq(Statements)
    BY <1>2
  <2> QED
    BY <2>1, <2>2, PartsRead
<1> QED
  BY <1>1, <1>2

LEMMA ReadsGoes ==
    ASSUME NEW T, NEW items \in Seq(T), NEW stmts, Reads(items, stmts) PROVE Goes(T, items, {})
BY DEF Reads, Goes

LEMMA ForParts ==
    ASSUME NEW s \in Statements, s.op = "for"
    PROVE  /\ s.body \in Seq(Statements) /\ s.cond \in Exprs
           /\ s.init = None \/ s.init \in Statements
           /\ s.iter = None \/ s.iter \in Statements
BY StatementsAssumption DEF Exprs

\* The loop that is entered is on top.
LEMMA TopIs ==
    ASSUME NEW lp \in Seq(LoopPairs), NEW m \in Nat, NEW r \in Nat,
           NEW mp, mp = Append(lp, [break |-> m, continue |-> r])
    PROVE  mp \in Seq(LoopPairs) /\ OnTop(mp, lp, m, r)
<1>1. [break |-> m, continue |-> r] \in LoopPairs
  BY DEF LoopPairs
<1>2. SubSeq(mp, 1, Len(mp) - 1) = lp /\ mp[Len(mp)] = [break |-> m, continue |-> r]
  BY <1>1, PoppedPushed
<1> QED
  BY <1>1, <1>2 DEF OnTop

\* A loop is entered.
LEMMA ReturnsOfEnterLoop == ASSUME Ready, After, EnterLoop PROVE HoldNow'
<1>1. TypeOK /\ TypeOK' /\ phase' # "crashed"
  BY DEF Ready, After
<1> DEFINE n == Len(blocks)
           s == Now.stmt
           init == Optional(Now.at, 1, s.init)
           iter == Optional(Now.at, 3, s.iter)
           body == Parts(Now.at, 4, s.body)
           cond == [do |-> "loopCond", at |-> Now.at \o <<2, 1>>, cond |-> s.cond, merge |-> n + 5]
           top == [break |-> n + 5, continue |-> n + 3]
<1>2. ~Crash
  BY <1>1 DEF Crash
<1>3. /\ program' = program /\ decl' = decl /\ made' = made
      /\ agenda # <<>>
      /\ agenda' = Rounds(init, cond, iter, body, n + 2, n + 3, n + 4, n + 5) \o Rest
      /\ at' = n + 1 /\ loops' = Append(loops, top) /\ Now.do = "stmt"
      /\ blocks' = AddTerm(blocks, at, Jump(n + 1)) \o [i \in 1..5 |-> NewBlock(blocks[at].func)]
      /\ s.op = "for" /\ ~Refused(s) /\ at # Null
  BY <1>2 DEF EnterLoop, AtHead, Now, Stays, Rounds
<1>4. n \in Nat /\ Now.at \in Places /\ s \in Statements /\ at \in 1..n
      /\ blocks \in Seq(Blocks(program, n)) /\ loops \in Seq(LoopPairs)
  <2>1. n \in Nat /\ Now.at \in Places /\ s \in Statements /\ at \in 0..n
        /\ blocks \in Seq(Blocks(program, n))
    BY <1>1, <1>3, TypesAtHead
  <2>2. at # 0
    BY <1>3 DEF Null
  <2> QED
    BY <1>1, <2>1, <2>2, LoopsArePairs
<1>5. LoopOf(s)
  BY <1>3, <1>4, LoopSays
<1>6. /\ s.body \in Seq(Statements) /\ s.cond \in Exprs
      /\ s.init = None \/ s.init \in Statements
      /\ s.iter = None \/ s.iter \in Statements
  BY <1>3, <1>4, ForParts
<1>7. /\ init \in Seq(Quiet(program)) /\ Reads(init, IfAny(s.init))
      /\ iter \in Seq(Quiet(program)) /\ Reads(iter, IfAny(s.iter))
      /\ body \in Seq(Quiet(program)) /\ Reads(body, s.body)
  BY <1>4, <1>6, OptionalRead, PartsRead
<1>8. /\ cond \in Quiet(program) /\ To(cond) = Null
      /\ CondOf(cond, s, n + 4, n + 5)
  <2>1. Now.at \o <<2, 1>> \in Places
    BY <1>4 DEF Places
  <2>2. cond \in CondItems(n + 5)
    BY <1>4, <1>6, <2>1 DEF CondItems
  <2>3. n + 5 \in Nat
    BY <1>4
  <2>4. n + 5 - 1 = n + 4
    BY <1>4
  <2> QED
    BY <2>2, <2>3, <2>4, QuietKinds DEF To, Moves, CondOf
<1>9. PICK it, i, h, j, w, q, r, b, m, c, Q, t, f :
          /\ it = Now /\ i = init /\ h = cond /\ j = iter /\ w = body
          /\ q = n + 2 /\ r = n + 3 /\ b = n + 4 /\ m = n + 5 /\ c = n + 1
          /\ Q = Quiet(program) /\ t = s /\ f = blocks[at].func
  OBVIOUS
<1> HIDE DEF init, iter, body, cond, s
<1> DEFINE new == Rounds(i, h, j, w, q, r, b, m)
<1>10. agenda' = new \o Rest
  BY <1>3, <1>9
<1>11. it.do = "stmt" /\ it.stmt = t
  BY <1>3, <1>9 DEF s
<1>12. /\ {q, r, b, m, c} \subseteq (n + 1)..(n + 5)
       /\ {q, r, b, m} \subseteq Nat \ {0} /\ Null \notin {q, r, b, m}
       /\ q # r /\ q # b /\ q # m /\ r # b /\ r # m /\ b # m /\ c \notin {q, r, b, m}
  BY <1>4, <1>9 DEF Null
<1>13. /\ Wrote(blocks, at, Jump(c), blocks')
       /\ DOMAIN blocks' \ DOMAIN blocks = (n + 1)..(n + 5)
       /\ \A d \in DOMAIN blocks' \ DOMAIN blocks : blocks'[d].func = blocks[at].func
  <2>1. PICK term : term = Jump(c)
    OBVIOUS
  <2>2. PICK k \in Nat : k = 5
    OBVIOUS
  <2>3. blocks' = More(AddTerm(blocks, at, term), blocks[at].func, k)
    BY <1>3, <1>9, <2>1, <2>2 DEF More
  <2>4. /\ Wrote(blocks, at, term, blocks')
        /\ DOMAIN blocks' \ DOMAIN blocks = (Len(blocks) + 1)..(Len(blocks) + k)
        /\ \A d \in DOMAIN blocks' \ DOMAIN blocks : blocks'[d].func = blocks[at].func
    <3>1. at \in 1..Len(blocks) /\ n \in Nat /\ blocks \in Seq(Blocks(program, n))
      BY <1>4
    <3> HIDE DEF n
    <3> QED
      BY <2>3, <3>1, NewBlocksWrote
  <2> QED
    BY <2>1, <2>2, <2>4
<1>14. Null \notin DOMAIN blocks'
  BY <1>1, SMTT(60) DEF Null, TypeOK
<1>15. Jumps({q, r, b, m}) \subseteq Q /\ [do |-> "closeLoop"] \in Q
  <2>1. \A d \in {q, r, b, m} : Jumps({d}) \subseteq Q
    BY <1>9, <1>12, QuietKinds
  <2>2. Jumps({q, r, b, m}) = Jumps({q}) \cup Jumps({r}) \cup Jumps({b}) \cup Jumps({m})
    BY DEF Jumps
  <2> QED
    BY <1>9, <2>1, <2>2, QuietKinds
<1>16. loops' \in Seq(LoopPairs) /\ OnTop(loops', loops, m, r)
  <2>1. loops' = Append(loops, [break |-> m, continue |-> r])
    BY <1>3, <1>9
  <2> QED
    BY <1>4, <1>12, <2>1, TopIs
<1>17. Goes(Q, i, {}) /\ Goes(Q, j, {}) /\ Goes(Q, w, {})
  BY <1>7, <1>9, ReadsGoes
<1>18. /\ h \in Q /\ To(h) = Null /\ CondOf(h, t, b, m) /\ LoopOf(t)
       /\ Reads(i, IfAny(t.init)) /\ Reads(j, IfAny(t.iter)) /\ Reads(w, t.body)
  BY <1>5, <1>7, <1>8, <1>9
<1>19. {c, q, r, b, m} \subseteq DOMAIN blocks' \ DOMAIN blocks
  BY <1>12, <1>13
<1>20. Turns(blocks, at, loops, <<it>>, Jump(c), blocks', c, loops', new)
  <2> HIDE DEF n
  <2> QED
    BY <1>4, <1>11, <1>12, <1>13, <1>14, <1>15, <1>16, <1>17, <1>18, <1>19, TurnFor
<1>21. new \in Seq(Q)
  <2>1. RoundParts(Q, i, h, j, w, q, r, b, m)
    BY <1>12, <1>15, <1>17, <1>18, RoundItems
  <2> HIDE DEF new
  <2>2. \E x : new = x /\ Goes(Q, x, {q, r, b, m})
    BY <2>1 DEF RoundParts, new
  <2> QED
    BY <2>2 DEF Goes
<1>22. HasEnd(program, agenda)
  <2>1. ~InGlobalScope
    BY <1>3 DEF Refused
  <2> QED
    BY <1>3, <2>1, ModuleLevel
<1> HIDE DEF new
<1>23. new \in Seq(Tasks(program)) /\ Plain(new)
  BY <1>9, <1>21, QuietSeq
<1>24. PICK term : term = Jump(c)
  OBVIOUS
<1>25. Turns(blocks, at, loops, <<it>>, term, blocks', at', loops', new)
  BY <1>3, <1>9, <1>20, <1>24
<1>26. \A d \in DOMAIN blocks' \ DOMAIN blocks :
            at \in DOMAIN blocks /\ blocks'[d].func = blocks[at].func
  BY <1>4, <1>13
<1>27. it.do # "endBody"
  BY <1>11
<1> QED
  BY <1>1, <1>3, <1>9, <1>10, <1>22, <1>23, <1>25, <1>26, <1>27, HeadTurned

\* No body of the file can leave a loop that it stands in.
LEMMA BodiesStay ==
    ASSUME TypeOK, BreaksAreInLoops, NEW f \in FuncsOf(program)
    PROVE  \A v, lq : LetsAll(v, lq, program[f].body)
<1> DEFINE stmts == program[f].body
<1>1. f \in 1..Len(program) /\ program[f].op = "func"
  BY DEF FuncsOf
<1>2. stmts \in Seq(Statements)
  BY BodyIsOfStatements
<1>3. ~AnyOf(stmts, Loose)
  <2>1. stmts \in Bodies
    BY <1>1 DEF Bodies
  <2> QED
    BY <2>1 DEF BreaksAreInLoops
<1> HIDE DEF stmts
<1>4. \A k \in 1..Len(stmts) : stmts[k] \in Statements /\ stmts[k] \notin Loose
  BY <1>2, <1>3 DEF AnyOf
<1>5. ~Reaches(stmts, Breaking) /\ ~Reaches(stmts, Continuing)
  BY <1>4, LeavingAssumption DEF Reaches
<1> QED
  BY <1>5 DEF LetsAll, stmts

StatementsOf(p, f) ==
    [k \in 1..Len(p[f].body) |-> [do |-> "stmt", at |-> <<f, k>>, stmt |-> p[f].body[k]]]

\* The statements of the body of a function.
LEMMA BodyReads ==
    ASSUME TypeOK, NEW f \in FuncsOf(program)
    PROVE  /\ StatementsOf(program, f) \in Seq(Tasks(program))
           /\ Plain(StatementsOf(program, f)) /\ Reads(StatementsOf(program, f), program[f].body)
<1> DEFINE items == StatementsOf(program, f)
           stmts == program[f].body
<1>1. items \in Seq(Tasks(program))
  <2>1. items \in Seq(Items(program, 0))
    BY StatementsOfBody DEF StatementsOf
  <2> QED
    BY <2>1, TasksOf
<1>2. stmts \in Seq(Statements)
  BY BodyIsOfStatements
<1>3. Len(items) = Len(stmts) /\ \A k \in 1..Len(stmts) : items[k].do = "stmt" /\ items[k].stmt = stmts[k]
  BY <1>2 DEF StatementsOf
<1> HIDE DEF items, stmts
<1>4. Listing(items, stmts)
  BY <1>3 DEF Listing
<1>5. Reads(items, stmts)
  BY <1>1, <1>2, <1>4, ListingReads
<1>6. Plain(items)
  BY <1>3 DEF Plain
<1> QED
  BY <1>1, <1>5, <1>6 DEF items, stmts

Begins(f, rest) ==
    /\ BeginBody(f, at, rest) /\ Of(blocks, f) = {}
    /\ loops' = loops /\ program' = program /\ decl' \in Nat
    /\ program[f].template \/ rest = <<>>

\* The beginning of a body, from the loop of Analyze or for a template.
LEMMA ReturnsOfBeginBody ==
    ASSUME Ready, TypeOK', NEW f \in FuncsOf(program), NEW rest \in Seq(Items(program, Len(blocks))),
           Begins(f, rest), Hold(program, blocks, at, loops, rest, decl, made),
           Counted(program, f, decl, made, decl', made')
    PROVE  HoldNow'
<1>1. TypeOK /\ BreaksAreInLoops
  BY DEF Ready
<1> DEFINE items == StatementsOf(program, f)
           end == [do |-> "endBody", func |-> f, block |-> at, depth |-> Len(vars), loops |-> loops]
<1>2. /\ blocks' = Append(blocks, NewBlock(f)) /\ at' = Len(blocks) + 1
      /\ agenda' = (items \o <<end>>) \o rest
  BY DEF Begins, BeginBody, BodyOf, StatementsOf
<1>3. Len(blocks) \in Nat /\ blocks \in Seq(Blocks(program, Len(blocks))) /\ at \in 0..Len(blocks)
      /\ DOMAIN blocks = 1..Len(blocks) /\ loops \in Seq(LoopPairs) /\ decl \in Nat
  <2>1. Len(blocks) \in Nat /\ blocks \in Seq(Blocks(program, Len(blocks))) /\ at \in 0..Len(blocks)
        /\ DOMAIN blocks = 1..Len(blocks) /\ decl \in Nat
    BY <1>1, StatementsAssumption, SMTT(60) DEF TypeOK
  <2> QED
    BY <1>1, <2>1, LoopsArePairs
<1>4. PICK e : e = end
  OBVIOUS
<1>5. EndOf(e, f, at) /\ e \in Tasks(program)
  <2>1. end \in Items(program, Len(blocks))
    BY <1>1, <1>3, EndOfBody
  <2> QED
    BY <1>3, <1>4, <2>1, TasksOf DEF EndOf
<1>6. items \in Seq(Tasks(program)) /\ Plain(items) /\ Reads(items, program[f].body)
  BY <1>1, BodyReads
<1>7. \A v, lq : LetsAll(v, lq, program[f].body)
  BY <1>1, BodiesStay
<1>8. rest \in Seq(Tasks(program)) /\ Tos(rest) \subseteq DOMAIN blocks
  BY <1>3, TasksOf, TosWithin
<1>9. at \in {Null} \cup DOMAIN blocks
  BY <1>3 DEF Null
<1> HIDE DEF items, end
<1>10. BeginsAt(program, blocks, at, f, items, e, rest)
  BY <1>5, <1>6, <1>7, <1>8, <1>9 DEF BeginsAt, Begins
<1>11. Opens(blocks, f, blocks') /\ decl' \in Nat
  BY <1>2 DEF Opens, Begins
<1>12. PICK p, bs, cs, a, lp, n, k, is, js, its :
          /\ p = program /\ bs = blocks /\ cs = blocks' /\ a = at /\ lp = loops
          /\ n = decl /\ k = decl' /\ is = made /\ js = made' /\ its = items
  OBVIOUS
<1>13. PICK B : bs \in Seq(B)
  BY <1>3, <1>12
<1>14. Hold(p, cs, Len(bs) + 1, lp, (its \o <<e>>) \o rest, k, js)
  <2>1. /\ lp \in Seq(LoopPairs) /\ f \in FuncsOf(p) /\ Opens(bs, f, cs)
        /\ its \in Seq(Tasks(p)) /\ e \in Tasks(p) /\ rest \in Seq(Tasks(p))
        /\ BeginsAt(p, bs, a, f, its, e, rest) /\ n \in Nat /\ k \in Nat
        /\ Hold(p, bs, a, lp, rest, n, is) /\ Counted(p, f, n, is, k, js)
    BY <1>3, <1>5, <1>6, <1>8, <1>10, <1>11, <1>12
  <2> QED
    BY <1>13, <2>1, HoldBegins
<1>15. /\ p = program' /\ cs = blocks' /\ Len(bs) + 1 = at' /\ lp = loops'
       /\ (its \o <<e>>) \o rest = agenda' /\ k = decl' /\ js = made'
  BY <1>2, <1>4, <1>12 DEF Begins
<1> QED
  BY <1>14, <1>15 DEF HoldNow

\* A template is given its instance.
LEMMA ReturnsOfInstantiate == ASSUME Ready, After, Instantiate PROVE HoldNow'
<1>1. TypeOK /\ TypeOK' /\ HoldNow
  BY DEF Ready, After
<1> DEFINE f == Evaluated.callee
<1>2. /\ Pending(Evaluated) /\ made' = made \cup {f} /\ BeginBody(f, at, agenda)
      /\ loops' = loops /\ program' = program /\ decl' = decl
  BY DEF Instantiate, Stays
<1>3. f \in FuncsOf(program)
  BY <1>1, CalleeIsAFunction
<1>4. program[f].template /\ f \notin made
  BY <1>2 DEF Pending
<1> HIDE DEF f
<1>5. decl \in Nat /\ agenda \in Seq(Items(program, Len(blocks)))
  BY <1>1, StatementsAssumption, SMTT(60) DEF TypeOK
<1>6. Of(blocks, f) = {}
  BY <1>1, <1>4 DEF HoldNow, Hold, Begun
<1>7. Begins(f, agenda)
  BY <1>2, <1>4, <1>5, <1>6 DEF Begins
<1>8. Counted(program, f, decl, made, decl', made')
  BY <1>2, <1>4, <1>5 DEF Counted
<1> QED
  BY <1>1, <1>3, <1>5, <1>7, <1>8, ReturnsOfBeginBody DEF HoldNow

\* A body ends: without a value to return, by a return that is added.
LEMMA ReturnsOfEndBody == ASSUME Ready, After, EndBody PROVE HoldNow'
<1>1. TypeOK /\ TypeOK' /\ HoldNow
  BY DEF Ready, After
<1>2. /\ agenda # <<>> /\ Now.do = "endBody" /\ agenda' = Rest /\ loops' = loops
      /\ blocks' = IF program[Now.func].ret THEN blocks
                   ELSE AddTerm(blocks, at, Ret(<<Now.func>>))
      /\ at' = IF program[Now.func].template THEN Now.block ELSE at
      /\ made' = made /\ program' = program /\ decl' = decl
  BY DEF EndBody, AtHead, Now, Stays
<1>3. PICK e, term : e = Now /\ term = IF program[Now.func].ret THEN Open ELSE Ret(<<Now.func>>)
  OBVIOUS
<1>4. Len(blocks) \in Nat /\ blocks \in Seq(Blocks(program, Len(blocks))) /\ at \in 0..Len(blocks)
      /\ DOMAIN blocks = 1..Len(blocks) /\ loops \in Seq(LoopPairs)
  <2>1. Len(blocks) \in Nat /\ blocks \in Seq(Blocks(program, Len(blocks))) /\ at \in 0..Len(blocks)
        /\ DOMAIN blocks = 1..Len(blocks)
    BY <1>1 DEF TypeOK
  <2> QED
    BY <1>1, <2>1, LoopsArePairs
<1>5. Wrote(blocks, at, term, blocks') /\ DOMAIN blocks' = DOMAIN blocks
  <2>1. CASE program[Now.func].ret
    BY <1>2, <1>3, <2>1, WroteSame
  <2>2. CASE ~program[Now.func].ret
    <3>1. blocks' = AddTerm(blocks, at, term)
      BY <1>2, <1>3, <2>2
    <3> QED
      BY <1>4, <3>1, AddTermWrote
  <2> QED
    BY <2>1, <2>2
<1>6. Targets(term) = {} /\ (program[e.func].ret => term = Open)
      /\ (program[e.func].template => at' = e.block)
  BY <1>2, <1>3, TargetsOf
<1>7. e \in Tasks(program) /\ e.do = "endBody" /\ Rest \in Seq(Tasks(program))
      /\ agenda = <<e>> \o Rest /\ Tos(Rest) \subseteq DOMAIN blocks
  <2>1. Now \in Items(program, Len(blocks)) /\ Rest \in Seq(Items(program, Len(blocks)))
        /\ agenda = <<Now>> \o Rest
    BY <1>1, <1>2, HeadOfAgenda
  <2> QED
    BY <1>2, <1>3, <1>4, <2>1, TasksOf, TosWithin
<1>8. PICK p, bs, cs, a, lp, c, rest, n, is :
          /\ p = program /\ bs = blocks /\ cs = blocks' /\ a = at /\ lp = loops /\ c = at'
          /\ rest = Rest /\ n = decl /\ is = made
  OBVIOUS
<1>9. PICK B, C : bs \in Seq(B) /\ cs \in Seq(C)
  BY <1>1, <1>4, <1>8 DEF TypeOK
<1>10. Hold(p, bs, a, lp, <<e>> \o rest, n, is)
  BY <1>1, <1>7, <1>8 DEF HoldNow
<1>11. Hold(p, cs, c, lp, rest, n, is)
  <2>1. /\ lp \in Seq(LoopPairs) /\ e \in Tasks(p) /\ e.do = "endBody" /\ rest \in Seq(Tasks(p))
        /\ Tos(rest) \subseteq DOMAIN bs /\ Wrote(bs, a, term, cs) /\ DOMAIN cs = DOMAIN bs
        /\ Targets(term) = {}
        /\ (p[e.func].ret => term = Open) /\ (p[e.func].template => c = e.block)
    BY <1>4, <1>5, <1>6, <1>7, <1>8
  <2> QED
    BY <1>9, <1>10, <2>1, HoldEnds
<1> QED
  BY <1>2, <1>8, <1>11 DEF HoldNow

\* Between the bodies nothing is cut, and nothing else is changed.
LEMMA NoCutOfPlain ==
    ASSUME NEW p, NEW items \in Seq(Tasks(p)), Plain(items), NEW pre, NEW end, NEW post
    PROVE  ~Cut(p, items, pre, end, post)
<1> SUFFICES ASSUME Cut(p, items, pre, end, post) PROVE FALSE
  OBVIOUS
<1>1. PICK rest : rest = <<>> /\ rest \in Seq(Tasks(p))
  <2>1. <<>> \in Seq(Tasks(p))
    OBVIOUS
  <2> QED
    BY <2>1
<1>2. items \o rest = items /\ rest \in Seq(Tasks(p))
  BY <1>1
<1>3. Cut(p, items \o rest, pre, end, post) /\ rest \in Seq(Tasks(p))
  BY <1>2
<1>4. \E mid \in Seq(Tasks(p)) : pre = items \o mid /\ Cut(p, rest, mid, end, post)
  BY <1>3, CutLater, SMTT(60)
<1> QED
  BY <1>1, <1>4, NoCut

LEMMA HoldBetween ==
    ASSUME NEW p, NEW bs, NEW a, NEW lp, NEW next \in Nat, NEW later \in Nat, next <= later, NEW instances,
           NEW items \in Seq(Tasks(p)), AtModuleLevel(items),
           \A f : Of(bs, f) # {} => f \in Nat,
           Hold(p, bs, a, lp, <<>>, next, instances)
    PROVE  Hold(p, bs, a, lp, items, later, instances)
<1>1. Plain(items)
  BY DEF AtModuleLevel, Plain
<1>2. \A pre, end, post : ~Cut(p, items, pre, end, post) /\ ~Cut(p, <<>>, pre, end, post)
  BY <1>1, NoCutOfPlain, NoCut
<1>3. BodiesStand(p, bs, a, lp, items)
  BY <1>2 DEF BodiesStand
<1>4. OthersRest(p, bs, a, items)
  BY <1>2 DEF Hold, OthersRest, Runs, Apart
<1>5. Begun(p, bs, later, instances)
  BY DEF Hold, Begun
<1> QED
  BY <1>3, <1>4, <1>5 DEF Hold, Tailed

\* The loop of Analyze.
LEMMA ReturnsOfDeclare == ASSUME Ready, After, Declare PROVE HoldNow'
<1>1. TypeOK /\ TypeOK' /\ HoldNow /\ errors = {} /\ errors' = {}
  BY DEF Ready, After
<1>2. /\ agenda = <<>> /\ decl \in 1..Len(program) /\ decl' = decl + 1 /\ decl \in Nat
      /\ loops' = loops /\ made' = made /\ program' = program
  <2>1. decl \in 1..(Len(program) + 1) /\ Len(program) \in Nat
    BY <1>1, StatementsAssumption DEF TypeOK
  <2> QED
    BY <2>1 DEF Declare
<1>3. Hold(program, blocks, at, loops, <<>>, decl, made)
  BY <1>1, <1>2 DEF HoldNow
<1>4. \A f : Of(blocks, f) # {} => f \in Nat
  <2>1. \A f : Of(blocks, f) # {} => f \in FuncsOf(program)
    BY <1>3 DEF Hold, Begun
  <2> QED
    BY <2>1 DEF FuncsOf
<1>5. ASSUME UNCHANGED <<blocks, at>>, AtModuleLevel(agenda'), agenda' \in Seq(Tasks(program))
      PROVE  HoldNow'
  <2>1. Hold(program, blocks, at, loops, agenda', decl', made)
    BY <1>2, <1>3, <1>4, <1>5, HoldBetween
  <2> QED
    BY <1>2, <1>5, <2>1 DEF HoldNow
<1>6. CASE program[decl].op = "func" /\ program[decl].template /\ InGlobalScope
  <2>1. UNCHANGED <<blocks, at, agenda>>
    BY <1>6 DEF Declare
  <2>2. AtModuleLevel(<<>>) /\ <<>> \in Seq(Tasks(program))
    BY DEF AtModuleLevel
  <2> QED
    BY <1>2, <1>5, <2>1, <2>2
<1>7. CASE program[decl].op = "func" /\ ~program[decl].template /\ InGlobalScope
  <2>1. BeginBody(decl, at, <<>>)
    BY <1>7 DEF Declare
  <2>2. decl \in FuncsOf(program)
    BY <1>2, <1>7 DEF FuncsOf
  <2>3. Of(blocks, decl) = {}
    BY <1>2, <1>3, <1>7 DEF Hold, Begun
  <2>4. PICK rest : rest = <<>> /\ rest \in Seq(Items(program, Len(blocks)))
    <3>1. <<>> \in Seq(Items(program, Len(blocks)))
      OBVIOUS
    <3> QED
      BY <3>1
  <2>5. Begins(decl, rest)
    BY <1>2, <2>1, <2>3, <2>4 DEF Begins
  <2>6. Counted(program, decl, decl, made, decl', made')
    BY <1>2, <1>7 DEF Counted
  <2>7. Hold(program, blocks, at, loops, rest, decl, made)
        /\ rest \in Seq(Items(program, Len(blocks)))
    BY <1>3, <2>4
  <2> QED
    BY <1>1, <2>2, <2>5, <2>6, <2>7, ReturnsOfBeginBody
<1>8. CASE program[decl].op # "func"
  <2> DEFINE item == [do |-> "stmt", at |-> <<decl>>, stmt |-> program[decl]]
  <2>1. UNCHANGED <<blocks, at>> /\ agenda' = <<item>>
    BY <1>8 DEF Declare
  <2>2. item \in StmtItems
    BY <1>1, <1>2, StatementsAssumption DEF StmtItems, Places, TypeOK
  <2>3. item \in Tasks(program) /\ item.do = "stmt"
    BY <2>2, QuietKinds DEF Quiet
  <2> HIDE DEF item
  <2>4. AtModuleLevel(<<item>>) /\ <<item>> \in Seq(Tasks(program))
    BY <2>3 DEF AtModuleLevel
  <2> QED
    BY <1>5, <2>1, <2>4
<1>9. ~(program[decl].op = "func" /\ ~InGlobalScope)
  BY <1>1 DEF Declare, Report
<1>10. program[decl].op = "func" => program[decl].template \in BOOLEAN
  BY <1>1, <1>2, StatementsAssumption DEF TypeOK
<1> QED
  BY <1>6, <1>7, <1>8, <1>9, <1>10

ReturnsInv == phase = "analyze" /\ errors = {} /\ BreaksAreInLoops => HoldNow

\* It holds at the beginning and is kept by every step.
LEMMA ReturnsOfInit == Init => ReturnsInv
<1> SUFFICES ASSUME Init PROVE HoldNow
  BY DEF ReturnsInv
<1>1. agenda = <<>> /\ blocks = <<>>
  BY DEF Init
<1>2. \A f : Of(blocks, f) = {}
  BY <1>1 DEF Of
<1>3. \A pre, end, post : ~Cut(program, agenda, pre, end, post)
  BY <1>1, NoCut
<1>4. BodiesStand(program, blocks, at, loops, agenda)
  BY <1>3 DEF BodiesStand
<1>5. OthersRest(program, blocks, at, agenda) /\ Begun(program, blocks, decl, made)
  BY <1>2 DEF OthersRest, Begun
<1>6. Tailed(program, agenda)
  BY <1>1 DEF Tailed, AtModuleLevel
<1> QED
  BY <1>4, <1>5, <1>6 DEF HoldNow, Hold

LEMMA ReturnsOfNext == ASSUME IInv, ReturnsInv, Next PROVE ReturnsInv'
<1> SUFFICES ASSUME phase' = "analyze", errors' = {}, BreaksAreInLoops'
             PROVE  HoldNow'
  BY DEF ReturnsInv
<1>1. TypeOK /\ StackInv /\ TypeOK'
  BY InvOfNext DEF IInv
<1>2. program' = program /\ errors = {}
  BY ReportsStay
<1>3. BreaksAreInLoops
  BY <1>2 DEF BreaksAreInLoops, Bodies
<1>4. CASE StartPasses \/ RunOnFunction \/ Verdict
  BY <1>4 DEF StartPasses, RunOnFunction, Verdict
<1>5. CASE ~(StartPasses \/ RunOnFunction \/ Verdict)
  <2>1. phase = "analyze"
    BY <1>5 DEF Next, Declare, Instantiate, EndBody, Refuse, ReturnOutside, Start, DefineVar,
          AddExprStmt, Return, IfFails, ConstantIf, Mute, RunTimeIf, EnterLoop, LoopCondition,
          CloseLoop, BreakContinue, OpenScope, CloseScope, MoveOrJump, AtHead, Finish
  <2>2. HoldNow
    BY <1>2, <1>3, <2>1 DEF ReturnsInv
  <2>3. Ready /\ After
    BY <1>1, <1>2, <1>3, <2>1, <2>2 DEF Ready, After
  <2>4. ~Refuse
    BY DEF Refuse, Report
  <2>5. ~ReturnOutside
    BY DEF ReturnOutside, Crash
  <2>6. ~IfFails
    BY EvaluationReports DEF IfFails
  <2>7. CASE Declare \/ Instantiate \/ EndBody
    BY <2>3, <2>7, ReturnsOfDeclare, ReturnsOfInstantiate, ReturnsOfEndBody
  <2>8. CASE Start \/ DefineVar \/ AddExprStmt \/ Return
    BY <2>3, <2>8, ReturnsOfStart, ReturnsOfStraight, ReturnsOfReturn
  <2>9. CASE ConstantIf \/ Mute \/ RunTimeIf
    BY <2>3, <2>9, ReturnsOfConstantIf, ReturnsOfMute, ReturnsOfRunTimeIf
  <2>10. CASE EnterLoop \/ LoopCondition \/ BreakContinue
    BY <2>3, <2>10, ReturnsOfEnterLoop, ReturnsOfCondition, ReturnsOfBreak
  <2>11. CASE CloseLoop \/ OpenScope \/ CloseScope
    BY <2>3, <2>11, ReturnsOfScopes
  <2>12. CASE MoveOrJump
    <3>1. AtHead("moveTo") \/ AtHead("jumpTo")
      BY <2>12 DEF MoveOrJump
    <3> QED
      BY <2>3, <2>12, <3>1, ReturnsOfMove, ReturnsOfJump
  <2> QED
    BY <1>5, <2>4, <2>5, <2>6, <2>7, <2>8, <2>9, <2>10, <2>11, <2>12 DEF Next
<1> QED
  BY <1>4, <1>5

-----------------------------------------------------------------------------
(* What is reported before the passes is not the place of a function.      *)

Away(p, place) == ~(Len(place) = 1 /\ p[place[1]].op = "func")
AwayItem(p, it) ==
    /\ it.do \in {"stmt", "finish", "loopCond"} => Away(p, it.at)
    /\ it.do = "mute" => \A k \in 1..Len(it.other) : Away(p, it.other[k].at)
AwayTasks(p) == {it \in Tasks(p) : AwayItem(p, it)}

\* The items that have no place, and those that stand below another.
LEMMA AwayKinds ==
    ASSUME NEW p
    PROVE  /\ ScopeMarks \subseteq AwayTasks(p) /\ [do |-> "closeLoop"] \in AwayTasks(p)
           /\ \A b \in Nat : [do |-> "moveTo", block |-> b] \in AwayTasks(p)
           /\ \A b \in Nat \ {0} : Jumps({b}) \subseteq AwayTasks(p)
<1>1. \A it \in ScopeMarks \cup {[do |-> "closeLoop"]} : AwayItem(p, it)
  BY DEF ScopeMarks, AwayItem
<1>2. \A b : AwayItem(p, [do |-> "moveTo", block |-> b])
  BY DEF AwayItem
<1>3. \A b : \A it \in Jumps({b}) : AwayItem(p, it)
  BY DEF Jumps, AwayItem
<1>4. Quiet(p) \subseteq Tasks(p)
  BY DEF Quiet
<1> QED
  BY <1>1, <1>2, <1>3, <1>4, QuietKinds DEF AwayTasks

LEMMA PartsAway ==
    ASSUME NEW p, NEW place \in Places, NEW part \in Nat, NEW stmts \in Seq(Statements)
    PROVE  /\ Parts(place, part, stmts) \in Seq(AwayTasks(p))
           /\ \A k \in 1..Len(Parts(place, part, stmts)) : Away(p, Parts(place, part, stmts)[k].at)
           /\ Scoped(Parts(place, part, stmts)) \in Seq(AwayTasks(p))
<1> DEFINE items == Parts(place, part, stmts)
           Q == AwayTasks(p)
<1>1. items \in Seq(StmtItems)
  BY PartsType
<1>2. ASSUME NEW k \in 1..Len(items) PROVE Away(p, items[k].at) /\ items[k] \in Q
  <2>1. items[k].at = place \o <<part, k>> /\ items[k].do = "stmt" /\ k \in Nat
    BY DEF Parts
  <2>2. Len(place \o <<part, k>>) = Len(place) + 2 /\ Len(place) \in Nat
    BY <2>1 DEF Places
  <2>3. Away(p, items[k].at)
    BY <2>1, <2>2 DEF Away
  <2>4. items[k] \in StmtItems
    BY <1>1
  <2> HIDE DEF items
  <2>5. items[k] \in Tasks(p)
    BY <2>4, QuietKinds DEF Quiet
  <2> QED
    BY <2>1, <2>3, <2>5 DEF AwayTasks, AwayItem
<1>3. ScopeMarks \subseteq Q
  BY AwayKinds
<1> HIDE DEF items, Q
<1>4. items \in Seq(Q)
  BY <1>1, <1>2
<1>5. Scoped(items) \in Seq(Q)
  BY <1>3, <1>4, QuietScoped
<1> QED
  BY <1>2, <1>4, <1>5 DEF items, Q

LEMMA OptionalAway ==
    ASSUME NEW p, NEW place \in Places, NEW part \in Nat, NEW stmt, stmt = None \/ stmt \in Statements
    PROVE  Optional(place, part, stmt) \in Seq(AwayTasks(p))
<1>1. CASE stmt = None
  BY <1>1 DEF Optional
<1>2. CASE stmt # None
  <2>1. <<stmt>> \in Seq(Statements) /\ Optional(place, part, stmt) = Parts(place, part, <<stmt>>)
    BY <1>2 DEF Optional
  <2> QED
    BY <2>1, PartsAway
<1> QED
  BY <1>1, <1>2

AllAway == agenda \in Seq(AwayTasks(program))

\* The head of the agenda and what is left behind it.
LEMMA HeadAway ==
    ASSUME AllAway, agenda # <<>>
    PROVE  Now \in AwayTasks(program) /\ Rest \in Seq(AwayTasks(program)) /\ AwayItem(program, Now)
<1>1. Now \in AwayTasks(program) /\ Rest \in Seq(AwayTasks(program))
  BY DEF AllAway, Now, Rest
<1> QED
  BY <1>1 DEF AwayTasks

LEMMA AwayOfRest ==
    ASSUME AllAway, agenda # <<>>, agenda' = Rest, program' = program PROVE AllAway'
BY HeadAway DEF AllAway

\* The statements of a body stand below its function.
LEMMA BodyAway ==
    ASSUME TypeOK, NEW f \in FuncsOf(program) PROVE BodyOf(f, at) \in Seq(AwayTasks(program))
<1> DEFINE items == StatementsOf(program, f)
           end == [do |-> "endBody", func |-> f, block |-> at, depth |-> Len(vars), loops |-> loops]
           Q == AwayTasks(program)
<1>1. BodyOf(f, at) = items \o <<end>>
  BY DEF BodyOf, StatementsOf
<1>2. end \in Q
  <2>1. Len(blocks) \in Nat /\ at \in 0..Len(blocks)
    BY DEF TypeOK
  <2>2. end \in Items(program, Len(blocks))
    BY <2>1, EndOfBody
  <2>3. AwayItem(program, end)
    BY DEF AwayItem
  <2> QED
    BY <2>1, <2>2, <2>3, TasksOf DEF AwayTasks
<1>3. items \in Seq(Tasks(program)) /\ program[f].body \in Seq(Statements)
  BY BodyReads, BodyIsOfStatements
<1>4. ASSUME NEW k \in 1..Len(items) PROVE items[k] \in Q
  <2>1. items[k] = [do |-> "stmt", at |-> <<f, k>>, stmt |-> program[f].body[k]]
    BY <1>3 DEF StatementsOf
  <2>2. AwayItem(program, items[k])
    BY <2>1 DEF AwayItem, Away
  <2> QED
    BY <1>3, <2>2 DEF AwayTasks
<1> HIDE DEF items, end, Q
<1>5. items \in Seq(Q)
  BY <1>3, <1>4
<1> QED
  BY <1>1, <1>2, <1>5 DEF Q

Reported == \E e \in errors : Away(program, e)
SilentOr == (errors = {} /\ AllAway) \/ Reported

\* The expression of a statement that is reported is not that of a function.
LEMMA AwayOfEvaluate ==
    ASSUME errors = {}, program' = program, NEW e, NEW place, Evaluate(e, place), Away(program, place)
    PROVE  errors' = {} \/ Reported'
BY DEF Evaluate, Reported, Away

\* Nor is any other place that is reported.
LEMMA AwayOfReport ==
    ASSUME program' = program, NEW place, Report(place), Away(program, place)
    PROVE  Reported'
BY DEF Report, Reported, Away

Calm == TypeOK /\ StackInv /\ phase = "analyze" /\ errors = {} /\ AllAway

\* The steps that may report something.
LEMMA AwayOfStatements ==
    ASSUME Calm, phase' = "analyze",
           Refuse \/ DefineVar \/ AddExprStmt \/ Return \/ IfFails \/ LoopCondition
    PROVE  SilentOr'
<1>1. /\ agenda # <<>> /\ program' = program
      /\ Now.do \in {"stmt", "finish", "loopCond"}
  BY DEF Refuse, DefineVar, AddExprStmt, Return, IfFails, LoopCondition, AtHead, Finish, Stays, Crash, Now, Calm
<1>2. AwayItem(program, Now) /\ Away(program, Now.at)
  BY <1>1, HeadAway DEF AwayItem, Calm
<1>3. agenda' = Rest => AllAway'
  BY <1>1, AwayOfRest DEF Calm
<1>4. CASE Refuse
  BY <1>1, <1>2, <1>4, AwayOfReport DEF Refuse, SilentOr
<1>5. CASE DefineVar
  <2>1. Evaluate(Now.stmt.e, Now.at) /\ agenda' = Rest
    BY <1>5 DEF DefineVar, Crash
  <2> QED
    BY <1>1, <1>2, <1>3, <2>1, AwayOfEvaluate DEF SilentOr, Calm
<1>6. CASE AddExprStmt \/ IfFails
  <2>1. Evaluate(Now.stmt.e, Now.at) /\ agenda' = Rest
    BY <1>6 DEF AddExprStmt, IfFails
  <2> QED
    BY <1>1, <1>2, <1>3, <2>1, AwayOfEvaluate DEF SilentOr, Calm
<1>7. CASE Return
  <2>1. (Evaluate(Now.stmt.e, Now.at) \/ Report(Now.at)) /\ agenda' = Rest
    BY <1>7 DEF Return
  <2> QED
    BY <1>1, <1>2, <1>3, <2>1, AwayOfEvaluate, AwayOfReport DEF SilentOr, Calm
<1>8. CASE LoopCondition
  <2>1. Evaluate(Now.cond, Now.at)
    BY <1>8 DEF LoopCondition
  <2>2. CASE HasValue(Now.cond)
    <3>1. agenda' = Rest
      BY <1>8, <2>2 DEF LoopCondition
    <3> QED
      BY <1>1, <1>2, <1>3, <2>1, <3>1, AwayOfEvaluate DEF SilentOr, Calm
  <2>3. CASE ~HasValue(Now.cond)
    <3>1. errors' # {}
      BY <2>1, <2>3, EvaluationReports
    <3> QED
      BY <1>1, <1>2, <2>1, <3>1, AwayOfEvaluate DEF SilentOr, Calm
  <2> QED
    BY <2>2, <2>3
<1> QED
  BY <1>4, <1>5, <1>6, <1>7, <1>8

\* The steps that put nothing on the agenda.
LEMMA AwayOfSteps ==
    ASSUME Calm, phase' = "analyze",
           EndBody \/ CloseLoop \/ BreakContinue \/ OpenScope \/ CloseScope \/ MoveOrJump
    PROVE  SilentOr'
<1>1. agenda # <<>> /\ program' = program /\ agenda' = Rest /\ errors' = errors
  BY DEF EndBody, CloseLoop, BreakContinue, OpenScope, CloseScope, MoveOrJump, AtHead, Stays, Crash, Calm
<1> QED
  BY <1>1, AwayOfRest DEF SilentOr, Calm

\* A function is reported only behind a scope that was left open.
LEMMA AwayOfDeclare == ASSUME Calm, Declare PROVE SilentOr'
<1>1. /\ agenda = <<>> /\ decl \in 1..Len(program) /\ program' = program /\ TypeOK /\ errors = {}
      /\ program[decl] \in Statements
  <2>1. decl \in 1..(Len(program) + 1) /\ Len(program) \in Nat /\ program \in Seq(Statements)
    BY StatementsAssumption DEF TypeOK, Calm
  <2>2. decl \in 1..Len(program)
    BY <2>1 DEF Declare
  <2> QED
    BY <2>1, <2>2 DEF Declare, Calm
<1>2. InGlobalScope
  <2>1. Standing(Outside)
    BY <1>1, LeadsNowhere DEF StackInv, Calm
  <2> QED
    BY <1>1, <2>1 DEF Standing, Outside, InGlobalScope
<1>3. errors' = {}
  BY <1>1, <1>2 DEF Declare
<1>4. CASE program[decl].op # "func"
  <2> DEFINE item == [do |-> "stmt", at |-> <<decl>>, stmt |-> program[decl]]
  <2>1. agenda' = <<item>>
    BY <1>4 DEF Declare
  <2>2. item \in StmtItems
    BY <1>1 DEF StmtItems, Places
  <2>3. item \in Tasks(program)
    BY <2>2, QuietKinds DEF Quiet
  <2>4. AwayItem(program, item)
    BY <1>4 DEF AwayItem, Away
  <2>5. item \in AwayTasks(program)
    BY <2>3, <2>4 DEF AwayTasks
  <2> HIDE DEF item
  <2> QED
    BY <1>1, <1>3, <2>1, <2>5 DEF SilentOr, AllAway
<1>5. CASE program[decl].op = "func" /\ program[decl].template
  <2>1. agenda' = agenda
    BY <1>2, <1>5 DEF Declare
  <2> QED
    BY <1>1, <1>3, <2>1 DEF SilentOr, AllAway, Calm
<1>6. CASE program[decl].op = "func" /\ ~program[decl].template
  <2>1. agenda' = BodyOf(decl, at) \o <<>>
    BY <1>2, <1>6 DEF Declare, BeginBody
  <2>2. decl \in FuncsOf(program)
    BY <1>1, <1>6 DEF FuncsOf
  <2>3. BodyOf(decl, at) \in Seq(AwayTasks(program))
    BY <1>1, <2>2, BodyAway
  <2>4. agenda' \in Seq(AwayTasks(program))
    BY <2>1, <2>3
  <2> QED
    BY <1>1, <1>3, <2>4 DEF SilentOr, AllAway
<1>7. program[decl].op = "func" => program[decl].template \in BOOLEAN
  BY <1>1, StatementsAssumption
<1> QED
  BY <1>4, <1>5, <1>6, <1>7

\* The steps that put something on the agenda.
LEMMA AwayOfInstantiate == ASSUME Calm, Instantiate PROVE SilentOr'
<1>1. TypeOK /\ errors = {} /\ errors' = errors /\ program' = program
  BY DEF Calm, Instantiate, Stays
<1>2. agenda' = BodyOf(Evaluated.callee, at) \o agenda
  BY DEF Instantiate, BeginBody
<1>3. Evaluated.callee \in FuncsOf(program)
  BY <1>1, CalleeIsAFunction
<1>4. BodyOf(Evaluated.callee, at) \in Seq(AwayTasks(program)) /\ agenda \in Seq(AwayTasks(program))
  BY <1>1, <1>3, BodyAway DEF Calm, AllAway
<1>5. agenda' \in Seq(AwayTasks(program))
  BY <1>2, <1>4
<1> QED
  BY <1>1, <1>5 DEF SilentOr, AllAway

LEMMA AwayOfStart == ASSUME Calm, Start PROVE SilentOr'
<1>1. TypeOK /\ errors = {} /\ errors' = errors /\ program' = program /\ agenda # <<>> /\ Now.do = "stmt"
      /\ Now.stmt.op \in {"var", "expr", "ret", "if"}
      /\ agenda' = <<[Now EXCEPT !.do = "finish"]>> \o Rest
  BY DEF Calm, Start, Stays, AtHead, Now
<1>2. Now \in StmtItems
  BY <1>1, HeadOfAgenda, ItemKinds
<1> DEFINE item == [Now EXCEPT !.do = "finish"]
<1>3. item \in FinishItems /\ item.at = Now.at /\ item.do = "finish"
  BY <1>1, <1>2 DEF StmtItems, FinishItems
<1>4. item \in Tasks(program)
  BY <1>3, QuietKinds DEF Quiet
<1>5. AwayItem(program, item)
  <2>1. Away(program, Now.at)
    BY <1>1, HeadAway DEF AwayItem, Calm
  <2> HIDE DEF item
  <2> QED
    BY <1>3, <2>1 DEF AwayItem
<1>6. item \in AwayTasks(program) /\ Rest \in Seq(AwayTasks(program))
  BY <1>1, <1>4, <1>5, HeadAway DEF AwayTasks, Calm
<1> HIDE DEF item
<1>7. <<item>> \o Rest \in Seq(AwayTasks(program))
  BY <1>6
<1>8. agenda' \in Seq(AwayTasks(program))
  BY <1>1, <1>7 DEF item
<1> QED
  BY <1>1, <1>8 DEF SilentOr, AllAway

LEMMA AwayOfConstantIf == ASSUME Calm, ConstantIf PROVE SilentOr'
<1> DEFINE s == Now.stmt
           isTrue == s.e.op = "true"
           then == Parts(Now.at, 1, s.then)
           else == Parts(Now.at, 2, s.else)
           items == Scoped(IF isTrue THEN then ELSE else)
           mute == [do |-> "mute", other |-> IF isTrue THEN else ELSE then]
           Q == AwayTasks(program)
<1>1. /\ TypeOK /\ errors = {} /\ errors' = errors /\ program' = program
      /\ agenda # <<>> /\ agenda' = items \o <<mute>> \o Rest /\ Now.do = "finish" /\ s.op = "if"
  BY DEF ConstantIf, Finish, AtHead, Now, Stays, Calm
<1>2. Now.at \in Places /\ s \in Statements
  BY <1>1, TypesAtHead
<1>3. s.then \in Seq(Statements) /\ s.else \in Seq(Statements)
  BY <1>1, <1>2, IfParts
<1>4. /\ Scoped(then) \in Seq(Q) /\ then \in Seq(StmtItems) /\ \A k \in 1..Len(then) : Away(program, then[k].at)
      /\ Scoped(else) \in Seq(Q) /\ else \in Seq(StmtItems) /\ \A k \in 1..Len(else) : Away(program, else[k].at)
  BY <1>2, <1>3, PartsAway, PartsType
<1> HIDE DEF s, then, else
<1>5. mute \in Q
  <2>1. mute \in MuteItems
    BY <1>4 DEF MuteItems
  <2>2. AwayItem(program, mute)
    BY <1>4 DEF AwayItem
  <2>3. mute \in Tasks(program)
    BY <2>1, QuietKinds DEF Quiet
  <2> QED
    BY <2>2, <2>3 DEF AwayTasks
<1>6. items \in Seq(Q)
  BY <1>4
<1>7. Rest \in Seq(Q)
  BY <1>1, HeadAway DEF Calm
<1> HIDE DEF items, mute, Q
<1>8. agenda' \in Seq(Q)
  BY <1>1, <1>5, <1>6, <1>7
<1> QED
  BY <1>1, <1>8 DEF SilentOr, AllAway, Q

LEMMA AwayOfMute == ASSUME Calm, Mute PROVE SilentOr'
<1> DEFINE Q == AwayTasks(program)
<1>1. /\ TypeOK /\ errors = {} /\ errors' = errors /\ program' = program
      /\ agenda # <<>> /\ agenda' = Scoped(Now.other) \o MoveTo(at) \o Rest /\ Now.do = "mute"
  BY DEF Mute, AtHead, Now, Stays, Calm
<1>2. Now.other \in Seq(StmtItems) /\ at \in Nat
  <2>1. at \in 0..Len(blocks) /\ Len(blocks) \in Nat /\ Now.other \in Seq(StmtItems)
    BY <1>1, TypesAtHead
  <2> QED
    BY <2>1
<1>3. \A k \in 1..Len(Now.other) : Away(program, Now.other[k].at)
  BY <1>1, HeadAway DEF AwayItem, Calm
<1>4. PICK other : other = Now.other
  OBVIOUS
<1>5. other \in Seq(Q)
  <2>1. \A it \in StmtItems : it \in Tasks(program) /\ it.do = "stmt"
    BY QuietKinds DEF Quiet, StmtItems
  <2>2. \A k \in 1..Len(other) : other[k] \in Q
    BY <1>2, <1>3, <1>4, <2>1 DEF AwayTasks, AwayItem
  <2>3. other \in Seq(StmtItems)
    BY <1>2, <1>4
  <2> HIDE DEF Q
  <2> QED
    BY <2>2, <2>3
<1>6. ScopeMarks \subseteq Q /\ [do |-> "moveTo", block |-> at] \in Q
  BY <1>2, AwayKinds
<1>7. Rest \in Seq(Q)
  BY <1>1, HeadAway DEF Calm
<1> HIDE DEF Q
<1>8. Scoped(other) \in Seq(Q) /\ MoveTo(at) \in Seq(Q)
  BY <1>5, <1>6, QuietScoped DEF MoveTo
<1>9. agenda' \in Seq(Q)
  BY <1>1, <1>4, <1>7, <1>8
<1> QED
  BY <1>1, <1>9 DEF SilentOr, AllAway, Q

LEMMA JumpsAway ==
    ASSUME NEW p, NEW S, S \subseteq Nat \ {0} PROVE Jumps(S) \subseteq AwayTasks(p)
<1>1. \A b \in S : Jumps({b}) \subseteq AwayTasks(p)
  BY AwayKinds
<1>2. \A x \in Jumps(S) : \E b \in S : x \in Jumps({b})
  BY DEF Jumps
<1> QED
  BY <1>1, <1>2

LEMMA AwayOfRunTimeIf == ASSUME Calm, RunTimeIf, phase' = "analyze" PROVE SilentOr'
<1> DEFINE n == Len(blocks)
           s == Now.stmt
           hasElse == s.else # <<>>
           merge == IF hasElse THEN n + 3 ELSE n + 2
           then == Scoped(Parts(Now.at, 1, s.then))
           else == Scoped(Parts(Now.at, 2, s.else))
           other == IF hasElse THEN MoveTo(n + 2) \o else \o JumpTo(merge) ELSE <<>>
<1>1. ~Crash
  BY DEF Crash
<1>2. /\ TypeOK /\ errors = {} /\ errors' = errors /\ program' = program
      /\ agenda # <<>> /\ agenda' = then \o JumpTo(merge) \o other \o MoveTo(merge) \o Rest
      /\ Now.do = "finish" /\ s.op = "if"
  BY <1>1, EvaluationReports DEF RunTimeIf, Finish, AtHead, Now, Stays, Evaluate, Calm
<1>3. n \in Nat /\ Now.at \in Places /\ s \in Statements
  BY <1>2, TypesAtHead
<1>4. s.then \in Seq(Statements) /\ s.else \in Seq(Statements)
  BY <1>2, <1>3, IfParts
<1>5. then \in Seq(AwayTasks(program)) /\ else \in Seq(AwayTasks(program))
  BY <1>3, <1>4, PartsAway
<1>6. PICK p, q, k, m, Q, t : p = then /\ q = else /\ k = n + 2 /\ m = merge /\ Q = AwayTasks(program) /\ t = s
  OBVIOUS
<1>7. agenda' = ((p \o JumpTo(m)) \o Other(t, q, k, m)) \o MoveTo(m) \o Rest
  <2>1. other = Other(t, q, k, m)
    BY <1>6 DEF Other
  <2> HIDE DEF other, then, else, merge, s
  <2> QED
    BY <1>2, <1>6, <2>1
<1> HIDE DEF then, else, other, s
<1>8. {k, m} \subseteq Nat \ {0}
  BY <1>3, <1>6
<1>9. Jumps({k, m}) \subseteq Q
  BY <1>6, <1>8, JumpsAway
<1>10. p \in Seq(Q) /\ q \in Seq(Q) /\ Rest \in Seq(Q)
  BY <1>2, <1>5, <1>6, HeadAway DEF Calm
<1>11. (p \o JumpTo(m)) \o Other(t, q, k, m) \in Seq(Q) /\ MoveTo(m) \in Seq(Q)
  BY <1>9, <1>10, BranchItems
<1>12. agenda' \in Seq(Q)
  <2> DEFINE front == (p \o JumpTo(m)) \o Other(t, q, k, m)
             last == MoveTo(m)
  <2>1. front \in Seq(Q) /\ last \in Seq(Q) /\ agenda' = front \o last \o Rest
    BY <1>7, <1>11
  <2> HIDE DEF front, last
  <2> QED
    BY <1>10, <2>1
<1> QED
  BY <1>2, <1>6, <1>12 DEF SilentOr, AllAway

LEMMA AwayOfEnterLoop == ASSUME Calm, EnterLoop, phase' = "analyze" PROVE SilentOr'
<1> DEFINE n == Len(blocks)
           s == Now.stmt
           init == Optional(Now.at, 1, s.init)
           iter == Optional(Now.at, 3, s.iter)
           body == Parts(Now.at, 4, s.body)
           cond == [do |-> "loopCond", at |-> Now.at \o <<2, 1>>, cond |-> s.cond, merge |-> n + 5]
<1>1. ~Crash
  BY DEF Crash
<1>2. /\ TypeOK /\ errors = {} /\ errors' = errors /\ program' = program
      /\ agenda # <<>>
      /\ agenda' = Rounds(init, cond, iter, body, n + 2, n + 3, n + 4, n + 5) \o Rest
      /\ Now.do = "stmt" /\ s.op = "for"
  BY <1>1 DEF EnterLoop, AtHead, Now, Stays, Rounds, Calm
<1>3. n \in Nat /\ Now.at \in Places /\ s \in Statements
  BY <1>2, TypesAtHead
<1>4. /\ s.body \in Seq(Statements) /\ s.cond \in Exprs
      /\ s.init = None \/ s.init \in Statements
      /\ s.iter = None \/ s.iter \in Statements
  BY <1>2, <1>3, ForParts
<1>5. /\ init \in Seq(Quiet(program)) /\ Reads(init, IfAny(s.init))
      /\ iter \in Seq(Quiet(program)) /\ Reads(iter, IfAny(s.iter))
      /\ body \in Seq(Quiet(program)) /\ Reads(body, s.body)
  BY <1>3, <1>4, OptionalRead, PartsRead
<1>6. init \in Seq(AwayTasks(program)) /\ iter \in Seq(AwayTasks(program)) /\ body \in Seq(AwayTasks(program))
  BY <1>3, <1>4, OptionalAway, PartsAway
<1>7. cond \in AwayTasks(program) /\ To(cond) = Null
  <2>1. Now.at \o <<2, 1>> \in Places /\ Len(Now.at \o <<2, 1>>) # 1
    BY <1>3 DEF Places
  <2>2. cond \in CondItems(n + 5)
    BY <1>3, <1>4, <2>1 DEF CondItems
  <2>3. n + 5 \in Nat
    BY <1>3
  <2>4. cond \in Tasks(program)
    BY <2>2, <2>3, QuietKinds DEF Quiet
  <2>5. AwayItem(program, cond)
    BY <2>1 DEF AwayItem, Away
  <2> QED
    BY <2>4, <2>5 DEF To, Moves, AwayTasks
<1>8. PICK i, h, j, w, q, r, b, m, Q, t :
          /\ i = init /\ h = cond /\ j = iter /\ w = body
          /\ q = n + 2 /\ r = n + 3 /\ b = n + 4 /\ m = n + 5 /\ Q = AwayTasks(program) /\ t = s
  OBVIOUS
<1> HIDE DEF init, iter, body, cond, s
<1> DEFINE new == Rounds(i, h, j, w, q, r, b, m)
<1>9. agenda' = new \o Rest
  BY <1>2, <1>8
<1>10. /\ {q, r, b, m} \subseteq Nat \ {0} /\ Null \notin {q, r, b, m}
       /\ q # r /\ q # b /\ q # m /\ r # b /\ r # m /\ b # m
  BY <1>3, <1>8 DEF Null
<1>11. Jumps({q, r, b, m}) \subseteq Q /\ [do |-> "closeLoop"] \in Q
  BY <1>8, <1>10, JumpsAway, AwayKinds
<1>12. Goes(Q, i, {}) /\ Goes(Q, j, {}) /\ Goes(Q, w, {})
  BY <1>5, <1>6, <1>8, ReadsGoes
<1>13. h \in Q /\ To(h) = Null
  BY <1>7, <1>8
<1>14. RoundParts(Q, i, h, j, w, q, r, b, m)
  BY <1>10, <1>11, <1>12, <1>13, RoundItems
<1>15. \E x : new = x /\ Goes(Q, x, {q, r, b, m})
  BY <1>14 DEF RoundParts
<1> HIDE DEF new
<1>16. new \in Seq(Q) /\ Rest \in Seq(Q)
  BY <1>2, <1>8, <1>15, HeadAway DEF Goes, Calm
<1>17. agenda' \in Seq(Q)
  BY <1>9, <1>16
<1> QED
  BY <1>2, <1>8, <1>17 DEF SilentOr, AllAway

-----------------------------------------------------------------------------
AwayInv == phase = "analyze" => SilentOr

\* Before the passes either nothing is reported or more than functions.
LEMMA AwayOfInit == Init => AwayInv
BY DEF Init, AwayInv, SilentOr, AllAway

LEMMA AwayOfNext == ASSUME TypeOK, StackInv, AwayInv, Next PROVE AwayInv'
<1> SUFFICES ASSUME phase' = "analyze" PROVE SilentOr'
  BY DEF AwayInv
<1>1. program' = program /\ errors \subseteq errors'
  BY ReportsStay
<1>2. CASE StartPasses \/ RunOnFunction \/ Verdict
  BY <1>2 DEF StartPasses, RunOnFunction, Verdict
<1>3. CASE ~(StartPasses \/ RunOnFunction \/ Verdict)
  <2>1. phase = "analyze"
    BY <1>3 DEF Next, Declare, Instantiate, EndBody, Refuse, ReturnOutside, Start, DefineVar,
          AddExprStmt, Return, IfFails, ConstantIf, Mute, RunTimeIf, EnterLoop, LoopCondition,
          CloseLoop, BreakContinue, OpenScope, CloseScope, MoveOrJump, AtHead, Finish
  <2>2. CASE Reported
    BY <1>1, <2>2 DEF Reported, SilentOr, Away
  <2>3. CASE errors = {} /\ AllAway
    <3>1. Calm
      BY <2>1, <2>3 DEF Calm
    <3>2. ~ReturnOutside
      BY DEF ReturnOutside, Crash
    <3>3. CASE Refuse \/ DefineVar \/ AddExprStmt \/ Return \/ IfFails \/ LoopCondition
      BY <3>1, <3>3, AwayOfStatements
    <3>4. CASE EndBody \/ CloseLoop \/ BreakContinue \/ OpenScope \/ CloseScope \/ MoveOrJump
      BY <3>1, <3>4, AwayOfSteps
    <3>5. CASE Declare \/ Instantiate \/ Start
      BY <3>1, <3>5, AwayOfDeclare, AwayOfInstantiate, AwayOfStart
    <3>6. CASE ConstantIf \/ Mute \/ RunTimeIf \/ EnterLoop
      BY <3>1, <3>6, AwayOfConstantIf, AwayOfMute, AwayOfRunTimeIf, AwayOfEnterLoop
    <3> QED
      BY <1>3, <3>2, <3>3, <3>4, <3>5, <3>6 DEF Next
  <2> QED
    BY <2>1, <2>2, <2>3 DEF AwayInv, SilentOr
<1> QED
  BY <1>2, <1>3

-----------------------------------------------------------------------------
(* The passes.                                                             *)

\* The blocks that dead code elimination keeps of a function have an open one
\* exactly if the text can be run to its end.
LEMMA OpenIsDone ==
    ASSUME TypeOK, NEW f, BlocksOf(f) # {}, Fin(program, blocks, f)
    PROVE  (\E b \in BlocksOf(f) : b \in Reachable(f) /\ blocks[b].term = Open) <=> Done(program, f)
<1>1. Of(blocks, f) = BlocksOf(f) /\ First(blocks, f) = Entry(f)
  BY DEF Of, BlocksOf, First, Entry
<1>2. PICK S \in SUBSET BlocksOf(f) :
          /\ Entry(f) \in S /\ Shut(blocks, S)
          /\ OpenIn(blocks, S) # {} => Done(program, f)
          /\ Done(program, f) => \A R \in SUBSET S :
                 Entry(f) \in R /\ Shut(blocks, R) => OpenIn(blocks, R) # {}
  BY <1>1 DEF Fin
<1>3. DOMAIN blocks = 1..Len(blocks) /\ BlocksOf(f) \subseteq 1..Len(blocks)
  BY DEF TypeOK, BlocksOf
<1>4. \A b \in 1..Len(blocks) : Succs(b) = Targets(blocks[b].term)
  BY SuccsType
<1>5. /\ Entry(f) \in Reachable(f)
      /\ Reachable(f) \subseteq 1..Len(blocks)
      /\ \A b \in Reachable(f) : Succs(b) \subseteq Reachable(f)
      /\ \A R : Entry(f) \in R /\ (\A b \in R \cap (1..Len(blocks)) : Succs(b) \subseteq R)
                 => Reachable(f) \subseteq R
  BY ReachableIsClosed
<1>6. Reachable(f) \subseteq S
  <2>1. \A b \in S \cap (1..Len(blocks)) : Succs(b) \subseteq S
    BY <1>2, <1>3, <1>4 DEF Shut
  <2> QED
    BY <1>2, <1>5, <2>1
<1>7. Shut(blocks, Reachable(f))
  BY <1>3, <1>4, <1>5 DEF Shut
<1>8. ASSUME NEW b \in BlocksOf(f), b \in Reachable(f), blocks[b].term = Open PROVE Done(program, f)
  <2>1. b \in OpenIn(blocks, S)
    BY <1>3, <1>6, <1>8 DEF OpenIn
  <2> QED
    BY <1>2, <2>1
<1>9. ASSUME Done(program, f)
      PROVE  \E b \in BlocksOf(f) : b \in Reachable(f) /\ blocks[b].term = Open
  <2>1. OpenIn(blocks, Reachable(f)) # {}
    BY <1>2, <1>5, <1>6, <1>7, <1>9
  <2>2. PICK b : b \in OpenIn(blocks, Reachable(f))
    BY <2>1
  <2> QED
    BY <1>2, <1>6, <2>2 DEF OpenIn
<1> QED
  BY <1>8, <1>9

Missing(n) ==
    {f \in 1..Len(program) : /\ f < n /\ BlocksOf(f) # {}
                             /\ program[f].ret /\ Done(program, f)}

PassInv ==
    phase \in {"passes", "accepted", "refused"} /\ BodiesAreRight =>
        /\ \A f : BlocksOf(f) # {} /\ program[f].ret => Fin(program, blocks, f)
        /\ errors = {<<f>> : f \in Missing(decl)}
        /\ phase # "passes" => decl > Len(program)

\* The bodies were right before, if they still are.
LEMMA RightBefore ==
    ASSUME Next, BodiesAreRight' PROVE BodiesAreRight
<1>1. program' = program /\ errors \subseteq errors'
  BY ReportsStay
<1> QED
  BY <1>1 DEF BodiesAreRight, BreaksAreInLoops, Bodies

\* When the passes begin every body has been analysed to its end.
LEMMA PassOfStart ==
    ASSUME TypeOK, AwayInv, ReturnsInv, BodiesAreRight, StartPasses PROVE PassInv'
<1>1. /\ phase = "analyze" /\ agenda = <<>> /\ phase' = "passes" /\ decl' = 1
      /\ UNCHANGED <<program, blocks, errors>>
  BY DEF StartPasses
<1>2. errors = {}
  BY <1>1 DEF AwayInv, SilentOr, Reported, Away, BodiesAreRight
<1>3. HoldNow
  BY <1>1, <1>2 DEF ReturnsInv, BodiesAreRight
<1>4. ASSUME NEW f, BlocksOf(f) # {}, program[f].ret PROVE Fin(program, blocks, f)
  <2>1. Of(blocks, f) # {}
    BY <1>4 DEF Of, BlocksOf
  <2>2. ~Runs(program, agenda, f)
    BY <1>1, NoCut DEF Runs
  <2> QED
    BY <1>3, <1>4, <2>1, <2>2 DEF HoldNow, Hold, OthersRest
<1>5. Missing(1) = {}
  BY DEF Missing
<1>6. /\ \A f : BlocksOf(f)' # {} /\ program'[f].ret => Fin(program', blocks', f)
      /\ errors' = {} /\ Missing(decl)' = {} /\ phase' = "passes"
  BY <1>1, <1>2, <1>4, <1>5 DEF BlocksOf, Missing
<1> QED
  BY <1>6 DEF PassInv

\* Dead code elimination and the return check of one function.
LEMMA PassOfRun ==
    ASSUME TypeOK, PassInv, BodiesAreRight, RunOnFunction PROVE PassInv'
<1>1. /\ phase = "passes" /\ decl \in 1..Len(program) /\ decl' = decl + 1 /\ Len(program) \in Nat
      /\ UNCHANGED <<program, blocks, phase>>
  <2>1. decl \in 1..(Len(program) + 1) /\ Len(program) \in Nat
    BY StatementsAssumption DEF TypeOK
  <2> QED
    BY <2>1 DEF RunOnFunction
<1>2. /\ \A f : BlocksOf(f) # {} /\ program[f].ret => Fin(program, blocks, f)
      /\ errors = {<<f>> : f \in Missing(decl)}
  BY <1>1 DEF PassInv
<1> DEFINE open == \E b \in BlocksOf(decl) : b \in Reachable(decl) /\ blocks[b].term = Open
<1>3. errors' = IF open /\ program[decl].ret THEN errors \cup {<<decl>>} ELSE errors
  BY DEF RunOnFunction
<1>4. open /\ program[decl].ret <=> decl \in Missing(decl + 1)
  <2>1. CASE BlocksOf(decl) = {}
    BY <2>1 DEF Missing
  <2>2. CASE BlocksOf(decl) # {} /\ program[decl].ret
    <3>1. open <=> Done(program, decl)
      BY <1>2, <2>2, OpenIsDone
    <3>2. decl < decl + 1
      BY <1>1
    <3> QED
      BY <1>1, <2>2, <3>1, <3>2 DEF Missing
  <2>3. CASE ~program[decl].ret
    BY <2>3 DEF Missing
  <2> QED
    BY <2>1, <2>2, <2>3
<1>5. Missing(decl + 1) = Missing(decl) \cup (Missing(decl + 1) \cap {decl})
  <2>1. \A f \in 1..Len(program) : f < decl + 1 <=> f < decl \/ f = decl
    BY <1>1
  <2> QED
    BY <2>1 DEF Missing
<1> HIDE DEF open
<1>6. errors' = {<<f>> : f \in Missing(decl + 1)}
  <2>1. CASE open /\ program[decl].ret
    <3>1. Missing(decl + 1) = Missing(decl) \cup {decl}
      BY <1>4, <1>5, <2>1
    <3> QED
      BY <1>2, <1>3, <2>1, <3>1
  <2>2. CASE ~(open /\ program[decl].ret)
    <3>1. Missing(decl + 1) = Missing(decl)
      BY <1>4, <1>5, <2>2
    <3> QED
      BY <1>2, <1>3, <2>2, <3>1
  <2> QED
    BY <2>1, <2>2
<1>7. Missing(decl)' = Missing(decl + 1) /\ \A f : BlocksOf(f)' = BlocksOf(f)
  BY <1>1 DEF Missing, BlocksOf
<1> QED
  BY <1>1, <1>2, <1>6, <1>7 DEF PassInv

\* The passes write no blocks.
LEMMA PassOfNext ==
    ASSUME TypeOK, AwayInv, ReturnsInv, PassInv, Next PROVE PassInv'
<1> SUFFICES ASSUME phase' \in {"passes", "accepted", "refused"}, BodiesAreRight' PROVE PassInv'
  BY DEF PassInv
<1>1. BodiesAreRight
  BY RightBefore
<1>2. CASE StartPasses
  BY <1>1, <1>2, PassOfStart
<1>3. CASE RunOnFunction
  BY <1>1, <1>3, PassOfRun
<1>4. CASE Verdict
  <2>1. /\ phase = "passes" /\ decl > Len(program) /\ UNCHANGED <<program, decl, blocks, errors>>
    BY <1>4 DEF Verdict
  <2>2. /\ \A f : BlocksOf(f) # {} /\ program[f].ret => Fin(program, blocks, f)
        /\ errors = {<<f>> : f \in Missing(decl)}
    BY <1>1, <2>1 DEF PassInv
  <2>3. Missing(decl)' = Missing(decl) /\ \A f : BlocksOf(f)' = BlocksOf(f)
    BY <2>1 DEF Missing, BlocksOf
  <2> QED
    BY <2>1, <2>2, <2>3 DEF PassInv
<1>5. ~(Declare \/ Instantiate \/ EndBody \/ Refuse \/ ReturnOutside \/ Start \/ DefineVar \/ AddExprStmt)
  BY DEF Declare, Instantiate, EndBody, Refuse, ReturnOutside, Start, DefineVar,
         AddExprStmt, AtHead, Finish, Crash, Stays
<1>6. ~(\/ Return \/ IfFails \/ ConstantIf \/ Mute \/ RunTimeIf \/ EnterLoop \/ LoopCondition
        \/ CloseLoop \/ BreakContinue \/ OpenScope \/ CloseScope \/ MoveOrJump)
  BY DEF Return, IfFails, ConstantIf, Mute, RunTimeIf, EnterLoop, LoopCondition,
         CloseLoop, BreakContinue, OpenScope, CloseScope, MoveOrJump, AtHead, Finish, Crash, Stays
<1> QED
  BY <1>2, <1>3, <1>4, <1>5, <1>6 DEF Next

ReturnInv == IInv /\ AwayInv /\ ReturnsInv /\ PassInv

\* The inductive invariant.
LEMMA ReturnInvOfInit == Init => ReturnInv
<1>1. Init => PassInv
  BY DEF Init, PassInv
<1> QED
  BY <1>1, InvOfInit, AwayOfInit, ReturnsOfInit DEF ReturnInv

LEMMA ReturnInvOfNext == ReturnInv /\ [Next]_state => ReturnInv'
<1> SUFFICES ASSUME ReturnInv, [Next]_state PROVE ReturnInv'
  OBVIOUS
<1>1. IInv /\ AwayInv /\ ReturnsInv /\ PassInv /\ TypeOK /\ StackInv
  BY DEF ReturnInv, IInv
<1>2. IInv'
  BY <1>1, InvOfNext
<1>3. CASE Next
  BY <1>1, <1>2, <1>3, AwayOfNext, ReturnsOfNext, PassOfNext DEF ReturnInv
<1>4. CASE UNCHANGED state
  <2>1. AwayInv'
    BY <1>1, <1>4 DEF AwayInv, SilentOr, AllAway, Reported, state
  <2>2. ReturnsInv'
    BY <1>1, <1>4 DEF ReturnsInv, HoldNow, BreaksAreInLoops, Bodies, state
  <2>3. PassInv'
    BY <1>1, <1>4 DEF PassInv, BodiesAreRight, BreaksAreInLoops, Bodies, BlocksOf, Missing, state
  <2> QED
    BY <1>2, <2>1, <2>2, <2>3 DEF ReturnInv
<1> QED
  BY <1>3, <1>4

\* A function that has to return a value is refused exactly if its text can be
\* run to its end without one, as far as its file is free of other errors: what
\* the return checker finds in the graph after dead code elimination is what
\* the text says, for any nesting of branches and loops, whatever bodies of
\* templates are analysed in the middle of others.
THEOREM ReturnsAlwaysFound == Spec => []MissingReturnsAreFound
<1>1. ReturnInv => MissingReturnsAreFound
  <2> SUFFICES ASSUME ReturnInv, Checked, BodiesAreRight
               PROVE  {e[1] : e \in errors} =
                          {f \in Analysed : program[f].ret /\ Completes(program[f].body)}
    BY DEF MissingReturnsAreFound
  <2>1. errors = {<<f>> : f \in Missing(decl)} /\ decl > Len(program)
    BY DEF ReturnInv, PassInv, Checked
  <2>2. Missing(decl) = {f \in Analysed : program[f].ret /\ Completes(program[f].body)}
    <3>1. \A f \in 1..Len(program) : f < decl
      <4>1. decl \in Nat /\ Len(program) \in Nat
        BY StatementsAssumption DEF ReturnInv, IInv, TypeOK
      <4> QED
        BY <2>1, <4>1
    <3> QED
      BY <3>1 DEF Missing, Analysed, Done
  <2> DEFINE M == Missing(decl)
  <2>3. \A f \in M : <<f>> \in errors /\ <<f>>[1] = f
    BY <2>1
  <2>4. \A e \in errors : e[1] \in M
    BY <2>1
  <2> HIDE DEF M
  <2>5. {e[1] : e \in errors} = M
    BY <2>3, <2>4
  <2> QED
    BY <2>2, <2>5 DEF M
<1>2. Spec => []ReturnInv
  BY ReturnInvOfInit, ReturnInvOfNext, PTL DEF Spec
<1> QED
  BY <1>1, <1>2, PTL
=============================================================================
