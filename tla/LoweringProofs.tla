--------------------------- MODULE LoweringProofs ---------------------------
(***************************************************************************)
(* Proofs about Lowering, for every set of programs.                       *)
(*                                                                         *)
(* The stacks of Sema are pushed and popped by different items of the      *)
(* agenda, so that what an item will find is not to be read off the state  *)
(* alone: it depends on all that stands before it.  The agenda is taken as *)
(* a path of situations (Leads): how the stacks stand now, how they will   *)
(* stand behind every item, back to how they stand between declarations.   *)
(* An action takes the first step of the path or puts a path in its place. *)
(* A loop is left early when its condition fails, and an instance is       *)
(* analysed in the middle of a body: the two places where the stacks are   *)
(* not touched by the items that stand next to each other.                 *)
(*                                                                         *)
(* First the types, action by action; then the paths; then, action by      *)
(* action, that a path remains (StackInv).  The properties of the stacks   *)
(* follow from the first item of the path.                                 *)
(*                                                                         *)
(* Behind that, the control flow graphs: no jump leaves its function       *)
(* (JumpsStayInside), and none goes to a block that dead code elimination  *)
(* erased (KeptJumpsLand).  Where a jump goes is decided when the item of  *)
(* the agenda is made, and it is written when the item is met, with the    *)
(* insertion block of then.  That both are of one function is what the     *)
(* path of situations carries from the one to the other (Home, AtHome).    *)
(***************************************************************************)
EXTENDS Lowering, Iteration, TLAPS, WellFoundedInduction, SequenceTheorems

-----------------------------------------------------------------------------
(* Situations and paths.                                                   *)

\* The blocks of a loop on the stack of loops.
LoopPairs == [break : Nat, continue : Nat]

\* How the stacks stand: how many scopes are open, the loops, the functions
\* whose bodies are being analysed, and whether there is no insertion block.
Situations == [depth : Nat \ {0}, loops : Seq(LoopPairs), bodies : Seq(Nat), dead : BOOLEAN]

\* Between two declarations.
Outside == [depth |-> 1, loops |-> <<>>, bodies |-> <<>>, dead |-> TRUE]

\* What the last two properties of the module ask of a program.
Sound == BreaksAreInLoops /\ DeadBranchesAreSimple

\* How much can be said: of any run, of one without a report, and of one
\* without a report over a sound program.  What can be said is about the
\* functions of the blocks made so far, and about the templates.
Mode == [level |-> IF errors # {} THEN "any" ELSE IF Sound THEN "sound" ELSE "clean",
         home |-> [b \in DOMAIN blocks |-> blocks[b].func],
         templates |-> {f \in 1..Len(program) : program[f].op = "func" /\ program[f].template}]

\* Block b is one of the function whose body is being analysed.
Home(mode, a, b) ==
    /\ a.bodies # <<>> /\ b \in DOMAIN mode.home
    /\ mode.home[b] = a.bodies[Len(a.bodies)]

\* There is a loop to break, and it is a loop of that function.
InLoop(mode, a) ==
    /\ a.loops # <<>>
    /\ Home(mode, a, a.loops[Len(a.loops)].break)
    /\ Home(mode, a, a.loops[Len(a.loops)].continue)

\* A statement that may be met in situation a: one with a free break only in
\* a loop, and with no insertion block only one that needs none.
Fits(mode, a, s) ==
    a.depth > 1 => /\ a.bodies # <<>>
                   /\ s \in Loose => InLoop(mode, a)
                   /\ IF a.dead THEN s \in Blockless ELSE s \in Simple

\* Item leads from situation a to situation b, as far as the mode allows to
\* say.  Every item that closes something finds open what it closes.
Effect(mode, a, item, b) ==
    \/ /\ item.do \in {"stmt", "finish"} /\ b = a
       /\ mode.level = "sound" => Fits(mode, a, item.stmt)
       /\ mode.level # "any" /\ item.do = "finish" => item.stmt.op = "var" \/ a.depth > 1
    \/ /\ item.do = "mute" /\ b = a
       /\ mode.level = "sound" =>
             /\ a.depth > 1 /\ a.bodies # <<>>
             /\ \A k \in 1..Len(item.other) :
                   Fits(mode, [a EXCEPT !.dead = TRUE], item.other[k].stmt)
    \/ /\ item.do = "jumpTo" /\ b = a
       /\ mode.level = "sound" => Home(mode, a, item.block)
    \/ /\ item.do = "loopCond" /\ b = a
       /\ mode.level = "sound" => Home(mode, a, item.merge - 1) /\ Home(mode, a, item.merge)
    \/ /\ item.do = "moveTo" /\ a = [b EXCEPT !.dead = a.dead]
       /\ mode.level # "any" /\ item.block = Null => b.dead
       /\ mode.level = "sound" => item.block = Null \/ Home(mode, b, item.block)
    \/ item.do = "openScope" /\ b = [a EXCEPT !.depth = @ + 1]
    \/ item.do = "closeScope" /\ a = [b EXCEPT !.depth = @ + 1]
    \/ /\ item.do = "closeLoop"
       /\ \E l \in LoopPairs : a = [b EXCEPT !.depth = @ + 1, !.loops = Append(@, l)]
    \/ /\ item.do = "endBody"
       /\ a = [b EXCEPT !.depth = @ + 1, !.bodies = Append(@, item.func), !.dead = a.dead]
       /\ mode.level # "any" => /\ a.depth = item.depth + 1 /\ a.loops = item.loops
                                /\ item.block = Null \/ a.dead => b.dead
       /\ mode.level = "sound" /\ b.bodies # <<>> =>
             item.func \in mode.templates /\ (item.block = Null \/ Home(mode, b, item.block))

\* What stands behind the condition of a loop up to the end of that loop may
\* be skipped: the first closing of a loop leads on as if it had not been.
Leaves(mode, h, items, k) ==
    \E j \in (k + 1)..Len(items) :
        /\ items[j].do = "closeLoop"
        /\ \A i \in (k + 1)..(j - 1) : items[i].do # "closeLoop"
        /\ Effect(mode, h[k], items[j], h[j + 1])

\* The agenda as a path of situations h from a to b, one step per item.
Leads(mode, a, items, b) ==
    \E h \in [1..(Len(items) + 1) -> Situations] :
        /\ h[1] = a /\ h[Len(items) + 1] = b
        /\ \A k \in 1..Len(items) : Effect(mode, h[k], items[k], h[k + 1])
        /\ \A k \in 1..Len(items) : items[k].do = "loopCond" => Leaves(mode, h, items, k)

\* The empty path leads back to where it starts, and only there.
LEMMA LeadsNowhere ==
    ASSUME NEW mode, NEW a \in Situations, NEW b, Leads(mode, a, <<>>, b) PROVE a = b
BY DEF Leads

LEMMA LeadsNil ==
    ASSUME NEW mode, NEW a \in Situations PROVE Leads(mode, a, <<>>, a)
<1> DEFINE h == [k \in 1..1 |-> a]
<1>1. Len(<<>>) = 0 /\ 1..Len(<<>>) = {}
  OBVIOUS
<1>2. h \in [1..(Len(<<>>) + 1) -> Situations] /\ h[1] = a /\ h[Len(<<>>) + 1] = a
  BY <1>1
<1> QED
  BY <1>1, <1>2 DEF Leads

\* The first step of a path, and what remains of it.
LEMMA LeadsHead ==
    ASSUME NEW mode, NEW S, NEW a, NEW b, NEW items \in Seq(S), items # <<>>,
           Leads(mode, a, items, b)
    PROVE  \E c \in Situations : Effect(mode, a, Head(items), c) /\ Leads(mode, c, Tail(items), b)
<1> DEFINE n == Len(items)
<1>1. PICK h \in [1..(n + 1) -> Situations] :
        /\ h[1] = a /\ h[n + 1] = b
        /\ \A k \in 1..n : Effect(mode, h[k], items[k], h[k + 1])
        /\ \A k \in 1..n : items[k].do = "loopCond" => Leaves(mode, h, items, k)
  BY DEF Leads
<1> DEFINE g == [k \in 1..n |-> h[k + 1]]
<1>2. n \in Nat \ {0} /\ Len(Tail(items)) = n - 1
  OBVIOUS
<1>3. \A k \in 1..(n - 1) : Tail(items)[k] = items[k + 1]
  OBVIOUS
<1>4. g \in [1..(Len(Tail(items)) + 1) -> Situations]
  BY <1>2
<1>5. \A k \in 1..n : g[k] = h[k + 1]
  OBVIOUS
<1> HIDE DEF g
<1>6. \A k \in 1..(n - 1) : Effect(mode, g[k], Tail(items)[k], g[k + 1])
  <2> TAKE k \in 1..(n - 1)
  <2>1. k + 1 \in 1..n /\ Effect(mode, h[k + 1], items[k + 1], h[(k + 1) + 1])
    BY <1>1, <1>2
  <2> QED
    BY <2>1, <1>2, <1>3, <1>5
<1>7. \A k \in 1..(n - 1) : Tail(items)[k].do = "loopCond" => Leaves(mode, g, Tail(items), k)
  <2> SUFFICES ASSUME NEW k \in 1..(n - 1), Tail(items)[k].do = "loopCond"
               PROVE  Leaves(mode, g, Tail(items), k)
    OBVIOUS
  <2>1. k + 1 \in 1..n /\ items[k + 1].do = "loopCond"
    BY <1>2, <1>3
  <2>2. PICK j \in (k + 2)..n :
          /\ items[j].do = "closeLoop"
          /\ \A i \in (k + 2)..(j - 1) : items[i].do # "closeLoop"
          /\ Effect(mode, h[k + 1], items[j], h[j + 1])
    <3>1. Leaves(mode, h, items, k + 1)
      BY <2>1, <1>1
    <3> QED
      BY <3>1, <1>2, SMTT(60) DEF Leaves
  <2>3. /\ j - 1 \in (k + 1)..(n - 1) /\ Tail(items)[j - 1] = items[j]
        /\ g[k] = h[k + 1] /\ g[(j - 1) + 1] = h[j + 1]
    BY <1>2, <1>3, <1>5, SMTT(60)
  <2>4. \A i \in (k + 1)..((j - 1) - 1) : Tail(items)[i].do # "closeLoop"
    <3> TAKE i \in (k + 1)..((j - 1) - 1)
    <3>1. i + 1 \in (k + 2)..(j - 1) /\ i \in 1..(n - 1)
      BY <1>2
    <3> QED
      BY <3>1, <2>2, <1>3
  <2> QED
    BY <1>2, <2>2, <2>3, <2>4 DEF Leaves
<1>8. h[2] \in Situations /\ Effect(mode, a, Head(items), h[2]) /\ g[1] = h[2] /\ g[n] = b
  BY <1>1, <1>2, <1>5
<1>9. Leads(mode, h[2], Tail(items), b)
  BY <1>2, <1>4, <1>6, <1>7, <1>8, SMTT(60) DEF Leads
<1> QED
  BY <1>8, <1>9
\* Two paths, one behind the other.
LEMMA LeadsConcat ==
    ASSUME NEW mode, NEW S, NEW a, NEW b, NEW c, NEW s \in Seq(S), NEW t \in Seq(S),
           Leads(mode, a, s, b), Leads(mode, b, t, c)
    PROVE  Leads(mode, a, s \o t, c)
<1> DEFINE m == Len(s)
           n == Len(t)
           st == s \o t
<1>1. PICK f \in [1..(m + 1) -> Situations] :
        /\ f[1] = a /\ f[m + 1] = b
        /\ \A k \in 1..m : Effect(mode, f[k], s[k], f[k + 1])
        /\ \A k \in 1..m : s[k].do = "loopCond" => Leaves(mode, f, s, k)
  BY DEF Leads
<1>2. PICK g \in [1..(n + 1) -> Situations] :
        /\ g[1] = b /\ g[n + 1] = c
        /\ \A k \in 1..n : Effect(mode, g[k], t[k], g[k + 1])
        /\ \A k \in 1..n : t[k].do = "loopCond" => Leaves(mode, g, t, k)
  BY DEF Leads
<1> DEFINE h == [k \in 1..(m + n + 1) |-> IF k <= m THEN f[k] ELSE g[k - m]]
<1>3. /\ m \in Nat /\ n \in Nat /\ Len(st) = m + n
      /\ \A k \in 1..m : st[k] = s[k]
      /\ \A k \in 1..n : st[m + k] = t[k]
  OBVIOUS
<1>4. /\ \A k \in 1..(m + 1) : h[k] = f[k]
      /\ \A k \in 1..(n + 1) : h[m + k] = g[k]
  BY <1>1, <1>2, <1>3
<1>5. h \in [1..(m + n + 1) -> Situations]
  BY <1>1, <1>2, <1>3
<1> HIDE DEF h, st
<1>6. \A k \in 1..(m + n) : Effect(mode, h[k], st[k], h[k + 1])
  <2> TAKE k \in 1..(m + n)
  <2>1. CASE k \in 1..m
    BY <2>1, <1>1, <1>3, <1>4
  <2>2. CASE k \notin 1..m
    <3>1. k - m \in 1..n /\ m + (k - m) = k /\ m + ((k - m) + 1) = k + 1
      BY <2>2, <1>3
    <3>2. h[k] = g[k - m] /\ h[k + 1] = g[(k - m) + 1] /\ st[k] = t[k - m]
      BY <3>1, <1>3, <1>4, SMTT(60)
    <3> QED
      BY <3>1, <3>2, <1>2
  <2> QED
    BY <2>1, <2>2
<1>7. \A k \in 1..(m + n) : st[k].do = "loopCond" => Leaves(mode, h, st, k)
  <2> SUFFICES ASSUME NEW k \in 1..(m + n), st[k].do = "loopCond"
               PROVE  Leaves(mode, h, st, k)
    OBVIOUS
  <2>1. CASE k \in 1..m
    <3>1. PICK j \in (k + 1)..m :
            /\ s[j].do = "closeLoop"
            /\ \A i \in (k + 1)..(j - 1) : s[i].do # "closeLoop"
            /\ Effect(mode, f[k], s[j], f[j + 1])
      BY <2>1, <1>1, <1>3 DEF Leaves
    <3>2. j \in (k + 1)..(m + n) /\ st[j] = s[j] /\ h[k] = f[k] /\ h[j + 1] = f[j + 1]
      BY <2>1, <1>3, <1>4
    <3>3. \A i \in (k + 1)..(j - 1) : st[i] = s[i]
      BY <2>1, <1>3, SMTT(60)
    <3> QED
      BY <3>1, <3>2, <3>3, <1>3 DEF Leaves
  <2>2. CASE k \notin 1..m
    <3> DEFINE k1 == k - m
    <3>1. k1 \in 1..n /\ m + k1 = k /\ st[k] = t[k1]
      BY <2>2, <1>3
    <3>2. PICK j \in (k1 + 1)..n :
            /\ t[j].do = "closeLoop"
            /\ \A i \in (k1 + 1)..(j - 1) : t[i].do # "closeLoop"
            /\ Effect(mode, g[k1], t[j], g[j + 1])
      BY <3>1, <1>2 DEF Leaves
    <3>3. /\ m + j \in (k + 1)..(m + n) /\ st[m + j] = t[j]
          /\ h[k] = g[k1] /\ h[(m + j) + 1] = g[j + 1]
      BY <3>1, <1>3, <1>4, SMTT(60)
    <3>4. \A i \in (k + 1)..((m + j) - 1) : st[i].do # "closeLoop"
      <4> TAKE i \in (k + 1)..((m + j) - 1)
      <4>1. i - m \in (k1 + 1)..(j - 1) /\ i - m \in 1..n /\ m + (i - m) = i
        BY <3>1, <1>3
      <4> QED
        BY <4>1, <3>2, <1>3
    <3> QED
      BY <3>2, <3>3, <3>4, <1>3 DEF Leaves
  <2> QED
    BY <2>1, <2>2
<1>8. h[1] = a /\ h[Len(st) + 1] = c
  BY <1>1, <1>2, <1>3, <1>4
<1> QED
  BY <1>3, <1>5, <1>6, <1>7, <1>8 DEF Leads, st

\* Items that leave a situation as it is.
LEMMA LeadsStanding ==
    ASSUME NEW mode, NEW S, NEW a \in Situations, NEW items \in Seq(S),
           \A k \in 1..Len(items) : Effect(mode, a, items[k], a) /\ items[k].do # "loopCond"
    PROVE  Leads(mode, a, items, a)
<1> DEFINE h == [k \in 1..(Len(items) + 1) |-> a]
<1>1. Len(items) \in Nat
  OBVIOUS
<1>2. h \in [1..(Len(items) + 1) -> Situations] /\ \A k \in 1..(Len(items) + 1) : h[k] = a
  OBVIOUS
<1> HIDE DEF h
<1> QED
  BY <1>1, <1>2 DEF Leads

\* A path of one step that is not the condition of a loop.
LEMMA LeadsOne ==
    ASSUME NEW mode, NEW a \in Situations, NEW b \in Situations, NEW item,
           Effect(mode, a, item, b), item.do # "loopCond"
    PROVE  Leads(mode, a, <<item>>, b)
<1> DEFINE h == [k \in 1..2 |-> IF k = 1 THEN a ELSE b]
<1>1. Len(<<item>>) = 1 /\ <<item>>[1] = item
  OBVIOUS
<1>2. h \in [1..2 -> Situations] /\ h[1] = a /\ h[2] = b
  OBVIOUS
<1> HIDE DEF h
<1> QED
  BY <1>1, <1>2 DEF Leads

\* A loop from its condition on.
LEMMA LeadsLoop ==
    ASSUME NEW mode, NEW S, NEW a \in Situations, NEW b \in Situations,
           NEW cond, cond.do = "loopCond", Effect(mode, a, cond, a),
           NEW close, close.do = "closeLoop", Effect(mode, a, close, b),
           NEW items \in Seq(S),
           \A k \in 1..Len(items) : /\ Effect(mode, a, items[k], a)
                                    /\ items[k].do \notin {"loopCond", "closeLoop"}
    PROVE  Leads(mode, a, <<cond>> \o items \o <<close>>, b)
<1> DEFINE n == Len(items)
           all == <<cond>> \o items \o <<close>>
           h == [k \in 1..(n + 3) |-> IF k = n + 3 THEN b ELSE a]
<1>1. /\ n \in Nat /\ Len(all) = n + 2
      /\ all[1] = cond /\ all[n + 2] = close
      /\ \A k \in 2..(n + 1) : all[k] = items[k - 1]
  OBVIOUS
<1>2. /\ h \in [1..(n + 3) -> Situations] /\ h[n + 3] = b
      /\ \A k \in 1..(n + 2) : h[k] = a
  BY <1>1
<1> HIDE DEF h, all
<1>3. \A k \in 2..(n + 1) : /\ Effect(mode, a, all[k], a)
                            /\ all[k].do \notin {"loopCond", "closeLoop"}
  BY <1>1
<1>4. \A k \in 1..(n + 2) : Effect(mode, h[k], all[k], h[k + 1])
  <2> TAKE k \in 1..(n + 2)
  <2> QED
    BY <1>1, <1>2, <1>3
<1>5. \A k \in 1..(n + 2) : all[k].do = "loopCond" => Leaves(mode, h, all, k)
  <2> SUFFICES ASSUME NEW k \in 1..(n + 2), all[k].do = "loopCond"
               PROVE  Leaves(mode, h, all, k)
    OBVIOUS
  <2>1. k = 1
    BY <1>1, <1>3
  <2>2. n + 2 \in (k + 1)..(n + 2) /\ h[(n + 2) + 1] = b /\ h[k] = a
    BY <2>1, <1>1, <1>2
  <2>3. \A i \in (k + 1)..((n + 2) - 1) : all[i].do # "closeLoop"
    BY <2>1, <1>1, <1>3
  <2> QED
    BY <2>2, <2>3, <1>1 DEF Leaves
<1>6. Len(all) + 1 = n + 3 /\ h[1] = a
  BY <1>1, <1>2
<1>7. Leads(mode, a, all, b)
  BY <1>1, <1>2, <1>4, <1>5, <1>6 DEF Leads
<1> QED
  BY <1>7 DEF all

\* More blocks, or a report: mode n may take the place of mode m.
Later(m, n) ==
    \/ n.level = "any"
    \/ /\ n.level = m.level /\ n.templates = m.templates
       /\ \A b \in DOMAIN m.home : b \in DOMAIN n.home /\ n.home[b] = m.home[b]

LEMMA FitsLater ==
    ASSUME NEW m, NEW n, Later(m, n), n.level = "sound", NEW a, NEW s, Fits(m, a, s)
    PROVE  Fits(n, a, s)
<1>1. \A b : Home(m, a, b) => Home(n, a, b)
  BY DEF Later, Home
<1>2. InLoop(m, a) => InLoop(n, a)
  BY <1>1 DEF InLoop
<1> QED
  BY <1>2 DEF Fits

LEMMA EffectLater ==
    ASSUME NEW m, NEW n, Later(m, n), NEW a, NEW item, NEW b, Effect(m, a, item, b)
    PROVE  Effect(n, a, item, b)
<1>1. CASE n.level = "any"
  <2>1. "any" # "sound"
    OBVIOUS
  <2> QED
    BY <1>1, <2>1, Zenon DEF Effect
<1>2. CASE n.level # "any"
  <2>1. n.level = m.level /\ n.templates = m.templates
    BY <1>2 DEF Later
  <2>2. n.level = "sound" => \A x, c : Home(m, x, c) => Home(n, x, c)
    BY <1>2 DEF Later, Home
  <2>3. n.level = "sound" => \A x, s : Fits(m, x, s) => Fits(n, x, s)
    BY FitsLater
  <2> QED
    BY <2>1, <2>2, <2>3, ZenonT(60) DEF Effect
<1> QED
  BY <1>1, <1>2

\* Neither makes a path worse.
LEMMA LeadsLater ==
    ASSUME NEW m, NEW n, Later(m, n), NEW a, NEW items, NEW b, Leads(m, a, items, b)
    PROVE  Leads(n, a, items, b)
<1>1. PICK h \in [1..(Len(items) + 1) -> Situations] :
        /\ h[1] = a /\ h[Len(items) + 1] = b
        /\ \A k \in 1..Len(items) : Effect(m, h[k], items[k], h[k + 1])
        /\ \A k \in 1..Len(items) : items[k].do = "loopCond" => Leaves(m, h, items, k)
  BY DEF Leads
<1>2. \A k \in 1..Len(items) : Effect(n, h[k], items[k], h[k + 1])
  BY <1>1, EffectLater
<1>3. \A k \in 1..Len(items) : items[k].do = "loopCond" => Leaves(n, h, items, k)
  BY <1>1, EffectLater DEF Leaves
<1> QED
  BY <1>1, <1>2, <1>3 DEF Leads
-----------------------------------------------------------------------------
(* Types. *)

\* Where a statement stands.
Places == Seq(Nat)

\* The names that the program uses.
Names == {e.name : e \in {x \in Exprs : x.op = "use"}}
         \cup {s.name : s \in {t \in Statements : t.op = "var"}}
         \cup UNION {s.args : s \in {t \in Statements : t.op = "func"}}

\* A scope, from the names defined in it to the places of their definitions.
Scopes == UNION {[D -> Places] : D \in SUBSET Names}

\* The functions among the declarations of p.
FuncsOf(p) == {f \in 1..Len(p) : p[f].op = "func"}

\* n is the number of blocks there are.
Terms(n) == {Open} \cup [op : {"jump"}, to : Seq(1..n)]
            \cup [op : {"fork"}, at : Places, to : Seq(1..n)]
            \cup [op : {"ret"}, at : Places]
\* The blocks of the functions of p.
Blocks(p, n) == [func : 1..Len(p), insts : Seq(Places), term : Terms(n)]
LoopBlocks(n) == [break : 1..n, continue : 1..n]

\* The items of the agenda, kind by kind.
StmtItems == [do : {"stmt"}, at : Places, stmt : Statements]
FinishItems == [do : {"finish"}, at : Places,
                stmt : {s \in Statements : s.op \in {"var", "expr", "ret", "if"}}]
CondItems(n) == [do : {"loopCond"}, at : Places, cond : Exprs, merge : 2..n]
MuteItems == [do : {"mute"}, other : Seq(StmtItems)]
MoveItems(n) == [do : {"moveTo"}, block : 0..n]
JumpItems(n) == [do : {"jumpTo"}, block : 1..n]
ScopeItems == [do : {"openScope", "closeScope", "closeLoop"}]
EndItems(p, n) == [do : {"endBody"}, func : FuncsOf(p), block : 0..n, depth : Nat,
                   loops : Seq(LoopBlocks(n))]
Items(p, n) == StmtItems \cup FinishItems \cup CondItems(n) \cup MuteItems \cup MoveItems(n)
               \cup JumpItems(n) \cup ScopeItems \cup EndItems(p, n)

\* The type of every variable.  There is a scope wherever something is to
\* be analysed, and a finished statement was started first.
TypeOK ==
    /\ program \in Programs
    /\ decl \in 1..(Len(program) + 1)
    /\ agenda \in Seq(Items(program, Len(blocks)))
    /\ vars \in Seq(Scopes)
    /\ loops \in Seq(LoopBlocks(Len(blocks)))
    /\ bodies \in Seq(FuncsOf(program))
    /\ at \in 0..Len(blocks)
    /\ blocks \in Seq(Blocks(program, Len(blocks)))
    /\ made \subseteq FuncsOf(program)
    /\ resolved \subseteq [at : Places, name : Names, to : Places]
    /\ errors \subseteq Places
    /\ removed \subseteq 1..Len(blocks)
    /\ phase \in {"analyze", "passes", "accepted", "refused", "crashed"}

\* Sequences over a set are sequences over a larger one.
LEMMA SeqOfMore ==
    ASSUME NEW S, NEW T, S \subseteq T PROVE Seq(S) \subseteq Seq(T)
OBVIOUS

\* What is a block stays one when blocks are added.
LEMMA MoreLoopBlocks ==
    ASSUME NEW m \in Nat, NEW n \in Nat, m <= n
    PROVE  Seq(LoopBlocks(m)) \subseteq Seq(LoopBlocks(n))
<1>1. LoopBlocks(m) \subseteq LoopBlocks(n)
  BY DEF LoopBlocks
<1> QED
  BY <1>1, SeqOfMore

\* So do the items and the terminators that name it.
LEMMA MoreBlocks ==
    ASSUME NEW p, NEW m \in Nat, NEW n \in Nat, m <= n
    PROVE  /\ Terms(m) \subseteq Terms(n)
           /\ Blocks(p, m) \subseteq Blocks(p, n)
           /\ Items(p, m) \subseteq Items(p, n)
<1>1. 1..m \subseteq 1..n /\ 0..m \subseteq 0..n /\ 2..m \subseteq 2..n
  OBVIOUS
<1>2. Seq(1..m) \subseteq Seq(1..n)
  BY <1>1, SeqOfMore
<1>3. Terms(m) \subseteq Terms(n)
  <2>1. [op : {"jump"}, to : Seq(1..m)] \subseteq [op : {"jump"}, to : Seq(1..n)]
    BY <1>2
  <2>2. [op : {"fork"}, at : Places, to : Seq(1..m)]
            \subseteq [op : {"fork"}, at : Places, to : Seq(1..n)]
    BY <1>2
  <2> QED
    BY <2>1, <2>2 DEF Terms
<1>4. Blocks(p, m) \subseteq Blocks(p, n)
  BY <1>3 DEF Blocks
<1>6. CondItems(m) \subseteq CondItems(n) /\ MoveItems(m) \subseteq MoveItems(n)
      /\ JumpItems(m) \subseteq JumpItems(n)
  BY <1>1 DEF CondItems, MoveItems, JumpItems
<1>7. EndItems(p, m) \subseteq EndItems(p, n)
  <2>1. Seq(LoopBlocks(m)) \subseteq Seq(LoopBlocks(n))
    BY MoreLoopBlocks
  <2> QED
    BY <1>1, <2>1 DEF EndItems
<1> QED
  BY <1>3, <1>4, <1>6, <1>7 DEF Items

\* What the head of the agenda is by the name of what it does.
LEMMA ItemKinds ==
    ASSUME NEW p, NEW n, NEW item \in Items(p, n)
    PROVE  /\ item.do = "stmt" => item \in StmtItems
           /\ item.do = "finish" => item \in FinishItems
           /\ item.do = "loopCond" => item \in CondItems(n)
           /\ item.do = "mute" => item \in MuteItems
           /\ item.do = "moveTo" => item \in MoveItems(n)
           /\ item.do = "jumpTo" => item \in JumpItems(n)
           /\ item.do = "endBody" => item \in EndItems(p, n)
BY DEF Items, StmtItems, FinishItems, CondItems, MuteItems, MoveItems, JumpItems, ScopeItems,
       EndItems

\* The head of an agenda and what remains are well typed.
LEMMA HeadOfAgenda ==
    ASSUME TypeOK, agenda # <<>>
    PROVE  Now \in Items(program, Len(blocks)) /\ Rest \in Seq(Items(program, Len(blocks)))
           /\ agenda = <<Now>> \o Rest
BY DEF TypeOK, Now, Rest

-----------------------------------------------------------------------------
(* What the builder and the makers of items return. *)

\* Adding an instruction keeps the blocks and their number.
LEMMA AddInstType ==
    ASSUME NEW p, NEW n \in Nat, NEW bs \in Seq(Blocks(p, n)), NEW b \in 0..Len(bs),
           NEW place \in Places
    PROVE  AddInst(bs, b, place) \in Seq(Blocks(p, n)) /\ Len(AddInst(bs, b, place)) = Len(bs)
<1>1. CASE Writable(bs, b)
  <2>1. b \in 1..Len(bs) /\ bs[b] \in Blocks(p, n)
    BY <1>1 DEF Writable, Null
  <2>2. Append(bs[b].insts, place) \in Seq(Places)
    BY <2>1 DEF Blocks
  <2>3. [bs[b] EXCEPT !.insts = Append(@, place)] \in Blocks(p, n)
    BY <2>1, <2>2 DEF Blocks
  <2> QED
    BY <1>1, <2>1, <2>3 DEF AddInst
<1>2. CASE ~Writable(bs, b)
  BY <1>2 DEF AddInst
<1> QED
  BY <1>1, <1>2

\* So does adding a terminator.
LEMMA AddTermType ==
    ASSUME NEW p, NEW n \in Nat, NEW bs \in Seq(Blocks(p, n)), NEW b \in 0..Len(bs),
           NEW term \in Terms(n)
    PROVE  AddTerm(bs, b, term) \in Seq(Blocks(p, n)) /\ Len(AddTerm(bs, b, term)) = Len(bs)
<1>1. CASE Writable(bs, b)
  <2>1. b \in 1..Len(bs) /\ bs[b] \in Blocks(p, n)
    BY <1>1 DEF Writable, Null
  <2>2. [bs[b] EXCEPT !.term = term] \in Blocks(p, n)
    BY <2>1 DEF Blocks
  <2> QED
    BY <1>1, <2>1, <2>2 DEF AddTerm
<1>2. CASE ~Writable(bs, b)
  BY <1>2 DEF AddTerm
<1> QED
  BY <1>1, <1>2

\* The three ways to end a block.
LEMMA TermsType ==
    ASSUME NEW n \in Nat, NEW b \in 1..n, NEW c \in 1..n, NEW place \in Places
    PROVE  Jump(b) \in Terms(n) /\ Fork(place, b, c) \in Terms(n) /\ Ret(place) \in Terms(n)
BY DEF Jump, Fork, Ret, Terms

\* A new block of function f.
LEMMA NewBlockType ==
    ASSUME NEW p, NEW n \in Nat, NEW f \in 1..Len(p) PROVE NewBlock(f) \in Blocks(p, n)
BY DEF NewBlock, Blocks, Terms

\* A name used by an expression is one of the names.
LEMMA NamesOfStatements ==
    ASSUME NEW s \in Statements
    PROVE  s.op = "var" => s.name \in Names
BY DEF Names

\* The parts of a statement are statements to be analysed.
LEMMA PartsType ==
    ASSUME NEW place \in Places, NEW part \in Nat, NEW stmts \in Seq(Statements)
    PROVE  /\ Parts(place, part, stmts) \in Seq(StmtItems)
           /\ Len(Parts(place, part, stmts)) = Len(stmts)
           /\ \A k \in 1..Len(stmts) : /\ Parts(place, part, stmts)[k].do = "stmt"
                                       /\ Parts(place, part, stmts)[k].stmt = stmts[k]
<1>1. Len(stmts) \in Nat
  OBVIOUS
<1>2. \A k \in 1..Len(stmts) : /\ place \o <<part, k>> \in Places
                               /\ stmts[k] \in Statements
  BY DEF Places
<1>3. \A k \in 1..Len(stmts) :
        [do |-> "stmt", at |-> place \o <<part, k>>, stmt |-> stmts[k]] \in StmtItems
  BY <1>2 DEF StmtItems
<1>4. Parts(place, part, stmts) \in [1..Len(stmts) -> StmtItems]
  BY <1>3 DEF Parts
<1>5. Parts(place, part, stmts) \in Seq(StmtItems) /\ Len(Parts(place, part, stmts)) = Len(stmts)
  BY <1>1, <1>4
<1>6. \A k \in 1..Len(stmts) : /\ Parts(place, part, stmts)[k].do = "stmt"
                               /\ Parts(place, part, stmts)[k].stmt = stmts[k]
  BY DEF Parts
<1> QED
  BY <1>5, <1>6

\* So is a part that may be missing.
LEMMA OptionalType ==
    ASSUME NEW place \in Places, NEW part \in Nat, NEW stmt,
           stmt = None \/ stmt \in Statements
    PROVE  /\ Optional(place, part, stmt) \in Seq(StmtItems)
           /\ \A k \in 1..Len(Optional(place, part, stmt)) :
                /\ Optional(place, part, stmt)[k].do = "stmt"
                /\ Optional(place, part, stmt)[k].stmt = stmt
                /\ stmt \in Statements
<1>1. CASE stmt = None
  BY <1>1 DEF Optional
<1>2. CASE stmt # None
  <2> DEFINE one == <<stmt>>
             parts == Parts(place, part, one)
  <2>1. one \in Seq(Statements) /\ Len(one) = 1 /\ one[1] = stmt
    BY <1>2
  <2>2. Optional(place, part, stmt) = parts
    BY <1>2 DEF Optional
  <2> HIDE DEF one
  <2>3. /\ parts \in Seq(StmtItems) /\ Len(parts) = 1
        /\ parts[1].do = "stmt" /\ parts[1].stmt = stmt
    BY <2>1, PartsType
  <2> HIDE DEF parts
  <2>4. \A k \in 1..Len(parts) : k = 1
    BY <2>3
  <2> QED
    BY <1>2, <2>2, <2>3, <2>4
<1> QED
  BY <1>1, <1>2

\* The body of a function as items: its statements and its end.
LEMMA BodyIsOfStatements ==
    ASSUME TypeOK, NEW f \in FuncsOf(program)
    PROVE  /\ program[f] \in Statements /\ program[f].body \in Seq(Statements)
           /\ program[f].template \in BOOLEAN
<1>1. program \in Seq(Statements)
  BY StatementsAssumption DEF TypeOK
<1>2. program[f] \in Statements /\ program[f].op = "func"
  BY <1>1 DEF FuncsOf
<1> QED
  BY <1>2, StatementsAssumption

LEMMA StatementsOfBody ==
    ASSUME TypeOK, NEW f \in FuncsOf(program), NEW n \in Nat
    PROVE  [k \in 1..Len(program[f].body) |->
                [do |-> "stmt", at |-> <<f, k>>, stmt |-> program[f].body[k]]]
                    \in Seq(Items(program, n))
<1> DEFINE body == program[f].body
<1>1. body \in Seq(Statements) /\ Len(body) \in Nat
  BY BodyIsOfStatements
<1>2. \A k \in 1..Len(body) : <<f, k>> \in Places /\ body[k] \in Statements
  BY <1>1 DEF Places, FuncsOf
<1>3. \A k \in 1..Len(body) :
        [do |-> "stmt", at |-> <<f, k>>, stmt |-> body[k]] \in Items(program, n)
  BY <1>2 DEF StmtItems, Items
<1> QED
  BY <1>1, <1>3

LEMMA EndOfBody ==
    ASSUME TypeOK, NEW f \in FuncsOf(program), NEW restore \in 0..Len(blocks),
           NEW n \in Nat, Len(blocks) <= n
    PROVE  [do |-> "endBody", func |-> f, block |-> restore, depth |-> Len(vars),
            loops |-> loops] \in Items(program, n)
<1>1. Len(blocks) \in Nat /\ Len(vars) \in Nat /\ loops \in Seq(LoopBlocks(Len(blocks)))
  BY DEF TypeOK
<1>2. loops \in Seq(LoopBlocks(n)) /\ restore \in 0..n
  BY <1>1, MoreLoopBlocks
<1> QED
  BY <1>1, <1>2 DEF EndItems, Items

LEMMA BodyOfType ==
    ASSUME TypeOK, NEW f \in FuncsOf(program), NEW restore \in 0..Len(blocks),
           NEW n \in Nat, Len(blocks) <= n
    PROVE  BodyOf(f, restore) \in Seq(Items(program, n))
<1> DEFINE end == [do |-> "endBody", func |-> f, block |-> restore, depth |-> Len(vars),
                   loops |-> loops]
           stmts == [k \in 1..Len(program[f].body) |->
                        [do |-> "stmt", at |-> <<f, k>>, stmt |-> program[f].body[k]]]
<1>1. stmts \in Seq(Items(program, n)) /\ end \in Items(program, n)
  BY StatementsOfBody, EndOfBody
<1>2. BodyOf(f, restore) = stmts \o <<end>>
  BY DEF BodyOf
<1> QED
  BY <1>1, <1>2

-----------------------------------------------------------------------------
(* Names. *)

\* A set of numbers that is not empty has a least member,
LEMMA LeastExists ==
    ASSUME NEW T, T \subseteq Nat, T # {} PROVE \E x \in T : \A y \in T : x <= y
<1> DEFINE R == OpToRel(<, Nat)
<1>1. IsWellFoundedOn(R, Nat)
  BY NatLessThanWellFounded
<1>2. \A x, y \in Nat : y < x => <<y, x>> \in R
  BY DEF OpToRel
<1> HIDE DEF R
<1>3. PICK x \in T : \A y \in T : ~(<<y, x>> \in R)
  BY <1>1, WFMin
<1>4. \A y \in T : ~(y < x)
  BY <1>2, <1>3
<1> QED
  BY <1>4

\* and, if it is bounded, a greatest one.
LEMMA GreatestExists ==
    ASSUME NEW n \in Nat, NEW T, T \subseteq 1..n, T # {}
    PROVE  \E x \in T : \A y \in T : y <= x
<1> DEFINE U == {n - x : x \in T}
<1>1. U \subseteq Nat /\ U # {}
  <2>1. \A x \in T : n - x \in Nat
    OBVIOUS
  <2>2. PICK x \in T : TRUE
    OBVIOUS
  <2>3. n - x \in U
    BY <2>2
  <2> QED
    BY <2>1, <2>3
<1>2. \E u \in U : \A v \in U : u <= v
  <2> HIDE DEF U
  <2> QED
    BY <1>1, LeastExists
<1>3. PICK x \in T : \A v \in U : n - x <= v
  BY <1>2
<1>4. \A y \in T : n - x <= n - y
  BY <1>3
<1>5. \A y \in T : y <= x
  BY <1>4
<1> QED
  BY <1>5

\* A name that is found has a definition, that of the innermost scope.
LEMMA GetVariableType ==
    ASSUME vars \in Seq(Scopes), NEW n, Found(n)
    PROVE  GetVariable(n) \in Places
<1>1. Holders(n) \subseteq 1..Len(vars) /\ Holders(n) # {} /\ Len(vars) \in Nat
  <2>1. DOMAIN vars = 1..Len(vars) /\ Len(vars) \in Nat
    OBVIOUS
  <2> QED
    BY <2>1 DEF Holders, Found
<1>2. \E k \in Holders(n) : \A j \in Holders(n) : j <= k
  BY <1>1, GreatestExists
<1> DEFINE k == CHOOSE k \in Holders(n) : \A j \in Holders(n) : j <= k
<1>3. k \in Holders(n)
  BY <1>2
<1>4. k \in 1..Len(vars) /\ n \in DOMAIN vars[k]
  BY <1>3 DEF Holders
<1>5. PICK D : vars[k] \in [D -> Places]
  <2>1. vars[k] \in Scopes
    BY <1>4
  <2> QED
    BY <2>1 DEF Scopes
<1>6. vars[k][n] \in Places
  BY <1>4, <1>5
<1> QED
  BY <1>6 DEF GetVariable

LEMMA EmptyScope == <<>> \in Scopes
<1> DEFINE e == [x \in {} |-> <<>>]
<1>1. e \in [{} -> Places] /\ {} \in SUBSET Names
  OBVIOUS
<1>2. <<>> = e
  OBVIOUS
<1> QED
  BY <1>1, <1>2 DEF Scopes

\* The evaluation of an expression keeps the types.
LEMMA EvaluateType ==
    ASSUME TypeOK, NEW e \in Exprs, NEW place \in Places, Evaluate(e, place)
    PROVE  /\ resolved' \subseteq [at : Places, name : Names, to : Places]
           /\ errors' \subseteq Places
<1>1. errors' \subseteq Places
  BY DEF TypeOK, Evaluate
<1>2. CASE e.op = "use" /\ Found(e.name)
  <2>1. GetVariable(e.name) \in Places
    BY <1>2, GetVariableType DEF TypeOK
  <2>2. e.name \in Names
    BY <1>2 DEF Names
  <2> QED
    BY <1>1, <1>2, <2>1, <2>2 DEF TypeOK, Evaluate
<1>3. CASE ~(e.op = "use" /\ Found(e.name))
  BY <1>1, <1>3 DEF TypeOK, Evaluate
<1> QED
  BY <1>2, <1>3

\* A scope to which a name was added.
LEMMA DefineType ==
    ASSUME vars \in Seq(Scopes), vars # <<>>, NEW name \in Names, NEW place \in Places
    PROVE  [vars EXCEPT ![Len(vars)] =
                [n \in DOMAIN vars[Len(vars)] \cup {name} |->
                    IF n = name THEN place ELSE vars[Len(vars)][n]]] \in Seq(Scopes)
<1> DEFINE k == Len(vars)
           new == [n \in DOMAIN vars[k] \cup {name} |-> IF n = name THEN place ELSE vars[k][n]]
<1>1. k \in 1..Len(vars) /\ vars[k] \in Scopes
  OBVIOUS
<1>2. PICK D \in SUBSET Names : vars[k] \in [D -> Places]
  BY <1>1 DEF Scopes
<1>3. new \in [D \cup {name} -> Places] /\ D \cup {name} \in SUBSET Names
  BY <1>2
<1>4. new \in Scopes
  BY <1>3, Zenon DEF Scopes
<1>5. \A x \in Scopes : [vars EXCEPT ![k] = x] \in Seq(Scopes)
  BY <1>1
<1> QED
  BY <1>4, <1>5

-----------------------------------------------------------------------------
(* Type correctness. *)

\* What is left of a stack when its top is taken.
LEMMA Popped ==
    ASSUME NEW S, NEW s \in Seq(S)
    PROVE  SubSeq(s, 1, Len(s) - 1) \in Seq(S)
<1>1. Len(s) \in Nat
  OBVIOUS
<1>2. \A i \in 1..(Len(s) - 1) : s[i] \in S
  BY <1>1
<1>3. 1 \in Int /\ Len(s) - 1 \in Int
  BY <1>1
<1> QED
  BY <1>2, <1>3, SubSeqProperties

LEMMA PoppedLen ==
    ASSUME NEW S, NEW s \in Seq(S), s # <<>>
    PROVE  Len(SubSeq(s, 1, Len(s) - 1)) = Len(s) - 1
<1>1. PICK n \in Nat : Len(s) = n + 1
  OBVIOUS
<1>2. Len(s) - 1 = n /\ \A i \in 1..n : s[i] \in S
  BY <1>1
<1>3. Len(SubSeq(s, 1, n)) = IF 1 <= n THEN n - 1 + 1 ELSE 0
  BY <1>2, SubSeqProperties
<1>4. Len(SubSeq(s, 1, n)) = n
  <2>1. CASE n = 0
    BY <1>3, <2>1
  <2>2. CASE n > 0
    BY <1>3, <2>2
  <2> QED
    BY <2>1, <2>2
<1> QED
  BY <1>2, <1>4

LEMMA PoppedPushed ==
    ASSUME NEW S, NEW s \in Seq(S), NEW T, NEW t \in Seq(T), NEW x, s = Append(t, x)
    PROVE  SubSeq(s, 1, Len(s) - 1) = t /\ s[Len(s)] = x
OBVIOUS

\* What a step of the analysis has to show, and what one that adds neither
\* blocks nor scopes.
LEMMA TypeOfStep ==
    ASSUME TypeOK, Stays, Len(blocks') \in Nat, Len(blocks) <= Len(blocks'),
           blocks' \in Seq(Blocks(program, Len(blocks'))),
           agenda' \in Seq(Items(program, Len(blocks'))),
           vars' \in Seq(Scopes),
           loops' \in Seq(LoopBlocks(Len(blocks'))),
           bodies' \in Seq(FuncsOf(program)),
           at' \in 0..Len(blocks'),
           made' \subseteq FuncsOf(program),
           resolved' \subseteq [at : Places, name : Names, to : Places],
           errors' \subseteq Places
    PROVE  TypeOK'
BY SMTT(60) DEF TypeOK, Stays

\* A step that makes no block.
LEMMA TypeOfPlainStep ==
    ASSUME TypeOK, Stays,
           blocks' \in Seq(Blocks(program, Len(blocks))), Len(blocks') = Len(blocks),
           agenda' \in Seq(Items(program, Len(blocks))),
           vars' \in Seq(Scopes),
           loops' \in Seq(LoopBlocks(Len(blocks))),
           bodies' = bodies, made' = made,
           at' \in 0..Len(blocks),
           resolved' \subseteq [at : Places, name : Names, to : Places],
           errors' \subseteq Places
    PROVE  TypeOK'
BY DEF TypeOK, Stays

\* What a step finds that takes the item at the head of the agenda.
LEMMA TypesAtHead ==
    ASSUME TypeOK, agenda # <<>>
    PROVE  /\ Len(blocks) \in Nat /\ blocks \in Seq(Blocks(program, Len(blocks)))
           /\ Now \in Items(program, Len(blocks)) /\ Rest \in Seq(Items(program, Len(blocks)))
           /\ vars \in Seq(Scopes) /\ loops \in Seq(LoopBlocks(Len(blocks)))
           /\ at \in 0..Len(blocks)
           /\ resolved \subseteq [at : Places, name : Names, to : Places] /\ errors \subseteq Places
           /\ Now.do = "stmt" => Now.at \in Places /\ Now.stmt \in Statements
           /\ Now.do = "finish" => /\ Now.at \in Places /\ Now.stmt \in Statements
                                   /\ Now.stmt.e \in Exprs
           /\ Now.do = "loopCond" => /\ Now.at \in Places /\ Now.cond \in Exprs
                                     /\ Now.merge \in 2..Len(blocks)
           /\ Now.do = "mute" => Now.other \in Seq(StmtItems)
           /\ Now.do = "moveTo" => Now.block \in 0..Len(blocks)
           /\ Now.do = "jumpTo" => Now.block \in 1..Len(blocks)
<1>1. Now \in Items(program, Len(blocks)) /\ Rest \in Seq(Items(program, Len(blocks)))
  BY HeadOfAgenda
<1>2. Now.do = "stmt" => Now.at \in Places /\ Now.stmt \in Statements
  BY <1>1, ItemKinds DEF StmtItems
<1>3. Now.do = "finish" => /\ Now.at \in Places /\ Now.stmt \in Statements
                          /\ Now.stmt.e \in Exprs
  BY <1>1, ItemKinds DEF FinishItems, Exprs
<1>4. Now.do = "loopCond" => /\ Now.at \in Places /\ Now.cond \in Exprs
                            /\ Now.merge \in 2..Len(blocks)
  BY <1>1, ItemKinds DEF CondItems
<1>5. Now.do = "mute" => Now.other \in Seq(StmtItems)
  BY <1>1, ItemKinds DEF MuteItems
<1>6. /\ Now.do = "moveTo" => Now.block \in 0..Len(blocks)
      /\ Now.do = "jumpTo" => Now.block \in 1..Len(blocks)
  BY <1>1, ItemKinds DEF MoveItems, JumpItems
<1> QED
  BY <1>1, <1>2, <1>3, <1>4, <1>5, <1>6 DEF TypeOK

\* The actions keep the types, one by one.
LEMMA TypeOfCrash == ASSUME TypeOK, Crash PROVE TypeOK'
BY DEF TypeOK, Crash

LEMMA TypeOfBeginBody ==
    ASSUME TypeOK, NEW f \in FuncsOf(program), NEW rest \in Seq(Items(program, Len(blocks))),
           BeginBody(f, at, rest)
    PROVE  /\ Len(blocks') = Len(blocks) + 1 /\ at' \in 0..Len(blocks')
           /\ blocks' \in Seq(Blocks(program, Len(blocks')))
           /\ agenda' \in Seq(Items(program, Len(blocks')))
           /\ vars' \in Seq(Scopes)
           /\ bodies' \in Seq(FuncsOf(program))
<1> DEFINE n == Len(blocks)
<1>1. n \in Nat /\ blocks \in Seq(Blocks(program, n)) /\ at \in 0..n
  BY DEF TypeOK
<1>2. blocks \in Seq(Blocks(program, n + 1)) /\ rest \in Seq(Items(program, n + 1))
  BY <1>1, MoreBlocks, SeqOfMore
<1>3. NewBlock(f) \in Blocks(program, n + 1)
  BY <1>1, NewBlockType DEF FuncsOf
<1>4. blocks' \in Seq(Blocks(program, n + 1)) /\ Len(blocks') = n + 1
  BY <1>2, <1>3 DEF BeginBody
<1>5. BodyOf(f, at) \in Seq(Items(program, n + 1))
  BY <1>1, BodyOfType
<1>6. agenda' \in Seq(Items(program, n + 1))
  BY <1>2, <1>5 DEF BeginBody
<1>7. [x \in program[f].args |-> <<f, 0>>] \in Scopes
  <2>1. program[f] \in Statements /\ program[f].op = "func"
    BY BodyIsOfStatements DEF FuncsOf
  <2>2. program[f].args \in SUBSET Names
    BY <2>1 DEF Names
  <2>3. <<f, 0>> \in Places
    BY DEF Places, FuncsOf
  <2> QED
    BY <2>2, <2>3 DEF Scopes
<1>8. vars' \in Seq(Scopes) /\ bodies' \in Seq(FuncsOf(program))
  BY <1>7 DEF BeginBody, TypeOK
<1> QED
  BY <1>1, <1>4, <1>6, <1>8 DEF BeginBody

LEMMA TypeOfDeclare == ASSUME TypeOK, Declare PROVE TypeOK'
<1> DEFINE d == program[decl]
<1>1. /\ program \in Seq(Statements) /\ decl \in 1..Len(program) /\ d \in Statements
      /\ Len(blocks) \in Nat /\ <<decl>> \in Places /\ decl + 1 \in 1..(Len(program) + 1)
  BY StatementsAssumption DEF TypeOK, Declare, Places
<1>2. /\ program' = program /\ decl' = decl + 1 /\ loops' = loops /\ made' = made
      /\ resolved' = resolved /\ removed' = removed /\ phase' = phase
  BY DEF Declare
<1>3. CASE d.op = "func" /\ InGlobalScope /\ ~d.template
  <2>1. decl \in FuncsOf(program) /\ BeginBody(decl, at, <<>>) /\ errors' = errors
    BY <1>1, <1>3 DEF FuncsOf, Declare
  <2>2. /\ Len(blocks') = Len(blocks) + 1 /\ at' \in 0..Len(blocks')
        /\ blocks' \in Seq(Blocks(program, Len(blocks')))
        /\ agenda' \in Seq(Items(program, Len(blocks')))
        /\ vars' \in Seq(Scopes)
        /\ bodies' \in Seq(FuncsOf(program))
    <3>1. <<>> \in Seq(Items(program, Len(blocks)))
      OBVIOUS
    <3> QED
      BY <2>1, <3>1, TypeOfBeginBody
  <2>3. loops \in Seq(LoopBlocks(Len(blocks')))
    <3>1. loops \in Seq(LoopBlocks(Len(blocks)))
      BY DEF TypeOK
    <3> QED
      BY <3>1, <2>2, <1>1, MoreLoopBlocks
  <2>4. removed \subseteq 1..Len(blocks')
    BY <2>2, <1>1 DEF TypeOK
  <2> QED
    BY <1>1, <1>2, <2>1, <2>2, <2>3, <2>4 DEF TypeOK
<1>4. CASE d.op # "func"
  <2>1. [do |-> "stmt", at |-> <<decl>>, stmt |-> d] \in Items(program, Len(blocks))
    BY <1>1 DEF StmtItems, Items
  <2>2. /\ agenda' = <<[do |-> "stmt", at |-> <<decl>>, stmt |-> d]>>
        /\ UNCHANGED <<vars, bodies, at, blocks, errors>>
    BY <1>4 DEF Declare
  <2>3. agenda' \in Seq(Items(program, Len(blocks)))
    BY <2>1, <2>2
  <2> QED
    BY <1>1, <1>2, <2>2, <2>3 DEF TypeOK
<1>5. CASE d.op = "func" /\ (~InGlobalScope \/ d.template)
  <2>1. /\ UNCHANGED <<agenda, vars, bodies, at, blocks>>
        /\ errors' \subseteq Places
    <3>1. CASE ~InGlobalScope
      <4>1. Report(<<decl>>) /\ UNCHANGED <<agenda, vars, bodies, at, blocks>>
        BY <1>5, <3>1 DEF Declare
      <4> QED
        BY <4>1, <1>1 DEF TypeOK, Report
    <3>2. CASE InGlobalScope
      BY <1>5, <3>2 DEF TypeOK, Declare
    <3> QED
      BY <3>1, <3>2
  <2> QED
    BY <1>1, <1>2, <2>1 DEF TypeOK
<1>6. d.op = "func" => d.template \in BOOLEAN
  BY <1>1, StatementsAssumption
<1> QED
  BY <1>3, <1>4, <1>5, <1>6

LEMMA TypeOfInstantiate == ASSUME TypeOK, Instantiate PROVE TypeOK'
<1> DEFINE f == Evaluated.callee
<1>1. Evaluated \in Exprs /\ Evaluated.op = "call" /\ Evaluated # None
  <2>1. Now \in Items(program, Len(blocks))
    BY HeadOfAgenda DEF Instantiate
  <2>2. Evaluated.op = "call"
    BY DEF Instantiate, Pending
  <2>3. CASE Now.do = "finish"
    <3>1. Evaluated = Now.stmt.e /\ Now \in FinishItems
      BY <2>1, <2>3, ItemKinds DEF Evaluated
    <3> QED
      BY <2>2, <3>1 DEF FinishItems, Exprs, None
  <2>4. CASE Now.do = "loopCond"
    <3>1. Evaluated = Now.cond /\ Now \in CondItems(Len(blocks))
      BY <2>1, <2>4, ItemKinds DEF Evaluated
    <3> QED
      BY <2>2, <3>1 DEF CondItems, None
  <2>5. CASE Now.do \notin {"finish", "loopCond"}
    BY <2>2, <2>5 DEF Evaluated, None
  <2> QED
    BY <2>3, <2>4, <2>5
<1>2. f \in FuncsOf(program)
  BY <1>1, CallsAssumption DEF TypeOK, FuncsOf
<1>3. BeginBody(f, at, agenda) /\ agenda \in Seq(Items(program, Len(blocks)))
  BY DEF Instantiate, TypeOK
<1>4. /\ Len(blocks') = Len(blocks) + 1 /\ at' \in 0..Len(blocks')
      /\ blocks' \in Seq(Blocks(program, Len(blocks')))
      /\ agenda' \in Seq(Items(program, Len(blocks')))
      /\ vars' \in Seq(Scopes)
      /\ bodies' \in Seq(FuncsOf(program))
  BY <1>2, <1>3, TypeOfBeginBody
<1>5. Len(blocks) \in Nat /\ loops \in Seq(LoopBlocks(Len(blocks)))
  BY DEF TypeOK
<1>6. loops' \in Seq(LoopBlocks(Len(blocks')))
  BY <1>4, <1>5, MoreLoopBlocks DEF Instantiate
<1>7. made' \subseteq FuncsOf(program)
  BY <1>2 DEF Instantiate, TypeOK
<1>8. /\ Stays /\ Len(blocks') \in Nat /\ Len(blocks) <= Len(blocks')
      /\ resolved' \subseteq [at : Places, name : Names, to : Places] /\ errors' \subseteq Places
  BY <1>4, <1>5 DEF Instantiate, TypeOK
<1> QED
  BY <1>4, <1>6, <1>7, <1>8, TypeOfStep

LEMMA TypeOfEndBody == ASSUME TypeOK, EndBody PROVE TypeOK'
<1>1. agenda # <<>> /\ Now \in EndItems(program, Len(blocks))
  BY HeadOfAgenda, ItemKinds DEF EndBody, AtHead, Now
<1>2. Now.func \in FuncsOf(program) /\ Now.block \in 0..Len(blocks)
  BY <1>1 DEF EndItems
<1>3. /\ Len(blocks) \in Nat /\ blocks \in Seq(Blocks(program, Len(blocks)))
      /\ at \in 0..Len(blocks)
  BY DEF TypeOK
<1>4. Ret(<<Now.func>>) \in Terms(Len(blocks))
  BY <1>2 DEF Ret, Terms, Places, FuncsOf
<1>5. blocks' \in Seq(Blocks(program, Len(blocks))) /\ Len(blocks') = Len(blocks)
  <2>1. CASE program[Now.func].ret
    BY <2>1, <1>3 DEF EndBody
  <2>2. CASE ~program[Now.func].ret
    BY <2>2, <1>3, <1>4, AddTermType DEF EndBody
  <2> QED
    BY <2>1, <2>2
<1>6. vars' \in Seq(Scopes) /\ bodies' \in Seq(FuncsOf(program))
  BY Popped DEF EndBody, TypeOK
<1>7. at' \in 0..Len(blocks)
  BY <1>2, <1>3 DEF EndBody
<1>8. agenda' \in Seq(Items(program, Len(blocks)))
  BY <1>1, HeadOfAgenda DEF EndBody
<1>9. /\ Stays /\ Len(blocks) <= Len(blocks') /\ made' \subseteq FuncsOf(program)
      /\ loops' \in Seq(LoopBlocks(Len(blocks)))
      /\ resolved' \subseteq [at : Places, name : Names, to : Places] /\ errors' \subseteq Places
  BY <1>3, <1>5 DEF EndBody, TypeOK
<1> QED
  BY <1>3, <1>5, <1>6, <1>7, <1>8, <1>9, TypeOfStep

\* The statements that have no parts.
LEMMA TypeOfStatements ==
    ASSUME TypeOK, vars # <<>>,
           Refuse \/ ReturnOutside \/ Start \/ DefineVar \/ AddExprStmt \/ Return \/ IfFails
    PROVE  TypeOK'
<1>1. CASE Refuse
  <2>1. agenda # <<>> /\ Now.do = "stmt"
    BY <1>1 DEF Refuse, AtHead, Now
  <2>2. errors' \subseteq Places
    BY <1>1, <2>1, TypesAtHead DEF Refuse, Report
  <2> QED
    BY <1>1, <2>1, <2>2, TypesAtHead, TypeOfPlainStep DEF Refuse
<1>2. CASE ReturnOutside
  BY <1>2, TypeOfCrash DEF ReturnOutside
<1>3. CASE Start
  <2>1. agenda # <<>> /\ Now.do = "stmt" /\ Now \in StmtItems
    BY <1>3, HeadOfAgenda, ItemKinds DEF Start, AtHead, Now
  <2>2. [Now EXCEPT !.do = "finish"] \in FinishItems
    BY <1>3, <2>1 DEF Start, StmtItems, FinishItems
  <2>3. <<[Now EXCEPT !.do = "finish"]>> \in Seq(Items(program, Len(blocks)))
    BY <2>2 DEF Items
  <2>4. agenda' \in Seq(Items(program, Len(blocks)))
    BY <1>3, <2>1, <2>3, TypesAtHead DEF Start
  <2> QED
    BY <1>3, <2>1, <2>4, TypesAtHead, TypeOfPlainStep DEF Start
<1>4. CASE DefineVar
  <2>1. agenda # <<>> /\ Now.do = "finish" /\ Now.stmt.op = "var"
    BY <1>4 DEF DefineVar, Finish, AtHead, Now
  <2>2. CASE Crash
    BY <2>2, TypeOfCrash
  <2>3. CASE ~Crash
    <3>1. /\ Evaluate(Now.stmt.e, Now.at) /\ agenda' = Rest
          /\ UNCHANGED <<loops, bodies, at, made>> /\ Stays
      BY <1>4, <2>3 DEF DefineVar
    <3>2. /\ resolved' \subseteq [at : Places, name : Names, to : Places]
          /\ errors' \subseteq Places
      BY <2>1, <3>1, TypesAtHead, EvaluateType
    <3>3. Now.stmt.name \in Names
      BY <2>1, TypesAtHead, NamesOfStatements
    <3>4. vars' \in Seq(Scopes)
      <4>1. CASE vars' = vars
        BY <4>1, <2>1, TypesAtHead
      <4>2. CASE vars' # vars
        BY <4>2, <1>4, <2>1, <2>3, <3>3, TypesAtHead, DefineType DEF DefineVar
      <4> QED
        BY <4>1, <4>2
    <3>5. blocks' \in Seq(Blocks(program, Len(blocks))) /\ Len(blocks') = Len(blocks)
      <4>1. blocks' = blocks \/ blocks' = AddInst(blocks, at, Now.at)
        BY <1>4, <2>3 DEF DefineVar
      <4> QED
        BY <4>1, <2>1, TypesAtHead, AddInstType
    <3> QED
      BY <2>1, <3>1, <3>2, <3>4, <3>5, TypesAtHead, TypeOfPlainStep
  <2> QED
    BY <2>2, <2>3
<1>5. CASE AddExprStmt
  <2>1. agenda # <<>> /\ Now.do = "finish"
    BY <1>5 DEF AddExprStmt, Finish, AtHead, Now
  <2>2. /\ resolved' \subseteq [at : Places, name : Names, to : Places] /\ errors' \subseteq Places
    BY <1>5, <2>1, TypesAtHead, EvaluateType DEF AddExprStmt
  <2>3. blocks' \in Seq(Blocks(program, Len(blocks))) /\ Len(blocks') = Len(blocks)
    BY <1>5, <2>1, TypesAtHead, AddInstType DEF AddExprStmt
  <2> QED
    BY <1>5, <2>1, <2>2, <2>3, TypesAtHead, TypeOfPlainStep DEF AddExprStmt
<1>6. CASE Return
  <2>1. agenda # <<>> /\ Now.do = "finish"
    BY <1>6 DEF Return, Finish, AtHead, Now
  <2>2. /\ Evaluate(Now.stmt.e, Now.at) \/ (Report(Now.at) /\ UNCHANGED resolved)
        /\ blocks' = AddTerm(blocks, at, Ret(Now.at)) \/ blocks' = blocks
        /\ agenda' = Rest /\ UNCHANGED <<vars, loops, bodies, at, made>> /\ Stays
    BY <1>6 DEF Return
  <2>3. /\ resolved' \subseteq [at : Places, name : Names, to : Places] /\ errors' \subseteq Places
    <3>1. CASE Evaluate(Now.stmt.e, Now.at)
      BY <3>1, <2>1, TypesAtHead, EvaluateType
    <3>2. CASE Report(Now.at) /\ UNCHANGED resolved
      BY <3>2, <2>1, TypesAtHead DEF Report
    <3> QED
      BY <2>2, <3>1, <3>2
  <2>4. blocks' \in Seq(Blocks(program, Len(blocks))) /\ Len(blocks') = Len(blocks)
    <3>1. Ret(Now.at) \in Terms(Len(blocks))
      BY <2>1, TypesAtHead DEF Ret, Terms
    <3> QED
      BY <2>1, <2>2, <3>1, TypesAtHead, AddTermType
  <2> QED
    BY <2>1, <2>2, <2>3, <2>4, TypesAtHead, TypeOfPlainStep
<1>7. CASE IfFails
  <2>1. agenda # <<>> /\ Now.do = "finish"
    BY <1>7 DEF IfFails, Finish, AtHead, Now
  <2>2. /\ resolved' \subseteq [at : Places, name : Names, to : Places] /\ errors' \subseteq Places
    BY <1>7, <2>1, TypesAtHead, EvaluateType DEF IfFails
  <2> QED
    BY <1>7, <2>1, <2>2, TypesAtHead, TypeOfPlainStep DEF IfFails
<1> QED
  BY <1>1, <1>2, <1>3, <1>4, <1>5, <1>6, <1>7

\* Items put between the opening and the closing of a scope.
LEMMA ScopedType ==
    ASSUME NEW p, NEW n, NEW items \in Seq(Items(p, n))
    PROVE  Scoped(items) \in Seq(Items(p, n))
<1>1. /\ [do |-> "openScope"] \in Items(p, n)
      /\ [do |-> "closeScope"] \in Items(p, n)
  BY DEF ScopeItems, Items
<1>2. Item("openScope") \in Seq(Items(p, n)) /\ Item("closeScope") \in Seq(Items(p, n))
  BY <1>1 DEF Item
<1> QED
  BY <1>2 DEF Scoped

LEMMA MovesType ==
    ASSUME NEW p, NEW n \in Nat, NEW b \in 0..n
    PROVE  /\ MoveTo(b) \in Seq(Items(p, n))
           /\ b # 0 => JumpTo(b) \in Seq(Items(p, n))
<1>1. [do |-> "moveTo", block |-> b] \in Items(p, n)
  BY DEF MoveItems, Items
<1>2. b # 0 => [do |-> "jumpTo", block |-> b] \in Items(p, n)
  BY DEF JumpItems, Items
<1> QED
  BY <1>1, <1>2 DEF MoveTo, JumpTo

LEMMA StmtItemsType ==
    ASSUME NEW p, NEW n, NEW items \in Seq(StmtItems) PROVE items \in Seq(Items(p, n))
BY SeqOfMore DEF Items

LEMMA TypeOfConstantIf == ASSUME TypeOK, ConstantIf PROVE TypeOK'
<1> DEFINE then == Parts(Now.at, 1, Now.stmt.then)
           else == Parts(Now.at, 2, Now.stmt.else)
           taken == IF Now.stmt.e.op = "true" THEN then ELSE else
           other == IF Now.stmt.e.op = "true" THEN else ELSE then
           mute == [do |-> "mute", other |-> other]
<1>1. agenda # <<>> /\ Now.do = "finish" /\ Now.stmt.op = "if"
  BY DEF ConstantIf, Finish, AtHead, Now
<1>2. then \in Seq(StmtItems) /\ else \in Seq(StmtItems)
  BY <1>1, TypesAtHead, StatementsAssumption, PartsType
<1>3. agenda' = Scoped(taken) \o <<mute>> \o Rest
  BY DEF ConstantIf
<1>4. /\ Stays
      /\ UNCHANGED <<vars, loops, bodies, at, blocks, made, resolved, errors>>
  BY DEF ConstantIf
<1> HIDE DEF then, else
<1>5. Scoped(taken) \in Seq(Items(program, Len(blocks)))
  BY <1>2, StmtItemsType, ScopedType
<1>6. <<mute>> \in Seq(Items(program, Len(blocks)))
  BY <1>2 DEF MuteItems, Items
<1>7. agenda' \in Seq(Items(program, Len(blocks)))
  BY <1>1, <1>3, <1>5, <1>6, TypesAtHead
<1> QED
  BY <1>1, <1>4, <1>7, TypesAtHead, TypeOfPlainStep

LEMMA TypeOfMute == ASSUME TypeOK, Mute PROVE TypeOK'
<1>1. agenda # <<>> /\ Now.do = "mute"
  BY DEF Mute, AtHead, Now
<1>2. Scoped(Now.other) \in Seq(Items(program, Len(blocks)))
  BY <1>1, TypesAtHead, StmtItemsType, ScopedType
<1>3. MoveTo(at) \in Seq(Items(program, Len(blocks)))
  BY <1>1, TypesAtHead, MovesType
<1>4. agenda' \in Seq(Items(program, Len(blocks)))
  BY <1>1, <1>2, <1>3, TypesAtHead DEF Mute
<1>5. at' \in 0..Len(blocks)
  BY <1>1, TypesAtHead DEF Mute, Null
<1> QED
  BY <1>1, <1>4, <1>5, TypesAtHead, TypeOfPlainStep DEF Mute

LEMMA TypeOfRunTimeIf == ASSUME TypeOK, RunTimeIf PROVE TypeOK'
<1> DEFINE n == Len(blocks)
           f == blocks[at].func
           hasElse == Now.stmt.else # <<>>
           merge == IF hasElse THEN n + 3 ELSE n + 2
           new == [i \in 1..(merge - n) |-> NewBlock(f)]
           then == Parts(Now.at, 1, Now.stmt.then)
           else == Parts(Now.at, 2, Now.stmt.else)
           other == IF hasElse THEN MoveTo(n + 2) \o Scoped(else) \o JumpTo(merge) ELSE <<>>
<1>1. agenda # <<>> /\ Now.do = "finish" /\ Now.stmt.op = "if"
  BY DEF RunTimeIf, Finish, AtHead, Now
<1>2. CASE Crash
  BY <1>2, TypeOfCrash
<1>3. CASE ~Crash
  <2>1. /\ at # Null /\ Evaluate(Now.stmt.e, Now.at)
        /\ blocks' = AddTerm(blocks, at, Fork(Now.at, n + 1, n + 2)) \o new
        /\ at' = n + 1
        /\ agenda' = Scoped(then) \o JumpTo(merge) \o other \o MoveTo(merge) \o Rest
        /\ UNCHANGED <<vars, loops, bodies, made>> /\ Stays
    BY <1>3 DEF RunTimeIf
  <2>2. /\ n \in Nat /\ at \in 1..n /\ f \in 1..Len(program)
        /\ merge \in Nat /\ merge \in (n + 2)..(n + 3)
    <3>1. n \in Nat /\ at \in 1..n
      <4>1. n \in Nat /\ at \in 0..n
        BY <1>1, TypesAtHead
      <4>2. at # 0
        BY <2>1 DEF Null
      <4> QED
        BY <4>1, <4>2
    <3>2. blocks[at] \in Blocks(program, n)
      BY <1>1, <3>1, TypesAtHead
    <3> QED
      BY <3>1, <3>2 DEF Blocks
  <2>3. then \in Seq(StmtItems) /\ else \in Seq(StmtItems)
    <3>1. /\ Now.at \in Places
          /\ Now.stmt.then \in Seq(Statements) /\ Now.stmt.else \in Seq(Statements)
      BY <1>1, TypesAtHead, StatementsAssumption
    <3> QED
      BY <3>1, PartsType
  <2> HIDE DEF then, else, f, merge
  <2>4. new \in Seq(Blocks(program, merge)) /\ Len(new) = merge - n
    <3>1. NewBlock(f) \in Blocks(program, merge) /\ merge - n \in Nat
      BY <2>2, NewBlockType
    <3> QED
      BY <3>1
  <2>5. /\ AddTerm(blocks, at, Fork(Now.at, n + 1, n + 2)) \in Seq(Blocks(program, merge))
        /\ Len(AddTerm(blocks, at, Fork(Now.at, n + 1, n + 2))) = n
    <3>1. Fork(Now.at, n + 1, n + 2) \in Terms(merge)
      <4>1. n + 1 \in 1..merge /\ n + 2 \in 1..merge /\ Now.at \in Places
        BY <1>1, <2>2, TypesAtHead
      <4> QED
        BY <4>1, <2>2, TermsType
    <3>2. blocks \in Seq(Blocks(program, merge))
      <4>1. Blocks(program, n) \subseteq Blocks(program, merge)
        BY <2>2, MoreBlocks
      <4> QED
        BY <1>1, <4>1, TypesAtHead, SeqOfMore
    <3> QED
      BY <2>2, <3>1, <3>2, AddTermType
  <2>6. blocks' \in Seq(Blocks(program, merge)) /\ Len(blocks') = merge
    BY <2>1, <2>2, <2>4, <2>5
  <2>7. agenda' \in Seq(Items(program, merge))
    <3>1. /\ Scoped(then) \in Seq(Items(program, merge))
          /\ Scoped(else) \in Seq(Items(program, merge))
      BY <2>3, StmtItemsType, ScopedType
    <3>2. /\ JumpTo(merge) \in Seq(Items(program, merge))
          /\ MoveTo(merge) \in Seq(Items(program, merge))
          /\ MoveTo(n + 2) \in Seq(Items(program, merge))
      BY <2>2, MovesType
    <3>3. other \in Seq(Items(program, merge))
      BY <3>1, <3>2
    <3>4. Rest \in Seq(Items(program, merge))
      <4>1. Items(program, n) \subseteq Items(program, merge)
        BY <2>2, MoreBlocks
      <4> QED
        BY <1>1, <4>1, TypesAtHead, SeqOfMore
    <3> HIDE DEF other
    <3> QED
      BY <2>1, <3>1, <3>2, <3>3, <3>4
  <2>8. /\ resolved' \subseteq [at : Places, name : Names, to : Places] /\ errors' \subseteq Places
    BY <1>1, <2>1, TypesAtHead, EvaluateType
  <2>9. loops' \in Seq(LoopBlocks(merge))
    BY <1>1, <2>1, <2>2, TypesAtHead, MoreLoopBlocks
  <2>10. /\ vars' \in Seq(Scopes) /\ bodies' \in Seq(FuncsOf(program))
         /\ made' \subseteq FuncsOf(program) /\ at' \in 0..merge
    BY <2>1, <2>2, SMTT(60) DEF TypeOK
  <2>11. Stays /\ Len(blocks') \in Nat /\ Len(blocks) <= Len(blocks')
    BY <2>1, <2>2, <2>6
  <2> QED
    BY <2>6, <2>7, <2>8, <2>9, <2>10, <2>11, TypeOfStep
<1> QED
  BY <1>2, <1>3

\* Agendas put together from well-typed parts.
LEMMA TwoParts ==
    ASSUME NEW S, NEW s \in Seq(S), NEW t \in Seq(S)
    PROVE  s \o t \in Seq(S) /\ Len(s \o t) = Len(s) + Len(t)
OBVIOUS

LEMMA ThreeParts ==
    ASSUME NEW S, NEW s \in Seq(S), NEW t \in Seq(S), NEW u \in Seq(S)
    PROVE  s \o t \o u \in Seq(S)
OBVIOUS

LEMMA SevenParts ==
    ASSUME NEW S, NEW s \in Seq(S), NEW t \in Seq(S), NEW u \in Seq(S), NEW v \in Seq(S),
           NEW w \in Seq(S), NEW x \in Seq(S), NEW y \in Seq(S)
    PROVE  s \o t \o u \o v \o w \o x \o y \in Seq(S)
<1>1. s \o t \o u \o v \in Seq(S)
  OBVIOUS
<1>2. \A z \in Seq(S) : z \o w \o x \o y \in Seq(S)
  OBVIOUS
<1> QED
  BY <1>1, <1>2

LEMMA TypeOfEnterLoop == ASSUME TypeOK, EnterLoop PROVE TypeOK'
<1>1. agenda # <<>> /\ Now.do = "stmt" /\ Now.stmt.op = "for"
  BY DEF EnterLoop, AtHead, Now
<1>2. /\ Len(blocks) \in Nat /\ at \in 0..Len(blocks)
      /\ blocks \in Seq(Blocks(program, Len(blocks)))
      /\ Rest \in Seq(Items(program, Len(blocks)))
      /\ vars \in Seq(Scopes) /\ loops \in Seq(LoopBlocks(Len(blocks)))
      /\ Now.at \in Places /\ Now.stmt \in Statements
  BY <1>1, TypesAtHead
<1>3. /\ Now.stmt.body \in Seq(Statements) /\ Now.stmt.cond \in Exprs
      /\ Now.stmt.init = None \/ Now.stmt.init \in Statements
      /\ Now.stmt.iter = None \/ Now.stmt.iter \in Statements
  BY <1>1, <1>2, StatementsAssumption DEF Exprs
<1>4. CASE Crash
  BY <1>4, TypeOfCrash
<1>5. CASE ~Crash
  <2> DEFINE n == Len(blocks)
             new == [i \in 1..5 |-> NewBlock(blocks[at].func)]
             init == Optional(Now.at, 1, Now.stmt.init)
             iter == Optional(Now.at, 3, Now.stmt.iter)
             body == Parts(Now.at, 4, Now.stmt.body)
             cond == [do |-> "loopCond", at |-> Now.at \o <<2, 1>>, cond |-> Now.stmt.cond,
                      merge |-> n + 5]
             before == init \o JumpTo(n + 2) \o MoveTo(n + 2)
             round == MoveTo(n + 3) \o iter \o JumpTo(n + 2) \o MoveTo(n + 4) \o body
                      \o JumpTo(n + 3) \o MoveTo(n + 5)
             I == Items(program, n + 5)
  <2>1. /\ at # Null
        /\ blocks' = AddTerm(blocks, at, Jump(n + 1)) \o new
        /\ vars' = Append(vars, <<>>)
        /\ loops' = Append(loops, [break |-> n + 5, continue |-> n + 3])
        /\ at' = n + 1
        /\ agenda' = before \o (<<cond>> \o round \o Item("closeLoop")) \o Rest
        /\ UNCHANGED <<bodies, made, resolved, errors>>
        /\ Stays
    BY <1>5 DEF EnterLoop
  <2>2. init \in Seq(StmtItems) /\ iter \in Seq(StmtItems) /\ body \in Seq(StmtItems)
    BY <1>2, <1>3, PartsType, OptionalType
  <2>3. cond \in I /\ [do |-> "closeLoop"] \in I
    <3>1. Now.at \o <<2, 1>> \in Places /\ n + 5 \in 2..(n + 5)
      BY <1>2 DEF Places
    <3> QED
      BY <1>3, <3>1 DEF CondItems, ScopeItems, Items
  <2> HIDE DEF init, iter, body, cond, n
  <2>4. n \in Nat /\ at \in 1..n /\ n = Len(blocks)
    BY <1>2, <2>1 DEF n, Null
  <2>5. blocks[at].func \in 1..Len(program)
    <3>1. blocks[at] \in Blocks(program, Len(blocks))
      BY <1>2, <2>4
    <3> QED
      BY <3>1 DEF Blocks
  <2>6. init \in Seq(I) /\ iter \in Seq(I) /\ body \in Seq(I)
    BY <2>2, StmtItemsType
  <2>7. <<cond>> \in Seq(I) /\ Item("closeLoop") \in Seq(I)
    BY <2>3 DEF Item
  <2>8. /\ JumpTo(n + 2) \in Seq(I) /\ JumpTo(n + 3) \in Seq(I) /\ MoveTo(n + 2) \in Seq(I)
        /\ MoveTo(n + 3) \in Seq(I) /\ MoveTo(n + 4) \in Seq(I) /\ MoveTo(n + 5) \in Seq(I)
    BY <2>4, MovesType
  <2>9. Rest \in Seq(I)
    <3>1. Items(program, n) \subseteq I
      BY <2>4, MoreBlocks
    <3> QED
      BY <1>2, <2>4, <3>1, SeqOfMore
  <2>10. agenda' \in Seq(I)
    <3>1. before \in Seq(I) /\ round \in Seq(I)
      BY <2>6, <2>8, ThreeParts, SevenParts
    <3> HIDE DEF I, before, round
    <3>2. <<cond>> \o round \o Item("closeLoop") \in Seq(I)
      BY <2>7, <3>1, ThreeParts
    <3> QED
      BY <2>1, <2>9, <3>1, <3>2, ThreeParts
  <2>11. blocks' \in Seq(Blocks(program, n + 5)) /\ Len(blocks') = n + 5
    <3>1. Blocks(program, n) \subseteq Blocks(program, n + 5) /\ Jump(n + 1) \in Terms(n + 5)
      BY <2>4, MoreBlocks DEF Jump, Terms
    <3>2. blocks \in Seq(Blocks(program, n + 5))
      BY <1>2, <2>4, <3>1, SeqOfMore
    <3>3. /\ AddTerm(blocks, at, Jump(n + 1)) \in Seq(Blocks(program, n + 5))
          /\ Len(AddTerm(blocks, at, Jump(n + 1))) = n
      BY <2>4, <3>1, <3>2, AddTermType
    <3>4. new \in Seq(Blocks(program, n + 5)) /\ Len(new) = 5
      <4>1. NewBlock(blocks[at].func) \in Blocks(program, n + 5)
        BY <2>4, <2>5, NewBlockType
      <4> QED
        BY <4>1
    <3> DEFINE old == AddTerm(blocks, at, Jump(n + 1))
    <3>5. blocks' = old \o new
      BY <2>1
    <3> HIDE DEF new, old
    <3>6. old \in Seq(Blocks(program, n + 5)) /\ Len(old) = n
      BY <3>3 DEF old
    <3>7. old \o new \in Seq(Blocks(program, n + 5)) /\ Len(old \o new) = n + 5
      BY <3>4, <3>6, TwoParts
    <3> QED
      BY <3>5, <3>7
  <2>12. loops' \in Seq(LoopBlocks(n + 5))
    <3>1. loops \in Seq(LoopBlocks(n + 5))
      BY <1>2, <2>4, MoreLoopBlocks
    <3>2. [break |-> n + 5, continue |-> n + 3] \in LoopBlocks(n + 5)
      BY <2>4 DEF LoopBlocks
    <3> QED
      BY <2>1, <3>1, <3>2
  <2>13. vars' \in Seq(Scopes)
    <3>1. \A x \in Scopes : Append(vars, x) \in Seq(Scopes)
      BY <1>2
    <3> QED
      BY <2>1, <3>1, EmptyScope
  <2>14. /\ bodies' \in Seq(FuncsOf(program)) /\ made' \subseteq FuncsOf(program)
         /\ resolved' \subseteq [at : Places, name : Names, to : Places] /\ errors' \subseteq Places
    BY <2>1 DEF TypeOK
  <2>15. at' \in 0..(n + 5) /\ Stays /\ Len(blocks) <= Len(blocks') /\ Len(blocks') \in Nat
    BY <2>1, <2>4, <2>11, SMTT(60)
  <2> QED
    BY <2>10, <2>11, <2>12, <2>13, <2>14, <2>15, TypeOfStep
<1> QED
  BY <1>4, <1>5

\* Behind the condition of a loop stands the end of the loop.
ConditionsAreInLoops ==
    phase = "analyze" /\ agenda # <<>> /\ Now.do = "loopCond" =>
        \E k \in 1..Len(Rest) : Rest[k].do = "closeLoop"

\* What is left of an agenda when its beginning is skipped.
LEMMA RestFrom ==
    ASSUME NEW S, NEW s \in Seq(S), NEW m \in Nat
    PROVE  SubSeq(s, m + 1, Len(s)) \in Seq(S)
<1>1. m + 1 \in Int /\ Len(s) \in Int
  OBVIOUS
<1>2. \A i \in (m + 1)..Len(s) : s[i] \in S
  OBVIOUS
<1> QED
  BY <1>1, <1>2, SubSeqProperties

LEMMA TypeOfLoopCondition == ASSUME TypeOK, ConditionsAreInLoops, LoopCondition PROVE TypeOK'
<1> DEFINE ends == {k \in 1..Len(Rest) : Rest[k].do = "closeLoop"}
           end == CHOOSE k \in ends : \A j \in ends : k <= j
           branch == CASE Now.cond.op \in {"none", "true"} -> Jump(Now.merge - 1)
                       [] Now.cond.op = "false" -> Jump(Now.merge)
                       [] OTHER -> Fork(Now.at, Now.merge - 1, Now.merge)
<1>1. phase = "analyze" /\ agenda # <<>> /\ Now.do = "loopCond"
  BY DEF LoopCondition, AtHead, Now
<1>2. /\ Evaluate(Now.cond, Now.at) /\ UNCHANGED <<vars, loops, bodies, at, made>> /\ Stays
      /\ \/ blocks' = AddTerm(blocks, at, branch) /\ agenda' = Rest
         \/ agenda' = SubSeq(Rest, end + 1, Len(Rest)) /\ blocks' = blocks
  BY Zenon DEF LoopCondition
<1>3. /\ resolved' \subseteq [at : Places, name : Names, to : Places] /\ errors' \subseteq Places
  BY <1>1, <1>2, TypesAtHead, EvaluateType
<1>4. branch \in Terms(Len(blocks))
  <2>1. /\ Now.at \in Places /\ Len(blocks) \in Nat
        /\ Now.merge \in 1..Len(blocks) /\ Now.merge - 1 \in 1..Len(blocks)
    BY <1>1, TypesAtHead
  <2> QED
    BY <2>1, TermsType
<1>5. end \in Nat
  <2>1. Rest \in Seq(Items(program, Len(blocks)))
    BY <1>1, TypesAtHead
  <2>2. ends \subseteq Nat /\ ends # {}
    BY <1>1, <2>1 DEF ConditionsAreInLoops
  <2>3. \E k \in ends : \A j \in ends : k <= j
    <3> HIDE DEF ends
    <3> QED
      BY <2>2, LeastExists
  <2> QED
    BY <2>2, <2>3
<1> HIDE DEF ends, end, branch
<1>6. blocks' \in Seq(Blocks(program, Len(blocks))) /\ Len(blocks') = Len(blocks)
  BY <1>1, <1>2, <1>4, TypesAtHead, AddTermType
<1>7. agenda' \in Seq(Items(program, Len(blocks)))
  BY <1>1, <1>2, <1>5, TypesAtHead, RestFrom
<1> QED
  BY <1>1, <1>2, <1>3, <1>6, <1>7, TypesAtHead, TypeOfPlainStep

LEMMA TypeOfScopes ==
    ASSUME TypeOK, CloseLoop \/ BreakContinue \/ OpenScope \/ CloseScope \/ MoveOrJump
    PROVE  TypeOK'
<1>1. CASE CloseLoop
  <2>1. agenda # <<>>
    BY <1>1 DEF CloseLoop, AtHead
  <2>2. vars' \in Seq(Scopes) /\ loops' \in Seq(LoopBlocks(Len(blocks)))
    BY <1>1, <2>1, TypesAtHead, Popped DEF CloseLoop
  <2> QED
    BY <1>1, <2>1, <2>2, TypesAtHead, TypeOfPlainStep DEF CloseLoop
<1>2. CASE BreakContinue
  <2>1. agenda # <<>>
    BY <1>2 DEF BreakContinue, AtHead
  <2>2. CASE Crash
    BY <2>2, TypeOfCrash
  <2>3. CASE ~Crash
    <3> DEFINE top == loops[Len(loops)]
               to == IF Now.stmt.op = "break" THEN top.break ELSE top.continue
    <3>1. /\ loops # <<>> /\ blocks' = AddTerm(blocks, at, Jump(to)) /\ agenda' = Rest
          /\ UNCHANGED <<vars, loops, bodies, at, made, resolved, errors>> /\ Stays
      BY <1>2, <2>3 DEF BreakContinue
    <3>2. top \in LoopBlocks(Len(blocks))
      BY <2>1, <3>1, TypesAtHead
    <3>3. Jump(to) \in Terms(Len(blocks))
      BY <2>1, <3>2 DEF LoopBlocks, Jump, Terms
    <3>4. blocks' \in Seq(Blocks(program, Len(blocks))) /\ Len(blocks') = Len(blocks)
      BY <2>1, <3>1, <3>3, TypesAtHead, AddTermType
    <3> QED
      BY <2>1, <3>1, <3>4, TypesAtHead, TypeOfPlainStep
  <2> QED
    BY <2>2, <2>3
<1>3. CASE OpenScope
  <2>1. agenda # <<>>
    BY <1>3 DEF OpenScope, AtHead
  <2>2. vars' \in Seq(Scopes)
    BY <1>3, <2>1, TypesAtHead, EmptyScope DEF OpenScope
  <2> QED
    BY <1>3, <2>1, <2>2, TypesAtHead, TypeOfPlainStep DEF OpenScope
<1>4. CASE CloseScope
  <2>1. agenda # <<>>
    BY <1>4 DEF CloseScope, AtHead
  <2>2. vars' \in Seq(Scopes)
    BY <1>4, <2>1, TypesAtHead, Popped DEF CloseScope
  <2> QED
    BY <1>4, <2>1, <2>2, TypesAtHead, TypeOfPlainStep DEF CloseScope
<1>5. CASE MoveOrJump
  <2>1. agenda # <<>>
    BY <1>5 DEF MoveOrJump, AtHead
  <2>2. CASE AtHead("moveTo")
    <3>1. Now.do = "moveTo" /\ at' = Now.block /\ UNCHANGED blocks
      BY <1>5, <2>2 DEF MoveOrJump, AtHead, Now
    <3> QED
      BY <1>5, <2>1, <3>1, TypesAtHead, TypeOfPlainStep DEF MoveOrJump
  <2>3. CASE AtHead("jumpTo")
    <3>1. /\ Now.do = "jumpTo" /\ blocks' = AddTerm(blocks, at, Jump(Now.block))
          /\ UNCHANGED at
      BY <1>5, <2>3 DEF MoveOrJump, AtHead, Now
    <3>2. Jump(Now.block) \in Terms(Len(blocks))
      BY <2>1, <3>1, TypesAtHead DEF Jump, Terms
    <3>3. blocks' \in Seq(Blocks(program, Len(blocks))) /\ Len(blocks') = Len(blocks)
      BY <2>1, <3>1, <3>2, TypesAtHead, AddTermType
    <3> QED
      BY <1>5, <2>1, <3>1, <3>3, TypesAtHead, TypeOfPlainStep DEF MoveOrJump
  <2> QED
    BY <1>5, <2>2, <2>3 DEF MoveOrJump
<1> QED
  BY <1>1, <1>2, <1>3, <1>4, <1>5

LEMMA TypeOfPasses == ASSUME TypeOK, StartPasses \/ RunOnFunction \/ Verdict PROVE TypeOK'
<1>0. Len(program) \in Nat
  BY StatementsAssumption DEF TypeOK
<1>1. CASE StartPasses
  BY <1>0, <1>1 DEF TypeOK, StartPasses
<1>2. CASE RunOnFunction
  <2>1. BlocksOf(decl) \subseteq 1..Len(blocks) /\ <<decl>> \in Places
    BY DEF BlocksOf, Places, TypeOK
  <2>2. removed' \subseteq 1..Len(blocks)
    BY <1>2, <2>1 DEF TypeOK, RunOnFunction
  <2>3. errors' \subseteq Places
    BY <1>2, <2>1 DEF TypeOK, RunOnFunction
  <2>4. decl' \in 1..(Len(program) + 1)
    BY <1>0, <1>2 DEF TypeOK, RunOnFunction
  <2>5. UNCHANGED <<program, agenda, vars, loops, bodies, at, blocks, made, resolved, phase>>
    BY <1>2 DEF RunOnFunction
  <2> QED
    BY <2>2, <2>3, <2>4, <2>5 DEF TypeOK
<1>3. CASE Verdict
  BY <1>3 DEF TypeOK, Verdict
<1> QED
  BY <1>1, <1>2, <1>3

LEMMA TypeOfInit == Init => TypeOK
<1> SUFFICES ASSUME Init PROVE TypeOK
  OBVIOUS
<1>1. program \in Programs /\ program \in Seq(Statements)
  BY StatementsAssumption DEF Init
<1>2. << <<>> >> \in Seq(Scopes)
  BY EmptyScope
<1>3. /\ agenda = <<>> /\ vars = << <<>> >> /\ loops = <<>> /\ bodies = <<>> /\ blocks = <<>>
      /\ at = 0 /\ decl = 1 /\ made = {} /\ resolved = {} /\ errors = {} /\ removed = {}
      /\ phase = "analyze" /\ Len(blocks) = 0
  BY DEF Init, Null
<1> QED
  BY <1>1, <1>2, <1>3 DEF TypeOK

\* The actions that touch no more than one stack.
LEMMA TypeOfOther ==
    ASSUME TypeOK, phase = "analyze" => vars # <<>>, Next, ~LoopCondition PROVE TypeOK'
<1>1. CASE Refuse \/ ReturnOutside \/ Start \/ DefineVar \/ AddExprStmt \/ Return \/ IfFails
  <2>1. phase = "analyze"
    BY <1>1 DEF Refuse, ReturnOutside, Start, DefineVar, AddExprStmt, Return, IfFails, Finish, AtHead
  <2> QED
    BY <1>1, <2>1, TypeOfStatements
<1> QED
  BY <1>1, TypeOfDeclare, TypeOfInstantiate, TypeOfEndBody, TypeOfConstantIf, TypeOfMute,
     TypeOfRunTimeIf, TypeOfEnterLoop, TypeOfScopes, TypeOfPasses DEF Next

-----------------------------------------------------------------------------
(* Blocks are written once.                                                *)

LEMMA GrownSame ==
    ASSUME NEW p, NEW n \in Nat, NEW bs \in Seq(Blocks(p, n)) PROVE Grown(bs, bs)
<1>1. \A b \in DOMAIN bs : bs[b].insts \in Seq(Places)
  <2> TAKE b \in DOMAIN bs
  <2>1. bs[b] \in Blocks(p, n)
    OBVIOUS
  <2> QED
    BY <2>1 DEF Blocks
<1>2. \A b \in DOMAIN bs : SubSeq(bs[b].insts, 1, Len(bs[b].insts)) = bs[b].insts
  BY <1>1, SubSeqFull
<1> QED
  BY <1>2 DEF Grown

\* One block is written to, and it was open.
LEMMA GrownAt ==
    ASSUME NEW p, NEW n \in Nat, NEW bs \in Seq(Blocks(p, n)), NEW b \in 1..Len(bs), NEW block,
           bs[b].term = Open, block.func = bs[b].func,
           SubSeq(block.insts, 1, Len(bs[b].insts)) = bs[b].insts
    PROVE  Grown(bs, [bs EXCEPT ![b] = block])
<1>1. Grown(bs, bs)
  BY GrownSame
<1> QED
  BY <1>1 DEF Grown

\* What the builder does to a block.
LEMMA AddInstGrows ==
    ASSUME NEW p, NEW n \in Nat, NEW bs \in Seq(Blocks(p, n)), NEW b \in 0..Len(bs), NEW place
    PROVE  Grown(bs, AddInst(bs, b, place))
<1>1. CASE Writable(bs, b)
  <2> DEFINE block == [bs[b] EXCEPT !.insts = Append(@, place)]
  <2>1. b \in 1..Len(bs) /\ bs[b] \in Blocks(p, n) /\ bs[b].term = Open
    BY <1>1 DEF Writable, Null
  <2>2. block.func = bs[b].func /\ block.insts = Append(bs[b].insts, place)
    BY <2>1 DEF Blocks
  <2>3. SubSeq(Append(bs[b].insts, place), 1, Len(bs[b].insts)) = bs[b].insts
    <3>1. bs[b].insts \in Seq(Places \cup {place})
      BY <2>1, SeqOfMore DEF Blocks
    <3> QED
      BY <3>1, PoppedPushed
  <2>4. AddInst(bs, b, place) = [bs EXCEPT ![b] = block]
    BY <1>1 DEF AddInst
  <2>5. SubSeq(block.insts, 1, Len(bs[b].insts)) = bs[b].insts
    BY <2>2, <2>3
  <2> HIDE DEF block
  <2>6. Grown(bs, [bs EXCEPT ![b] = block])
    BY <2>1, <2>2, <2>5, GrownAt
  <2> QED
    BY <2>4, <2>6
<1>2. CASE ~Writable(bs, b)
  BY <1>2, GrownSame DEF AddInst
<1> QED
  BY <1>1, <1>2

LEMMA AddTermGrows ==
    ASSUME NEW p, NEW n \in Nat, NEW bs \in Seq(Blocks(p, n)), NEW b \in 0..Len(bs), NEW term
    PROVE  /\ Grown(bs, AddTerm(bs, b, term))
           /\ \E T : AddTerm(bs, b, term) \in Seq(T)
           /\ Len(AddTerm(bs, b, term)) = Len(bs)
<1>1. CASE Writable(bs, b)
  <2> DEFINE block == [bs[b] EXCEPT !.term = term]
  <2>1. b \in 1..Len(bs) /\ bs[b] \in Blocks(p, n) /\ bs[b].term = Open
    BY <1>1 DEF Writable, Null
  <2>2. block.func = bs[b].func /\ block.insts = bs[b].insts /\ bs[b].insts \in Seq(Places)
    BY <2>1 DEF Blocks
  <2>3. SubSeq(bs[b].insts, 1, Len(bs[b].insts)) = bs[b].insts
    BY <2>2, SubSeqFull
  <2>4. AddTerm(bs, b, term) = [bs EXCEPT ![b] = block]
    BY <1>1 DEF AddTerm
  <2>5. AddTerm(bs, b, term) \in Seq(Blocks(p, n) \cup {block}) /\ Len(AddTerm(bs, b, term)) = Len(bs)
    BY <2>1, <2>4
  <2>6. SubSeq(block.insts, 1, Len(bs[b].insts)) = bs[b].insts
    BY <2>2, <2>3
  <2> HIDE DEF block
  <2>7. Grown(bs, [bs EXCEPT ![b] = block])
    BY <2>1, <2>2, <2>6, GrownAt
  <2> QED
    BY <2>4, <2>5, <2>7
<1>2. CASE ~Writable(bs, b)
  <2>1. AddTerm(bs, b, term) = bs
    BY <1>2 DEF AddTerm
  <2> QED
    BY <2>1, GrownSame
<1> QED
  BY <1>1, <1>2

LEMMA GrownMore ==
    ASSUME NEW bs, NEW S, NEW cs \in Seq(S), NEW T, NEW new \in Seq(T), Grown(bs, cs)
    PROVE  Grown(bs, cs \o new)
<1>1. \A b \in DOMAIN cs : b \in DOMAIN (cs \o new) /\ (cs \o new)[b] = cs[b]
  OBVIOUS
<1>2. \A b \in DOMAIN bs : b \in DOMAIN cs
  BY DEF Grown
<1> QED
  BY <1>1, <1>2 DEF Grown

\* Of a step: nothing is taken back.
LEMMA BlocksGrowInStep == ASSUME TypeOK, Next PROVE Grown(blocks, blocks')
<1> DEFINE n == Len(blocks)
<1>1. n \in Nat /\ blocks \in Seq(Blocks(program, n)) /\ at \in 0..n
  BY DEF TypeOK
<1>2. blocks' = blocks => Grown(blocks, blocks')
  BY <1>1, GrownSame
<1>3. \A f : blocks' = Append(blocks, NewBlock(f)) => Grown(blocks, blocks')
  <2> TAKE f
  <2>1. Append(blocks, NewBlock(f)) = blocks \o <<NewBlock(f)>>
    BY <1>1
  <2>2. <<NewBlock(f)>> \in Seq({NewBlock(f)})
    OBVIOUS
  <2>3. Grown(blocks, blocks)
    BY <1>1, GrownSame
  <2>4. Grown(blocks, blocks \o <<NewBlock(f)>>)
    BY <1>1, <2>2, <2>3, GrownMore
  <2> QED
    BY <2>1, <2>4
<1>4. \A place : blocks' = AddInst(blocks, at, place) => Grown(blocks, blocks')
  BY <1>1, AddInstGrows
<1>5. \A term : blocks' = AddTerm(blocks, at, term) => Grown(blocks, blocks')
  BY <1>1, AddTermGrows
<1>6. \A term, T : \A new \in Seq(T) :
        blocks' = AddTerm(blocks, at, term) \o new => Grown(blocks, blocks')
  BY <1>1, AddTermGrows, GrownMore
<1>7. CASE Crash \/ Refuse \/ ReturnOutside \/ Start \/ IfFails \/ ConstantIf \/ Mute \/ CloseLoop
           \/ OpenScope \/ CloseScope \/ StartPasses \/ RunOnFunction \/ Verdict
  <2>1. blocks' = blocks
    BY <1>7 DEF Crash, Refuse, ReturnOutside, Start, IfFails, ConstantIf, Mute, CloseLoop,
                OpenScope, CloseScope, StartPasses, RunOnFunction, Verdict
  <2> QED
    BY <1>2, <2>1
<1>8. CASE Declare
  BY <1>2, <1>3, <1>8 DEF Declare, BeginBody
<1>9. CASE Instantiate
  BY <1>3, <1>9 DEF Instantiate, BeginBody
<1>10. CASE EndBody
  BY <1>2, <1>5, <1>10 DEF EndBody
<1>11. CASE DefineVar
  <2>1. blocks' = blocks \/ blocks' = AddInst(blocks, at, Now.at)
    BY <1>11 DEF DefineVar, Crash
  <2> QED
    BY <1>2, <1>4, <2>1
<1>12. CASE AddExprStmt
  BY <1>4, <1>12 DEF AddExprStmt
<1>13. CASE Return
  <2>1. blocks' = blocks \/ blocks' = AddTerm(blocks, at, Ret(Now.at))
    BY <1>13 DEF Return
  <2> QED
    BY <1>2, <1>5, <2>1
<1>14. CASE RunTimeIf
  <2>1. CASE Crash
    BY <1>7, <2>1
  <2>2. CASE ~Crash
    <3>1. PICK k \in 2..3 : \E f, term :
            blocks' = AddTerm(blocks, at, term) \o [i \in 1..k |-> NewBlock(f)]
      <4> DEFINE merge == IF Now.stmt.else # <<>> THEN n + 3 ELSE n + 2
                 g == blocks[at].func
      <4>1. blocks' = AddTerm(blocks, at, Fork(Now.at, n + 1, n + 2))
                      \o [i \in 1..(merge - n) |-> NewBlock(g)]
        BY <1>14, <2>2 DEF RunTimeIf
      <4>2. merge - n \in 2..3
        BY <1>1
      <4> HIDE DEF merge, g
      <4> QED
        BY <4>1, <4>2
    <3>2. \A f : [i \in 1..k |-> NewBlock(f)] \in Seq({NewBlock(f)})
      BY <3>1
    <3> QED
      BY <1>6, <3>1, <3>2
  <2> QED
    BY <2>1, <2>2
<1>15. CASE EnterLoop
  <2>1. CASE Crash
    BY <1>7, <2>1
  <2>2. CASE ~Crash
    <3>1. blocks' = AddTerm(blocks, at, Jump(n + 1)) \o [i \in 1..5 |-> NewBlock(blocks[at].func)]
      BY <1>15, <2>2 DEF EnterLoop
    <3>2. [i \in 1..5 |-> NewBlock(blocks[at].func)] \in Seq({NewBlock(blocks[at].func)})
      OBVIOUS
    <3> QED
      BY <1>6, <3>1, <3>2
  <2> QED
    BY <2>1, <2>2
<1>16. CASE LoopCondition
  <2>1. blocks' = blocks \/ \E term : blocks' = AddTerm(blocks, at, term)
    BY <1>16 DEF LoopCondition
  <2> QED
    BY <1>2, <1>5, <2>1
<1>17. CASE BreakContinue
  <2>1. Crash \/ \E term : blocks' = AddTerm(blocks, at, term)
    BY <1>17 DEF BreakContinue
  <2> QED
    BY <1>5, <1>7, <2>1
<1>18. CASE MoveOrJump
  <2>1. blocks' = blocks \/ blocks' = AddTerm(blocks, at, Jump(Now.block))
    BY <1>18 DEF MoveOrJump
  <2> QED
    BY <1>2, <1>5, <2>1
<1> QED
  BY <1>7, <1>8, <1>9, <1>10, <1>11, <1>12, <1>13, <1>14, <1>15, <1>16, <1>17, <1>18 DEF Next

-----------------------------------------------------------------------------
(* The stacks. *)

\* The insertion block is one of the function being analysed.
AtHome(a) == Mode.level = "sound" /\ at # Null /\ a.bodies # <<>> => Home(Mode, a, at)

\* The stacks stand as situation a says.
Standing(a) ==
    /\ AtHome(a)
    /\ a.bodies = bodies
    /\ a.depth <= Len(vars) /\ Len(a.loops) <= Len(loops)
    /\ errors = {} => /\ a.depth = Len(vars) /\ a.loops = loops
                      /\ at = Null => a.dead

\* The inductive part: from how the stacks stand, the agenda leads back to
\* where they stand between two declarations.
StackInv ==
    phase = "analyze" => \E a \in Situations : Standing(a) /\ Leads(Mode, a, agenda, Outside)

LEMMA AppendIsNotEmpty ==
    ASSUME NEW S, NEW s \in Seq(S), NEW x \in S PROVE Append(s, x) # <<>>
<1>1. Len(Append(s, x)) = Len(s) + 1 /\ Len(s) \in Nat
  OBVIOUS
<1> QED
  BY <1>1

LEMMA OutsideIsASituation == Outside \in Situations
BY DEF Outside, Situations

\* The fields of a situation, and the changes that keep it one.
LEMMA SituationTypes ==
    ASSUME NEW a \in Situations
    PROVE  /\ a.depth \in Nat \ {0} /\ a.loops \in Seq(LoopPairs) /\ a.bodies \in Seq(Nat)
           /\ a.dead \in BOOLEAN
           /\ a = [depth |-> a.depth, loops |-> a.loops, bodies |-> a.bodies, dead |-> a.dead]
BY DEF Situations

\* The same situation one scope deeper, in a loop, with no block, ...
LEMMA MoreSituations ==
    ASSUME NEW a \in Situations
    PROVE  /\ [a EXCEPT !.depth = @ + 1] \in Situations
           /\ \A d \in BOOLEAN : [a EXCEPT !.dead = d] \in Situations
           /\ \A l \in LoopPairs :
                [a EXCEPT !.depth = @ + 1, !.loops = Append(@, l)] \in Situations
           /\ \A f \in Nat, d \in BOOLEAN :
                [a EXCEPT !.depth = @ + 1, !.bodies = Append(@, f), !.dead = d] \in Situations
<1>1. a.depth + 1 \in Nat \ {0}
  BY DEF Situations
<1>2. [a EXCEPT !.depth = @ + 1] \in Situations
  BY <1>1 DEF Situations
<1>3. \A d \in BOOLEAN : [a EXCEPT !.dead = d] \in Situations
  BY DEF Situations
<1>4. \A l \in LoopPairs : [a EXCEPT !.depth = @ + 1, !.loops = Append(@, l)] \in Situations
  <2> TAKE l \in LoopPairs
  <2>1. Append(a.loops, l) \in Seq(LoopPairs)
    BY DEF Situations
  <2> QED
    BY <1>1, <2>1 DEF Situations
<1>5. \A f \in Nat, d \in BOOLEAN :
        [a EXCEPT !.depth = @ + 1, !.bodies = Append(@, f), !.dead = d] \in Situations
  <2> TAKE f \in Nat, d \in BOOLEAN
  <2>1. Append(a.bodies, f) \in Seq(Nat)
    BY DEF Situations
  <2> QED
    BY <1>1, <2>1 DEF Situations
<1> QED
  BY <1>2, <1>3, <1>4, <1>5

\* What each mode says of the run and of the program.
LEMMA ModeFacts ==
    /\ Mode.level \in {"any", "clean", "sound"}
    /\ Mode.level = "any" <=> errors # {}
    /\ Mode.level = "sound" <=> errors = {} /\ Sound
    /\ Mode.home = [b \in DOMAIN blocks |-> blocks[b].func]
    /\ \A f \in FuncsOf(program) : program[f].template => f \in Mode.templates
BY DEF Mode, FuncsOf

\* Blocks are only added, and never change their function.
LEMMA ModeAfter ==
    ASSUME program' = program, errors' = errors \/ errors' # {}, Grown(blocks, blocks')
    PROVE  Later(Mode, Mode')
<1>1. Mode'.templates = Mode.templates
  BY DEF Mode
<1>2. \A b \in DOMAIN Mode.home : b \in DOMAIN Mode'.home /\ Mode'.home[b] = Mode.home[b]
  BY DEF Mode, Grown
<1>3. Mode'.level = Mode.level \/ Mode'.level = "any"
  BY DEF Mode, Sound, BreaksAreInLoops, DeadBranchesAreSimple, Bodies
<1> QED
  BY <1>1, <1>2, <1>3 DEF Later

\* The mode after a step that adds blocks.
LEMMA ModeWithBlocks ==
    ASSUME program' = program, errors' = errors, Grown(blocks, blocks')
    PROVE  \E m : /\ m = Mode' /\ Later(Mode, m)
                  /\ m.level = Mode.level /\ m.templates = Mode.templates
                  /\ m.home = [b \in DOMAIN blocks' |-> blocks'[b].func]
<1>1. Mode'.templates = Mode.templates /\ Mode'.home = [b \in DOMAIN blocks' |-> blocks'[b].func]
  BY DEF Mode
<1>2. Mode'.level = Mode.level
  BY DEF Mode, Sound, BreaksAreInLoops, DeadBranchesAreSimple, Bodies
<1> QED
  BY <1>1, <1>2, ModeAfter

LEMMA HomeLater ==
    ASSUME NEW m, NEW n, Later(m, n), n.level = "sound", NEW a, NEW b, Home(m, a, b)
    PROVE  Home(n, a, b)
BY DEF Later, Home

\* The insertion block where it was, in the same function.
LEMMA AtStays ==
    ASSUME program' = program, errors' = errors \/ errors' # {}, Grown(blocks, blocks'), at' = at,
           NEW a, NEW c, AtHome(a), c.bodies = a.bodies
    PROVE  AtHome(c)'
<1> SUFFICES ASSUME Mode'.level = "sound", at # Null, c.bodies # <<>>
             PROVE  Home(Mode', c, at)
  BY DEF AtHome
<1>1. Later(Mode, Mode')
  BY ModeAfter
<1>2. Mode.level = "sound"
  BY <1>1 DEF Later
<1>3. Home(Mode, a, at)
  BY <1>2 DEF AtHome
<1>4. Home(Mode', a, at)
  BY <1>1, <1>3, HomeLater
<1> QED
  BY <1>4 DEF Home

\* It is enough to find the situation after the step on a path of before it.
LEMMA StackAfter ==
    ASSUME NEW c \in Situations, Standing(c)', Leads(Mode, c, agenda', Outside),
           program' = program, errors' = errors \/ errors' # {}, Grown(blocks, blocks')
    PROVE  StackInv'
<1>1. Leads(Mode', c, agenda', Outside)
  BY ModeAfter, LeadsLater
<1> QED
  BY <1>1 DEF StackInv

\* What stands at the head of the agenda, and the situations before and behind it.
LEMMA StackAtHead ==
    ASSUME TypeOK, StackInv, phase = "analyze", agenda # <<>>
    PROVE  \E a, c \in Situations : /\ Standing(a) /\ Leads(Mode, a, agenda, Outside)
                                    /\ Effect(Mode, a, Now, c) /\ Leads(Mode, c, Rest, Outside)
<1>1. PICK a \in Situations : Standing(a) /\ Leads(Mode, a, agenda, Outside)
  BY DEF StackInv
<1>2. agenda \in Seq(Items(program, Len(blocks)))
  BY DEF TypeOK
<1>3. PICK c \in Situations : /\ Effect(Mode, a, Head(agenda), c)
                              /\ Leads(Mode, c, Tail(agenda), Outside)
  BY <1>1, <1>2, LeadsHead
<1> QED
  BY <1>1, <1>3 DEF Now, Rest

\* An item that is done with, and left the stacks as they were.
LEMMA StackAfterItem ==
    ASSUME TypeOK, NEW a \in Situations, Standing(a), Leads(Mode, a, agenda', Outside),
           Len(vars') = Len(vars), loops' = loops, bodies' = bodies, at' = at,
           program' = program, errors' = errors \/ errors' # {}, Grown(blocks, blocks')
    PROVE  StackInv'
<1>1. AtHome(a)'
  BY AtStays DEF Standing
<1>2. Standing(a)'
  BY <1>1 DEF Standing
<1> QED
  BY <1>2, StackAfter

\* An evaluation adds a report or leaves none.
LEMMA EvaluationReports ==
    ASSUME NEW e, NEW place, Evaluate(e, place)
    PROVE  /\ errors' = errors \/ errors' # {}
           /\ HasValue(e) => errors' = errors
           /\ ~HasValue(e) => errors' # {}
BY DEF Evaluate

\* A body put in front of an agenda leads back to where it was begun, that of
\* an instance in the middle of another body included.
LEMMA StackOfBeginBody ==
    ASSUME TypeOK, Grown(blocks, blocks'), NEW f \in FuncsOf(program), NEW rest \in Seq(Items(program, Len(blocks))),
           NEW a \in Situations, Standing(a), Leads(Mode, a, rest, Outside),
           BeginBody(f, at, rest), loops' = loops, errors' = errors, program' = program,
           a.bodies # <<>> => program[f].template
    PROVE  StackInv'
<1> DEFINE b == [a EXCEPT !.depth = @ + 1, !.bodies = Append(@, f), !.dead = FALSE]
           body == program[f].body
           end == [do |-> "endBody", func |-> f, block |-> at, depth |-> Len(vars),
                   loops |-> loops]
           stmts == [k \in 1..Len(body) |-> [do |-> "stmt", at |-> <<f, k>>, stmt |-> body[k]]]
           I == Items(program, Len(blocks) + 1)
<1> PICK m : /\ m = Mode' /\ Later(Mode, m)
             /\ m.level = Mode.level /\ m.templates = Mode.templates
             /\ m.home = [x \in DOMAIN blocks' |-> blocks'[x].func]
  BY ModeWithBlocks
<1>1. a.depth \in Nat \ {0} /\ a.bodies \in Seq(Nat) /\ f \in Nat
  BY SituationTypes DEF FuncsOf
<1>2. b \in Situations
  BY <1>1, MoreSituations
<1>3. /\ b.depth = a.depth + 1 /\ b.loops = a.loops /\ b.dead = FALSE
      /\ b.bodies = Append(a.bodies, f) /\ b.bodies # <<>>
  <2>1. /\ b.depth = a.depth + 1 /\ b.loops = a.loops /\ b.dead = FALSE
        /\ b.bodies = Append(a.bodies, f)
    BY DEF Situations
  <2>2. Append(a.bodies, f) # <<>>
    <3>1. a.bodies \in Seq(Nat) /\ f \in Nat
      BY <1>1
    <3> HIDE DEF b
    <3> QED
      BY <3>1, AppendIsNotEmpty
  <2> QED
    BY <2>1, <2>2
<1>4. body \in Seq(Statements) /\ body \in Bodies
  BY BodyIsOfStatements DEF FuncsOf, Bodies
<1>5. stmts \in Seq(I) /\ <<end>> \in Seq(I) /\ rest \in Seq(I)
  <2>1. Len(blocks) \in Nat /\ at \in 0..Len(blocks)
    BY DEF TypeOK
  <2>2. stmts \in Seq(I) /\ end \in I
    BY <2>1, StatementsOfBody, EndOfBody
  <2>3. Items(program, Len(blocks)) \subseteq I
    BY <2>1, MoreBlocks
  <2> QED
    BY <2>2, <2>3, SeqOfMore
<1>6. Leads(m, b, stmts, b)
  <2>1. m.level = "sound" => \A k \in 1..Len(body) : body[k] \notin Loose /\ body[k] \in Simple
    BY <1>4, ModeFacts DEF Sound, BreaksAreInLoops, DeadBranchesAreSimple, AnyOf, AllOf
  <2>2. \A k \in 1..Len(body) : m.level = "sound" => Fits(m, b, body[k])
    BY <1>3, <2>1 DEF Fits
  <2>3. Len(stmts) = Len(body) /\ \A k \in 1..Len(body) : stmts[k].do = "stmt" /\ stmts[k].stmt = body[k]
    BY <1>4
  <2> HIDE DEF stmts, b
  <2>4. \A k \in 1..Len(stmts) : Effect(m, b, stmts[k], b) /\ stmts[k].do # "loopCond"
    <3> SUFFICES ASSUME NEW k \in 1..Len(stmts)
                 PROVE  Effect(m, b, stmts[k], b) /\ stmts[k].do # "loopCond"
      OBVIOUS
    <3>1. stmts[k].do = "stmt" /\ (m.level = "sound" => Fits(m, b, stmts[k].stmt))
      BY <2>2, <2>3
    <3> QED
      BY <3>1 DEF Effect
  <2> QED
    BY <1>2, <1>5, <2>4, LeadsStanding
<1>7. Leads(m, b, <<end>>, a)
  <2>1. b = [a EXCEPT !.depth = @ + 1, !.bodies = Append(@, end.func), !.dead = b.dead]
    BY <1>3
  <2>2. m.level # "any" => b.depth = end.depth + 1 /\ b.loops = end.loops
                        /\ (end.block = Null \/ b.dead => a.dead)
    BY <1>3, ModeFacts DEF Standing
  <2>3. end.do = "endBody"
    OBVIOUS
  <2>5. m.level = "sound" /\ a.bodies # <<>> =>
          end.func \in m.templates /\ (end.block = Null \/ Home(m, a, end.block))
    <3> SUFFICES ASSUME m.level = "sound", a.bodies # <<>>
                 PROVE  f \in m.templates /\ (at = Null \/ Home(m, a, at))
      OBVIOUS
    <3>1. f \in m.templates
      BY DEF Mode, FuncsOf
    <3>2. at # Null => Home(Mode, a, at)
      BY DEF Standing, AtHome
    <3> QED
      BY <3>1, <3>2, HomeLater
  <2> HIDE DEF end, b
  <2>4. Effect(m, b, end, a)
    BY <2>1, <2>2, <2>3, <2>5 DEF Effect
  <2> QED
    BY <1>2, <2>3, <2>4, LeadsOne
<1>8. agenda' = (stmts \o <<end>>) \o rest
  BY DEF BeginBody, BodyOf
<1>9. Standing(b)'
  <2>1. vars' = Append(vars, [n \in program[f].args |-> <<f, 0>>]) /\ bodies' = Append(bodies, f)
        /\ at' = Len(blocks) + 1
    BY DEF BeginBody
  <2>2. Len(vars') = Len(vars) + 1 /\ Len(vars) \in Nat /\ at' # Null
    BY <2>1 DEF TypeOK, Null
  <2>3. AtHome(b)'
    <3>1. blocks' = Append(blocks, NewBlock(f)) /\ blocks \in Seq(Blocks(program, Len(blocks)))
      BY DEF BeginBody, TypeOK
    <3>2. at' \in DOMAIN blocks' /\ blocks'[at'].func = f
      BY <2>1, <3>1 DEF NewBlock
    <3>3. b.bodies[Len(b.bodies)] = f
      BY <1>1, <1>3
    <3>4. Home(m, b, at')
      BY <1>3, <3>2, <3>3 DEF Home
    <3> QED
      BY <3>4 DEF AtHome
  <2> QED
    BY <1>1, <1>3, <2>1, <2>2, <2>3 DEF Standing
<1> HIDE DEF stmts, end, b, I
<1>10. Leads(m, b, agenda', Outside)
  <2>1. Leads(m, b, stmts \o <<end>>, a)
    BY <1>2, <1>5, <1>6, <1>7, LeadsConcat
  <2>2. stmts \o <<end>> \in Seq(I)
    BY <1>5
  <2>3. Leads(m, a, rest, Outside)
    BY LeadsLater
  <2> QED
    BY <1>5, <1>8, <2>1, <2>2, <2>3, LeadsConcat
<1> QED
  BY <1>2, <1>9, <1>10 DEF StackInv

LEMMA StackOfDeclare == ASSUME TypeOK, StackInv, Grown(blocks, blocks'), Declare PROVE StackInv'
<1> DEFINE d == program[decl]
           item == [do |-> "stmt", at |-> <<decl>>, stmt |-> d]
<1>1. /\ phase = "analyze" /\ agenda = <<>> /\ decl \in 1..Len(program)
      /\ program' = program /\ loops' = loops
  BY StatementsAssumption DEF TypeOK, Declare
<1>2. Standing(Outside) /\ Outside \in Situations
  BY <1>1, LeadsNowhere, OutsideIsASituation DEF StackInv
<1>3. Leads(Mode, Outside, <<>>, Outside)
  BY <1>2, LeadsNil
<1>4. \/ /\ UNCHANGED <<agenda, vars, bodies, at>> /\ (errors' = errors \/ errors' # {})
      \/ d.op = "func" /\ BeginBody(decl, at, <<>>) /\ errors' = errors
      \/ agenda' = <<item>> /\ UNCHANGED <<vars, bodies, at, errors>>
  BY DEF Declare, Report
<1>5. CASE UNCHANGED <<agenda, vars, bodies, at>> /\ (errors' = errors \/ errors' # {})
  BY <1>1, <1>2, <1>3, <1>5, StackAfterItem
<1>6. CASE d.op = "func" /\ BeginBody(decl, at, <<>>) /\ errors' = errors
  <2>1. /\ decl \in FuncsOf(program) /\ <<>> \in Seq(Items(program, Len(blocks)))
        /\ Outside.bodies = <<>>
    BY <1>1, <1>6 DEF FuncsOf, Outside
  <2> QED
    BY <1>1, <1>2, <1>3, <1>6, <2>1, StackOfBeginBody
<1>7. CASE agenda' = <<item>> /\ UNCHANGED <<vars, bodies, at, errors>>
  <2>1. Fits(Mode, Outside, d)
    BY DEF Fits, Outside
  <2>2. item.do = "stmt" /\ item.stmt = d
    OBVIOUS
  <2> HIDE DEF item
  <2>3. Effect(Mode, Outside, item, Outside)
    BY <2>1, <2>2 DEF Effect
  <2>4. Leads(Mode, Outside, <<item>>, Outside)
    BY <1>2, <2>2, <2>3, LeadsOne
  <2> QED
    BY <1>1, <1>2, <1>7, <2>4, StackAfterItem
<1> QED
  BY <1>4, <1>5, <1>6, <1>7

\* The function called is one of the program.
LEMMA CalleeIsAFunction ==
    ASSUME TypeOK, Instantiate PROVE Evaluated.callee \in FuncsOf(program)
<1>1. Evaluated \in Exprs /\ Evaluated.op = "call"
  <2>1. Now \in Items(program, Len(blocks))
    BY HeadOfAgenda DEF Instantiate
  <2>2. Evaluated.op = "call"
    BY DEF Instantiate, Pending
  <2>3. CASE Now.do = "finish"
    <3>1. Evaluated = Now.stmt.e /\ Now \in FinishItems
      BY <2>1, <2>3, ItemKinds DEF Evaluated
    <3> QED
      BY <2>2, <3>1 DEF FinishItems, Exprs
  <2>4. CASE Now.do = "loopCond"
    <3>1. Evaluated = Now.cond /\ Now \in CondItems(Len(blocks))
      BY <2>1, <2>4, ItemKinds DEF Evaluated
    <3> QED
      BY <2>2, <3>1 DEF CondItems
  <2>5. CASE Now.do \notin {"finish", "loopCond"}
    BY <2>2, <2>5 DEF Evaluated, None
  <2> QED
    BY <2>3, <2>4, <2>5
<1> QED
  BY <1>1, CallsAssumption DEF TypeOK, FuncsOf

LEMMA StackOfInstantiate == ASSUME TypeOK, StackInv, Grown(blocks, blocks'), Instantiate PROVE StackInv'
<1>1. /\ phase = "analyze" /\ BeginBody(Evaluated.callee, at, agenda)
      /\ loops' = loops /\ errors' = errors /\ program' = program
  BY DEF Instantiate, Stays
<1>4. program[Evaluated.callee].template
  BY DEF Instantiate, Pending
<1>2. PICK a \in Situations : Standing(a) /\ Leads(Mode, a, agenda, Outside)
  BY <1>1 DEF StackInv
<1>3. agenda \in Seq(Items(program, Len(blocks)))
  BY DEF TypeOK
<1> QED
  BY <1>1, <1>2, <1>3, <1>4, CalleeIsAFunction, StackOfBeginBody

LEMMA StackOfEndBody == ASSUME TypeOK, StackInv, Grown(blocks, blocks'), EndBody PROVE StackInv'
<1>1. /\ phase = "analyze" /\ agenda # <<>> /\ Now.do = "endBody"
      /\ vars' = SubSeq(vars, 1, Len(vars) - 1)
      /\ bodies' = SubSeq(bodies, 1, Len(bodies) - 1)
      /\ at' = IF program[Now.func].template THEN Now.block ELSE at
      /\ agenda' = Rest /\ loops' = loops /\ errors' = errors /\ program' = program
  BY DEF EndBody, AtHead, Now, Stays
<1>2. PICK a \in Situations, c \in Situations :
        Standing(a) /\ Effect(Mode, a, Now, c) /\ Leads(Mode, c, Rest, Outside)
  BY <1>1, StackAtHead
<1>3. /\ a = [c EXCEPT !.depth = @ + 1, !.bodies = Append(@, Now.func), !.dead = a.dead]
      /\ Mode.level # "any" => (Now.block = Null \/ a.dead => c.dead)
  BY <1>1, <1>2 DEF Effect
<1>4. a.depth = c.depth + 1 /\ a.loops = c.loops /\ a.bodies = Append(c.bodies, Now.func)
  BY <1>3 DEF Situations
<1>5. c.depth \in Nat \ {0} /\ c.bodies \in Seq(Nat)
  BY SituationTypes
<1>6. bodies' = c.bodies
  <2>1. bodies \in Seq(FuncsOf(program)) /\ bodies = Append(c.bodies, Now.func)
    BY <1>2, <1>4 DEF TypeOK, Standing
  <2> QED
    BY <1>1, <1>5, <2>1, PoppedPushed
<1>7. Len(vars') = Len(vars) - 1 /\ Len(vars) \in Nat
  <2>1. vars \in Seq(Scopes) /\ vars # <<>>
    BY <1>2, <1>4, <1>5 DEF TypeOK, Standing
  <2> QED
    BY <1>1, <2>1, PoppedLen
<1>8. errors = {} => (at' = Null => c.dead)
  BY <1>1, <1>2, <1>3, ModeFacts DEF Standing
<1>10. AtHome(c)'
  <2> SUFFICES ASSUME Mode'.level = "sound", at' # Null, c.bodies # <<>>
               PROVE  Home(Mode', c, at')
    BY DEF AtHome
  <2>1. Later(Mode, Mode') /\ Mode.level = "sound"
    BY <1>1, ModeAfter DEF Later
  <2>2. Now.func \in Mode.templates /\ (Now.block = Null \/ Home(Mode, c, Now.block))
    BY <1>1, <1>2, <2>1 DEF Effect
  <2>3. program[Now.func].template
    BY <2>2 DEF Mode
  <2>4. Home(Mode, c, at')
    BY <1>1, <2>2, <2>3
  <2> QED
    BY <2>1, <2>4, HomeLater
<1>9. Standing(c)'
  BY <1>1, <1>2, <1>4, <1>5, <1>6, <1>7, <1>8, <1>10 DEF Standing
<1> QED
  BY <1>1, <1>2, <1>9, StackAfter

\* A crash ends the analysis.
LEMMA StackOfCrash == ASSUME Crash PROVE StackInv'
BY DEF Crash, StackInv

\* The statements that have no parts.
LEMMA StackOfStatements ==
    ASSUME TypeOK, StackInv, Grown(blocks, blocks'), vars # <<>>,
           Refuse \/ ReturnOutside \/ Start \/ DefineVar \/ AddExprStmt \/ Return \/ IfFails
    PROVE  StackInv'
<1>1. phase = "analyze" /\ agenda # <<>> /\ Now.do \in {"stmt", "finish"}
  BY DEF Refuse, ReturnOutside, Start, DefineVar, AddExprStmt, Return, IfFails, Finish, AtHead, Now
<1>2. PICK a \in Situations, c \in Situations :
        Standing(a) /\ Effect(Mode, a, Now, c) /\ Leads(Mode, c, Rest, Outside)
  BY <1>1, StackAtHead
<1>3. c = a /\ (Mode.level = "sound" => Fits(Mode, a, Now.stmt))
  BY <1>1, <1>2 DEF Effect
<1>4. CASE Crash
  BY <1>4, StackOfCrash
<1>5. CASE /\ agenda' = Rest /\ Len(vars') = Len(vars) /\ UNCHANGED <<loops, bodies, at>>
           /\ program' = program /\ (errors' = errors \/ errors' # {})
  BY <1>2, <1>3, <1>5, StackAfterItem
<1>6. CASE Refuse
  BY <1>5, <1>6 DEF Refuse, Report, Stays
<1>7. CASE ReturnOutside
  BY <1>4, <1>7 DEF ReturnOutside
<1>8. CASE Start
  <2> DEFINE item == [Now EXCEPT !.do = "finish"]
  <2>1. /\ agenda' = <<item>> \o Rest
        /\ UNCHANGED <<vars, loops, bodies, at, errors>> /\ program' = program
        /\ Now.do = "stmt" /\ ~Refused(Now.stmt) /\ Now.stmt.op \in {"var", "expr", "ret", "if"}
    BY <1>8 DEF Start, Stays, AtHead, Now
  <2>2. Now \in StmtItems /\ Rest \in Seq(Items(program, Len(blocks)))
    BY <1>1, <2>1, HeadOfAgenda, ItemKinds
  <2>3. item.do = "finish" /\ item.stmt = Now.stmt
    BY <2>2 DEF StmtItems
  <2>4. Mode.level # "any" => Now.stmt.op = "var" \/ a.depth > 1
    <3> SUFFICES ASSUME Mode.level # "any", Now.stmt.op # "var" PROVE a.depth > 1
      OBVIOUS
    <3>1. Len(vars) # 1
      BY <2>1 DEF Refused, InGlobalScope
    <3>2. a.depth = Len(vars)
      BY <1>2, ModeFacts DEF Standing
    <3>3. a.depth \in Nat \ {0}
      BY SituationTypes
    <3>4. a.depth # 1
      BY <3>1, <3>2
    <3> QED
      BY <3>3, <3>4
  <2> HIDE DEF item
  <2>5. Effect(Mode, a, item, a)
    BY <1>3, <2>3, <2>4 DEF Effect
  <2>6. Leads(Mode, a, <<item>>, a)
    BY <2>3, <2>5, LeadsOne
  <2>7. <<item>> \in Seq({item} \cup Items(program, Len(blocks)))
        /\ Rest \in Seq({item} \cup Items(program, Len(blocks)))
    BY <2>2
  <2>8. Leads(Mode, a, <<item>> \o Rest, Outside)
    BY <1>2, <1>3, <2>6, <2>7, LeadsConcat
  <2> QED
    BY <1>2, <2>1, <2>8, StackAfterItem
<1>9. CASE DefineVar
  <2>1. CASE ~Crash
    <3>1. /\ Evaluate(Now.stmt.e, Now.at) /\ agenda' = Rest
          /\ UNCHANGED <<loops, bodies, at>> /\ program' = program
      BY <1>9, <2>1 DEF DefineVar, Stays
    <3>2. Len(vars') = Len(vars)
      <4>1. vars' = vars \/ \E new : vars' = [vars EXCEPT ![Len(vars)] = new]
        BY <1>9, <2>1 DEF DefineVar
      <4>2. \A new : Len([vars EXCEPT ![Len(vars)] = new]) = Len(vars)
        BY DEF TypeOK
      <4> QED
        BY <4>1, <4>2
    <3> QED
      BY <1>5, <3>1, <3>2, EvaluationReports
  <2> QED
    BY <1>4, <2>1
<1>10. CASE AddExprStmt
  BY <1>5, <1>10, EvaluationReports DEF AddExprStmt, Stays
<1>11. CASE Return
  <2>1. errors' = errors \/ errors' # {}
    BY <1>11, EvaluationReports DEF Return, Report
  <2> QED
    BY <1>5, <1>11, <2>1 DEF Return, Stays
<1>12. CASE IfFails
  BY <1>5, <1>12, EvaluationReports DEF IfFails, Stays
<1> QED
  BY <1>6, <1>7, <1>8, <1>9, <1>10, <1>11, <1>12

\* What a sound program may have in a branch, in a loop, behind a constant.
LEMMA FitsBranches ==
    ASSUME NEW mode, NEW a \in Situations, a.depth > 1,
           NEW s \in Statements, s.op = "if", Fits(mode, a, s)
    PROVE  /\ \A k \in 1..Len(s.then) : Fits(mode, [a EXCEPT !.depth = @ + 1], s.then[k])
           /\ \A k \in 1..Len(s.else) : Fits(mode, [a EXCEPT !.depth = @ + 1], s.else[k])
           /\ s.e.op = "true" => \A k \in 1..Len(s.else) : Fits(mode, [a EXCEPT !.dead = TRUE], s.else[k])
           /\ s.e.op = "false" => \A k \in 1..Len(s.then) : Fits(mode, [a EXCEPT !.dead = TRUE], s.then[k])
           /\ a.dead => IsConstant(s.e)
<1> DEFINE b == [a EXCEPT !.depth = @ + 1]
           c == [a EXCEPT !.dead = TRUE]
<1>1. s \in Loose => InLoop(mode, a)
  BY DEF Fits
<1>2. a.bodies # <<>>
  BY DEF Fits
<1>3. IF a.dead THEN s \in Blockless ELSE s \in Simple
  BY DEF Fits
<1>4. /\ b.loops = a.loops /\ b.bodies = a.bodies /\ b.dead = a.dead
      /\ c.loops = a.loops /\ c.bodies = a.bodies /\ c.dead = TRUE
  BY DEF Situations
<1>9. InLoop(mode, a) => InLoop(mode, b) /\ InLoop(mode, c)
  BY <1>4 DEF InLoop, Home
<1>5. \A k \in 1..Len(s.then) : s.then[k] \in Loose => s \in Loose
  BY LooseAssumption DEF AnyOf
<1>6. \A k \in 1..Len(s.else) : s.else[k] \in Loose => s \in Loose
  BY LooseAssumption DEF AnyOf
<1>7. CASE a.dead
  <2>1. /\ IsConstant(s.e)
        /\ \A k \in 1..Len(s.then) : s.then[k] \in Blockless
        /\ \A k \in 1..Len(s.else) : s.else[k] \in Blockless
    BY <1>3, <1>7, BlocklessAssumption DEF AllOf
  <2> HIDE DEF b, c
  <2>2. /\ \A k \in 1..Len(s.then) : Fits(mode, b, s.then[k]) /\ Fits(mode, c, s.then[k])
        /\ \A k \in 1..Len(s.else) : Fits(mode, b, s.else[k]) /\ Fits(mode, c, s.else[k])
    BY <1>1, <1>2, <1>4, <1>5, <1>6, <1>9, <1>7, <2>1 DEF Fits
  <2> QED
    BY <2>1, <2>2 DEF b, c
<1>8. CASE ~a.dead
  <2>1. /\ \A k \in 1..Len(s.then) : s.then[k] \in Simple
        /\ \A k \in 1..Len(s.else) : s.else[k] \in Simple
        /\ s.e.op = "true" => \A k \in 1..Len(s.else) : s.else[k] \in Blockless
        /\ s.e.op = "false" => \A k \in 1..Len(s.then) : s.then[k] \in Blockless
    BY <1>3, <1>8, SimpleAssumption DEF AllOf
  <2> HIDE DEF b, c
  <2>2. /\ \A k \in 1..Len(s.then) : Fits(mode, b, s.then[k])
        /\ \A k \in 1..Len(s.else) : Fits(mode, b, s.else[k])
    BY <1>1, <1>2, <1>4, <1>5, <1>6, <1>9, <1>8, <2>1 DEF Fits
  <2>3. /\ s.e.op = "true" => \A k \in 1..Len(s.else) : Fits(mode, c, s.else[k])
        /\ s.e.op = "false" => \A k \in 1..Len(s.then) : Fits(mode, c, s.then[k])
    BY <1>1, <1>2, <1>4, <1>5, <1>6, <1>9, <2>1 DEF Fits
  <2> QED
    BY <1>8, <2>2, <2>3 DEF b, c, IsConstant
<1> QED
  BY <1>7, <1>8

\* Statements one after the other.
LEMMA LeadsStatements ==
    ASSUME NEW mode, NEW a \in Situations, NEW S, NEW items \in Seq(S),
           \A k \in 1..Len(items) : /\ items[k].do = "stmt"
                                    /\ mode.level = "sound" => Fits(mode, a, items[k].stmt)
    PROVE  Leads(mode, a, items, a)
<1>1. ASSUME NEW item, item.do = "stmt", mode.level = "sound" => Fits(mode, a, item.stmt)
      PROVE  Effect(mode, a, item, a) /\ item.do # "loopCond"
  BY <1>1 DEF Effect
<1>2. \A k \in 1..Len(items) : Effect(mode, a, items[k], a) /\ items[k].do # "loopCond"
  BY <1>1
<1> QED
  BY <1>2, LeadsStanding

\* Statements in a scope of their own.
LEMMA LeadsScoped ==
    ASSUME NEW mode, NEW a \in Situations, NEW S, NEW items \in Seq(S),
           \A k \in 1..Len(items) : /\ items[k].do = "stmt"
                                    /\ mode.level = "sound" => Fits(mode, [a EXCEPT !.depth = @ + 1],
                                                               items[k].stmt)
    PROVE  Leads(mode, a, Scoped(items), a)
<1> DEFINE b == [a EXCEPT !.depth = @ + 1]
           open == [do |-> "openScope"]
           close == [do |-> "closeScope"]
           all == S \cup {open, close}
<1>1. b \in Situations
  BY MoreSituations
<1>2. open.do = "openScope" /\ close.do = "closeScope"
  OBVIOUS
<1>3. b = [a EXCEPT !.depth = @ + 1]
  OBVIOUS
<1>4. Scoped(items) = (<<open>> \o items) \o <<close>>
  BY DEF Scoped, Item
<1>5. <<open>> \in Seq(all) /\ items \in Seq(all) /\ <<close>> \in Seq(all)
  BY SeqOfMore
<1> HIDE DEF b, open, close, all
<1>6. Leads(mode, a, <<open>>, b)
  <2>1. Effect(mode, a, open, b)
    BY <1>2, <1>3 DEF Effect
  <2> QED
    BY <1>1, <1>2, <2>1, LeadsOne
<1>7. Leads(mode, b, items, b)
  <2>1. \A k \in 1..Len(items) : /\ items[k].do = "stmt"
                                 /\ mode.level = "sound" => Fits(mode, b, items[k].stmt)
    BY <1>3
  <2> QED
    BY <1>1, <2>1, LeadsStatements
<1>8. Leads(mode, b, <<close>>, a)
  <2>1. Effect(mode, b, close, a)
    BY <1>2, <1>3 DEF Effect
  <2> QED
    BY <1>1, <1>2, <2>1, LeadsOne
<1>9. Leads(mode, a, <<open>> \o items, b)
  BY <1>5, <1>6, <1>7, LeadsConcat
<1>10. <<open>> \o items \in Seq(all)
  BY <1>5
<1> QED
  BY <1>4, <1>5, <1>8, <1>9, <1>10, LeadsConcat

LEMMA StackOfConstantIf == ASSUME TypeOK, StackInv, Grown(blocks, blocks'), ConstantIf PROVE StackInv'
<1> DEFINE then == Parts(Now.at, 1, Now.stmt.then)
           else == Parts(Now.at, 2, Now.stmt.else)
           taken == IF Now.stmt.e.op = "true" THEN then ELSE else
           other == IF Now.stmt.e.op = "true" THEN else ELSE then
           mute == [do |-> "mute", other |-> other]
           I == Items(program, Len(blocks))
<1>1. /\ phase = "analyze" /\ agenda # <<>> /\ Now.do = "finish" /\ Now.stmt.op = "if"
      /\ IsConstant(Now.stmt.e)
  BY DEF ConstantIf, Finish, AtHead, Now
<1>2. PICK a \in Situations, c \in Situations :
        Standing(a) /\ Effect(Mode, a, Now, c) /\ Leads(Mode, c, Rest, Outside)
  BY <1>1, StackAtHead
<1>3. c = a /\ (Mode.level = "sound" => Fits(Mode, a, Now.stmt) /\ a.depth > 1)
  BY <1>1, <1>2 DEF Effect
<1>4. /\ Now.at \in Places /\ Now.stmt \in Statements /\ Rest \in Seq(I)
      /\ Now.stmt.then \in Seq(Statements) /\ Now.stmt.else \in Seq(Statements)
  BY <1>1, TypesAtHead, StatementsAssumption
<1>5. /\ then \in Seq(StmtItems) /\ else \in Seq(StmtItems)
      /\ Len(then) = Len(Now.stmt.then) /\ Len(else) = Len(Now.stmt.else)
      /\ \A k \in 1..Len(then) : then[k].do = "stmt" /\ then[k].stmt = Now.stmt.then[k]
      /\ \A k \in 1..Len(else) : else[k].do = "stmt" /\ else[k].stmt = Now.stmt.else[k]
  <2>1. /\ then \in Seq(StmtItems) /\ Len(then) = Len(Now.stmt.then)
        /\ \A k \in 1..Len(Now.stmt.then) : then[k].do = "stmt" /\ then[k].stmt = Now.stmt.then[k]
    BY <1>4, PartsType
  <2>2. /\ else \in Seq(StmtItems) /\ Len(else) = Len(Now.stmt.else)
        /\ \A k \in 1..Len(Now.stmt.else) : else[k].do = "stmt" /\ else[k].stmt = Now.stmt.else[k]
    BY <1>4, PartsType
  <2> QED
    BY <2>1, <2>2
<1>6. /\ agenda' = Scoped(taken) \o <<mute>> \o Rest
      /\ UNCHANGED <<vars, loops, bodies, at, errors>> /\ program' = program
  BY DEF ConstantIf, Stays
<1> HIDE DEF then, else
<1>7. Mode.level = "sound" =>
        /\ \A k \in 1..Len(taken) : Fits(Mode, [a EXCEPT !.depth = @ + 1], taken[k].stmt)
        /\ \A k \in 1..Len(other) : Fits(Mode, [a EXCEPT !.dead = TRUE], other[k].stmt)
  <2> SUFFICES ASSUME Mode.level = "sound"
               PROVE  /\ \A k \in 1..Len(taken) : Fits(Mode, [a EXCEPT !.depth = @ + 1], taken[k].stmt)
                      /\ \A k \in 1..Len(other) : Fits(Mode, [a EXCEPT !.dead = TRUE], other[k].stmt)
    OBVIOUS
  <2>1. /\ \A k \in 1..Len(then) : Fits(Mode, [a EXCEPT !.depth = @ + 1], then[k].stmt)
        /\ \A k \in 1..Len(else) : Fits(Mode, [a EXCEPT !.depth = @ + 1], else[k].stmt)
        /\ Now.stmt.e.op = "true" => \A k \in 1..Len(else) : Fits(Mode, [a EXCEPT !.dead = TRUE], else[k].stmt)
        /\ Now.stmt.e.op = "false" => \A k \in 1..Len(then) : Fits(Mode, [a EXCEPT !.dead = TRUE], then[k].stmt)
    <3> DEFINE s == Now.stmt
               b == [a EXCEPT !.depth = @ + 1]
               c1 == [a EXCEPT !.dead = TRUE]
    <3>1. s \in Statements /\ s.op = "if" /\ Fits(Mode, a, s) /\ a.depth > 1
      BY <1>1, <1>3, <1>4
    <3> HIDE DEF s
    <3>2. /\ \A k \in 1..Len(s.then) : Fits(Mode, b, s.then[k])
          /\ \A k \in 1..Len(s.else) : Fits(Mode, b, s.else[k])
          /\ s.e.op = "true" => \A k \in 1..Len(s.else) : Fits(Mode, c1, s.else[k])
          /\ s.e.op = "false" => \A k \in 1..Len(s.then) : Fits(Mode, c1, s.then[k])
      BY <3>1, FitsBranches
    <3> HIDE DEF b, c1
    <3>3. /\ \A k \in 1..Len(then) : Fits(Mode, b, then[k].stmt)
          /\ \A k \in 1..Len(else) : Fits(Mode, b, else[k].stmt)
          /\ s.e.op = "true" => \A k \in 1..Len(else) : Fits(Mode, c1, else[k].stmt)
          /\ s.e.op = "false" => \A k \in 1..Len(then) : Fits(Mode, c1, then[k].stmt)
      BY <1>5, <3>2 DEF s
    <3> QED
      BY <3>3 DEF b, c1, s
  <2>2. CASE Now.stmt.e.op = "true"
    BY <1>5, <2>1, <2>2
  <2>3. CASE Now.stmt.e.op # "true"
    <3>1. Now.stmt.e.op = "false"
      BY <1>1, <2>3 DEF IsConstant
    <3> QED
      BY <1>5, <2>1, <2>3, <3>1
  <2> QED
    BY <2>2, <2>3
<1>8. /\ taken \in Seq(StmtItems) /\ other \in Seq(StmtItems)
      /\ \A k \in 1..Len(taken) : taken[k].do = "stmt"
  BY <1>5
<1>9. mute.do = "mute" /\ mute.other = other
  OBVIOUS
<1>10. Scoped(taken) \in Seq(I) /\ <<mute>> \in Seq(I)
  <2>1. mute \in I
    BY <1>8 DEF MuteItems, Items
  <2> QED
    BY <1>8, <2>1, StmtItemsType, ScopedType
<1> HIDE DEF taken, other, mute, I
<1>11. Leads(Mode, a, Scoped(taken), a)
  BY <1>7, <1>8, LeadsScoped
<1>12. Leads(Mode, a, <<mute>>, a)
  <2>1. Mode.level = "sound" => a.bodies # <<>>
    BY <1>3 DEF Fits
  <2>2. Effect(Mode, a, mute, a)
    BY <1>3, <1>7, <1>9, <2>1 DEF Effect
  <2> QED
    BY <1>9, <2>2, LeadsOne
<1>13. Leads(Mode, a, agenda', Outside)
  <2>1. Leads(Mode, a, Scoped(taken) \o <<mute>>, a)
    BY <1>10, <1>11, <1>12, LeadsConcat
  <2>2. Scoped(taken) \o <<mute>> \in Seq(I) /\ Rest \in Seq(I)
    BY <1>4, <1>10 DEF I
  <2> QED
    BY <1>2, <1>3, <1>6, <2>1, <2>2, LeadsConcat
<1> QED
  BY <1>2, <1>6, <1>13, StackAfterItem

\* A change of the insertion block, and a jump.
LEMMA LeadsMove ==
    ASSUME NEW mode, NEW a \in Situations, NEW b \in Situations, NEW n,
           a = [b EXCEPT !.dead = a.dead], mode.level # "any" /\ n = Null => b.dead,
           mode.level = "sound" => n = Null \/ Home(mode, b, n)
    PROVE  Leads(mode, a, MoveTo(n), b)
<1> DEFINE item == [do |-> "moveTo", block |-> n]
<1>1. item.do = "moveTo" /\ item.block = n
  OBVIOUS
<1>2. MoveTo(n) = <<item>>
  BY DEF MoveTo
<1> HIDE DEF item
<1>3. Effect(mode, a, item, b)
  BY <1>1, Zenon DEF Effect
<1> QED
  BY <1>1, <1>2, <1>3, LeadsOne

LEMMA LeadsJump ==
    ASSUME NEW mode, NEW a \in Situations, NEW n, mode.level = "sound" => Home(mode, a, n)
    PROVE  Leads(mode, a, JumpTo(n), a)
<1> DEFINE item == [do |-> "jumpTo", block |-> n]
<1>1. item.do = "jumpTo" /\ item.block = n /\ JumpTo(n) = <<item>>
  BY DEF JumpTo
<1> HIDE DEF item
<1>2. Effect(mode, a, item, a)
  BY <1>1 DEF Effect
<1> QED
  BY <1>1, <1>2, LeadsOne

LEMMA StackOfMute == ASSUME TypeOK, StackInv, Grown(blocks, blocks'), Mute PROVE StackInv'
<1> DEFINE I == Items(program, Len(blocks))
<1>1. /\ phase = "analyze" /\ agenda # <<>> /\ Now.do = "mute"
      /\ agenda' = Scoped(Now.other) \o MoveTo(at) \o Rest
      /\ at' = Null
      /\ UNCHANGED <<vars, loops, bodies, errors>> /\ program' = program
  BY DEF Mute, AtHead, Now, Stays
<1>2. PICK a \in Situations, c \in Situations :
        Standing(a) /\ Effect(Mode, a, Now, c) /\ Leads(Mode, c, Rest, Outside)
  BY <1>1, StackAtHead
<1>3. /\ c = a
      /\ Mode.level = "sound" => /\ a.depth > 1 /\ a.bodies # <<>>
                           /\ \A k \in 1..Len(Now.other) :
                                Fits(Mode, [a EXCEPT !.dead = TRUE], Now.other[k].stmt)
  BY <1>1, <1>2 DEF Effect
<1> DEFINE d == [a EXCEPT !.dead = TRUE]
<1>4. /\ d \in Situations /\ d.depth = a.depth /\ d.loops = a.loops /\ d.bodies = a.bodies
      /\ d.dead = TRUE
  BY MoreSituations DEF Situations
<1>5. d = [a EXCEPT !.dead = d.dead]
  BY <1>4
<1>6. Now.other \in Seq(StmtItems) /\ Rest \in Seq(I) /\ at \in 0..Len(blocks) /\ Len(blocks) \in Nat
  BY <1>1, TypesAtHead
<1> HIDE DEF d
<1>7. Mode.level = "sound" => \A k \in 1..Len(Now.other) : Fits(Mode, [d EXCEPT !.depth = @ + 1],
                                                          Now.other[k].stmt)
  <2> SUFFICES ASSUME Mode.level = "sound", NEW k \in 1..Len(Now.other)
               PROVE  Fits(Mode, [d EXCEPT !.depth = @ + 1], Now.other[k].stmt)
    OBVIOUS
  <2>1. Fits(Mode, d, Now.other[k].stmt) /\ d.depth > 1
    BY <1>3, <1>4 DEF d
  <2> DEFINE e == [d EXCEPT !.depth = @ + 1]
  <2>2. e.loops = d.loops /\ e.bodies = d.bodies /\ e.dead = d.dead
    BY <1>4 DEF Situations
  <2> HIDE DEF e
  <2>3. Fits(Mode, e, Now.other[k].stmt)
    BY <2>1, <2>2 DEF Fits, InLoop, Home
  <2> QED
    BY <2>3 DEF e
<1>8. \A k \in 1..Len(Now.other) : Now.other[k].do = "stmt"
  <2>1. \A k \in 1..Len(Now.other) : Now.other[k] \in StmtItems
    BY <1>6
  <2> QED
    BY <2>1 DEF StmtItems
<1>9. Leads(Mode, d, Scoped(Now.other), d)
  BY <1>4, <1>6, <1>7, <1>8, LeadsScoped
<1>10. Leads(Mode, d, MoveTo(at), a)
  <2>1. Mode.level # "any" /\ at = Null => a.dead
    BY <1>2, ModeFacts DEF Standing
  <2>2. Mode.level = "sound" => at = Null \/ Home(Mode, a, at)
    BY <1>2, <1>3 DEF Standing, AtHome
  <2> QED
    BY <1>4, <1>5, <2>1, <2>2, LeadsMove
<1>11. Scoped(Now.other) \in Seq(I) /\ MoveTo(at) \in Seq(I)
  BY <1>6, StmtItemsType, ScopedType, MovesType
<1> HIDE DEF I
<1>12. Leads(Mode, d, agenda', Outside)
  <2>1. Leads(Mode, d, Scoped(Now.other) \o MoveTo(at), a)
        /\ Scoped(Now.other) \o MoveTo(at) \in Seq(I)
    BY <1>9, <1>10, <1>11, LeadsConcat
  <2> QED
    BY <1>1, <1>2, <1>3, <1>6, <2>1, LeadsConcat
<1>13. Standing(d)'
  BY <1>1, <1>2, <1>4 DEF Standing, AtHome
<1> QED
  BY <1>1, <1>4, <1>12, <1>13, StackAfter

\* Four paths, one after the other.
LEMMA LeadsAll ==
    ASSUME NEW mode, NEW S, NEW a, NEW b, NEW c, NEW d, NEW e,
           NEW p \in Seq(S), NEW q \in Seq(S), NEW r \in Seq(S), NEW s \in Seq(S),
           Leads(mode, a, p, b), Leads(mode, b, q, c), Leads(mode, c, r, d), Leads(mode, d, s, e)
    PROVE  Leads(mode, a, p \o q \o r \o s, e) /\ p \o q \o r \o s \in Seq(S)
<1>1. p \o q \in Seq(S) /\ (p \o q) \o r \in Seq(S) /\ ((p \o q) \o r) \o s \in Seq(S)
  OBVIOUS
<1>2. Leads(mode, a, p \o q, c)
  BY LeadsConcat
<1>3. Leads(mode, a, (p \o q) \o r, d)
  BY <1>1, <1>2, LeadsConcat
<1>4. Leads(mode, a, ((p \o q) \o r) \o s, e)
  BY <1>1, <1>3, LeadsConcat
<1> QED
  BY <1>1, <1>4

LEMMA ConcatAt ==
    ASSUME NEW S, NEW s \in Seq(S), NEW T, NEW t \in Seq(T), NEW i \in 1..Len(t)
    PROVE  Len(s) + i \in DOMAIN (s \o t) /\ (s \o t)[Len(s) + i] = t[i]
OBVIOUS

\* The blocks that are made next to the insertion block are of its function.
LEMMA HomeOfNew ==
    ASSUME TypeOK, at # Null, NEW k \in Nat, NEW term,
           blocks' = AddTerm(blocks, at, term) \o [i \in 1..k |-> NewBlock(blocks[at].func)],
           NEW a, Home(Mode, a, at), NEW x \in (Len(blocks) + 1)..(Len(blocks) + k)
    PROVE  Home(Mode', a, x)
<1> DEFINE n == Len(blocks)
           f == blocks[at].func
           cs == AddTerm(blocks, at, term)
           new == [i \in 1..k |-> NewBlock(f)]
<1>1. n \in Nat /\ blocks \in Seq(Blocks(program, n)) /\ at \in 1..n
  BY DEF TypeOK, Null
<1>2. PICK T : cs \in Seq(T)
  BY <1>1, AddTermGrows
<1>3. Len(cs) = n
  BY <1>1, AddTermGrows
<1>4. new \in Seq({NewBlock(f)}) /\ Len(new) = k /\ \A i \in 1..k : new[i] = NewBlock(f)
  OBVIOUS
<1>5. x - n \in 1..k /\ n + (x - n) = x
  BY <1>1
<1>6. blocks' = cs \o new
  OBVIOUS
<1>10. NewBlock(f).func = f
  BY DEF NewBlock
<1> HIDE DEF cs, new, n, f
<1>7. x \in DOMAIN blocks' /\ blocks'[x].func = f
  <2>1. x \in DOMAIN (cs \o new) /\ (cs \o new)[x] = new[x - n]
    BY <1>2, <1>3, <1>4, <1>5, ConcatAt
  <2> QED
    BY <1>4, <1>5, <1>6, <1>10, <2>1
<1>8. Mode'.home = [b \in DOMAIN blocks' |-> blocks'[b].func]
  BY DEF Mode
<1>9. Mode.home[at] = f /\ a.bodies # <<>> /\ f = a.bodies[Len(a.bodies)]
  BY <1>1, ModeFacts DEF Home, f
<1> QED
  BY <1>7, <1>8, <1>9 DEF Home

LEMMA StackOfRunTimeIf == ASSUME TypeOK, StackInv, Grown(blocks, blocks'), RunTimeIf PROVE StackInv'
<1> DEFINE n == Len(blocks)
           hasElse == Now.stmt.else # <<>>
           merge == IF hasElse THEN n + 3 ELSE n + 2
           then == Parts(Now.at, 1, Now.stmt.then)
           else == Parts(Now.at, 2, Now.stmt.else)
           other == IF hasElse THEN MoveTo(n + 2) \o Scoped(else) \o JumpTo(merge) ELSE <<>>
           I == Items(program, n + 3)
<1>1. phase = "analyze" /\ agenda # <<>> /\ Now.do = "finish" /\ Now.stmt.op = "if"
  BY DEF RunTimeIf, Finish, AtHead, Now
<1>2. CASE Crash
  BY <1>2, StackOfCrash
<1>3. CASE ~Crash
  <2>1. /\ HasValue(Now.stmt.e) /\ Evaluate(Now.stmt.e, Now.at) /\ at' = n + 1
        /\ agenda' = Scoped(then) \o JumpTo(merge) \o other \o MoveTo(merge) \o Rest
        /\ UNCHANGED <<vars, loops, bodies>> /\ program' = program
    BY <1>3 DEF RunTimeIf, Stays
  <2>2. PICK a \in Situations, c \in Situations :
          Standing(a) /\ Effect(Mode, a, Now, c) /\ Leads(Mode, c, Rest, Outside)
    BY <1>1, StackAtHead
  <2>3. c = a /\ (Mode.level = "sound" => Fits(Mode, a, Now.stmt) /\ a.depth > 1)
    BY <1>1, <2>2 DEF Effect
  <2>4. /\ n \in Nat /\ Now.at \in Places /\ Now.stmt \in Statements
        /\ Now.stmt.then \in Seq(Statements) /\ Now.stmt.else \in Seq(Statements)
        /\ Rest \in Seq(Items(program, n))
    BY <1>1, TypesAtHead, StatementsAssumption
  <2>5. /\ then \in Seq(StmtItems) /\ Len(then) = Len(Now.stmt.then)
        /\ \A k \in 1..Len(Now.stmt.then) : then[k].do = "stmt" /\ then[k].stmt = Now.stmt.then[k]
    BY <2>4, PartsType
  <2>6. /\ else \in Seq(StmtItems) /\ Len(else) = Len(Now.stmt.else)
        /\ \A k \in 1..Len(Now.stmt.else) : else[k].do = "stmt" /\ else[k].stmt = Now.stmt.else[k]
    BY <2>4, PartsType, SMTT(60)
  <2>7. merge \in 1..(n + 3) /\ merge # Null /\ n + 2 # Null /\ n + 2 \in 0..(n + 3) /\ n + 3 \in Nat
    BY <2>4 DEF Null
  <2>20. errors' = errors /\ at # Null
    BY <1>3, <2>1, EvaluationReports DEF RunTimeIf
  <2>21. PICK m : /\ m = Mode' /\ Later(Mode, m) /\ m.level = Mode.level
    BY <2>1, <2>20, ModeWithBlocks
  <2>22. m.level = "sound" => Home(m, a, n + 1) /\ Home(m, a, n + 2) /\ Home(m, a, merge)
    <3> SUFFICES ASSUME m.level = "sound" 
                 PROVE  Home(m, a, n + 1) /\ Home(m, a, n + 2) /\ Home(m, a, merge)
      OBVIOUS
    <3>1. Home(Mode, a, at)
      <4>1. a.bodies # <<>>
        BY <2>3, <2>21 DEF Fits
      <4> QED
        BY <2>2, <2>20, <2>21, <4>1 DEF Standing, AtHome
    <3> DEFINE k == merge - n
               new == [i \in 1..k |-> NewBlock(blocks[at].func)]
    <3>2. blocks' = AddTerm(blocks, at, Fork(Now.at, n + 1, n + 2)) \o new
      BY <1>3 DEF RunTimeIf
    <3>3. k \in Nat /\ n + k = merge
      BY <2>4
    <3>4. n + 1 \in (n + 1)..merge /\ n + 2 \in (n + 1)..merge /\ merge \in (n + 1)..merge
      BY <2>4
    <3> HIDE DEF merge, k
    <3>5. \A x \in (n + 1)..(n + k) : Home(Mode', a, x)
      BY <2>20, <3>1, <3>2, <3>3, HomeOfNew
    <3> QED
      BY <2>21, <3>3, <3>4, <3>5
  <2> HIDE DEF then, else, merge, n
  <2>8. Mode.level = "sound" =>
          /\ \A k \in 1..Len(then) : Fits(Mode, [a EXCEPT !.depth = @ + 1], then[k].stmt)
          /\ \A k \in 1..Len(else) : Fits(Mode, [a EXCEPT !.depth = @ + 1], else[k].stmt)
    <3> DEFINE b == [a EXCEPT !.depth = @ + 1]
               s == Now.stmt
    <3> SUFFICES ASSUME Mode.level = "sound"
                 PROVE  /\ \A k \in 1..Len(then) : Fits(Mode, b, then[k].stmt)
                        /\ \A k \in 1..Len(else) : Fits(Mode, b, else[k].stmt)
      OBVIOUS
    <3>1. s \in Statements /\ s.op = "if" /\ Fits(Mode, a, s) /\ a.depth > 1
      BY <1>1, <2>3, <2>4
    <3> HIDE DEF s
    <3>2. /\ \A k \in 1..Len(s.then) : Fits(Mode, b, s.then[k])
          /\ \A k \in 1..Len(s.else) : Fits(Mode, b, s.else[k])
      BY <3>1, FitsBranches
    <3> HIDE DEF b
    <3> QED
      BY <2>5, <2>6, <3>2 DEF s
  <2>23. m.level = "sound" =>
           /\ \A k \in 1..Len(then) : Fits(m, [a EXCEPT !.depth = @ + 1], then[k].stmt)
           /\ \A k \in 1..Len(else) : Fits(m, [a EXCEPT !.depth = @ + 1], else[k].stmt)
    <3> DEFINE b == [a EXCEPT !.depth = @ + 1]
    <3> HIDE DEF b
    <3>1. m.level = "sound" => \A x : Fits(Mode, b, x) => Fits(m, b, x)
      BY <2>21, FitsLater
    <3> QED
      BY <2>8, <2>21, <3>1 DEF b
  <2>9. /\ \A k \in 1..Len(then) : then[k].do = "stmt"
        /\ \A k \in 1..Len(else) : else[k].do = "stmt"
    BY <2>5, <2>6
  <2>10. Leads(m, a, Scoped(then), a) /\ Leads(m, a, Scoped(else), a)
    <3>1. \A k \in 1..Len(then) : /\ then[k].do = "stmt"
                                  /\ m.level = "sound" => Fits(m, [a EXCEPT !.depth = @ + 1],
                                                            then[k].stmt)
      BY <2>23, <2>9
    <3>2. \A k \in 1..Len(else) : /\ else[k].do = "stmt"
                                  /\ m.level = "sound" => Fits(m, [a EXCEPT !.depth = @ + 1],
                                                            else[k].stmt)
      BY <2>23, <2>9
    <3>3. Leads(m, a, Scoped(then), a)
      BY <2>5, <3>1, LeadsScoped
    <3>4. Leads(m, a, Scoped(else), a)
      BY <2>6, <3>2, LeadsScoped
    <3> QED
      BY <3>3, <3>4
  <2>11. /\ Scoped(then) \in Seq(I) /\ Scoped(else) \in Seq(I) /\ JumpTo(merge) \in Seq(I)
         /\ MoveTo(merge) \in Seq(I) /\ MoveTo(n + 2) \in Seq(I) /\ Rest \in Seq(I)
    <3>1. Items(program, n) \subseteq I
      BY <2>4, MoreBlocks
    <3>2. merge \in 0..(n + 3) /\ merge # 0
      BY <2>7 DEF Null
    <3>3. JumpTo(merge) \in Seq(I) /\ MoveTo(merge) \in Seq(I) /\ MoveTo(n + 2) \in Seq(I)
      BY <2>7, <3>2, MovesType
    <3> QED
      BY <2>4, <2>5, <2>6, <3>1, <3>3, StmtItemsType, ScopedType, SeqOfMore
  <2>12. Leads(m, a, MoveTo(merge), a) /\ Leads(m, a, MoveTo(n + 2), a)
    <3>1. a = [a EXCEPT !.dead = a.dead]
      BY DEF Situations
    <3>2. Leads(m, a, MoveTo(merge), a)
      BY <2>7, <2>22, <3>1, LeadsMove
    <3>3. Leads(m, a, MoveTo(n + 2), a)
      BY <2>7, <2>22, <3>1, LeadsMove
    <3> QED
      BY <3>2, <3>3
  <2>13. Leads(m, a, JumpTo(merge), a)
    BY <2>22, LeadsJump
  <2> HIDE DEF I
  <2>14. Leads(m, a, other, a) /\ other \in Seq(I)
    <3>1. CASE hasElse
      <4>1. Leads(m, a, MoveTo(n + 2) \o Scoped(else), a)
            /\ MoveTo(n + 2) \o Scoped(else) \in Seq(I)
        BY <2>10, <2>11, <2>12, LeadsConcat
      <4>2. Leads(m, a, (MoveTo(n + 2) \o Scoped(else)) \o JumpTo(merge), a)
        BY <2>11, <2>13, <4>1, LeadsConcat
      <4> QED
        BY <2>11, <3>1, <4>1, <4>2
    <3>2. CASE ~hasElse
      BY <3>2, LeadsNil
    <3> QED
      BY <3>1, <3>2
  <2> HIDE DEF other
  <2>15. /\ Leads(m, a, Scoped(then) \o JumpTo(merge) \o other \o MoveTo(merge), a)
         /\ Scoped(then) \o JumpTo(merge) \o other \o MoveTo(merge) \in Seq(I)
    BY <2>10, <2>11, <2>12, <2>13, <2>14, LeadsAll
  <2>16. Leads(m, a, agenda', Outside)
    <3>1. Leads(m, a, Rest, Outside)
      BY <2>2, <2>3, <2>21, LeadsLater
    <3> QED
      BY <2>1, <2>11, <2>15, <3>1, LeadsConcat
  <2>17. at' # Null
    BY <2>1, <2>4 DEF Null
  <2>18. AtHome(a)'
    BY <2>1, <2>21, <2>22 DEF AtHome
  <2>19. Standing(a)'
    BY <2>1, <2>2, <2>17, <2>18, <2>20 DEF Standing
  <2> QED
    BY <2>16, <2>19, <2>21 DEF StackInv
<1> QED
  BY <1>2, <1>3

\* What stands in a loop with the situation in it: moves, jumps, statements.
Steady(mode, e, I) ==
    {x \in I : Effect(mode, e, x, e) /\ x.do \notin {"loopCond", "closeLoop"}}

LEMMA SteadyMoves ==
    ASSUME NEW mode, NEW e \in Situations, NEW p, NEW n \in Nat, NEW b \in 1..n,
           mode.level = "sound" => Home(mode, e, b)
    PROVE  /\ MoveTo(b) \in Seq(Steady(mode, e, Items(p, n)))
           /\ JumpTo(b) \in Seq(Steady(mode, e, Items(p, n)))
<1> DEFINE move == [do |-> "moveTo", block |-> b]
           jump == [do |-> "jumpTo", block |-> b]
<1>1. move \in Items(p, n) /\ jump \in Items(p, n)
  BY DEF MoveItems, JumpItems, Items
<1>2. /\ move.do = "moveTo" /\ move.block = b /\ b # Null
      /\ jump.do = "jumpTo" /\ jump.block = b
  BY DEF Null
<1>3. e = [e EXCEPT !.dead = e.dead]
  BY DEF Situations
<1>4. MoveTo(b) = <<move>> /\ JumpTo(b) = <<jump>>
  BY DEF MoveTo, JumpTo
<1> HIDE DEF move, jump
<1>5. Effect(mode, e, move, e) /\ Effect(mode, e, jump, e)
  BY <1>2, <1>3 DEF Effect
<1>6. move \in Steady(mode, e, Items(p, n)) /\ jump \in Steady(mode, e, Items(p, n))
  BY <1>1, <1>2, <1>5 DEF Steady
<1> QED
  BY <1>4, <1>6

LEMMA SteadyStatements ==
    ASSUME NEW mode, NEW e \in Situations, NEW p, NEW n, NEW items \in Seq(StmtItems),
           mode.level = "sound" => \A k \in 1..Len(items) : Fits(mode, e, items[k].stmt)
    PROVE  items \in Seq(Steady(mode, e, Items(p, n)))
<1>1. \A k \in 1..Len(items) : items[k] \in StmtItems
  OBVIOUS
<1>2. \A k \in 1..Len(items) : items[k] \in Steady(mode, e, Items(p, n))
  <2> TAKE k \in 1..Len(items)
  <2> DEFINE x == items[k]
  <2>1. x \in Items(p, n) /\ x.do = "stmt" /\ (mode.level = "sound" => Fits(mode, e, x.stmt))
    BY <1>1 DEF StmtItems, Items
  <2> HIDE DEF x
  <2>2. Effect(mode, e, x, e)
    BY <2>1 DEF Effect
  <2>3. x \in Steady(mode, e, Items(p, n))
    BY <2>1, <2>2 DEF Steady
  <2> QED
    BY <2>3 DEF x
<1> QED
  BY <1>2

\* A loop: the pieces of its agenda, and the way out at its condition.
LEMMA StackOfEnterLoop == ASSUME TypeOK, StackInv, Grown(blocks, blocks'), EnterLoop PROVE StackInv'
<1>1. /\ phase = "analyze" /\ agenda # <<>> /\ Now.do = "stmt" /\ Now.stmt.op = "for"
      /\ ~Refused(Now.stmt)
  BY DEF EnterLoop, AtHead, Now
<1>2. CASE Crash
  BY <1>2, StackOfCrash
<1>3. CASE ~Crash
  <2> DEFINE n == Len(blocks)
             l == [break |-> n + 5, continue |-> n + 3]
             init == Optional(Now.at, 1, Now.stmt.init)
             iter == Optional(Now.at, 3, Now.stmt.iter)
             body == Parts(Now.at, 4, Now.stmt.body)
             cond == [do |-> "loopCond", at |-> Now.at \o <<2, 1>>, cond |-> Now.stmt.cond,
                      merge |-> n + 5]
             close == [do |-> "closeLoop"]
             before == init \o JumpTo(n + 2) \o MoveTo(n + 2)
             round == MoveTo(n + 3) \o iter \o JumpTo(n + 2) \o MoveTo(n + 4) \o body
                      \o JumpTo(n + 3) \o MoveTo(n + 5)
             I == Items(program, n + 5)
  <2>1. /\ vars' = Append(vars, <<>>) /\ loops' = Append(loops, l) /\ at' = n + 1
        /\ agenda' = before \o (<<cond>> \o round \o <<close>>) \o Rest
        /\ UNCHANGED <<bodies, errors>> /\ program' = program
    BY <1>3 DEF EnterLoop, Stays, Item
  <2>2. PICK a \in Situations, c \in Situations :
          Standing(a) /\ Effect(Mode, a, Now, c) /\ Leads(Mode, c, Rest, Outside)
    BY <1>1, StackAtHead
  <2>3. c = a /\ (Mode.level = "sound" => Fits(Mode, a, Now.stmt))
    BY <1>1, <2>2 DEF Effect
  <2>4. /\ n \in Nat /\ Now.at \in Places /\ Now.stmt \in Statements
        /\ vars \in Seq(Scopes) /\ loops \in Seq(LoopBlocks(n))
        /\ Rest \in Seq(Items(program, n))
    BY <1>1, TypesAtHead
  <2>5. /\ Now.stmt.body \in Seq(Statements)
        /\ Now.stmt.init = None \/ (Now.stmt.init \in Statements /\ Now.stmt.init.op = "var")
        /\ Now.stmt.iter = None \/ Now.stmt.iter \in Statements
    BY <1>1, <2>4, StatementsAssumption
  <2>6. l \in LoopPairs
    BY <2>4 DEF LoopPairs
  <2>7. PICK e \in Situations :
          /\ e = [a EXCEPT !.depth = @ + 1, !.loops = Append(@, l)]
          /\ e.depth = a.depth + 1 /\ e.loops = Append(a.loops, l)
          /\ e.bodies = a.bodies /\ e.dead = a.dead
    <3> DEFINE x == [a EXCEPT !.depth = @ + 1, !.loops = Append(@, l)]
    <3>1. x \in Situations
      BY <2>6, MoreSituations
    <3>2. /\ x.depth = a.depth + 1 /\ x.loops = Append(a.loops, l)
          /\ x.bodies = a.bodies /\ x.dead = a.dead
      BY DEF Situations
    <3> QED
      BY <3>1, <3>2
  <2>8. cond.do = "loopCond" /\ close.do = "closeLoop"
    OBVIOUS
  <2>10. Mode.level = "sound" => /\ a.bodies # <<>> /\ a.dead = FALSE
                           /\ Now.stmt \in Simple
    <3> SUFFICES ASSUME Mode.level = "sound"
                 PROVE  a.bodies # <<>> /\ a.dead = FALSE /\ Now.stmt \in Simple
      OBVIOUS
    <3>1. a.depth > 1
      <4>1. Len(vars) # 1
        BY <1>1 DEF Refused, InGlobalScope
      <4>2. a.depth = Len(vars)
        BY <2>2, ModeFacts DEF Standing
      <4>3. a.depth \in Nat \ {0}
        BY SituationTypes
      <4>4. a.depth # 1
        BY <4>1, <4>2
      <4> QED
        BY <4>3, <4>4
    <3>2. a.bodies # <<>> /\ (IF a.dead THEN Now.stmt \in Blockless ELSE Now.stmt \in Simple)
      BY <2>3, <3>1 DEF Fits
    <3>3. Now.stmt \notin Blockless
      BY <1>1, <2>4, BlocklessAssumption
    <3>4. a.dead \in BOOLEAN
      BY DEF Situations
    <3> QED
      BY <3>2, <3>3, <3>4
  <2>28. PICK m : m = Mode' /\ Later(Mode, m) /\ m.level = Mode.level
    BY <2>1, ModeWithBlocks
  <2>29. m.level = "sound" => \A x \in (n + 1)..(n + 5) : Home(m, e, x)
    <3> SUFFICES ASSUME m.level = "sound", NEW x \in (n + 1)..(n + 5) PROVE Home(m, e, x)
      OBVIOUS
    <3>1. /\ at # Null
          /\ blocks' = AddTerm(blocks, at, Jump(n + 1)) \o [i \in 1..5 |-> NewBlock(blocks[at].func)]
      BY <1>3 DEF EnterLoop
    <3>2. Home(Mode, a, at)
      BY <2>2, <2>10, <2>28, <3>1 DEF Standing, AtHome
    <3>3. Home(Mode, e, at)
      BY <2>7, <3>2 DEF Home
    <3>4. 5 \in Nat
      OBVIOUS
    <3> QED
      BY <2>28, <3>1, <3>3, <3>4, HomeOfNew
  <2>9. Effect(m, e, close, a)
    <3> HIDE DEF close, l
    <3> QED
      BY <2>6, <2>7, <2>8 DEF Effect
  <2>11. m.level = "sound" => \A s \in Simple : Fits(m, e, s)
    <3>1. a.loops \in Seq(LoopPairs)
      BY DEF Situations
    <3>2. e.loops # <<>> /\ e.loops[Len(e.loops)] = l
      BY <2>6, <2>7, <3>1
    <3>3. m.level = "sound" => Home(m, e, l.break) /\ Home(m, e, l.continue)
      BY <2>4, <2>29, SMTT(60)
    <3> HIDE DEF l
    <3> QED
      BY <2>7, <2>10, <2>28, <3>2, <3>3 DEF Fits, InLoop
  <2> DEFINE P == Steady(m, e, I)
  <2>12. init \in Seq(P) /\ iter \in Seq(P) /\ body \in Seq(P)
    <3>1. init \in Seq(P)
      <4>1. /\ init \in Seq(StmtItems)
            /\ \A k \in 1..Len(init) : init[k].stmt = Now.stmt.init /\ Now.stmt.init \in Statements
        <5>1. Now.at \in Places /\ 1 \in Nat /\ (Now.stmt.init = None \/ Now.stmt.init \in Statements)
          BY <2>4, <2>5
        <5> QED
          BY <5>1, OptionalType
      <4>2. Now.stmt.init \in Statements => Now.stmt.init \in Simple
        BY <2>5, SimpleAssumption DEF None
      <4> HIDE DEF init
      <4>3. m.level = "sound" => \A k \in 1..Len(init) : Fits(m, e, init[k].stmt)
        BY <2>11, <4>1, <4>2
      <4> QED
        BY <2>7, <4>1, <4>3, SteadyStatements
    <3>2. iter \in Seq(P)
      <4>1. /\ iter \in Seq(StmtItems)
            /\ \A k \in 1..Len(iter) : iter[k].stmt = Now.stmt.iter /\ Now.stmt.iter # None
        <5>1. CASE Now.stmt.iter = None
          BY <5>1 DEF Optional
        <5>2. CASE Now.stmt.iter # None
          <6>1. Now.at \in Places /\ 3 \in Nat /\ (Now.stmt.iter = None \/ Now.stmt.iter \in Statements)
            BY <2>4, <2>5
          <6>2. /\ iter \in Seq(StmtItems)
                /\ \A k \in 1..Len(iter) : iter[k].stmt = Now.stmt.iter
            BY <6>1, OptionalType
          <6> QED
            BY <5>2, <6>2
        <5> QED
          BY <5>1, <5>2
      <4>2. m.level = "sound" /\ Now.stmt.iter # None => Now.stmt.iter \in Simple
        BY <1>1, <2>4, <2>10, <2>28, SimpleAssumption
      <4> HIDE DEF iter
      <4>3. m.level = "sound" => \A k \in 1..Len(iter) : Fits(m, e, iter[k].stmt)
        BY <2>11, <4>1, <4>2
      <4> QED
        BY <2>7, <4>1, <4>3, SteadyStatements
    <3>3. body \in Seq(P)
      <4>1. /\ body \in Seq(StmtItems) /\ Len(body) = Len(Now.stmt.body)
            /\ \A k \in 1..Len(Now.stmt.body) : body[k].stmt = Now.stmt.body[k]
        <5>1. Now.at \in Places /\ 4 \in Nat /\ Now.stmt.body \in Seq(Statements)
          BY <2>4, <2>5
        <5> QED
          BY <5>1, PartsType
      <4>2. m.level = "sound" => \A k \in 1..Len(Now.stmt.body) : Now.stmt.body[k] \in Simple
        BY <1>1, <2>4, <2>10, <2>28, SimpleAssumption DEF AllOf
      <4> HIDE DEF body
      <4>3. m.level = "sound" => \A k \in 1..Len(body) : Fits(m, e, body[k].stmt)
        BY <2>11, <4>1, <4>2
      <4> QED
        BY <2>7, <4>1, <4>3, SteadyStatements
    <3> QED
      BY <3>1, <3>2, <3>3
  <2>13. cond \in I /\ close \in I
    <3>1. Now.at \o <<2, 1>> \in Places /\ n + 5 \in 2..(n + 5) /\ Now.stmt.cond \in Exprs
      BY <1>1, <2>4 DEF Places, Exprs
    <3> QED
      BY <3>1 DEF CondItems, ScopeItems, Items
  <2> HIDE DEF init, iter, body, cond, close, n
  <2>14. /\ n \in Nat /\ n + 5 \in Nat
         /\ n + 2 \in 1..(n + 5) /\ n + 3 \in 1..(n + 5) /\ n + 4 \in 1..(n + 5)
         /\ n + 5 \in 1..(n + 5)
    BY <2>4
  <2>15. /\ MoveTo(n + 2) \in Seq(P) /\ MoveTo(n + 3) \in Seq(P) /\ MoveTo(n + 4) \in Seq(P)
         /\ MoveTo(n + 5) \in Seq(P) /\ JumpTo(n + 2) \in Seq(P) /\ JumpTo(n + 3) \in Seq(P)
    <3>1. m.level = "sound" => /\ Home(m, e, n + 2) /\ Home(m, e, n + 3)
                               /\ Home(m, e, n + 4) /\ Home(m, e, n + 5)
      BY <2>14, <2>29
    <3> QED
      BY <2>7, <2>14, <3>1, SteadyMoves
  <2> HIDE DEF P
  <2>16. before \in Seq(P) /\ round \in Seq(P)
    BY <2>12, <2>15, ThreeParts, SevenParts
  <2> HIDE DEF before, round
  <2>17. /\ \A k \in 1..Len(before) : before[k] \in P
         /\ \A k \in 1..Len(round) : round[k] \in P
    BY <2>16
  <2>18. P \subseteq I
    BY DEF P, Steady
  <2> HIDE DEF I
  <2>19. before \in Seq(I) /\ round \in Seq(I) /\ <<cond>> \in Seq(I) /\ <<close>> \in Seq(I)
    BY <2>13, <2>16, <2>18, SeqOfMore
  <2>20. Leads(m, e, before, e)
    <3>1. \A k \in 1..Len(before) : Effect(m, e, before[k], e) /\ before[k].do # "loopCond"
      BY <2>17 DEF P, Steady
    <3> QED
      BY <2>7, <2>19, <3>1, LeadsStanding
  <2>21. Leads(m, e, <<cond>> \o round \o <<close>>, a)
    <3>1. \A k \in 1..Len(round) : /\ Effect(m, e, round[k], e)
                                   /\ round[k].do \notin {"loopCond", "closeLoop"}
      BY <2>17 DEF P, Steady
    <3>2. m.level = "sound" => Home(m, e, cond.merge - 1) /\ Home(m, e, cond.merge)
      <4>1. cond.merge = n + 5 /\ cond.merge - 1 = n + 4
        BY <2>14 DEF cond
      <4> QED
        BY <2>14, <2>29, <4>1
    <3>4. Effect(m, e, cond, e)
      BY <2>8, <3>2 DEF Effect
    <3> QED
      BY <2>7, <2>8, <2>9, <2>19, <3>1, <3>4, LeadsLoop
  <2>22. Rest \in Seq(I)
    <3>1. Items(program, n) \subseteq I
      BY <2>14, MoreBlocks DEF I
    <3> QED
      BY <2>4, <3>1, SeqOfMore
  <2>23. <<cond>> \o round \o <<close>> \in Seq(I)
    BY <2>19, ThreeParts
  <2> DEFINE looped == <<cond>> \o round \o <<close>>
  <2>24. looped \in Seq(I) /\ Leads(m, e, looped, a) /\ agenda' = before \o looped \o Rest
    BY <2>1, <2>21, <2>23
  <2> HIDE DEF looped
  <2>25. Leads(m, e, before \o looped, a) /\ before \o looped \in Seq(I)
    BY <2>19, <2>20, <2>24, LeadsConcat
  <2>26. Leads(m, e, agenda', Outside)
    <3>1. Leads(m, a, Rest, Outside)
      BY <2>2, <2>3, <2>28, LeadsLater
    <3> QED
      BY <2>22, <2>24, <2>25, <3>1, LeadsConcat
  <2>27. Standing(e)'
    <3>1. Len(vars') = Len(vars) + 1 /\ Len(loops') = Len(loops) + 1 /\ at' # Null
      BY <2>1, <2>4, <2>14 DEF Null
    <3>2. Len(e.loops) = Len(a.loops) + 1 /\ Len(a.loops) \in Nat /\ a.depth \in Nat
      BY <2>7 DEF Situations
    <3>3. Len(vars) \in Nat /\ Len(loops) \in Nat
      BY <2>4
    <3>4. AtHome(e)'
      <4>1. m.level = "sound" => Home(m, e, n + 1)
        BY <2>14, <2>29
      <4> QED
        BY <2>1, <2>28, <4>1 DEF AtHome
    <3> QED
      BY <2>1, <2>2, <2>7, <3>1, <3>2, <3>3, <3>4, SMTT(60) DEF Standing
  <2> QED
    BY <2>7, <2>26, <2>27, <2>28 DEF StackInv
<1> QED
  BY <1>2, <1>3

\* From the condition of a loop the path can be left for the end of the loop.
LEMMA LeadsOut ==
    ASSUME NEW mode, NEW S, NEW a, NEW b, NEW items \in Seq(S), items # <<>>,
           Head(items).do = "loopCond", Leads(mode, a, items, b)
    PROVE  \E j \in 1..Len(Tail(items)), c \in Situations :
              /\ Tail(items)[j].do = "closeLoop"
              /\ \A i \in 1..(j - 1) : Tail(items)[i].do # "closeLoop"
              /\ Effect(mode, a, Tail(items)[j], c)
              /\ Leads(mode, c, SubSeq(Tail(items), j + 1, Len(Tail(items))), b)
<1> DEFINE n == Len(items)
           rest == Tail(items)
<1>1. PICK h \in [1..(n + 1) -> Situations] :
        /\ h[1] = a /\ h[n + 1] = b
        /\ \A k \in 1..n : Effect(mode, h[k], items[k], h[k + 1])
        /\ \A k \in 1..n : items[k].do = "loopCond" => Leaves(mode, h, items, k)
  BY DEF Leads
<1>2. /\ n \in Nat \ {0} /\ Len(rest) = n - 1 /\ Head(items) = items[1]
      /\ \A k \in 1..(n - 1) : rest[k] = items[k + 1]
  OBVIOUS
<1>3. PICK m \in 2..n : /\ items[m].do = "closeLoop"
                        /\ \A i \in 2..(m - 1) : items[i].do # "closeLoop"
                        /\ Effect(mode, h[1], items[m], h[m + 1])
  BY <1>1, <1>2, SMTT(60) DEF Leaves
<1> DEFINE j == m - 1
           after == SubSeq(rest, j + 1, Len(rest))
           g == [k \in 1..(n - m + 1) |-> h[m + k]]
<1>4. /\ j \in 1..(n - 1) /\ rest[j] = items[m] /\ n - m \in Nat
      /\ h[m + 1] \in Situations
  BY <1>1, <1>2
<1>5. \A i \in 1..(j - 1) : rest[i].do # "closeLoop"
  BY <1>2, <1>3
<1>6. /\ Len(after) = n - m
      /\ \A k \in 1..(n - m) : after[k] = items[m + k]
  <2>1. rest \in Seq(S)
    OBVIOUS
  <2>2. j + 1 \in Int /\ Len(rest) \in Int /\ \A i \in (j + 1)..Len(rest) : rest[i] \in S
    BY <1>2, <1>4, <2>1
  <2>3. /\ Len(after) = IF j + 1 <= Len(rest) THEN Len(rest) - (j + 1) + 1 ELSE 0
        /\ \A k \in 1..(Len(rest) - (j + 1) + 1) : after[k] = rest[(j + 1) + k - 1]
    BY <2>2, SubSeqProperties
  <2> HIDE DEF after, rest
  <2>4. Len(after) = n - m
    BY <1>2, <1>4, <2>3
  <2>5. \A k \in 1..(n - m) : after[k] = items[m + k]
    <3> TAKE k \in 1..(n - m)
    <3>1. /\ k \in 1..(Len(rest) - (j + 1) + 1) /\ (j + 1) + k - 1 = j + k
          /\ j + k \in 1..(n - 1) /\ (j + k) + 1 = m + k
      BY <1>2, <1>4
    <3> QED
      BY <1>2, <2>3, <3>1
  <2> QED
    BY <2>4, <2>5
<1>7. /\ g \in [1..(Len(after) + 1) -> Situations]
      /\ \A k \in 1..(n - m + 1) : g[k] = h[m + k]
  BY <1>1, <1>4, <1>6
<1>14. n = Len(items) /\ m \in 2..n /\ n \in Nat /\ m \in Nat
  BY <1>2
<1> HIDE DEF g, after, j, rest, n
<1>8. g[1] = h[m + 1] /\ g[Len(after) + 1] = b
  <2>1. 1 \in 1..(n - m + 1) /\ n - m + 1 \in 1..(n - m + 1) /\ m + (n - m + 1) = n + 1
    BY <1>14
  <2>2. g[1] = h[m + 1] /\ g[n - m + 1] = h[n + 1]
    BY <1>7, <2>1
  <2> QED
    BY <1>1, <1>6, <2>2
<1>9. \A k \in 1..Len(after) : Effect(mode, g[k], after[k], g[k + 1])
  <2> TAKE k \in 1..Len(after)
  <2>1. m + k \in 1..n /\ k \in 1..(n - m) /\ k \in 1..(n - m + 1) /\ k + 1 \in 1..(n - m + 1)
        /\ m + (k + 1) = (m + k) + 1
    BY <1>4, <1>6, <1>14
  <2>2. g[k] = h[m + k] /\ g[k + 1] = h[(m + k) + 1] /\ after[k] = items[m + k]
    BY <1>6, <1>7, <2>1
  <2> QED
    BY <1>1, <2>1, <2>2
<1>10. \A k \in 1..Len(after) : after[k].do = "loopCond" => Leaves(mode, g, after, k)
  <2> SUFFICES ASSUME NEW k \in 1..Len(after), after[k].do = "loopCond"
               PROVE  Leaves(mode, g, after, k)
    OBVIOUS
  <2>1. m + k \in 1..n /\ k \in 1..(n - m) /\ k \in 1..(n - m + 1) /\ items[m + k].do = "loopCond"
    <3>1. k \in 1..(n - m)
      BY <1>6
    <3>2. m + k \in 1..n /\ k \in 1..(n - m + 1)
      BY <3>1, <1>14
    <3> QED
      BY <3>1, <3>2, <1>6
  <2>2. PICK q \in ((m + k) + 1)..n :
          /\ items[q].do = "closeLoop"
          /\ \A i \in ((m + k) + 1)..(q - 1) : items[i].do # "closeLoop"
          /\ Effect(mode, h[m + k], items[q], h[q + 1])
    BY <1>1, <1>14, <2>1 DEF Leaves
  <2>3. /\ q - m \in (k + 1)..Len(after) /\ after[q - m] = items[q]
        /\ g[k] = h[m + k] /\ g[(q - m) + 1] = h[q + 1]
    <3> DEFINE r == q - m
    <3>1. /\ r \in (k + 1)..(n - m) /\ r \in 1..(n - m) /\ r + 1 \in 1..(n - m + 1)
          /\ m + r = q /\ m + (r + 1) = q + 1
      BY <1>14, <2>1
    <3> HIDE DEF r
    <3>2. /\ r \in (k + 1)..Len(after) /\ after[r] = items[q]
          /\ g[k] = h[m + k] /\ g[r + 1] = h[q + 1]
      BY <1>6, <1>7, <2>1, <3>1
    <3> QED
      BY <3>2 DEF r
  <2>4. \A i \in (k + 1)..((q - m) - 1) : after[i].do # "closeLoop"
    <3> TAKE i \in (k + 1)..((q - m) - 1)
    <3>1. m + i \in ((m + k) + 1)..(q - 1) /\ i \in 1..(n - m)
      BY <1>14, <2>1
    <3> QED
      BY <1>6, <2>2, <3>1
  <2> QED
    BY <2>2, <2>3, <2>4 DEF Leaves
<1>11. Leads(mode, h[m + 1], after, b)
  BY <1>7, <1>8, <1>9, <1>10 DEF Leads
<1>12. Effect(mode, a, rest[j], h[m + 1]) /\ rest[j].do = "closeLoop"
  BY <1>1, <1>3, <1>4
<1>13. j \in 1..Len(rest)
  BY <1>2, <1>4
<1> QED
  BY <1>4, <1>5, <1>11, <1>12, <1>13 DEF after, rest

LEMMA StackOfLoopCondition ==
    ASSUME TypeOK, StackInv, Grown(blocks, blocks'), LoopCondition PROVE StackInv' /\ ConditionsAreInLoops
<1> DEFINE ends == {k \in 1..Len(Rest) : Rest[k].do = "closeLoop"}
           end == CHOOSE k \in ends : \A j \in ends : k <= j
<1>1. phase = "analyze" /\ agenda # <<>> /\ Now.do = "loopCond"
  BY DEF LoopCondition, AtHead, Now
<1>2. PICK a \in Situations, c \in Situations :
        /\ Standing(a) /\ Leads(Mode, a, agenda, Outside)
        /\ Effect(Mode, a, Now, c) /\ Leads(Mode, c, Rest, Outside)
  BY <1>1, StackAtHead
<1>3. c = a
  BY <1>1, <1>2 DEF Effect
<1>4. PICK j \in 1..Len(Rest), d \in Situations :
        /\ Rest[j].do = "closeLoop"
        /\ \A i \in 1..(j - 1) : Rest[i].do # "closeLoop"
        /\ Effect(Mode, a, Rest[j], d)
        /\ Leads(Mode, d, SubSeq(Rest, j + 1, Len(Rest)), Outside)
  <2>1. agenda \in Seq(Items(program, Len(blocks))) /\ Head(agenda).do = "loopCond"
    BY <1>1 DEF TypeOK, Now
  <2> QED
    BY <1>1, <1>2, <2>1, LeadsOut DEF Rest
<1>5. Len(Rest) \in Nat
  BY <1>1, TypesAtHead
<1>6. end = j
  <2>1. j \in ends /\ \A i \in ends : j <= i
    BY <1>4, <1>5
  <2>2. \A i \in ends : (\A k \in ends : i <= k) => i = j
    BY <1>5, <2>1
  <2> HIDE DEF ends
  <2> QED
    BY <2>1, <2>2
<1>7. /\ Evaluate(Now.cond, Now.at) /\ UNCHANGED <<vars, loops, bodies, at>> /\ program' = program
      /\ \/ agenda' = Rest
         \/ ~HasValue(Now.cond) /\ agenda' = SubSeq(Rest, end + 1, Len(Rest))
  BY Zenon DEF LoopCondition, Stays
<1> HIDE DEF end, ends
<1>8. ASSUME agenda' = Rest PROVE StackInv'
  <2>1. errors' = errors \/ errors' # {}
    BY <1>7, EvaluationReports
  <2> QED
    BY <1>2, <1>3, <1>7, <1>8, <2>1, StackAfterItem
<1>9. ASSUME ~HasValue(Now.cond), agenda' = SubSeq(Rest, end + 1, Len(Rest)) PROVE StackInv'
  <2>1. errors' # {}
    BY <1>7, <1>9, EvaluationReports
  <2>2. PICK l \in LoopPairs : a = [d EXCEPT !.depth = @ + 1, !.loops = Append(@, l)]
    BY <1>4 DEF Effect
  <2>3. /\ a.depth = d.depth + 1 /\ a.loops = Append(d.loops, l) /\ a.bodies = d.bodies
        /\ d.depth \in Nat \ {0} /\ d.loops \in Seq(LoopPairs)
    BY <2>2 DEF Situations
  <2>4. Len(a.loops) = Len(d.loops) + 1 /\ Len(d.loops) \in Nat
    BY <2>3
  <2>5. Len(vars) \in Nat /\ Len(loops) \in Nat
    BY DEF TypeOK
  <2>6. Standing(d)'
    <3>1. AtHome(d)'
      BY <2>1 DEF AtHome, Mode
    <3> QED
      BY <1>2, <1>7, <2>1, <2>3, <2>4, <2>5, <3>1 DEF Standing
  <2> QED
    BY <1>4, <1>6, <1>7, <1>9, <2>1, <2>6, StackAfter
<1>10. ConditionsAreInLoops
  BY <1>4 DEF ConditionsAreInLoops
<1> QED
  BY <1>7, <1>8, <1>9, <1>10

LEMMA StackOfScopes ==
    ASSUME TypeOK, StackInv, Grown(blocks, blocks'),
           CloseLoop \/ BreakContinue \/ OpenScope \/ CloseScope \/ MoveOrJump
    PROVE  StackInv'
<1>1. phase = "analyze" /\ agenda # <<>>
  BY DEF CloseLoop, BreakContinue, OpenScope, CloseScope, MoveOrJump, AtHead
<1>2. PICK a \in Situations, c \in Situations :
        Standing(a) /\ Effect(Mode, a, Now, c) /\ Leads(Mode, c, Rest, Outside)
  BY <1>1, StackAtHead
<1>3. /\ vars \in Seq(Scopes) /\ Len(vars) \in Nat
      /\ loops \in Seq(LoopBlocks(Len(blocks))) /\ Len(loops) \in Nat
      /\ a.depth \in Nat \ {0} /\ c.depth \in Nat \ {0}
      /\ a.loops \in Seq(LoopPairs) /\ c.loops \in Seq(LoopPairs)
  BY DEF TypeOK, Situations
<1>4. CASE CloseLoop
  <2>1. /\ Now.do = "closeLoop" /\ agenda' = Rest /\ program' = program
        /\ vars' = SubSeq(vars, 1, Len(vars) - 1) /\ loops' = SubSeq(loops, 1, Len(loops) - 1)
        /\ UNCHANGED <<bodies, at, errors>>
    BY <1>4 DEF CloseLoop, Stays, AtHead, Now
  <2>2. PICK l \in LoopPairs : a = [c EXCEPT !.depth = @ + 1, !.loops = Append(@, l)]
    BY <1>2, <2>1 DEF Effect
  <2>3. /\ a.depth = c.depth + 1 /\ a.loops = Append(c.loops, l) /\ a.bodies = c.bodies
        /\ a.dead = c.dead
    BY <2>2 DEF Situations
  <2>4. Len(a.loops) = Len(c.loops) + 1 /\ Len(c.loops) \in Nat
    BY <1>3, <2>3
  <2>5. vars # <<>> /\ loops # <<>>
    BY <1>2, <1>3, <2>3, <2>4 DEF Standing
  <2>6. Len(vars') = Len(vars) - 1 /\ Len(loops') = Len(loops) - 1
    BY <1>3, <2>1, <2>5, PoppedLen
  <2>7. errors = {} => loops' = c.loops
    <3>1. errors = {} => loops = Append(c.loops, l)
      BY <1>2, <2>3 DEF Standing
    <3> QED
      BY <1>3, <2>1, <3>1, PoppedPushed
  <2>8. Standing(c)'
    <3>1. bodies' = c.bodies /\ c.depth <= Len(vars') /\ Len(c.loops) <= Len(loops')
      <4>1. a.bodies = bodies /\ a.depth <= Len(vars) /\ Len(a.loops) <= Len(loops)
        BY <1>2 DEF Standing
      <4>2. bodies' = c.bodies
        BY <2>1, <2>3, <4>1
      <4>3. c.depth <= Len(vars')
        BY <1>3, <2>3, <2>6, <4>1
      <4>4. Len(c.loops) <= Len(loops')
        BY <1>3, <2>4, <2>6, <4>1
      <4> QED
        BY <4>2, <4>3, <4>4
    <3>2. errors' = {} => c.depth = Len(vars') /\ (at' = Null => c.dead)
      BY <1>2, <1>3, <2>1, <2>3, <2>6 DEF Standing
    <3>3. AtHome(c)'
      BY <1>2, <2>1, <2>3, AtStays DEF Standing
    <3> QED
      BY <2>1, <2>7, <3>1, <3>2, <3>3 DEF Standing
  <2> QED
    BY <1>2, <2>1, <2>8, StackAfter
<1>5. CASE BreakContinue
  <2>1. CASE Crash
    BY <2>1, StackOfCrash
  <2>2. CASE ~Crash
    <3>1. /\ Now.do = "stmt" /\ agenda' = Rest /\ program' = program
          /\ UNCHANGED <<vars, loops, bodies, at, errors>>
      BY <1>5, <2>2 DEF BreakContinue, Stays, AtHead, Now
    <3>2. c = a
      BY <1>2, <3>1 DEF Effect
    <3> QED
      BY <1>2, <3>1, <3>2, StackAfterItem
  <2> QED
    BY <2>1, <2>2
<1>6. CASE OpenScope
  <2>1. /\ Now.do = "openScope" /\ agenda' = Rest /\ program' = program
        /\ vars' = Append(vars, <<>>) /\ UNCHANGED <<loops, bodies, at, errors>>
    BY <1>6 DEF OpenScope, Stays, AtHead, Now
  <2>2. c = [a EXCEPT !.depth = @ + 1]
    BY <1>2, <2>1 DEF Effect
  <2>3. c.depth = a.depth + 1 /\ c.loops = a.loops /\ c.bodies = a.bodies /\ c.dead = a.dead
    BY <2>2 DEF Situations
  <2>4. Len(vars') = Len(vars) + 1
    BY <1>3, <2>1
  <2>5. Standing(c)'
    <3>1. AtHome(c)'
      BY <1>2, <2>1, <2>3, AtStays DEF Standing
    <3> QED
      BY <1>2, <1>3, <2>1, <2>3, <2>4, <3>1 DEF Standing
  <2> QED
    BY <1>2, <2>1, <2>5, StackAfter
<1>7. CASE CloseScope
  <2>1. /\ Now.do = "closeScope" /\ agenda' = Rest /\ program' = program
        /\ vars' = SubSeq(vars, 1, Len(vars) - 1) /\ UNCHANGED <<loops, bodies, at, errors>>
    BY <1>7 DEF CloseScope, Stays, AtHead, Now
  <2>2. a = [c EXCEPT !.depth = @ + 1]
    BY <1>2, <2>1 DEF Effect
  <2>3. a.depth = c.depth + 1 /\ c.loops = a.loops /\ c.bodies = a.bodies /\ c.dead = a.dead
    BY <2>2 DEF Situations
  <2>4. vars # <<>>
    BY <1>2, <1>3, <2>3 DEF Standing
  <2>5. Len(vars') = Len(vars) - 1
    BY <1>3, <2>1, <2>4, PoppedLen
  <2>6. Standing(c)'
    <3>1. AtHome(c)'
      BY <1>2, <2>1, <2>3, AtStays DEF Standing
    <3> QED
      BY <1>2, <1>3, <2>1, <2>3, <2>5, <3>1 DEF Standing
  <2> QED
    BY <1>2, <2>1, <2>6, StackAfter
<1>8. CASE MoveOrJump
  <2>1. /\ agenda' = Rest /\ program' = program /\ UNCHANGED <<vars, loops, bodies, errors>>
        /\ \/ Now.do = "moveTo" /\ at' = Now.block
           \/ Now.do = "jumpTo" /\ at' = at
    BY <1>8 DEF MoveOrJump, Stays, AtHead, Now
  <2>2. CASE Now.do = "moveTo" /\ at' = Now.block
    <3>1. /\ a = [c EXCEPT !.dead = a.dead]
          /\ Mode.level # "any" /\ Now.block = Null => c.dead
          /\ Mode.level = "sound" => Now.block = Null \/ Home(Mode, c, Now.block)
      BY <1>2, <2>2, Zenon DEF Effect
    <3>2. a.depth = c.depth /\ a.loops = c.loops /\ a.bodies = c.bodies
      BY <3>1 DEF Situations
    <3>3. AtHome(c)'
      <4> SUFFICES ASSUME Mode'.level = "sound", at' # Null, c.bodies # <<>>
                   PROVE  Home(Mode', c, at')
        BY DEF AtHome
      <4>1. Later(Mode, Mode')
        BY <2>1, ModeAfter
      <4>2. Mode.level = "sound"
        BY <4>1 DEF Later
      <4>3. Home(Mode, c, at')
        BY <2>2, <3>1, <4>2
      <4> QED
        BY <4>1, <4>3, HomeLater
    <3>4. Standing(c)'
      BY <1>2, <2>1, <2>2, <3>1, <3>2, <3>3, ModeFacts DEF Standing
    <3> QED
      BY <1>2, <2>1, <3>4, StackAfter
  <2>3. CASE Now.do = "jumpTo" /\ at' = at
    <3>1. c = a
      BY <1>2, <2>3 DEF Effect
    <3> QED
      BY <1>2, <2>1, <2>3, <3>1, StackAfterItem
  <2> QED
    BY <2>1, <2>2, <2>3
<1> QED
  BY <1>4, <1>5, <1>6, <1>7, <1>8

LEMMA StackOfNext == ASSUME TypeOK, StackInv, phase = "analyze" => vars # <<>>, Next PROVE StackInv'
<1>0. Grown(blocks, blocks')
  BY BlocksGrowInStep
<1>1. CASE Refuse \/ ReturnOutside \/ Start \/ DefineVar \/ AddExprStmt \/ Return \/ IfFails
  <2>1. phase = "analyze"
    BY <1>1 DEF Refuse, ReturnOutside, Start, DefineVar, AddExprStmt, Return, IfFails, Finish, AtHead
  <2> QED
    BY <1>0, <1>1, <2>1, StackOfStatements
<1>2. CASE StartPasses \/ RunOnFunction \/ Verdict
  BY <1>2 DEF StartPasses, RunOnFunction, Verdict, StackInv
<1> QED
  BY <1>0, <1>1, <1>2, StackOfDeclare, StackOfInstantiate, StackOfEndBody, StackOfConstantIf, StackOfMute,
     StackOfRunTimeIf, StackOfEnterLoop, StackOfLoopCondition, StackOfScopes DEF Next

-----------------------------------------------------------------------------
(* Crashes. *)

\* In a body there is a function to return from.
LEMMA InABody ==
    ASSUME NEW a \in Situations, Standing(a), errors = {}, ~InGlobalScope PROVE a.depth > 1
<1>1. a.depth = Len(vars) /\ Len(vars) # 1
  BY DEF Standing, InGlobalScope
<1>2. a.depth \in Nat \ {0}
  BY SituationTypes
<1>3. a.depth # 1
  BY <1>1
<1> QED
  BY <1>2, <1>3

\* A sound program that has no error yet has a block, a loop and a function
\* wherever a statement needs one.
LEMMA NothingCrashes ==
    ASSUME TypeOK, StackInv, errors = {}, Sound, Next, phase # "crashed"
    PROVE  phase' # "crashed"
<1>1. CASE \/ Declare \/ Instantiate \/ EndBody \/ Refuse \/ Start \/ AddExprStmt \/ Return
           \/ IfFails \/ ConstantIf \/ Mute \/ LoopCondition \/ CloseLoop
           \/ OpenScope \/ CloseScope \/ MoveOrJump
  BY <1>1 DEF Declare, Instantiate, EndBody, Refuse, Start, AddExprStmt, Return, IfFails, ConstantIf,
              Mute, LoopCondition, CloseLoop, OpenScope, CloseScope, MoveOrJump, Stays
<1>2. CASE StartPasses \/ RunOnFunction \/ Verdict
  BY <1>2 DEF StartPasses, RunOnFunction, Verdict
<1>3. CASE ReturnOutside \/ DefineVar \/ RunTimeIf \/ EnterLoop \/ BreakContinue
  <2>1. phase = "analyze" /\ agenda # <<>> /\ Now.do \in {"stmt", "finish"}
    BY <1>3 DEF ReturnOutside, DefineVar, RunTimeIf, EnterLoop, BreakContinue, Finish, AtHead, Now
  <2>2. PICK a \in Situations, c \in Situations : Standing(a) /\ Effect(Mode, a, Now, c)
    BY <2>1, StackAtHead
  <2>3. Mode.level = "sound"
    BY ModeFacts
  <2>4. Fits(Mode, a, Now.stmt) /\ (Now.do = "finish" => Now.stmt.op = "var" \/ a.depth > 1)
    BY <2>1, <2>2, <2>3 DEF Effect
  <2>5. Now.stmt \in Statements
    BY <2>1, TypesAtHead
  <2>6. a.bodies = bodies /\ a.loops = loops /\ (at = Null => a.dead)
    BY <2>2 DEF Standing
  <2>7. a.depth > 1 => /\ bodies # <<>> /\ (Now.stmt \in Loose => loops # <<>>)
                       /\ at = Null => Now.stmt \in Blockless
    BY <2>4, <2>6 DEF Fits, InLoop
  <2>8. Now.stmt \in Blockless => Now.stmt.op \notin {"var", "for"}
    BY <2>5, BlocklessAssumption
  <2>9. Now.stmt \in Blockless /\ Now.stmt.op = "if" => IsConstant(Now.stmt.e)
    BY <2>5, BlocklessAssumption
  <2>10. Now.stmt.op \in {"break", "continue"} => Now.stmt \in Loose
    BY <2>5, LooseAssumption
  <2>11. ASSUME Now.do = "stmt", ~Refused(Now.stmt), Now.stmt.op \in {"ret", "for", "break", "continue"}
         PROVE  a.depth > 1
    <3>1. ~InGlobalScope
      BY <2>11 DEF Refused
    <3> QED
      BY <2>2, <3>1, InABody
  <2>12. CASE ReturnOutside
    <3>1. /\ Now.do = "stmt" /\ ~Refused(Now.stmt) /\ Now.stmt.op = "ret" /\ bodies = <<>>
      BY <2>12 DEF ReturnOutside, AtHead, Now
    <3> QED
      BY <2>7, <2>11, <3>1
  <2>13. CASE DefineVar
    <3>1. Now.stmt.op = "var"
      BY <2>13 DEF DefineVar, Finish
    <3>2. at = Null => InGlobalScope
      BY <2>2, <2>7, <2>8, <3>1, InABody
    <3> QED
      BY <2>1, <2>13, <3>2 DEF DefineVar, Stays
  <2>14. CASE RunTimeIf
    <3>1. Now.do = "finish" /\ Now.stmt.op = "if" /\ ~IsConstant(Now.stmt.e)
      BY <2>14 DEF RunTimeIf, Finish, AtHead, Now
    <3>2. at # Null
      BY <2>4, <2>7, <2>9, <3>1
    <3> QED
      BY <2>1, <2>14, <3>2 DEF RunTimeIf, Stays
  <2>15. CASE EnterLoop
    <3>1. Now.do = "stmt" /\ ~Refused(Now.stmt) /\ Now.stmt.op = "for"
      BY <2>15 DEF EnterLoop, AtHead, Now
    <3>2. at # Null
      BY <2>7, <2>8, <2>11, <3>1
    <3> QED
      BY <2>1, <2>15, <3>2 DEF EnterLoop, Stays
  <2>16. CASE BreakContinue
    <3>1. Now.do = "stmt" /\ ~Refused(Now.stmt) /\ Now.stmt.op \in {"break", "continue"}
      BY <2>16 DEF BreakContinue, AtHead, Now
    <3>2. loops # <<>>
      BY <2>7, <2>10, <2>11, <3>1
    <3> QED
      BY <2>1, <2>16, <3>2 DEF BreakContinue, Stays
  <2> QED
    BY <1>3, <2>12, <2>13, <2>14, <2>15, <2>16
<1> QED
  BY <1>1, <1>2, <1>3 DEF Next

\* Neither does the program change, nor is a report taken back.
LEMMA ReportsStay == ASSUME Next PROVE program' = program /\ errors \subseteq errors'
<1>1. ASSUME NEW e, NEW place, Evaluate(e, place) PROVE errors \subseteq errors'
  BY <1>1 DEF Evaluate
<1>2. ASSUME NEW place, Report(place) PROVE errors \subseteq errors'
  BY <1>2 DEF Report
<1>3. CASE Declare \/ Instantiate \/ EndBody \/ Refuse \/ ReturnOutside \/ Start
  BY <1>2, <1>3 DEF Declare, Instantiate, EndBody, Refuse, ReturnOutside, Start, Stays, Crash
<1>4. CASE DefineVar \/ AddExprStmt \/ Return \/ IfFails \/ RunTimeIf \/ LoopCondition
  BY <1>1, <1>2, <1>4 DEF DefineVar, AddExprStmt, Return, IfFails, RunTimeIf, LoopCondition, Stays,
                          Crash
<1>5. CASE \/ ConstantIf \/ Mute \/ EnterLoop \/ CloseLoop \/ BreakContinue
           \/ OpenScope \/ CloseScope \/ MoveOrJump
  BY <1>5 DEF ConstantIf, Mute, EnterLoop, CloseLoop, BreakContinue, OpenScope, CloseScope, MoveOrJump,
              Stays, Crash
<1>6. CASE StartPasses \/ RunOnFunction \/ Verdict
  BY <1>6 DEF StartPasses, RunOnFunction, Verdict
<1> QED
  BY <1>3, <1>4, <1>5, <1>6 DEF Next

-----------------------------------------------------------------------------
(* The theorems. *)

\* The inductive invariant.
IInv == TypeOK /\ StackInv /\ CrashesAreKnown

LEMMA InvOfInit == Init => IInv
<1> SUFFICES ASSUME Init PROVE IInv
  OBVIOUS
<1>1. TypeOK
  BY TypeOfInit
<1>2. StackInv
  <2>1. Standing(Outside)
    BY DEF Init, Standing, AtHome, Outside
  <2>2. Leads(Mode, Outside, agenda, Outside)
    BY OutsideIsASituation, LeadsNil DEF Init
  <2> QED
    BY <2>1, <2>2, OutsideIsASituation DEF StackInv
<1>3. CrashesAreKnown
  BY DEF Init, CrashesAreKnown
<1> QED
  BY <1>1, <1>2, <1>3 DEF IInv

LEMMA InvOfNext == IInv /\ [Next]_state => IInv'
<1> SUFFICES ASSUME IInv, [Next]_state PROVE IInv'
  OBVIOUS
<1>1. CASE UNCHANGED state
  <2>1. TypeOK'
    BY <1>1 DEF IInv, TypeOK, state
  <2>2. StackInv'
    <3>1. Mode' = Mode
      BY <1>1 DEF Mode, Sound, BreaksAreInLoops, DeadBranchesAreSimple, Bodies, state
    <3>2. \A a : Standing(a) => Standing(a)'
      BY <1>1, <3>1 DEF Standing, AtHome, state
    <3>3. UNCHANGED <<phase, agenda>> /\ StackInv
      BY <1>1 DEF IInv, state
    <3> QED
      BY <3>1, <3>2, <3>3 DEF StackInv
  <2>3. CrashesAreKnown'
    BY <1>1 DEF IInv, CrashesAreKnown, BreaksAreInLoops, DeadBranchesAreSimple, Bodies, state
  <2> QED
    BY <2>1, <2>2, <2>3 DEF IInv
<1>2. CASE Next
  <2>1. TypeOK /\ StackInv /\ CrashesAreKnown
    BY DEF IInv
  <2>2. phase = "analyze" => vars # <<>>
    <3> SUFFICES ASSUME phase = "analyze" PROVE vars # <<>>
      OBVIOUS
    <3>1. PICK a \in Situations : Standing(a)
      BY <2>1 DEF StackInv
    <3>2. a.depth \in Nat \ {0} /\ a.depth <= Len(vars)
      BY <3>1 DEF Situations, Standing
    <3> QED
      BY <3>2
  <2>3. StackInv'
    BY <1>2, <2>1, <2>2, StackOfNext
  <2>4. TypeOK'
    <3>1. CASE LoopCondition
      BY <1>2, <2>1, <3>1, BlocksGrowInStep, StackOfLoopCondition, TypeOfLoopCondition
    <3>2. CASE ~LoopCondition
      BY <1>2, <2>1, <2>2, <3>2, TypeOfOther
    <3> QED
      BY <3>1, <3>2
  <2>5. CrashesAreKnown'
    <3> SUFFICES ASSUME phase' = "crashed", errors' = {}, Sound PROVE FALSE
      BY <1>2, ReportsStay DEF CrashesAreKnown, Sound, BreaksAreInLoops, DeadBranchesAreSimple, Bodies
    <3>1. errors = {}
      BY <1>2, ReportsStay
    <3>2. phase # "crashed"
      BY <2>1, <3>1 DEF CrashesAreKnown, Sound
    <3> QED
      BY <1>2, <2>1, <3>1, <3>2, NothingCrashes
  <2> QED
    BY <2>3, <2>4, <2>5 DEF IInv
<1> QED
  BY <1>1, <1>2

LEMMA InvAlways == Spec => []IInv
BY InvOfInit, InvOfNext, PTL DEF Spec

\* Every variable of the analysis keeps its type: scopes map names to places,
\* _loops and the insertion block are blocks that exist, a terminator goes
\* to blocks that exist.
THEOREM TypeCorrect == Spec => []TypeOK
<1>1. IInv => TypeOK
  BY DEF IInv
<1> QED
  BY <1>1, InvAlways, PTL

\* Scopes, loops and functions are back where they were between declarations
\* and at the end of every body, that of an instance made in the middle of
\* another included, as long as nothing was reported.
THEOREM StacksAlwaysBalanced == Spec => []StacksAreBalanced
<1>1. IInv => StacksAreBalanced
  <2> SUFFICES ASSUME IInv, phase = "analyze", errors = {}
               PROVE  /\ agenda = <<>> => Len(vars) = 1 /\ loops = <<>> /\ bodies = <<>>
                      /\ agenda # <<>> /\ Now.do = "endBody" =>
                            /\ Len(vars) = Now.depth + 1
                            /\ loops = Now.loops
                            /\ bodies[Len(bodies)] = Now.func
    BY DEF StacksAreBalanced
  <2>1. TypeOK /\ StackInv
    BY DEF IInv
  <2>2. CASE agenda = <<>>
    <3>1. Standing(Outside)
      BY <2>1, <2>2, LeadsNowhere DEF StackInv
    <3> QED
      BY <2>2, <3>1 DEF Standing, Outside
  <2>3. CASE agenda # <<>> /\ Now.do = "endBody"
    <3>1. PICK a \in Situations, c \in Situations : Standing(a) /\ Effect(Mode, a, Now, c)
      BY <2>1, <2>3, StackAtHead
    <3>2. /\ a = [c EXCEPT !.depth = @ + 1, !.bodies = Append(@, Now.func), !.dead = a.dead]
          /\ Mode.level # "any" => a.depth = Now.depth + 1 /\ a.loops = Now.loops
      BY <2>3, <3>1, Zenon DEF Effect
    <3>3. Mode.level # "any"
      BY ModeFacts
    <3>4. a.bodies = Append(c.bodies, Now.func) /\ c.bodies \in Seq(Nat)
      BY <3>2 DEF Situations
    <3>5. a.depth = Len(vars) /\ a.loops = loops /\ a.bodies = bodies
      BY <3>1 DEF Standing
    <3>6. a.bodies[Len(a.bodies)] = Now.func
      BY <3>4
    <3> QED
      BY <2>3, <3>2, <3>3, <3>5, <3>6
  <2> QED
    BY <2>2, <2>3
<1> QED
  BY <1>1, InvAlways, PTL

\* A program whose breaks are in loops and whose dead branches need no block is
\* analysed without undefined behaviour until an error is reported.
THEOREM CrashesAlwaysKnown == Spec => []CrashesAreKnown
<1>1. IInv => CrashesAreKnown
  BY DEF IInv
<1> QED
  BY <1>1, InvAlways, PTL

\* What is written to a block stays: it is moved to no other function, loses
\* no instruction, and nothing is added behind its terminator.
THEOREM BlocksAlwaysGrow == Spec => BlocksGrow
<1>1. TypeOK /\ [Next]_state => [Grown(blocks, blocks')]_state
  BY BlocksGrowInStep
<1> QED
  BY <1>1, TypeCorrect, PTL DEF Spec, BlocksGrow

-----------------------------------------------------------------------------
(* The control flow graphs.                                                *)

\* Where a terminator goes to.
Targets(term) == IF term.op \in {"jump", "fork"}
                 THEN {term.to[i] : i \in 1..Len(term.to)}
                 ELSE {}

LEMMA TargetsOf ==
    /\ \A c : Targets(Jump(c)) = {c}
    /\ \A place, c, d : Targets(Fork(place, c, d)) = {c, d}
    /\ \A place : Targets(Ret(place)) = {}
    /\ Targets(Open) = {}
<1>1. \A c : Targets(Jump(c)) = {c}
  <2> TAKE c
  <2>1. Jump(c).op = "jump" /\ Jump(c).to = <<c>>
    BY DEF Jump
  <2>2. {<<c>>[i] : i \in 1..1} = {c}
    OBVIOUS
  <2> QED
    BY <2>1, <2>2 DEF Targets
<1>2. \A place, c, d : Targets(Fork(place, c, d)) = {c, d}
  <2> TAKE place, c, d
  <2>1. Fork(place, c, d).op = "fork" /\ Fork(place, c, d).to = <<c, d>>
    BY DEF Fork
  <2>2. {<<c, d>>[i] : i \in 1..2} = {c, d}
    OBVIOUS
  <2> QED
    BY <2>1, <2>2 DEF Targets
<1>3. \A place : Targets(Ret(place)) = {}
  BY DEF Targets, Ret
<1>4. Targets(Open) = {}
  BY DEF Targets, Open
<1> QED
  BY <1>1, <1>2, <1>3, <1>4

\* No terminator of bs leaves the function of its block.
Inside(bs) ==
    \A b \in DOMAIN bs : \A c \in Targets(bs[b].term) : c \in DOMAIN bs /\ bs[c].func = bs[b].func

\* The terminators that are new in cs stay in their functions.
LEMMA InsideAfter ==
    ASSUME NEW bs, NEW cs, Inside(bs),
           \A x \in DOMAIN bs :
                /\ x \in DOMAIN cs /\ cs[x].func = bs[x].func
                /\ \/ cs[x].term = bs[x].term
                   \/ \A c \in Targets(cs[x].term) : c \in DOMAIN cs /\ cs[c].func = bs[x].func,
           \A x \in DOMAIN cs : x \in DOMAIN bs \/ Targets(cs[x].term) = {}
    PROVE  Inside(cs)
<1> SUFFICES ASSUME NEW x \in DOMAIN cs, NEW c \in Targets(cs[x].term)
             PROVE  c \in DOMAIN cs /\ cs[c].func = cs[x].func
  BY DEF Inside
<1>1. x \in DOMAIN bs /\ cs[x].func = bs[x].func
  OBVIOUS
<1>2. CASE cs[x].term = bs[x].term
  <2>1. c \in DOMAIN bs /\ bs[c].func = bs[x].func
    BY <1>1, <1>2 DEF Inside
  <2> QED
    BY <1>1, <2>1
<1>3. CASE cs[x].term # bs[x].term
  BY <1>1, <1>3
<1> QED
  BY <1>1, <1>2, <1>3

LEMMA AddTermWrites ==
    ASSUME NEW p, NEW n \in Nat, NEW bs \in Seq(Blocks(p, n)), NEW b \in 0..Len(bs), NEW term,
           NEW x \in 1..Len(bs)
    PROVE  /\ AddTerm(bs, b, term)[x].func = bs[x].func
           /\ \/ AddTerm(bs, b, term)[x].term = bs[x].term
              \/ x = b /\ AddTerm(bs, b, term)[x].term = term
<1>1. CASE Writable(bs, b)
  <2>1. /\ AddTerm(bs, b, term) = [bs EXCEPT ![b] = [bs[b] EXCEPT !.term = term]]
        /\ b \in 1..Len(bs)
    BY <1>1 DEF AddTerm, Writable, Null
  <2>2. bs[b] \in Blocks(p, n)
    BY <2>1
  <2>3. [bs[b] EXCEPT !.term = term].func = bs[b].func /\ [bs[b] EXCEPT !.term = term].term = term
    BY <2>2 DEF Blocks
  <2> QED
    BY <2>1, <2>3
<1>2. CASE ~Writable(bs, b)
  BY <1>2 DEF AddTerm
<1> QED
  BY <1>1, <1>2

\* A terminator is added that stays in the function, or an instruction.
LEMMA InsideTermOnly ==
    ASSUME NEW p, NEW n \in Nat, NEW bs \in Seq(Blocks(p, n)), NEW b \in 0..Len(bs), NEW term,
           b # Null => \A c \in Targets(term) : c \in DOMAIN bs /\ bs[c].func = bs[b].func,
           Inside(bs)
    PROVE  Inside(AddTerm(bs, b, term))
<1> DEFINE cs == AddTerm(bs, b, term)
<1>1. Len(cs) = Len(bs)
  BY AddTermGrows
<1>2. PICK S : cs \in Seq(S)
  BY AddTermGrows
<1>3. \A x \in 1..Len(bs) : /\ cs[x].func = bs[x].func
                            /\ cs[x].term = bs[x].term \/ (x = b /\ cs[x].term = term)
  BY AddTermWrites
<1> HIDE DEF cs
<1>4. DOMAIN cs = 1..Len(bs) /\ DOMAIN bs = 1..Len(bs)
  BY <1>1, <1>2
<1>5. b \in DOMAIN bs => \A c \in Targets(term) : c \in DOMAIN cs /\ cs[c].func = bs[b].func
  BY <1>3, <1>4 DEF Null
<1>6. \A x \in DOMAIN bs :
        /\ x \in DOMAIN cs /\ cs[x].func = bs[x].func
        /\ \/ cs[x].term = bs[x].term
           \/ \A c \in Targets(cs[x].term) : c \in DOMAIN cs /\ cs[c].func = bs[x].func
  BY <1>3, <1>4, <1>5
<1>7. Inside(cs)
  BY <1>4, <1>6, InsideAfter
<1> QED
  BY <1>7 DEF cs

LEMMA InsideInst ==
    ASSUME NEW p, NEW n \in Nat, NEW bs \in Seq(Blocks(p, n)), NEW b \in 0..Len(bs), NEW place,
           Inside(bs)
    PROVE  Inside(AddInst(bs, b, place))
<1>1. CASE Writable(bs, b)
  <2> DEFINE block == [bs[b] EXCEPT !.insts = Append(@, place)]
  <2>1. b \in 1..Len(bs) /\ bs[b] \in Blocks(p, n) /\ AddInst(bs, b, place) = [bs EXCEPT ![b] = block]
    BY <1>1 DEF Writable, Null, AddInst
  <2>2. block.func = bs[b].func /\ block.term = bs[b].term
    BY <2>1 DEF Blocks
  <2> HIDE DEF block
  <2>3. Inside([bs EXCEPT ![b] = block])
    BY <2>1, <2>2 DEF Inside
  <2> QED
    BY <2>1, <2>3
<1>2. CASE ~Writable(bs, b)
  BY <1>2 DEF AddInst
<1> QED
  BY <1>1, <1>2

\* Blocks made next to block b, and a terminator of b that goes to some of them.
LEMMA InsideNew ==
    ASSUME NEW p, NEW n \in Nat, NEW bs \in Seq(Blocks(p, n)), NEW b \in 0..Len(bs), NEW term,
           NEW new \in Seq({NewBlock(bs[b].func)}),
           \A c \in Targets(term) : c \in (Len(bs) + 1)..(Len(bs) + Len(new)), Inside(bs)
    PROVE  Inside(AddTerm(bs, b, term) \o new)
<1> DEFINE ds == AddTerm(bs, b, term)
           f == bs[b].func
           cs == ds \o new
<1>0. DOMAIN bs = 1..Len(bs) /\ Len(bs) \in Nat
  OBVIOUS
<1>1. PICK S : ds \in Seq(S)
  BY AddTermGrows
<1>2. Len(ds) = Len(bs)
  BY AddTermGrows
<1>3. \A x \in 1..Len(bs) : /\ ds[x].func = bs[x].func
                            /\ ds[x].term = bs[x].term \/ (x = b /\ ds[x].term = term)
  BY AddTermWrites
<1>4. \A i \in 1..Len(new) : new[i] = NewBlock(f)
  OBVIOUS
<1>5. NewBlock(f).func = f /\ Targets(NewBlock(f).term) = {}
  BY TargetsOf DEF NewBlock
<1> HIDE DEF ds, f
<1>6. \A x \in DOMAIN bs : x \in DOMAIN cs /\ cs[x] = ds[x]
  BY <1>0, <1>1, <1>2
<1>7. \A i \in 1..Len(new) : Len(bs) + i \in DOMAIN cs /\ cs[Len(bs) + i] = new[i]
  BY <1>1, <1>2, ConcatAt
<1>8. \A x \in DOMAIN cs : x \in DOMAIN bs \/ (x - Len(bs) \in 1..Len(new) /\ Len(bs) + (x - Len(bs)) = x)
  BY <1>0, <1>1, <1>2
<1> HIDE DEF cs
<1>9. \A x \in DOMAIN cs : x \in DOMAIN bs \/ Targets(cs[x].term) = {}
  <2> SUFFICES ASSUME NEW x \in DOMAIN cs, x \notin DOMAIN bs PROVE Targets(cs[x].term) = {}
    OBVIOUS
  <2>1. x - Len(bs) \in 1..Len(new) /\ Len(bs) + (x - Len(bs)) = x
    BY <1>8
  <2> QED
    BY <1>4, <1>5, <1>7, <2>1
<1>10. ASSUME NEW c \in Targets(term) PROVE c \in DOMAIN cs /\ cs[c].func = f
  <2>1. c - Len(bs) \in 1..Len(new) /\ Len(bs) + (c - Len(bs)) = c
    BY <1>0
  <2> QED
    BY <1>4, <1>5, <1>7, <2>1
<1>11. \A x \in DOMAIN bs :
         /\ x \in DOMAIN cs /\ cs[x].func = bs[x].func
         /\ \/ cs[x].term = bs[x].term
            \/ \A c \in Targets(cs[x].term) : c \in DOMAIN cs /\ cs[c].func = bs[x].func
  BY <1>0, <1>3, <1>6, <1>10 DEF f
<1> QED
  <2>1. Inside(cs)
    BY <1>9, <1>11, InsideAfter
  <2> QED
    BY <2>1 DEF cs, ds

\* Of a step of the analysis, while there is no report.
LEMMA JumpsInStep ==
    ASSUME TypeOK, StackInv, Next, Inside(blocks), errors = {}, Sound PROVE Inside(blocks')
<1> DEFINE n == Len(blocks)
<1>1. n \in Nat /\ blocks \in Seq(Blocks(program, n)) /\ at \in 0..n /\ DOMAIN blocks = 1..n
  BY DEF TypeOK
<1>2. Mode.level = "sound" /\ Mode.home = [b \in DOMAIN blocks |-> blocks[b].func]
  BY ModeFacts
<1>3. \A f : blocks' = Append(blocks, NewBlock(f)) => Inside(blocks')
  <2> TAKE f
  <2> DEFINE cs == Append(blocks, NewBlock(f))
  <2>1. /\ DOMAIN cs = 1..(n + 1) /\ \A x \in 1..n : cs[x] = blocks[x]
        /\ cs[n + 1] = NewBlock(f)
    BY <1>1
  <2>2. Targets(NewBlock(f).term) = {}
    BY TargetsOf DEF NewBlock
  <2> HIDE DEF cs, n
  <2>3. \A x \in DOMAIN blocks : x \in DOMAIN cs /\ cs[x] = blocks[x]
    BY <1>1, <2>1
  <2>4. \A x \in DOMAIN cs : x \in DOMAIN blocks \/ Targets(cs[x].term) = {}
    BY <1>1, <2>1, <2>2
  <2>5. Inside(cs)
    BY <2>3, <2>4, InsideAfter
  <2> QED
    BY <2>5 DEF cs
<1>4. \A place : blocks' = AddInst(blocks, at, place) => Inside(blocks')
  BY <1>1, InsideInst
<1>5. \A place : blocks' = AddTerm(blocks, at, Ret(place)) => Inside(blocks')
  BY <1>1, TargetsOf, InsideTermOnly
<1>6. \A a \in Situations : \A term :
        /\ Standing(a) /\ a.bodies # <<>> /\ \A c \in Targets(term) : Home(Mode, a, c)
        /\ blocks' = AddTerm(blocks, at, term)
        => Inside(blocks')
  <2> SUFFICES ASSUME NEW a \in Situations, NEW term, Standing(a), a.bodies # <<>>,
                      \A c \in Targets(term) : Home(Mode, a, c)
               PROVE  Inside(AddTerm(blocks, at, term))
    OBVIOUS
  <2>1. at # Null => Home(Mode, a, at)
    BY <1>2 DEF Standing, AtHome
  <2>2. at # Null => \A c \in Targets(term) : c \in DOMAIN blocks /\ blocks[c].func = blocks[at].func
    BY <1>2, <2>1 DEF Home
  <2> QED
    BY <1>1, <2>2, InsideTermOnly
<1>7. CASE Crash \/ Refuse \/ ReturnOutside \/ Start \/ IfFails \/ ConstantIf \/ Mute \/ CloseLoop
           \/ OpenScope \/ CloseScope \/ StartPasses \/ RunOnFunction \/ Verdict
  BY <1>7 DEF Crash, Refuse, ReturnOutside, Start, IfFails, ConstantIf, Mute, CloseLoop,
              OpenScope, CloseScope, StartPasses, RunOnFunction, Verdict
<1>8. CASE Declare
  BY <1>3, <1>8 DEF Declare, BeginBody
<1>9. CASE Instantiate
  BY <1>3, <1>9 DEF Instantiate, BeginBody
<1>10. CASE EndBody
  BY <1>5, <1>10 DEF EndBody
<1>11. CASE DefineVar
  <2>1. blocks' = blocks \/ blocks' = AddInst(blocks, at, Now.at)
    BY <1>11 DEF DefineVar, Crash
  <2> QED
    BY <1>4, <2>1
<1>12. CASE AddExprStmt
  BY <1>4, <1>12 DEF AddExprStmt
<1>13. CASE Return
  <2>1. blocks' = blocks \/ blocks' = AddTerm(blocks, at, Ret(Now.at))
    BY <1>13 DEF Return
  <2> QED
    BY <1>5, <2>1
<1>14. CASE RunTimeIf
  <2>1. CASE Crash
    BY <1>7, <2>1
  <2>2. CASE ~Crash
    <3> DEFINE merge == IF Now.stmt.else # <<>> THEN n + 3 ELSE n + 2
               k == merge - n
               term == Fork(Now.at, n + 1, n + 2)
               new == [i \in 1..k |-> NewBlock(blocks[at].func)]
    <3>1. blocks' = AddTerm(blocks, at, term) \o new
      BY <1>14, <2>2 DEF RunTimeIf
    <3>2. k \in 2..3
      BY <1>1
    <3>3. Targets(term) = {n + 1, n + 2}
      BY TargetsOf
    <3> HIDE DEF merge, k, term
    <3>4. new \in Seq({NewBlock(blocks[at].func)}) /\ Len(new) = k
      BY <3>2
    <3> HIDE DEF new, n
    <3>5. \A c \in Targets(term) : c \in (n + 1)..(n + Len(new))
      BY <1>1, <3>2, <3>3, <3>4
    <3> QED
      BY <1>1, <3>1, <3>4, <3>5, InsideNew DEF n
  <2> QED
    BY <2>1, <2>2
<1>15. CASE EnterLoop
  <2>1. CASE Crash
    BY <1>7, <2>1
  <2>2. CASE ~Crash
    <3> DEFINE term == Jump(n + 1)
               new == [i \in 1..5 |-> NewBlock(blocks[at].func)]
    <3>1. blocks' = AddTerm(blocks, at, term) \o new
      BY <1>15, <2>2 DEF EnterLoop
    <3>2. Targets(term) = {n + 1}
      BY TargetsOf
    <3>3. new \in Seq({NewBlock(blocks[at].func)}) /\ Len(new) = 5
      OBVIOUS
    <3> HIDE DEF term, new, n
    <3>4. \A c \in Targets(term) : c \in (n + 1)..(n + Len(new))
      BY <1>1, <3>2, <3>3
    <3> QED
      BY <1>1, <3>1, <3>3, <3>4, InsideNew DEF n
  <2> QED
    BY <2>1, <2>2
<1>16. CASE LoopCondition
  <2>1. phase = "analyze" /\ agenda # <<>> /\ Now.do = "loopCond"
    BY <1>16 DEF LoopCondition, AtHead, Now
  <2>2. PICK a \in Situations, c \in Situations : Standing(a) /\ Effect(Mode, a, Now, c)
    BY <2>1, StackAtHead
  <2>3. Home(Mode, a, Now.merge - 1) /\ Home(Mode, a, Now.merge)
    BY <1>2, <2>1, <2>2 DEF Effect
  <2>4. \/ blocks' = blocks
        \/ \E term \in {Jump(Now.merge - 1), Jump(Now.merge), Fork(Now.at, Now.merge - 1, Now.merge)} :
              blocks' = AddTerm(blocks, at, term)
    BY <1>16 DEF LoopCondition
  <2>5. \A term \in {Jump(Now.merge - 1), Jump(Now.merge), Fork(Now.at, Now.merge - 1, Now.merge)} :
          \A d \in Targets(term) : Home(Mode, a, d)
    BY <2>3, TargetsOf
  <2>6. a.bodies # <<>>
    BY <2>3 DEF Home
  <2> QED
    BY <1>6, <2>2, <2>4, <2>5, <2>6
<1>17. CASE BreakContinue
  <2>1. CASE Crash
    BY <1>7, <2>1
  <2>2. CASE ~Crash
    <3>1. /\ phase = "analyze" /\ agenda # <<>> /\ Now.do = "stmt" /\ ~Refused(Now.stmt)
          /\ Now.stmt.op \in {"break", "continue"}
          /\ \E c \in {loops[Len(loops)].break, loops[Len(loops)].continue} :
                blocks' = AddTerm(blocks, at, Jump(c))
      BY <1>17, <2>2 DEF BreakContinue, AtHead, Now
    <3>2. PICK a \in Situations, c \in Situations : Standing(a) /\ Effect(Mode, a, Now, c)
      BY <3>1, StackAtHead
    <3>3. Fits(Mode, a, Now.stmt)
      BY <1>2, <3>1, <3>2 DEF Effect
    <3>4. a.depth > 1
      BY <3>1, <3>2, InABody DEF Refused
    <3>5. Now.stmt \in Loose
      BY <3>1, TypesAtHead, LooseAssumption
    <3>6. InLoop(Mode, a) /\ a.loops = loops
      BY <3>2, <3>3, <3>4, <3>5 DEF Fits, Standing
    <3>7. \A c1 \in {loops[Len(loops)].break, loops[Len(loops)].continue} :
            \A d \in Targets(Jump(c1)) : Home(Mode, a, d)
      BY <3>6, TargetsOf DEF InLoop
    <3>8. a.bodies # <<>>
      BY <3>6 DEF InLoop, Home
    <3> QED
      BY <1>6, <3>1, <3>2, <3>7, <3>8
  <2> QED
    BY <2>1, <2>2
<1>18. CASE MoveOrJump
  <2>1. CASE blocks' = blocks
    BY <2>1
  <2>2. CASE blocks' # blocks
    <3>1. /\ phase = "analyze" /\ agenda # <<>> /\ Now.do = "jumpTo"
          /\ blocks' = AddTerm(blocks, at, Jump(Now.block))
      BY <1>18, <2>2 DEF MoveOrJump, AtHead, Now
    <3>2. PICK a \in Situations, c \in Situations : Standing(a) /\ Effect(Mode, a, Now, c)
      BY <3>1, StackAtHead
    <3>3. Home(Mode, a, Now.block)
      BY <1>2, <3>1, <3>2 DEF Effect
    <3>4. \A d \in Targets(Jump(Now.block)) : Home(Mode, a, d)
      BY <3>3, TargetsOf
    <3>5. a.bodies # <<>>
      BY <3>3 DEF Home
    <3> QED
      BY <1>6, <3>1, <3>2, <3>4, <3>5
  <2> QED
    BY <2>1, <2>2
<1> QED
  BY <1>7, <1>8, <1>9, <1>10, <1>11, <1>12, <1>13, <1>14, <1>15, <1>16, <1>17, <1>18 DEF Next

-----------------------------------------------------------------------------
(* Dead code.                                                              *)

LEMMA SuccsType ==
    ASSUME TypeOK, NEW b \in 1..Len(blocks)
    PROVE  Succs(b) \subseteq 1..Len(blocks) /\ Succs(b) = Targets(blocks[b].term)
<1>1. blocks[b].term \in Terms(Len(blocks))
  <2>1. blocks \in Seq(Blocks(program, Len(blocks)))
    BY DEF TypeOK
  <2>2. blocks[b] \in Blocks(program, Len(blocks))
    BY <2>1
  <2> QED
    BY <2>2 DEF Blocks
<1>2. Succs(b) = Targets(blocks[b].term)
  BY DEF Succs, Targets
<1>3. blocks[b].term.op \in {"jump", "fork"} => blocks[b].term.to \in Seq(1..Len(blocks))
  BY <1>1 DEF Terms, Open
<1>4. Succs(b) \subseteq 1..Len(blocks)
  BY <1>3 DEF Succs
<1> QED
  BY <1>2, <1>4

\* A function that has blocks has an entry.
LEMMA EntryExists ==
    ASSUME TypeOK, NEW f, BlocksOf(f) # {} PROVE Entry(f) \in BlocksOf(f)
<1>1. BlocksOf(f) \subseteq Nat
  BY DEF BlocksOf
<1>2. \E b \in BlocksOf(f) : \A c \in BlocksOf(f) : b <= c
  BY <1>1, LeastNatural
<1> QED
  BY <1>2 DEF Entry

\* As many rounds as there are blocks find all that can be reached, and no more.
LEMMA ReachableIsClosed ==
    ASSUME TypeOK, NEW f, BlocksOf(f) # {}
    PROVE  /\ Entry(f) \in Reachable(f)
           /\ Reachable(f) \subseteq 1..Len(blocks)
           /\ \A b \in Reachable(f) : Succs(b) \subseteq Reachable(f)
           /\ \A R : Entry(f) \in R /\ (\A b \in R \cap (1..Len(blocks)) : Succs(b) \subseteq R)
                      => Reachable(f) \subseteq R
<1> DEFINE N == Len(blocks)
           X == SUBSET (1..N)
           e == {Entry(f)}
           G == [s \in X |-> s \cup UNION {Succs(b) : b \in s}]
           W(w) == [n \in 0..N |-> IF n = 0 THEN e
                                   ELSE w[n - 1] \cup UNION {Succs(b) : b \in w[n - 1]}]
           w == CHOOSE w : w = W(w)
<1>1. N \in Nat /\ 0 \in 0..N
  BY DEF TypeOK
<1>2. e \in X /\ e # {} /\ Entry(f) \in e
  BY EntryExists DEF BlocksOf
<1>3. \A s \in X : s \cup UNION {Succs(b) : b \in s} \in X
  BY SuccsType
<1>4. G \in [X -> X] /\ \A s \in X : s \subseteq G[s]
  BY <1>3
<1>5. \A s \in X : G[s] = s \cup UNION {Succs(b) : b \in s}
  OBVIOUS
<1>6. Reachable(f) = w[N]
  BY DEF Reachable
<1>7. X = SUBSET (1..N)
  OBVIOUS
<1> HIDE DEF G, X, N, e
\* There is such a function, so that the one that is chosen is one.
<1>8. w = W(w)
  <2>1. PICK g : Table(g, X, G, e, N)
    BY <1>1, <1>2, <1>4, IterationExists
  <2>2. g \in [0..N -> X] /\ g[0] = e /\ \A n \in 1..N : g[n] = G[g[n - 1]]
    BY <2>1 DEF Table
  <2>3. \A n \in 0..N : g[n] = W(g)[n]
    <3> TAKE n \in 0..N
    <3>1. CASE n = 0
      BY <2>2, <3>1
    <3>2. CASE n # 0
      <4>1. n \in 1..N /\ n - 1 \in 0..N
        BY <1>1, <3>2
      <4> DEFINE s == g[n - 1]
      <4>2. g[n] = G[s] /\ s \in X
        BY <2>2, <4>1
      <4>3. g[n] = s \cup UNION {Succs(b) : b \in s}
        BY <1>5, <4>2
      <4> HIDE DEF s
      <4>4. W(g)[n] = s \cup UNION {Succs(b) : b \in s}
        BY <3>2 DEF s
      <4> QED
        BY <4>3, <4>4
    <3> QED
      BY <3>1, <3>2
  <2>4. g = W(g)
    BY <2>2, <2>3
  <2> QED
    BY <2>4
<1>9. w[0] = e /\ \A n \in 1..N : w[n] = w[n - 1] \cup UNION {Succs(b) : b \in w[n - 1]}
  <2> HIDE DEF w
  <2>1. w[0] = e
    BY <1>1, <1>8
  <2>2. ASSUME NEW n \in 1..N PROVE w[n] = w[n - 1] \cup UNION {Succs(b) : b \in w[n - 1]}
    <3>1. n \in 0..N /\ n # 0
      BY <1>1
    <3>2. W(w)[n] = w[n - 1] \cup UNION {Succs(b) : b \in w[n - 1]}
      BY <3>1
    <3> HIDE DEF W
    <3> QED
      BY <1>8, <3>2
  <2> QED
    BY <2>1, <2>2
<1>10. w = [n \in 0..N |-> w[n]]
  <2> HIDE DEF w
  <2> QED
    BY <1>8
<1> HIDE DEF w, W
\* It repeats G from the entry on.
<1> DEFINE S == {n \in Nat : n <= N => w[n] \in X /\ e \subseteq w[n]}
<1>11. 0 \in S
  BY <1>2, <1>9
<1>12. ASSUME NEW n \in Nat, n \in S PROVE n + 1 \in S
  <2> SUFFICES ASSUME n + 1 <= N PROVE w[n + 1] \in X /\ e \subseteq w[n + 1]
    OBVIOUS
  <2>1. n + 1 \in 1..N /\ (n + 1) - 1 = n /\ n <= N
    BY <1>1
  <2>2. w[n] \in X /\ e \subseteq w[n]
    BY <1>12, <2>1
  <2> DEFINE s == w[n]
  <2>3. w[n + 1] = s \cup UNION {Succs(b) : b \in s}
    BY <1>9, <2>1
  <2> HIDE DEF s
  <2> QED
    BY <1>3, <2>2, <2>3 DEF s
<1> HIDE DEF S
<1>13. Nat \subseteq S
  BY <1>11, <1>12, SetInduction
<1>14. \A n \in 0..N : w[n] \in X /\ e \subseteq w[n]
  BY <1>1, <1>13 DEF S
<1>15. Table(w, X, G, e, N)
  <2>1. w \in [0..N -> X]
    BY <1>10, <1>14
  <2>2. ASSUME NEW n \in 1..N PROVE w[n] = G[w[n - 1]]
    <3>1. n - 1 \in 0..N
      BY <1>1
    <3> DEFINE s == w[n - 1]
    <3>2. w[n] = s \cup UNION {Succs(b) : b \in s} /\ s \in X
      BY <1>9, <1>14, <3>1
    <3> HIDE DEF s
    <3>3. w[n] = G[s]
      BY <1>5, <3>2
    <3> QED
      BY <3>3 DEF s
  <2> QED
    BY <1>9, <2>1, <2>2 DEF Table
<1>16. G[w[N]] = w[N]
  BY <1>1, <1>2, <1>4, <1>7, <1>15, IterationSettles
<1>17. w[N] \in X /\ e \subseteq w[N]
  BY <1>1, <1>14
<1>18. \A b \in w[N] : Succs(b) \subseteq w[N]
  <2> DEFINE s == w[N]
  <2>1. s = s \cup UNION {Succs(b) : b \in s}
    BY <1>5, <1>16, <1>17
  <2> HIDE DEF s
  <2>2. \A b \in s : Succs(b) \subseteq s
    BY <2>1
  <2> QED
    BY <2>2 DEF s
<1>19. ASSUME NEW R, Entry(f) \in R, \A b \in R \cap (1..N) : Succs(b) \subseteq R
       PROVE  w[N] \subseteq R
  <2> DEFINE U == {n \in Nat : n <= N => w[n] \subseteq R}
  <2>1. 0 \in U
    BY <1>9, <1>19 DEF e
  <2>2. ASSUME NEW n \in Nat, n \in U PROVE n + 1 \in U
    <3> SUFFICES ASSUME n + 1 <= N PROVE w[n + 1] \subseteq R
      OBVIOUS
    <3>1. n + 1 \in 1..N /\ (n + 1) - 1 = n /\ n <= N /\ n \in 0..N
      BY <1>1
    <3> DEFINE s == w[n]
    <3>2. w[n + 1] = s \cup UNION {Succs(b) : b \in s}
      BY <1>9, <3>1
    <3>3. s \subseteq R /\ s \subseteq 1..N
      BY <1>7, <1>14, <2>2, <3>1
    <3> HIDE DEF s
    <3> QED
      BY <1>19, <3>2, <3>3
  <2> HIDE DEF U
  <2>3. Nat \subseteq U
    BY <2>1, <2>2, SetInduction
  <2>4. N \in U
    BY <1>1, <2>3
  <2> QED
    BY <1>1, <2>4 DEF U
<1> QED
  BY <1>2, <1>6, <1>7, <1>17, <1>18, <1>19 DEF N

-----------------------------------------------------------------------------
(* The theorems. *)

LEMMA JumpsAreInside ==
    ASSUME TypeOK
    PROVE  JumpsStayInside <=> (errors = {} /\ Sound => Inside(blocks))
<1>1. DOMAIN blocks = 1..Len(blocks)
  BY DEF TypeOK
<1>2. \A b \in 1..Len(blocks) : /\ Succs(b) \subseteq 1..Len(blocks)
                                /\ Succs(b) = Targets(blocks[b].term)
  BY SuccsType
<1> QED
  BY <1>1, <1>2 DEF JumpsStayInside, Inside, Sound

\* Nothing is erased before the passes, which write no blocks.
NothingRemoved == phase = "analyze" => removed = {}

LEMMA RemovedInStep ==
    ASSUME NothingRemoved, Next
    PROVE  /\ NothingRemoved'
           /\ \/ removed' = {}
              \/ blocks' = blocks /\ removed' = removed
              \/ RunOnFunction
<1>1. CASE \/ Declare \/ Instantiate \/ EndBody \/ Refuse \/ ReturnOutside \/ Start \/ DefineVar
           \/ AddExprStmt \/ Return \/ IfFails \/ ConstantIf \/ Mute \/ RunTimeIf \/ EnterLoop
           \/ LoopCondition \/ CloseLoop \/ BreakContinue \/ OpenScope \/ CloseScope \/ MoveOrJump
  <2>1. phase = "analyze"
    BY <1>1 DEF Declare, Instantiate, EndBody, Refuse, ReturnOutside, Start, DefineVar, AddExprStmt,
                Return, IfFails, ConstantIf, Mute, RunTimeIf, EnterLoop, LoopCondition, CloseLoop,
                BreakContinue, OpenScope, CloseScope, MoveOrJump, Finish, AtHead
  <2>2. CASE \/ Declare \/ Instantiate \/ EndBody \/ Refuse \/ ReturnOutside \/ Start \/ DefineVar
             \/ AddExprStmt \/ Return \/ IfFails
    BY <2>1, <2>2 DEF NothingRemoved, Declare, Instantiate, EndBody, Refuse, ReturnOutside, Start,
                      DefineVar, AddExprStmt, Return, IfFails, Stays, Crash
  <2>3. CASE \/ ConstantIf \/ Mute \/ RunTimeIf \/ EnterLoop \/ LoopCondition \/ CloseLoop
             \/ BreakContinue \/ OpenScope \/ CloseScope \/ MoveOrJump
    BY <2>1, <2>3 DEF NothingRemoved, ConstantIf, Mute, RunTimeIf, EnterLoop, LoopCondition,
                      CloseLoop, BreakContinue, OpenScope, CloseScope, MoveOrJump, Stays, Crash
  <2> QED
    BY <1>1, <2>2, <2>3
<1>2. CASE StartPasses \/ RunOnFunction \/ Verdict
  BY <1>2 DEF NothingRemoved, StartPasses, RunOnFunction, Verdict
<1> QED
  BY <1>1, <1>2 DEF Next

LEMMA JumpsLandInStep ==
    ASSUME TypeOK, JumpsStayInside, KeptJumpsLand, NothingRemoved, Next,
           errors = {}, Sound, program' = program
    PROVE  KeptJumpsLand'
<1>1. CASE removed' = {}
  BY <1>1 DEF KeptJumpsLand
<1>2. CASE blocks' = blocks /\ removed' = removed
  BY <1>2 DEF KeptJumpsLand, Succs, Sound
<1>3. CASE RunOnFunction
  <2>1. blocks' = blocks
    BY <1>3 DEF RunOnFunction
  <2>2. CASE removed' = removed
    BY <2>1, <2>2 DEF KeptJumpsLand, Succs, Sound
  <2>3. CASE removed' # removed
    <3>1. removed' = removed \cup (BlocksOf(decl) \ Reachable(decl)) /\ BlocksOf(decl) # {}
      BY <1>3, <2>3 DEF RunOnFunction
    <3>2. \A b \in Reachable(decl) : Succs(b) \subseteq Reachable(decl)
      BY <3>1, ReachableIsClosed
    <3>3. ASSUME NEW b \in (1..Len(blocks)) \ removed', NEW c \in Succs(b), c \in removed' PROVE FALSE
      <4>1. b \notin removed
        BY <3>1, <3>3
      <4>2. c \notin removed
        BY <4>1 DEF KeptJumpsLand, Sound
      <4>3. c \in BlocksOf(decl) /\ c \notin Reachable(decl)
        BY <3>1, <3>3, <4>2
      <4>4. blocks[b].func = blocks[c].func
        BY DEF JumpsStayInside, Sound
      <4>5. b \in BlocksOf(decl)
        BY <4>3, <4>4 DEF BlocksOf
      <4>6. b \in Reachable(decl)
        BY <3>1, <4>5
      <4> QED
        BY <3>2, <4>3, <4>6
    <3> QED
      BY <2>1, <3>3 DEF KeptJumpsLand, Succs
  <2> QED
    BY <2>2, <2>3
<1> QED
  BY <1>1, <1>2, <1>3, RemovedInStep

\* The inductive invariant: the path of situations says where the jumps that
\* are still to be written will go.
JumpInv == IInv /\ JumpsStayInside /\ KeptJumpsLand /\ NothingRemoved

LEMMA JumpInvOfInit == Init => JumpInv
<1> SUFFICES ASSUME Init PROVE JumpInv
  OBVIOUS
<1>1. blocks = <<>> /\ removed = {}
  BY DEF Init
<1> QED
  BY <1>1, InvOfInit DEF JumpInv, JumpsStayInside, KeptJumpsLand, NothingRemoved

LEMMA JumpInvOfNext == JumpInv /\ [Next]_state => JumpInv'
<1> SUFFICES ASSUME JumpInv, [Next]_state PROVE JumpInv'
  OBVIOUS
<1>1. IInv'
  BY InvOfNext DEF JumpInv
<1>2. CASE UNCHANGED state
  <2>1. JumpsStayInside' /\ KeptJumpsLand' /\ NothingRemoved'
    BY <1>2 DEF JumpInv, JumpsStayInside, KeptJumpsLand, NothingRemoved, Succs, BreaksAreInLoops,
                DeadBranchesAreSimple, Bodies, state
  <2> QED
    BY <1>1, <2>1 DEF JumpInv
<1>3. CASE Next
  <2>1. TypeOK /\ StackInv /\ TypeOK'
    BY <1>1 DEF JumpInv, IInv
  <2>2. NothingRemoved'
    BY <1>3, RemovedInStep DEF JumpInv
  <2>3. program' = program /\ errors \subseteq errors'
    BY <1>3, ReportsStay
  <2>4. Sound' <=> Sound
    BY <2>3 DEF Sound, BreaksAreInLoops, DeadBranchesAreSimple, Bodies
  <2>5. ASSUME errors' = {}, Sound PROVE JumpsStayInside' /\ KeptJumpsLand'
    <3>1. errors = {}
      BY <2>3, <2>5
    <3>2. Inside(blocks)
      BY <2>1, <2>5, <3>1, JumpsAreInside DEF JumpInv
    <3>3. Inside(blocks')
      BY <1>3, <2>1, <2>5, <3>1, <3>2, JumpsInStep
    <3>4. JumpsStayInside'
      <4>1. DOMAIN blocks' = 1..Len(blocks')
        BY <2>1 DEF TypeOK
      <4>2. \A b : Succs(b)' = Targets(blocks'[b].term)
        BY DEF Succs, Targets
      <4> QED
        BY <3>3, <4>1, <4>2 DEF JumpsStayInside, Inside
    <3>5. KeptJumpsLand'
      BY <1>3, <2>1, <2>3, <2>5, <3>1, JumpsLandInStep DEF JumpInv
    <3> QED
      BY <3>4, <3>5
  <2>6. ASSUME ~(errors' = {} /\ Sound) PROVE JumpsStayInside' /\ KeptJumpsLand'
    BY <2>4, <2>6 DEF JumpsStayInside, KeptJumpsLand, Sound
  <2> QED
    BY <1>1, <2>2, <2>5, <2>6 DEF JumpInv
<1> QED
  BY <1>2, <1>3

LEMMA JumpInvAlways == Spec => []JumpInv
BY JumpInvOfInit, JumpInvOfNext, PTL DEF Spec

\* Control leaves no function by a jump, whatever instances of templates are
\* analysed in the middle of a body, as long as nothing was reported: the
\* insertion block, the blocks on _loops and those an if or a loop has made
\* are of one function whenever a jump is written.  And a block that dead code
\* elimination keeps goes to no block that it erased: what it finds reachable
\* is closed, and of one function.
THEOREM GraphsAlwaysClosed == Spec => []GraphsAreClosed
<1>1. JumpInv => GraphsAreClosed
  BY DEF JumpInv, GraphsAreClosed
<1> QED
  BY <1>1, JumpInvAlways, PTL
=============================================================================
