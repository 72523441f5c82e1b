---------------------------- MODULE MethodConstness ----------------------------
(***************************************************************************)
(* Which methods may be called on an immutable receiver.  Sema infers it:  *)
(* the flag IsConst of a method is lowered when its body assigns to a      *)
(* field of "this", and Sema::Analyze carries that along the calls that    *)
(* methods make on "this" until nothing changes any more.  Then the calls  *)
(* on constant variables are checked (stage0: include/sema/sema.h,         *)
(* src/sema/exprs.cpp, stmts.cpp, sema.cpp).                               *)
(*                                                                         *)
(* A method with a trait among its argument types is a template: it is not *)
(* analysed itself, the first call makes an instance, which is a method    *)
(* with a flag of its own, and its body is analysed there and then, in the *)
(* middle of the body of the caller.  The model gives a template one list  *)
(* of argument types to be called with, hence one instance.                *)
(***************************************************************************)
EXTENDS Naturals, Sequences

CONSTANTS
    Written,    \* the methods of the source text
    Templates,  \* those of them that are templates
    Instances,  \* the methods that Sema makes of templates
    WrittenAs,  \* WrittenAs[m]: the method whose text is the body of m
    Outside,    \* stands for the functions, whose bodies have no "this"
    Texts       \* Texts[m]: the bodies that m may have

Methods == Written \cup Instances
Owners == Methods \cup {Outside}

(* What of a body bears on constness: this.f = e, this.f.g = e, this.m(),  *)
(* and c.m() for a constant variable c.                                    *)
Op == [kind : {"assign", "assignInner"}]
        \cup [kind : {"callThis", "callConst"}, callee : Written]

ASSUME WrittenAssumption ==
    /\ Templates \subseteq Written
    /\ Written \cap Instances = {}
    /\ Outside \notin Methods

ASSUME InstancesAssumption ==
    /\ WrittenAs \in [Owners -> Written \cup {Outside}]
    /\ \A m \in Owners \ Instances : WrittenAs[m] = m
    /\ \A t \in Templates : \E i \in Instances : WrittenAs[i] = t
    /\ \A i, j \in Instances : WrittenAs[i] \in Templates /\ (WrittenAs[i] = WrittenAs[j] => i = j)

ASSUME TextsAssumption ==
    /\ Texts \in [Written \cup {Outside} -> SUBSET Seq(Op)]
    /\ \A b \in Texts[Outside] : \A k \in 1..Len(b) : b[k].kind = "callConst"

VARIABLES
    body,          \* the program: the body of every method, and of Outside
    phase,         \* the part of Sema::Analyze that is running
    todo,          \* the bodies that Analyze has not come to
    stack,         \* the bodies being analysed, each with its next operation
    instantiated,  \* the templates that have their instance among the candidates
    isConst,       \* Method.IsConst
    calls,         \* _methodCallFromAnotherMethod
    constCalls,    \* _methodCallOnConstBase: the call's site and the method
    pending,       \* the entries of the map that this pass has not come to
    changed,       \* the local variable of Analyze
    errors         \* the sites reported

vars == <<body, phase, todo, stack, instantiated, isConst, calls, constCalls,
          pending, changed, errors>>
verdicts == <<pending, changed, errors>>

Frames == [owner : Owners, next : Nat \ {0}]

Frame(o) == [owner |-> o, next |-> 1]
Top == stack[Len(stack)]
Pop == SubSeq(stack, 1, Len(stack) - 1)
Advanced == [stack EXCEPT ![Len(stack)].next = @ + 1]

Body(o) == body[WrittenAs[o]]
AtOp(kind) ==
    /\ phase = "bodies"
    /\ stack # <<>>
    /\ Top.next <= Len(Body(Top.owner))
    /\ Body(Top.owner)[Top.next].kind = kind

Callee == Body(Top.owner)[Top.next].callee

(* The AST node of a call; an instance shares the nodes of its template.   *)
Sites == (Written \cup {Outside}) \X (Nat \ {0})
Site == <<WrittenAs[Top.owner], Top.next>>

InstanceOf(t) == CHOOSE i \in Instances : WrittenAs[i] = t

-----------------------------------------------------------------------------

Init ==
    /\ body \in [Written \cup {Outside} -> UNION {Texts[m] : m \in Written \cup {Outside}}]
    /\ \A m \in Written \cup {Outside} : body[m] \in Texts[m]
    /\ phase = "bodies"
    /\ todo = Written \cup {Outside}
    /\ stack = <<>>
    /\ instantiated = {}
    /\ isConst = [m \in Methods |-> TRUE]
    /\ calls = [m \in Methods |-> {}]
    /\ constCalls = {}
    /\ pending = {}
    /\ changed = TRUE
    /\ errors = {}

(* Analyze goes through the statements of the file in the order in which   *)
(* they are written, which may be any order.  analyzeImplMethodDef returns *)
(* at once for a template.                                                 *)
BeginBody(o) ==
    /\ phase = "bodies"
    /\ stack = <<>>
    /\ o \in todo
    /\ todo' = todo \ {o}
    /\ stack' = IF o \in Templates THEN <<>> ELSE <<Frame(o)>>
    /\ UNCHANGED <<body, phase, instantiated, isConst, calls, constCalls, verdicts>>

EndBody ==
    /\ phase = "bodies"
    /\ stack # <<>>
    /\ Top.next > Len(Body(Top.owner))
    /\ stack' = Pop
    /\ UNCHANGED <<body, phase, todo, instantiated, isConst, calls, constCalls, verdicts>>

(* analyzeAsgnField with the base "this".                                  *)
AssignField ==
    /\ AtOp("assign")
    /\ isConst' = [isConst EXCEPT ![Top.owner] = FALSE]
    /\ stack' = Advanced
    /\ UNCHANGED <<body, phase, todo, instantiated, calls, constCalls, verdicts>>

(* analyzeAsgnField with the base "this.f", which is not "this".           *)
AssignInnerField ==
    /\ AtOp("assignInner")
    /\ stack' = Advanced
    /\ UNCHANGED <<body, phase, todo, instantiated, isConst, calls, constCalls, verdicts>>

(* resolveBestOverload: the instance matches exactly, the template does    *)
(* not; before there is an instance, the template is what matches.         *)
Resolved(c) == IF c \in instantiated THEN InstanceOf(c) ELSE c

(* generateGenericMethod, for a call that resolved to the template.        *)
Generate(c) ==
    IF c \in Templates \ instantiated
    THEN /\ instantiated' = instantiated \cup {c}
         /\ stack' = Append(Advanced, Frame(InstanceOf(c)))
    ELSE /\ stack' = Advanced
         /\ UNCHANGED instantiated

(* analyzeMethodCall records the method that the call resolved to, before  *)
(* it makes an instance of it.                                             *)

CallOnThis ==
    /\ AtOp("callThis")
    /\ calls' = [calls EXCEPT ![Top.owner] = @ \cup {Resolved(Callee)}]
    /\ Generate(Callee)
    /\ UNCHANGED <<body, phase, todo, isConst, constCalls, verdicts>>

CallOnConst ==
    /\ AtOp("callConst")
    /\ constCalls' = constCalls \cup {<<Site, Resolved(Callee)>>}
    /\ Generate(Callee)
    /\ UNCHANGED <<body, phase, todo, isConst, calls, verdicts>>

EndBodies ==
    /\ phase = "bodies"
    /\ stack = <<>>
    /\ todo = {}
    /\ phase' = "passes"
    /\ UNCHANGED <<body, todo, stack, instantiated, isConst, calls, constCalls, verdicts>>

(* while (changed): a pass over the map, in the order of its buckets.      *)

BeginPass ==
    /\ phase = "passes"
    /\ changed
    /\ phase' = "pass"
    /\ changed' = FALSE
    /\ pending' = {m \in Methods : calls[m] # {}}
    /\ UNCHANGED <<body, todo, stack, instantiated, isConst, calls, constCalls, errors>>

(* Mutants: from callers to callees; without "changed = true"; without the *)
(* "continue" for a method that is lowered already.                        *)

VisitEntryBackwards(m) ==
    /\ phase = "pass"
    /\ m \in pending
    /\ pending' = pending \ {m}
    /\ IF isConst[m] /\ \E c \in Methods : m \in calls[c] /\ ~isConst[c]
       THEN isConst' = [isConst EXCEPT ![m] = FALSE] /\ changed' = TRUE
       ELSE UNCHANGED <<isConst, changed>>
    /\ UNCHANGED <<body, phase, todo, stack, instantiated, calls, constCalls, errors>>

VisitEntryOnce(m) ==
    /\ phase = "pass"
    /\ m \in pending
    /\ pending' = pending \ {m}
    /\ IF isConst[m] /\ \E c \in calls[m] : ~isConst[c]
       THEN isConst' = [isConst EXCEPT ![m] = FALSE]
       ELSE UNCHANGED isConst
    /\ UNCHANGED <<body, phase, todo, stack, instantiated, calls, constCalls, changed,
                   errors>>

VisitEntryAlways(m) ==
    /\ phase = "pass"
    /\ m \in pending
    /\ pending' = pending \ {m}
    /\ IF \E c \in calls[m] : ~isConst[c]
       THEN isConst' = [isConst EXCEPT ![m] = FALSE] /\ changed' = TRUE
       ELSE UNCHANGED <<isConst, changed>>
    /\ UNCHANGED <<body, phase, todo, stack, instantiated, calls, constCalls, errors>>

VisitEntry(m) ==
    /\ phase = "pass"
    /\ m \in pending
    /\ pending' = pending \ {m}
    /\ IF isConst[m] /\ \E c \in calls[m] : ~isConst[c]
       THEN isConst' = [isConst EXCEPT ![m] = FALSE] /\ changed' = TRUE
       ELSE UNCHANGED <<isConst, changed>>
    /\ UNCHANGED <<body, phase, todo, stack, instantiated, calls, constCalls, errors>>

EndPass ==
    /\ phase = "pass"
    /\ pending = {}
    /\ phase' = "passes"
    /\ UNCHANGED <<body, todo, stack, instantiated, isConst, calls, constCalls, verdicts>>

(* analyzeMethodCallOnConstBase, for every call recorded.                  *)
Report ==
    /\ phase = "passes"
    /\ ~changed
    /\ phase' = "done"
    /\ errors' = {c[1] : c \in {d \in constCalls : ~isConst[d[2]]}}
    /\ UNCHANGED <<body, todo, stack, instantiated, isConst, calls, constCalls,
                   pending, changed>>

Next ==
    \/ \E o \in Owners : BeginBody(o)
    \/ EndBody \/ AssignField \/ AssignInnerField \/ CallOnThis \/ CallOnConst
    \/ EndBodies
    \/ BeginPass \/ EndPass \/ Report
    \/ \E m \in Methods : VisitEntry(m)

(* Sema is one sequential function; it goes on until it returns.           *)
Spec == Init /\ [][Next]_vars /\ WF_vars(Next)

-----------------------------------------------------------------------------
(* What the program means, with no reference to the order of the analysis. *)

(* Does the text of m, by itself, modify the receiver?                     *)
Assigns(m) == \E k \in 1..Len(body[m]) : body[m][k].kind \in {"assign", "assignInner"}

CallsOnThis(m) ==
    {c \in Written : \E k \in 1..Len(body[m]) :
        body[m][k].kind = "callThis" /\ body[m][k].callee = c}

(* A set of methods with the ones that assign and the callers of its own.  *)
ClosedUnderCalls(S) ==
    \A m \in Written : Assigns(m) \/ CallsOnThis(m) \cap S # {} => m \in S

(* The least such set.                                                     *)
Mutating == {m \in Written : \A S \in SUBSET Written : ClosedUnderCalls(S) => m \in S}

WrongCall(s) ==
    /\ s[2] <= Len(body[s[1]])
    /\ body[s[1]][s[2]].kind = "callConst"
    /\ body[s[1]][s[2]].callee \in Mutating

(* The methods that surely are: no template has a part in it, and the      *)
(* assignment is to a field of "this" itself.                              *)
Plain == Written \ Templates

ClosedPlainly(S) ==
    \A m \in Plain :
        \/ \E k \in 1..Len(body[m]) : body[m][k].kind = "assign"
        \/ CallsOnThis(m) \cap S # {}
        => m \in S

PlainlyMutating == {m \in Plain : \A S \in SUBSET Plain : ClosedPlainly(S) => m \in S}

-----------------------------------------------------------------------------

(* Every variable keeps its range. *)
TypeOK ==
    /\ body \in [Written \cup {Outside} -> Seq(Op)]
    /\ phase \in {"bodies", "passes", "pass", "done"}
    /\ todo \subseteq Written \cup {Outside}
    /\ stack \in Seq(Frames)
    /\ instantiated \subseteq Templates
    /\ isConst \in [Methods -> BOOLEAN]
    /\ calls \in [Methods -> SUBSET Methods]
    /\ constCalls \subseteq Sites \X Methods
    /\ pending \subseteq Methods
    /\ changed \in BOOLEAN
    /\ errors \subseteq Sites

(* No call is reported whose method leaves the receiver alone: whatever order
   the bodies and the buckets of the map come in, and whichever of template and
   instance was recorded, a flag is only lowered for a method that assigns or
   that reaches one that does. *)
ReportsAreRight == \A s \in errors : WrongCall(s)

(* Whatever templates and instances do in between, a wrong call of a plainly
   mutating method is reported, although a chain of calls may run against the
   order of the map and need several passes. *)
PlainCallsAreChecked ==
    phase = "done" =>
        \A o \in Plain \cup {Outside} : \A k \in 1..Len(body[o]) :
            body[o][k].kind = "callConst" /\ body[o][k].callee \in PlainlyMutating
                => <<o, k>> \in errors

(* Recursive methods, recursive templates and cycles of calls do not keep the
   analysis running. *)
Settles == <>(phase = "done")
=============================================================================
