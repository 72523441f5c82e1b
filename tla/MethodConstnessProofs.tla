------------------------- MODULE MethodConstnessProofs -------------------------
(* Proofs about MethodConstness for every program, whatever order the bodies
   and the buckets of the map come in.

   The argument: what is recorded is in the text, so that a flag is lowered
   along calls that are there; and what is in the text of a plain method is
   recorded once the analysis is past it, so that the flags at a fixed point
   contain the least set that is closed under the calls.                     *)
EXTENDS MethodConstness, TLAPS

(* What is recorded is in the text. *)
FlagsInv == \A m \in Methods : ~isConst[m] => WrittenAs[m] \in Mutating
CallsInv == \A m \in Methods : \A c \in calls[m] : WrittenAs[c] \in CallsOnThis(WrittenAs[m])
SitesInv ==
    \A p \in constCalls :
        /\ p[1][2] \in 1..Len(body[p[1][1]])
        /\ body[p[1][1]][p[1][2]].kind = "callConst"
        /\ body[p[1][1]][p[1][2]].callee = WrittenAs[p[2]]

(* What is in the text of a plain method is recorded when it has been read. *)
PlainOwners == Plain \cup {Outside}
Past(o, k) == o \notin todo /\ \A j \in 1..Len(stack) : stack[j].owner = o => k < stack[j].next
Recorded(o, k) ==
    /\ body[o][k].kind = "assign" /\ o \in Methods => ~isConst[o]
    /\ body[o][k].kind = "callThis" /\ o \in Methods /\ body[o][k].callee \in Plain =>
            body[o][k].callee \in calls[o]
    /\ body[o][k].kind = "callConst" /\ body[o][k].callee \in Plain =>
            <<<<o, k>>, body[o][k].callee>> \in constCalls
TextInv ==
    \A o \in PlainOwners : \A k \in 1..Len(body[o]) : Past(o, k) => Recorded(o, k)

(* A pass that changes nothing has seen every method with a caller lowered. *)
Settled(m) == (\E c \in calls[m] : ~isConst[c]) => ~isConst[m]
PassInv ==
    /\ phase # "bodies" => todo = {} /\ stack = <<>>
    /\ phase = "bodies" => changed
    /\ phase \in {"passes", "pass"} /\ ~changed =>
            \A m \in Methods : Settled(m) \/ (phase = "pass" /\ m \in pending)
    /\ phase = "done" =>
            /\ \A m \in Methods : Settled(m)
            /\ errors = {c[1] : c \in {d \in constCalls : ~isConst[d[2]]}}
    /\ phase # "done" => errors = {}

IInv == TypeOK /\ FlagsInv /\ CallsInv /\ SitesInv /\ TextInv /\ PassInv

-----------------------------------------------------------------------------

(* The methods written, the instances and Outside are told apart by name. *)
LEMMA NameFacts ==
    /\ \A m \in Methods : WrittenAs[m] \in Written
    /\ \A o \in Owners : WrittenAs[o] \in Written \cup {Outside}
    /\ WrittenAs[Outside] = Outside
    /\ \A m \in Written : WrittenAs[m] = m
    /\ \A i \in Instances : i \notin Written /\ i \notin PlainOwners
    /\ Outside \notin Methods
    /\ PlainOwners \subseteq Written \cup {Outside} /\ PlainOwners \cap Templates = {}
BY WrittenAssumption, InstancesAssumption DEF Owners, Methods, PlainOwners, Plain

(* A template has an instance that is written as the template. *)
LEMMA InstanceFacts ==
    ASSUME NEW t \in Templates
    PROVE  InstanceOf(t) \in Instances /\ WrittenAs[InstanceOf(t)] = t
BY InstancesAssumption DEF InstanceOf

(* A set that is closed under the calls and inside every closed one. *)
LEMMA MutatingFacts ==
    ASSUME NEW m \in Written
    PROVE  /\ Assigns(m) => m \in Mutating
           /\ \A c \in CallsOnThis(m) : c \in Mutating => m \in Mutating
<1>1. ASSUME Assigns(m) PROVE m \in Mutating
    BY <1>1 DEF Mutating, ClosedUnderCalls
<1>2. ASSUME NEW c \in CallsOnThis(m), c \in Mutating PROVE m \in Mutating
    <2>1. ASSUME NEW S \in SUBSET Written, ClosedUnderCalls(S) PROVE m \in S
        <3>1. c \in S
            BY <1>2, <2>1 DEF Mutating
        <3> QED BY <2>1, <3>1 DEF ClosedUnderCalls
    <2> QED BY <2>1 DEF Mutating
<1> QED BY <1>1, <1>2

(* Where the analysis is in the middle of a body. *)
LEMMA TopFacts ==
    ASSUME IInv, stack # <<>>
    PROVE  /\ Len(stack) \in Nat \ {0} /\ Len(stack) \in 1..Len(stack)
           /\ Top \in Frames /\ Top.owner \in Owners /\ Top.next \in Nat \ {0}
           /\ WrittenAs[Top.owner] \in Written \cup {Outside}
           /\ Body(Top.owner) \in Seq(Op)
<1>1. stack \in Seq(Frames)
    BY DEF IInv, TypeOK
<1>2. Len(stack) \in Nat \ {0} /\ Len(stack) \in 1..Len(stack)
    BY <1>1
<1>3. Top \in Frames
    BY <1>1, <1>2 DEF Top
<1>4. Top.owner \in Owners /\ Top.next \in Nat \ {0}
    BY <1>3 DEF Frames
<1>5. WrittenAs[Top.owner] \in Written \cup {Outside}
    BY <1>4, NameFacts
<1>6. Body(Top.owner) \in Seq(Op)
    BY <1>5 DEF IInv, TypeOK, Body
<1> QED BY <1>2, <1>3, <1>4, <1>5, <1>6

(* The operation that the analysis has come to. *)
LEMMA OpFacts ==
    ASSUME IInv, NEW kind, AtOp(kind)
    PROVE  /\ phase = "bodies" /\ stack # <<>>
           /\ Top.next \in 1..Len(body[WrittenAs[Top.owner]])
           /\ body[WrittenAs[Top.owner]][Top.next].kind = kind
           /\ kind \in {"callThis", "callConst"} =>
                /\ Callee \in Written
                /\ body[WrittenAs[Top.owner]][Top.next].callee = Callee
<1>1. phase = "bodies" /\ stack # <<>>
    BY DEF AtOp
<1>2. Top.next \in 1..Len(Body(Top.owner)) /\ Body(Top.owner)[Top.next].kind = kind
    BY <1>1, TopFacts DEF AtOp
<1>3. Body(Top.owner)[Top.next] \in Op
    BY <1>1, <1>2, TopFacts
<1>4. kind \in {"callThis", "callConst"} => Callee \in Written
    BY <1>2, <1>3 DEF Callee, Op
<1> QED BY <1>1, <1>2, <1>4 DEF Body, Callee

(* Before the first body nothing is recorded and every method is const. *)
LEMMA InitIInv == Init => IInv
<1> SUFFICES ASSUME Init PROVE IInv
    OBVIOUS
<1>1. TypeOK
    <2>1. body \in [Written \cup {Outside} -> Seq(Op)]
        <3>1. \A m \in Written \cup {Outside} : Texts[m] \subseteq Seq(Op)
            BY TextsAssumption
        <3> QED BY <3>1 DEF Init
    <2> QED BY <2>1 DEF Init, TypeOK
<1>2. FlagsInv /\ CallsInv /\ SitesInv /\ PassInv
    BY DEF Init, FlagsInv, CallsInv, SitesInv, PassInv
<1>3. TextInv
    BY NameFacts DEF Init, TextInv, Past
<1> QED BY <1>1, <1>2, <1>3 DEF IInv

-----------------------------------------------------------------------------
(* The bodies.                                                              *)

(* The frame on top has one operation more behind it. *)
LEMMA AdvancedFacts ==
    ASSUME IInv, stack # <<>>
    PROVE  /\ Advanced \in Seq(Frames) /\ Len(Advanced) = Len(stack)
           /\ \A j \in 1..Len(stack) : Advanced[j].owner = stack[j].owner
           /\ \A j \in 1..Len(stack) : j # Len(stack) => Advanced[j].next = stack[j].next
           /\ Advanced[Len(stack)].next = Top.next + 1
<1>1. stack \in Seq(Frames) /\ Len(stack) \in 1..Len(stack)
    BY TopFacts DEF IInv, TypeOK
<1>2. \A j \in 1..Len(stack) : stack[j] \in Frames
    BY <1>1
<1>3. \A f \in Frames : [f EXCEPT !.next = @ + 1] \in Frames
    BY DEF Frames
<1> QED BY <1>1, <1>2, <1>3 DEF Advanced, Top, Frames

(* An operation that has just been read is the one on top. *)
LEMMA PastFacts ==
    ASSUME IInv, stack # <<>>, todo' = todo,
           stack' = Advanced \/ \E i \in Instances : stack' = Append(Advanced, Frame(i)),
           NEW o \in PlainOwners, NEW k \in Nat, Past(o, k)'
    PROVE  Past(o, k) \/ (o = Top.owner /\ k = Top.next)
<1>1. /\ Len(stack) \in 1..Len(stack) /\ Top.next \in Nat
      /\ Advanced \in Seq(Frames) /\ Len(Advanced) = Len(stack)
      /\ \A j \in 1..Len(stack) : Advanced[j].owner = stack[j].owner
      /\ \A j \in 1..Len(stack) : j # Len(stack) => Advanced[j].next = stack[j].next
      /\ Advanced[Len(stack)].next = Top.next + 1
    BY TopFacts, AdvancedFacts
<1>2. \A j \in 1..Len(stack) : stack'[j] = Advanced[j] /\ j \in 1..Len(stack')
    BY <1>1
<1>3. \A j \in 1..Len(stack) : stack[j].owner = o => k < Advanced[j].next
    BY <1>1, <1>2 DEF Past
<1>4. CASE o = Top.owner /\ k = Top.next
    BY <1>4
<1>5. CASE ~(o = Top.owner /\ k = Top.next)
    <2>1. \A j \in 1..Len(stack) : stack[j].owner = o => k < stack[j].next
        <3> SUFFICES ASSUME NEW j \in 1..Len(stack), stack[j].owner = o PROVE k < stack[j].next
            OBVIOUS
        <3>1. k < Advanced[j].next
            BY <1>3
        <3>2. CASE j = Len(stack)
            BY <1>1, <1>5, <3>1, <3>2 DEF Top
        <3>3. CASE j # Len(stack)
            BY <1>1, <3>1, <3>3
        <3> QED BY <3>2, <3>3
    <2> QED BY <2>1 DEF Past
<1> QED BY <1>4, <1>5

(* What Generate leaves on the stack. *)
LEMMA GenerateFacts ==
    ASSUME IInv, NEW c \in Written, Generate(c)
    PROVE  /\ stack' = Advanced \/ \E i \in Instances : stack' = Append(Advanced, Frame(i))
           /\ instantiated' \subseteq Templates
<1>1. CASE c \in Templates \ instantiated
    BY <1>1, InstanceFacts DEF Generate, IInv, TypeOK
<1>2. CASE c \notin Templates \ instantiated
    BY <1>2 DEF Generate, IInv, TypeOK
<1> QED BY <1>1, <1>2

(* What a call leaves on the stack is a stack that is not empty. *)
LEMMA StackType ==
    ASSUME IInv, stack # <<>>,
           stack' = Advanced \/ \E i \in Instances : stack' = Append(Advanced, Frame(i))
    PROVE  stack' \in Seq(Frames) /\ stack' # <<>>
<1>1. Advanced \in Seq(Frames) /\ Len(Advanced) = Len(stack) /\ Len(stack) \in Nat \ {0}
    BY AdvancedFacts, TopFacts
<1>2. \A i \in Instances : Frame(i) \in Frames
    BY DEF Frame, Frames, Owners, Methods
<1> QED BY <1>1, <1>2

(* The method that a call resolves to has the text of the one it names. *)
LEMMA ResolvedFacts ==
    ASSUME IInv, NEW c \in Written
    PROVE  /\ Resolved(c) \in Methods /\ WrittenAs[Resolved(c)] = c
           /\ c \in Plain => Resolved(c) = c
<1>1. CASE c \in instantiated
    BY <1>1, InstanceFacts DEF Resolved, Methods, Plain, IInv, TypeOK
<1>2. CASE c \notin instantiated
    BY <1>2, NameFacts DEF Resolved, Methods
<1> QED BY <1>1, <1>2

(* A body begins as the only frame on the stack. *)
LEMMA BeginBodyStep ==
    ASSUME IInv, NEW b \in Owners, BeginBody(b)
    PROVE  IInv'
<1>1. /\ phase = "bodies" /\ stack = <<>> /\ b \in todo /\ todo' = todo \ {b}
      /\ stack' = IF b \in Templates THEN <<>> ELSE <<Frame(b)>>
      /\ UNCHANGED <<body, phase, instantiated, isConst, calls, constCalls, pending, changed, errors>>
    BY DEF BeginBody, verdicts
<1>2. Frame(b) \in Frames
    BY DEF Frame, Frames
<1>3. TypeOK'
    BY <1>1, <1>2 DEF IInv, TypeOK
<1>4. FlagsInv' /\ CallsInv' /\ SitesInv' /\ PassInv'
    BY <1>1 DEF IInv, FlagsInv, CallsInv, SitesInv, PassInv, Mutating, ClosedUnderCalls, Assigns,
                CallsOnThis, Settled
<1>5. TextInv'
    <2> SUFFICES ASSUME NEW o \in PlainOwners, NEW k \in 1..Len(body[o]), Past(o, k)'
                 PROVE  Recorded(o, k)
        BY <1>1 DEF TextInv, Recorded
    <2>1. CASE o = b
        <3>1. stack' = <<Frame(b)>>
            BY <1>1, <2>1, NameFacts
        <3>2. k < 1
            BY <2>1, <3>1 DEF Past, Frame
        <3> QED BY <3>2
    <2>2. CASE o # b
        <3>1. Past(o, k)
            BY <1>1, <2>2 DEF Past
        <3> QED BY <3>1 DEF IInv, TextInv
    <2> QED BY <2>1, <2>2
<1> QED BY <1>3, <1>4, <1>5 DEF IInv

(* The frames below the top one are what they were. *)
LEMMA PrefixFacts ==
    ASSUME NEW S, NEW s \in Seq(S), NEW n \in Nat, n < Len(s)
    PROVE  /\ SubSeq(s, 1, n) \in Seq(S) /\ Len(SubSeq(s, 1, n)) = n
           /\ \A k \in 1..n : SubSeq(s, 1, n)[k] = s[k]
OBVIOUS

(* A body that ends has every one of its operations recorded. *)
LEMMA EndBodyStep ==
    ASSUME IInv, EndBody
    PROVE  IInv'
<1>1. /\ phase = "bodies" /\ stack # <<>> /\ Top.next > Len(Body(Top.owner)) /\ stack' = Pop
      /\ UNCHANGED <<body, phase, todo, instantiated, isConst, calls, constCalls, pending, changed, errors>>
    BY DEF EndBody, verdicts
<1>2. stack \in Seq(Frames) /\ Len(stack) \in Nat \ {0} /\ Top.next \in Nat
    BY <1>1, TopFacts DEF IInv, TypeOK
<1>3. /\ stack' \in Seq(Frames) /\ Len(stack') = Len(stack) - 1
      /\ \A j \in 1..Len(stack') : stack'[j] = stack[j]
    <2> DEFINE n == Len(stack) - 1
    <2>1. n \in Nat /\ n < Len(stack)
        BY <1>2
    <2> HIDE DEF n
    <2>2. stack' = SubSeq(stack, 1, n)
        BY <1>1 DEF Pop, n
    <2>3. /\ SubSeq(stack, 1, n) \in Seq(Frames) /\ Len(SubSeq(stack, 1, n)) = n
          /\ \A k \in 1..n : SubSeq(stack, 1, n)[k] = stack[k]
        BY <1>2, <2>1, PrefixFacts
    <2>4. stack' \in Seq(Frames) /\ Len(stack') = n /\ \A k \in 1..n : stack'[k] = stack[k]
        BY <2>2, <2>3
    <2> QED BY <2>1, <2>4 DEF n
<1>4. TypeOK'
    BY <1>1, <1>3 DEF IInv, TypeOK
<1>5. FlagsInv' /\ CallsInv' /\ SitesInv' /\ PassInv'
    BY <1>1 DEF IInv, FlagsInv, CallsInv, SitesInv, PassInv, Mutating, ClosedUnderCalls, Assigns,
                CallsOnThis, Settled
<1>6. TextInv'
    <2> SUFFICES ASSUME NEW o \in PlainOwners, NEW k \in 1..Len(body[o]), Past(o, k)'
                 PROVE  Recorded(o, k)
        BY <1>1 DEF TextInv, Recorded
    <2>1. body[o] \in Seq(Op) /\ WrittenAs[o] = o
        BY NameFacts DEF IInv, TypeOK
    <2>2. Past(o, k)
        <3> SUFFICES ASSUME NEW j \in 1..Len(stack), stack[j].owner = o PROVE k < stack[j].next
            BY <1>1 DEF Past
        <3>1. CASE j = Len(stack)
            BY <1>1, <1>2, <2>1, <3>1 DEF Top, Body
        <3>2. CASE j # Len(stack)
            BY <1>2, <1>3, <3>2 DEF Past
        <3> QED BY <3>1, <3>2
    <2> QED BY <2>2 DEF IInv, TextInv
<1> QED BY <1>4, <1>5, <1>6 DEF IInv

(* An assignment through this clears the flag of its own method only. *)
LEMMA AssignFieldStep ==
    ASSUME IInv, AssignField
    PROVE  IInv'
<1>1. /\ phase = "bodies" /\ stack # <<>> /\ stack' = Advanced
      /\ isConst' = [isConst EXCEPT ![Top.owner] = FALSE]
      /\ UNCHANGED <<body, phase, todo, instantiated, calls, constCalls, pending, changed, errors>>
    BY DEF AssignField, AtOp, verdicts
<1>2. /\ Top.next \in 1..Len(body[WrittenAs[Top.owner]])
      /\ body[WrittenAs[Top.owner]][Top.next].kind = "assign"
    BY OpFacts DEF AssignField
<1>3. /\ isConst' \in [Methods -> BOOLEAN]
      /\ \A m \in Methods : isConst'[m] = IF m = Top.owner THEN FALSE ELSE isConst[m]
    BY <1>1 DEF IInv, TypeOK
<1>4. TypeOK'
    BY <1>1, <1>3, StackType DEF IInv, TypeOK
<1>5. FlagsInv'
    <2>1. \A m \in Methods : ~isConst'[m] => WrittenAs[m] \in Mutating
        <3>1. Top.owner \in Methods => WrittenAs[Top.owner] \in Mutating
            BY <1>2, NameFacts, MutatingFacts DEF Assigns
        <3> QED BY <1>3, <3>1 DEF IInv, FlagsInv
    <2> QED BY <1>1, <2>1 DEF FlagsInv, Mutating, ClosedUnderCalls, Assigns, CallsOnThis
<1>6. CallsInv' /\ SitesInv'
    BY <1>1 DEF IInv, CallsInv, SitesInv, CallsOnThis
<1>7. PassInv'
    BY <1>1 DEF IInv, PassInv
<1>8. TextInv'
    <2> SUFFICES ASSUME NEW o \in PlainOwners, NEW k \in 1..Len(body[o]), Past(o, k)'
                 PROVE  Recorded(o, k)'
        BY <1>1 DEF TextInv
    <2>1. o \in Methods => (~isConst[o] => ~isConst'[o])
        BY <1>3
    <2>2. Past(o, k) \/ (o = Top.owner /\ k = Top.next)
        BY <1>1, PastFacts
    <2>3. CASE Past(o, k)
        BY <1>1, <2>1, <2>3 DEF IInv, TextInv, Recorded
    <2>4. CASE o = Top.owner /\ k = Top.next
        <3>1. WrittenAs[o] = o
            BY NameFacts
        <3> QED BY <1>1, <1>2, <1>3, <2>4, <3>1 DEF Recorded
    <2> QED BY <2>2, <2>3, <2>4
<1> QED BY <1>4, <1>5, <1>6, <1>7, <1>8 DEF IInv

(* An assignment through this.f clears no flag. *)
LEMMA AssignInnerFieldStep ==
    ASSUME IInv, AssignInnerField
    PROVE  IInv'
<1>1. /\ phase = "bodies" /\ stack # <<>> /\ stack' = Advanced
      /\ UNCHANGED <<body, phase, todo, instantiated, isConst, calls, constCalls, pending, changed, errors>>
    BY DEF AssignInnerField, AtOp, verdicts
<1>2. body[WrittenAs[Top.owner]][Top.next].kind = "assignInner"
    BY OpFacts DEF AssignInnerField
<1>3. TypeOK'
    BY <1>1, StackType DEF IInv, TypeOK
<1>4. FlagsInv' /\ CallsInv' /\ SitesInv' /\ PassInv'
    BY <1>1 DEF IInv, FlagsInv, CallsInv, SitesInv, PassInv, Mutating, ClosedUnderCalls, Assigns,
                CallsOnThis, Settled
<1>5. TextInv'
    <2> SUFFICES ASSUME NEW o \in PlainOwners, NEW k \in 1..Len(body[o]), Past(o, k)'
                 PROVE  Recorded(o, k)
        BY <1>1 DEF TextInv, Recorded
    <2>1. Past(o, k) \/ (o = Top.owner /\ k = Top.next)
        BY <1>1, PastFacts
    <2>2. o = Top.owner /\ k = Top.next => body[o][k].kind = "assignInner"
        BY <1>2, NameFacts
    <2> QED BY <2>1, <2>2 DEF IInv, TextInv, Recorded
<1> QED BY <1>3, <1>4, <1>5 DEF IInv

(* A call on this is recorded for the method whose body makes it. *)
LEMMA CallOnThisStep ==
    ASSUME IInv, CallOnThis
    PROVE  IInv'
<1>1. /\ phase = "bodies" /\ stack # <<>> /\ Generate(Callee)
      /\ calls' = [calls EXCEPT ![Top.owner] = @ \cup {Resolved(Callee)}]
      /\ UNCHANGED <<body, phase, todo, isConst, constCalls, pending, changed, errors>>
    BY DEF CallOnThis, AtOp, verdicts
<1>2. /\ Top.next \in 1..Len(body[WrittenAs[Top.owner]])
      /\ body[WrittenAs[Top.owner]][Top.next].kind = "callThis"
      /\ Callee \in Written /\ body[WrittenAs[Top.owner]][Top.next].callee = Callee
    BY OpFacts DEF CallOnThis
<1>3. /\ stack' = Advanced \/ \E i \in Instances : stack' = Append(Advanced, Frame(i))
      /\ instantiated' \subseteq Templates
    BY <1>1, <1>2, GenerateFacts
<1>4. /\ Resolved(Callee) \in Methods /\ WrittenAs[Resolved(Callee)] = Callee
      /\ Callee \in Plain => Resolved(Callee) = Callee
    BY <1>2, ResolvedFacts
<1>5. /\ calls' \in [Methods -> SUBSET Methods]
      /\ \A m \in Methods :
            calls'[m] = IF m = Top.owner THEN calls[m] \cup {Resolved(Callee)} ELSE calls[m]
    BY <1>1, <1>4 DEF IInv, TypeOK
<1>6. TypeOK'
    BY <1>1, <1>3, <1>5, StackType DEF IInv, TypeOK
<1>7. FlagsInv' /\ SitesInv'
    BY <1>1 DEF IInv, FlagsInv, SitesInv, Mutating, ClosedUnderCalls, Assigns, CallsOnThis
<1>8. CallsInv'
    <2>1. \A m \in Methods : \A c \in calls'[m] : WrittenAs[c] \in CallsOnThis(WrittenAs[m])
        <3>1. Top.owner \in Methods => Callee \in CallsOnThis(WrittenAs[Top.owner])
            BY <1>2 DEF CallsOnThis
        <3> QED BY <1>4, <1>5, <3>1 DEF IInv, CallsInv
    <2> QED BY <1>1, <2>1 DEF CallsInv, CallsOnThis
<1>9. PassInv'
    BY <1>1, <1>3, StackType DEF IInv, PassInv
<1>10. TextInv'
    <2> SUFFICES ASSUME NEW o \in PlainOwners, NEW k \in 1..Len(body[o]), Past(o, k)'
                 PROVE  Recorded(o, k)'
        BY <1>1 DEF TextInv
    <2>1. o \in Methods => calls[o] \subseteq calls'[o]
        BY <1>5
    <2>2. Past(o, k) \/ (o = Top.owner /\ k = Top.next)
        BY <1>1, <1>3, PastFacts
    <2>3. CASE Past(o, k)
        BY <1>1, <2>1, <2>3 DEF IInv, TextInv, Recorded
    <2>4. CASE o = Top.owner /\ k = Top.next
        <3>1. WrittenAs[o] = o
            BY NameFacts
        <3> QED BY <1>1, <1>2, <1>4, <1>5, <2>4, <3>1 DEF Recorded
    <2> QED BY <2>2, <2>3, <2>4
<1> QED BY <1>6, <1>7, <1>8, <1>9, <1>10 DEF IInv

(* A call on a const base is recorded at its place, to be judged later. *)
LEMMA CallOnConstStep ==
    ASSUME IInv, CallOnConst
    PROVE  IInv'
<1>1. /\ phase = "bodies" /\ stack # <<>> /\ Generate(Callee)
      /\ constCalls' = constCalls \cup {<<Site, Resolved(Callee)>>}
      /\ UNCHANGED <<body, phase, todo, isConst, calls, pending, changed, errors>>
    BY DEF CallOnConst, AtOp, verdicts
<1>2. /\ Top.next \in 1..Len(body[WrittenAs[Top.owner]])
      /\ body[WrittenAs[Top.owner]][Top.next].kind = "callConst"
      /\ Callee \in Written /\ body[WrittenAs[Top.owner]][Top.next].callee = Callee
    BY OpFacts DEF CallOnConst
<1>3. /\ stack' = Advanced \/ \E i \in Instances : stack' = Append(Advanced, Frame(i))
      /\ instantiated' \subseteq Templates
    BY <1>1, <1>2, GenerateFacts
<1>4. /\ Resolved(Callee) \in Methods /\ WrittenAs[Resolved(Callee)] = Callee
      /\ Callee \in Plain => Resolved(Callee) = Callee
    BY <1>2, ResolvedFacts
<1>5. Site \in Sites /\ Site[1] = WrittenAs[Top.owner] /\ Site[2] = Top.next
    BY <1>1, TopFacts DEF Site, Sites
<1>6. TypeOK'
    <2>1. constCalls' \subseteq Sites \X Methods
        BY <1>1, <1>4, <1>5 DEF IInv, TypeOK
    <2> QED BY <1>1, <1>3, <2>1, StackType DEF IInv, TypeOK
<1>7. FlagsInv' /\ CallsInv'
    BY <1>1 DEF IInv, FlagsInv, CallsInv, Mutating, ClosedUnderCalls, Assigns, CallsOnThis
<1>8. SitesInv'
    <2> SUFFICES ASSUME NEW p \in constCalls'
                 PROVE  /\ p[1][2] \in 1..Len(body[p[1][1]])
                        /\ body[p[1][1]][p[1][2]].kind = "callConst"
                        /\ body[p[1][1]][p[1][2]].callee = WrittenAs[p[2]]
        BY <1>1 DEF SitesInv
    <2>1. CASE p = <<Site, Resolved(Callee)>>
        BY <1>2, <1>4, <1>5, <2>1
    <2>2. CASE p \in constCalls
        BY <2>2 DEF IInv, SitesInv
    <2> QED BY <1>1, <2>1, <2>2
<1>9. PassInv'
    BY <1>1, <1>3, StackType DEF IInv, PassInv
<1>10. TextInv'
    <2> SUFFICES ASSUME NEW o \in PlainOwners, NEW k \in 1..Len(body[o]), Past(o, k)'
                 PROVE  Recorded(o, k)'
        BY <1>1 DEF TextInv
    <2>1. Past(o, k) \/ (o = Top.owner /\ k = Top.next)
        BY <1>1, <1>3, PastFacts
    <2>2. CASE Past(o, k)
        BY <1>1, <2>2 DEF IInv, TextInv, Recorded
    <2>3. CASE o = Top.owner /\ k = Top.next
        <3>1. WrittenAs[o] = o /\ Site = <<o, k>>
            BY <2>3, NameFacts DEF Site
        <3> QED BY <1>1, <1>2, <1>4, <2>3, <3>1 DEF Recorded
    <2> QED BY <2>1, <2>2, <2>3
<1> QED BY <1>6, <1>7, <1>8, <1>9, <1>10 DEF IInv

(* All the bodies are through: what is recorded is what is written. *)
LEMMA EndBodiesStep ==
    ASSUME IInv, EndBodies
    PROVE  IInv'
<1>1. /\ phase = "bodies" /\ stack = <<>> /\ todo = {} /\ phase' = "passes"
      /\ UNCHANGED <<body, todo, stack, instantiated, isConst, calls, constCalls, pending, changed, errors>>
    BY DEF EndBodies, verdicts
<1>2. TypeOK'
    BY <1>1 DEF IInv, TypeOK
<1>3. FlagsInv' /\ CallsInv' /\ SitesInv' /\ TextInv' /\ PassInv'
    BY <1>1, SMTT(60) DEF IInv, FlagsInv, CallsInv, SitesInv, TextInv, PassInv, Mutating, ClosedUnderCalls,
                Assigns, CallsOnThis, Past, Recorded
<1> QED BY <1>2, <1>3 DEF IInv

-----------------------------------------------------------------------------
(* The passes.                                                              *)

(* A pass begins with every method that calls another one pending. *)
LEMMA BeginPassStep ==
    ASSUME IInv, BeginPass
    PROVE  IInv'
<1>1. /\ phase = "passes" /\ phase' = "pass" /\ changed' = FALSE
      /\ pending' = {m \in Methods : calls[m] # {}}
      /\ UNCHANGED <<body, todo, stack, instantiated, isConst, calls, constCalls, errors>>
    BY DEF BeginPass
<1>2. TypeOK'
    BY <1>1 DEF IInv, TypeOK
<1>3. FlagsInv' /\ CallsInv' /\ SitesInv' /\ TextInv'
    BY <1>1 DEF IInv, FlagsInv, CallsInv, SitesInv, TextInv, Mutating, ClosedUnderCalls,
                Assigns, CallsOnThis, Past, Recorded
<1>4. PassInv'
    BY <1>1 DEF IInv, PassInv, Settled
<1> QED BY <1>2, <1>3, <1>4 DEF IInv

(* A method that is lowered here calls one that is lowered. *)
LEMMA VisitEntryStep ==
    ASSUME IInv, NEW m \in Methods, VisitEntry(m)
    PROVE  IInv'
<1>1. /\ phase = "pass" /\ m \in pending /\ pending' = pending \ {m}
      /\ UNCHANGED <<body, phase, todo, stack, instantiated, calls, constCalls, errors>>
    BY DEF VisitEntry
<1>2. CASE isConst[m] /\ \E c \in calls[m] : ~isConst[c]
    <2>1. isConst' = [isConst EXCEPT ![m] = FALSE] /\ changed' = TRUE
        BY <1>2 DEF VisitEntry
    <2>2. /\ isConst' \in [Methods -> BOOLEAN]
          /\ \A n \in Methods : isConst'[n] = IF n = m THEN FALSE ELSE isConst[n]
        BY <2>1 DEF IInv, TypeOK
    <2>3. TypeOK'
        BY <1>1, <2>1, <2>2 DEF IInv, TypeOK
    <2>4. FlagsInv'
        <3>1. PICK c \in calls[m] : ~isConst[c]
            BY <1>2
        <3>2. c \in Methods /\ WrittenAs[m] \in Written
            BY NameFacts DEF IInv, TypeOK
        <3>3. WrittenAs[c] \in CallsOnThis(WrittenAs[m]) /\ WrittenAs[c] \in Mutating
            BY <3>1, <3>2 DEF IInv, CallsInv, FlagsInv
        <3>4. WrittenAs[m] \in Mutating
            BY <3>2, <3>3, MutatingFacts
        <3>5. \A n \in Methods : ~isConst'[n] => WrittenAs[n] \in Mutating
            BY <2>2, <3>4 DEF IInv, FlagsInv
        <3> QED BY <1>1, <3>5 DEF FlagsInv, Mutating, ClosedUnderCalls, Assigns, CallsOnThis
    <2>5. CallsInv' /\ SitesInv'
        BY <1>1 DEF IInv, CallsInv, SitesInv, CallsOnThis
    <2>6. TextInv'
        BY <1>1, <2>2 DEF IInv, TextInv, Past, Recorded
    <2>7. PassInv'
        BY <1>1, <2>1 DEF IInv, PassInv
    <2> QED BY <2>3, <2>4, <2>5, <2>6, <2>7 DEF IInv
<1>3. CASE ~(isConst[m] /\ \E c \in calls[m] : ~isConst[c])
    <2>1. UNCHANGED <<isConst, changed>>
        BY <1>3 DEF VisitEntry
    <2>2. TypeOK'
        BY <1>1, <2>1 DEF IInv, TypeOK
    <2>3. FlagsInv' /\ CallsInv' /\ SitesInv' /\ TextInv'
        BY <1>1, <2>1 DEF IInv, FlagsInv, CallsInv, SitesInv, TextInv, Mutating, ClosedUnderCalls,
                          Assigns, CallsOnThis, Past, Recorded
    <2>4. PassInv'
        <3>1. Settled(m)
            BY <1>3 DEF Settled, IInv, TypeOK
        <3> QED BY <1>1, <2>1, <3>1 DEF IInv, PassInv, Settled
    <2> QED BY <2>2, <2>3, <2>4 DEF IInv
<1> QED BY <1>2, <1>3

(* A pass that changed nothing saw flags closed under the calls. *)
LEMMA EndPassStep ==
    ASSUME IInv, EndPass
    PROVE  IInv'
<1>1. /\ phase = "pass" /\ pending = {} /\ phase' = "passes"
      /\ UNCHANGED <<body, todo, stack, instantiated, isConst, calls, constCalls, pending, changed, errors>>
    BY DEF EndPass, verdicts
<1>2. TypeOK'
    BY <1>1 DEF IInv, TypeOK
<1>3. FlagsInv' /\ CallsInv' /\ SitesInv' /\ TextInv'
    BY <1>1 DEF IInv, FlagsInv, CallsInv, SitesInv, TextInv, Mutating, ClosedUnderCalls,
                Assigns, CallsOnThis, Past, Recorded
<1>4. PassInv'
    BY <1>1 DEF IInv, PassInv, Settled
<1> QED BY <1>2, <1>3, <1>4 DEF IInv

(* The reports are taken from flags that no pass changes any more. *)
LEMMA ReportStep ==
    ASSUME IInv, Report
    PROVE  IInv'
<1>1. /\ phase = "passes" /\ ~changed /\ phase' = "done"
      /\ errors' = {c[1] : c \in {d \in constCalls : ~isConst[d[2]]}}
      /\ UNCHANGED <<body, todo, stack, instantiated, isConst, calls, constCalls, pending, changed>>
    BY DEF Report
<1>2. TypeOK'
    <2>1. errors' \subseteq Sites
        BY <1>1 DEF IInv, TypeOK
    <2> QED BY <1>1, <2>1 DEF IInv, TypeOK
<1>3. FlagsInv' /\ CallsInv' /\ SitesInv' /\ TextInv'
    BY <1>1 DEF IInv, FlagsInv, CallsInv, SitesInv, TextInv, Mutating, ClosedUnderCalls,
                Assigns, CallsOnThis, Past, Recorded
<1>4. PassInv'
    BY <1>1 DEF IInv, PassInv, Settled
<1> QED BY <1>2, <1>3, <1>4 DEF IInv

(* Every step of the analysis keeps the inductive invariant. *)
LEMMA NextIInv == IInv /\ [Next]_vars => IInv'
<1> SUFFICES ASSUME IInv, [Next]_vars PROVE IInv'
    OBVIOUS
<1>1. CASE Next
    BY <1>1, BeginBodyStep, EndBodyStep, AssignFieldStep, AssignInnerFieldStep, CallOnThisStep,
       CallOnConstStep, EndBodiesStep, BeginPassStep, VisitEntryStep, EndPassStep, ReportStep
       DEF Next
<1>2. CASE UNCHANGED vars
    <2>1. UNCHANGED <<body, phase, todo, stack, instantiated, isConst, calls, constCalls,
                      pending, changed, errors>>
        BY <1>2 DEF vars, verdicts
    <2>2. TypeOK'
        BY <2>1 DEF IInv, TypeOK
    <2>3. FlagsInv' /\ CallsInv' /\ SitesInv' /\ TextInv' /\ PassInv'
        BY <2>1 DEF IInv, FlagsInv, CallsInv, SitesInv, TextInv, PassInv, Mutating,
                    ClosedUnderCalls, Assigns, CallsOnThis, Past, Recorded, Settled
    <2> QED BY <2>2, <2>3 DEF IInv
<1> QED BY <1>1, <1>2

-----------------------------------------------------------------------------
(* The theorems.                                                            *)

(* The inductive invariant holds of every analysis. *)
THEOREM Invariance == Spec => []IInv
BY InitIInv, NextIInv, PTL DEF Spec

(* Every variable of the inference keeps its range. *)
THEOREM TypeCorrect == Spec => []TypeOK
<1>1. IInv => TypeOK
    BY DEF IInv
<1> QED BY <1>1, Invariance, PTL

(* No program has a call reported whose method leaves the receiver alone. *)
THEOREM ReportsAlwaysRight == Spec => []ReportsAreRight
<1>1. ASSUME IInv, NEW s \in errors PROVE WrongCall(s)
    <2>1. errors = {c[1] : c \in {d \in constCalls : ~isConst[d[2]]}}
        BY <1>1 DEF IInv, PassInv
    <2>2. PICK d \in constCalls : ~isConst[d[2]] /\ s = d[1]
        BY <2>1
    <2>3. d[2] \in Methods
        BY <1>1 DEF IInv, TypeOK
    <2>4. WrittenAs[d[2]] \in Mutating
        BY <1>1, <2>2, <2>3 DEF IInv, FlagsInv
    <2>5. /\ s[2] \in 1..Len(body[s[1]])
          /\ body[s[1]][s[2]].kind = "callConst"
          /\ body[s[1]][s[2]].callee = WrittenAs[d[2]]
        BY <1>1, <2>2 DEF IInv, SitesInv
    <2> QED BY <2>4, <2>5 DEF WrongCall
<1>2. IInv => ReportsAreRight
    BY <1>1 DEF ReportsAreRight
<1> QED BY <1>2, Invariance, PTL

(* No wrong call of a plainly mutating method of any program is missed. *)
THEOREM PlainCallsAlwaysChecked == Spec => []PlainCallsAreChecked
<1>1. ASSUME IInv, phase = "done", NEW o \in PlainOwners, NEW k \in 1..Len(body[o])
      PROVE  Recorded(o, k)
    BY <1>1 DEF IInv, PassInv, TextInv, Past
<1> DEFINE Lowered == {m \in Plain : ~isConst[m]}
<1>2. ASSUME IInv, phase = "done"
      PROVE  ClosedPlainly(Lowered)
    <2>1. ASSUME NEW m \in Plain, NEW k \in 1..Len(body[m]), body[m][k].kind = "assign"
          PROVE  m \in Lowered
        BY <1>1, <1>2, <2>1 DEF Recorded, PlainOwners, Plain, Methods
    <2>2. ASSUME NEW m \in Plain, NEW c \in CallsOnThis(m), c \in Lowered
          PROVE  m \in Lowered
        <3>1. PICK k \in 1..Len(body[m]) : body[m][k].kind = "callThis" /\ body[m][k].callee = c
            BY DEF CallsOnThis
        <3>2. m \in Methods /\ m \in PlainOwners
            BY DEF Plain, Methods, PlainOwners
        <3>3. c \in calls[m]
            BY <1>1, <1>2, <2>2, <3>1, <3>2 DEF Recorded
        <3>4. Settled(m)
            BY <1>2, <3>2 DEF IInv, PassInv
        <3> QED BY <2>2, <3>3, <3>4 DEF Settled
    <2> QED BY <2>1, <2>2 DEF ClosedPlainly
<1>3. ASSUME IInv, phase = "done", NEW o \in PlainOwners, NEW k \in 1..Len(body[o]),
             body[o][k].kind = "callConst", body[o][k].callee \in PlainlyMutating
      PROVE  <<o, k>> \in errors
    <2> DEFINE c == body[o][k].callee
    <2>1. c \in Plain /\ Lowered \in SUBSET Plain
        BY <1>3 DEF PlainlyMutating
    <2>2. c \in Lowered
        BY <1>2, <1>3, <2>1 DEF PlainlyMutating
    <2>3. <<<<o, k>>, c>> \in constCalls
        BY <1>1, <1>3, <2>1 DEF Recorded
    <2>4. errors = {d[1] : d \in {e \in constCalls : ~isConst[e[2]]}}
        BY <1>3 DEF IInv, PassInv
    <2> QED BY <2>2, <2>3, <2>4
<1>4. IInv => PlainCallsAreChecked
    BY <1>3 DEF PlainCallsAreChecked, PlainOwners
<1> QED BY <1>4, Invariance, PTL
=============================================================================
