-------------------------- MODULE ImportGraphProofs --------------------------
(* Proofs about ImportGraph for every set of import paths, every choice of
   import lists and every subset of missing files.

   The argument: while scanDeps runs, every import of a recorded module is
   recorded too unless a frame of the call stack still has it ahead; so when
   the stack is empty _graph is closed under imports, and as it never leaves
   the package it is the package.  While sortDeps runs, the frames are exactly
   the modules marked Visiting, the queue exactly those marked Visited, each
   after its imports, and every frame is reachable from the frames below it:
   that is why meeting a Visiting module proves a cycle.  No induction on the
   length of a path is needed: reachability is the least closed set, and the
   prefix of the queue before a module is a closed set without it.           *)
EXTENDS ImportGraph, CompilationQueue, TLAPS

Sorting == phase \in {"sort", "queued", "cyclic"}

(* The files on the call stack are recorded and no frame runs past its list. *)
StackInGraph ==
    \A k \in 1..Len(stack) :
        /\ stack[k].mod \in graph
        /\ stack[k].next <= Len(imports[stack[k].mod]) + 1

(* Before sortDeps starts nothing is marked and nothing is queued. *)
Fresh ==
    ~Sorting =>
        /\ state = [n \in Names |-> "Unvisited"]
        /\ queue = <<>>

(* What scanDeps still owes: an import of a recorded file that is not recorded
   is ahead of some frame of that file. *)
ScanInv ==
    /\ graph \subseteq Package
    /\ phase = "start" => graph = {} /\ stack = <<>>
    /\ phase = "scan" =>
        /\ Entry \in exists => Entry \in graph
        /\ \A n \in graph :
            \/ Imported(n) \subseteq graph
            \/ \E k \in 1..Len(stack) :
                /\ stack[k].mod = n
                /\ \A i \in 1..(stack[k].next - 1) :
                    imports[n][i] \in exists => imports[n][i] \in graph
    /\ Sorting => graph = Package

(* The marks agree with the queue and with the call stack. *)
MarksInv ==
    /\ \A n \in Names : state[n] = "Visited" <=> \E i \in 1..Len(queue) : queue[i] = n
    /\ \A i, j \in 1..Len(queue) : queue[i] = queue[j] => i = j
    /\ \A n \in Names : state[n] # "Unvisited" => n \in graph
    /\ Sorting =>
        /\ \A n \in Names :
            state[n] = "Visiting" <=> \E k \in 1..Len(stack) : stack[k].mod = n
        /\ \A k, l \in 1..Len(stack) : stack[k].mod = stack[l].mod => k = l
        /\ Entry \in graph => state[Entry] # "Unvisited"
    /\ phase = "queued" => stack = <<>>

(* What a sortDeps frame has behind it is queued, or is the frame above it. *)
BehindInv ==
    Sorting =>
        \A k \in 1..Len(stack) : \A i \in 1..(stack[k].next - 1) :
            imports[stack[k].mod][i] \in graph =>
                \/ state[imports[stack[k].mod][i]] = "Visited"
                \/ k < Len(stack) /\ imports[stack[k].mod][i] = stack[k + 1].mod

(* The queue is in topological order at every moment. *)
OrderInv ==
    \A i \in 1..Len(queue) : \A d \in Imported(queue[i]) :
        \E j \in 1..(i - 1) : queue[j] = d

(* A frame is reachable, by one import or more, from the frames below it. *)
ChainInv ==
    Sorting =>
        \A k, l \in 1..Len(stack) :
            k < l => stack[l].mod \in Closure(Imported(stack[k].mod))

IInv ==
    /\ TypeOK
    /\ StackInGraph
    /\ Fresh
    /\ ScanInv
    /\ MarksInv
    /\ BehindInv
    /\ OrderInv
    /\ ChainInv
    /\ phase = "cyclic" => HasCycle

-----------------------------------------------------------------------------
(* Reachability. *)

(* Following one more import from a reachable file stays reachable. *)
LEMMA ClosureClosed ==
    ASSUME NEW T, NEW n \in Closure(T), NEW d \in Imported(n)
    PROVE  d \in Closure(T)
BY DEF Closure, Closed, Imported

(* What one starts from is reachable. *)
LEMMA ClosureContains ==
    ASSUME NEW T, NEW n \in T, n \in exists
    PROVE  n \in Closure(T)
BY DEF Closure

(* Nothing outside a closed set is reachable from inside it. *)
LEMMA ClosureMinimal ==
    ASSUME NEW T, NEW S, S \subseteq exists, T \subseteq S, Closed(S)
    PROVE  Closure(T) \subseteq S
BY DEF Closure

(* Reachability only depends on the files, which a build does not change. *)
LEMMA SourcesFixed ==
    ASSUME UNCHANGED sources
    PROVE  /\ \A n : Imported(n)' = Imported(n)
           /\ \A n : Closure(Imported(n))' = Closure(Imported(n))
           /\ Package' = Package
           /\ HasCycle' = HasCycle
<1>1. \A n : Imported(n)' = Imported(n)
    BY DEF Imported, sources
<1>2. \A n : Closure(Imported(n))' = Closure(Imported(n))
    BY <1>1 DEF Closure, Closed, sources
<1>3. Package' = Package
    BY <1>1 DEF Package, Closure, Closed, sources
<1>4. HasCycle' = HasCycle
    BY <1>2, <1>3 DEF HasCycle
<1> QED BY <1>1, <1>2, <1>3, <1>4

(* A prefix of a sequence. *)
LEMMA PrefixShape ==
    ASSUME NEW S, NEW s \in Seq(S), NEW n \in 0..Len(s)
    PROVE  /\ SubSeq(s, 1, n) \in Seq(S)
           /\ Len(SubSeq(s, 1, n)) = n
           /\ \A k \in 1..n : SubSeq(s, 1, n)[k] = s[k]
<1>1. n \in Nat
    OBVIOUS
<1> QED BY <1>1

(* The shape of the stack after each way of changing it. *)
LEMMA StackShapes ==
    ASSUME TypeOK, stack # <<>>
    PROVE  /\ Len(stack) \in Nat \ {0}
           /\ Top \in Frames
           /\ Pop \in Seq(Frames)
           /\ Len(Pop) = Len(stack) - 1
           /\ \A k \in 1..Len(Pop) : Pop[k] = stack[k]
           /\ Advanced \in Seq(Frames)
           /\ Len(Advanced) = Len(stack)
           /\ \A k \in 1..(Len(stack) - 1) : Advanced[k] = stack[k]
           /\ Advanced[Len(stack)].mod = Top.mod
           /\ Advanced[Len(stack)].next = Top.next + 1
<1>1. stack \in Seq(Frames) /\ Len(stack) \in Nat \ {0}
    BY DEF TypeOK
<1>2. Top \in Frames
    BY <1>1 DEF Top
<1>3. /\ Pop \in Seq(Frames)
      /\ Len(Pop) = Len(stack) - 1
      /\ \A k \in 1..Len(Pop) : Pop[k] = stack[k]
    <2>1. Len(stack) - 1 \in 0..Len(stack)
        BY <1>1
    <2>2. /\ Pop \in Seq(Frames)
          /\ Len(Pop) = Len(stack) - 1
          /\ \A k \in 1..(Len(stack) - 1) : Pop[k] = stack[k]
        BY <1>1, <2>1, PrefixShape DEF Pop
    <2> QED BY <2>2
<1>4. [Top EXCEPT !.next = @ + 1] \in Frames
    BY <1>2 DEF Frames
<1>5. Advanced = [stack EXCEPT ![Len(stack)] = [Top EXCEPT !.next = @ + 1]]
    BY <1>1, <1>2 DEF Advanced, Top, Frames
<1>6. /\ Advanced \in Seq(Frames)
      /\ Len(Advanced) = Len(stack)
      /\ \A k \in 1..(Len(stack) - 1) : Advanced[k] = stack[k]
      /\ Advanced[Len(stack)] = [Top EXCEPT !.next = @ + 1]
    BY <1>1, <1>4, <1>5
<1>7. /\ Advanced[Len(stack)].mod = Top.mod
      /\ Advanced[Len(stack)].next = Top.next + 1
    BY <1>2, <1>6 DEF Frames
<1> QED BY <1>1, <1>2, <1>3, <1>6, <1>7

(* The current dependency is an import path of the package. *)
LEMMA DepType ==
    ASSUME TypeOK, AtDep
    PROVE  /\ Dep \in Names
           /\ Top.mod \in Names
           /\ Top.next \in 1..Len(imports[Top.mod])
           /\ Dep \in exists => Dep \in Imported(Top.mod)
<1>1. Top \in Frames
    BY StackShapes DEF AtDep
<1>2. imports[Top.mod] \in Seq(Names)
    BY <1>1, ImportListsAssumption DEF TypeOK, Frames
<1>3. Top.next \in 1..Len(imports[Top.mod])
    BY <1>1, <1>2 DEF AtDep, Frames
<1> QED BY <1>1, <1>2, <1>3 DEF Dep, Imported, Frames

(* A call puts a frame at the first dependency on top of the caller's frames. *)
LEMMA CallShape ==
    ASSUME NEW callers \in Seq(Frames), NEW n \in Names
    PROVE  /\ Append(callers, Frame(n)) \in Seq(Frames)
           /\ Len(Append(callers, Frame(n))) = Len(callers) + 1
           /\ \A k \in 1..Len(callers) : Append(callers, Frame(n))[k] = callers[k]
           /\ Append(callers, Frame(n))[Len(callers) + 1] = Frame(n)
           /\ Frame(n).mod = n
           /\ Frame(n).next = 1
<1>1. Frame(n) \in Frames /\ Frame(n).mod = n /\ Frame(n).next = 1
    BY DEF Frame, Frames
<1> QED BY <1>1

-----------------------------------------------------------------------------
(* The invariant holds at the start and every action preserves it.         *)

(* Before the first scan the inductive invariant holds. *)
LEMMA InitIInv == Init => IInv
<1> SUFFICES ASSUME Init PROVE IInv
    OBVIOUS
<1>1. stack \in Seq(Frames) /\ queue \in Seq(Names) /\ Len(stack) = 0 /\ Len(queue) = 0
    BY DEF Init
<1>2. TypeOK
    BY <1>1 DEF Init, TypeOK, VisitState
<1>3. StackInGraph /\ Fresh /\ ScanInv /\ MarksInv
    BY <1>1 DEF Init, StackInGraph, Fresh, ScanInv, MarksInv, Sorting
<1>4. BehindInv /\ OrderInv /\ ChainInv /\ phase # "cyclic"
    BY <1>1 DEF Init, BehindInv, OrderInv, ChainInv, Sorting
<1> QED BY <1>2, <1>3, <1>4 DEF IInv

(* Before sorting, the marks, the queue and what depends on them are trivial. *)
LEMMA ScanPhases ==
    ASSUME IInv, phase \in {"start", "scan"}, phase' \in {"start", "scan"},
           UNCHANGED <<sources, state, queue>>
    PROVE  Fresh' /\ MarksInv' /\ BehindInv' /\ OrderInv' /\ ChainInv'
<1>1. /\ ~Sorting /\ ~Sorting' /\ phase' # "queued"
      /\ state' = [n \in Names |-> "Unvisited"]
      /\ queue' = <<>>
      /\ Len(queue') = 0
    BY DEF IInv, Fresh, Sorting
<1>2. Fresh' /\ BehindInv' /\ ChainInv' /\ OrderInv'
    BY <1>1 DEF Fresh, BehindInv, ChainInv, OrderInv, Sorting
<1>3. MarksInv'
    BY <1>1 DEF MarksInv, Sorting
<1> QED BY <1>2, <1>3

(* The scan of the imports begins with the entry module. *)
LEMMA BeginScanStep ==
    ASSUME IInv, BeginScan
    PROVE  IInv'
<1>1. UNCHANGED <<sources, state, queue>> /\ phase = "start" /\ phase' = "scan"
    BY DEF BeginScan
<1>2. Fresh' /\ MarksInv' /\ BehindInv' /\ OrderInv' /\ ChainInv'
    BY <1>1, ScanPhases
<1>3. graph = {} /\ stack = <<>>
    BY <1>1 DEF IInv, ScanInv
<1>4. CASE Entry \in exists
    <2>1. graph' = {Entry} /\ stack' = Append(<<>>, Frame(Entry))
        BY <1>3, <1>4 DEF BeginScan, ScanCall
    <2>2. /\ stack' \in Seq(Frames) /\ Len(stack') = 1
          /\ stack'[1].mod = Entry /\ stack'[1].next = 1
        <3>1. Frame(Entry) \in Frames /\ Frame(Entry).mod = Entry /\ Frame(Entry).next = 1
            BY EntryAssumption DEF Frame, Frames
        <3>2. stack' = <<Frame(Entry)>>
            BY <2>1
        <3> QED BY <3>1, <3>2
    <2>3. TypeOK'
        BY <1>1, <2>1, <2>2, EntryAssumption DEF IInv, TypeOK, sources
    <2>4. StackInGraph'
        <3>1. Len(imports'[Entry]) \in Nat
            BY <2>3, EntryAssumption, ImportListsAssumption DEF TypeOK
        <3> QED BY <2>1, <2>2, <3>1 DEF StackInGraph
    <2>5. ScanInv'
        <3>1. Entry \in Package
            BY <1>4, ClosureContains DEF Package
        <3>2. graph' \subseteq Package'
            BY <1>1, <2>1, <3>1, SourcesFixed
        <3> QED BY <1>1, <2>1, <2>2, <3>2 DEF ScanInv, Sorting
    <2> QED BY <1>1, <1>2, <2>3, <2>4, <2>5 DEF IInv
<1>5. CASE Entry \notin exists
    <2>1. graph' = {} /\ stack' = <<>>
        BY <1>3, <1>5 DEF BeginScan, ScanCall
    <2>2. TypeOK'
        BY <1>1, <2>1 DEF IInv, TypeOK, sources
    <2>3. StackInGraph' /\ ScanInv'
        BY <1>1, <1>5, <2>1 DEF StackInGraph, ScanInv, Sorting, sources
    <2> QED BY <1>1, <1>2, <2>2, <2>3 DEF IInv
<1> QED BY <1>4, <1>5

(* The scan goes into an import. *)
LEMMA ScanDepStep ==
    ASSUME IInv, ScanDep
    PROVE  IInv'
<1>1. /\ UNCHANGED <<sources, state, queue>>
      /\ phase = "scan" /\ phase' = "scan" /\ AtDep /\ TypeOK
    BY DEF ScanDep, IInv
<1>2. Fresh' /\ MarksInv' /\ BehindInv' /\ OrderInv' /\ ChainInv'
    BY <1>1, ScanPhases
<1> DEFINE L == Len(stack)
<1>3. /\ L \in Nat \ {0}
      /\ Dep \in Names /\ Top.mod \in Names
      /\ Top.next \in 1..Len(imports[Top.mod])
      /\ Dep \in exists => Dep \in Imported(Top.mod)
      /\ Top = stack[L]
    BY <1>1, DepType, StackShapes DEF AtDep, Top
<1>4. /\ Advanced \in Seq(Frames) /\ Len(Advanced) = L
      /\ \A k \in 1..(L - 1) : Advanced[k] = stack[k]
      /\ Advanced[L].mod = Top.mod
      /\ Advanced[L].next = Top.next + 1
    BY <1>1, StackShapes DEF AtDep
<1>5. Top.mod \in graph
    BY <1>3 DEF IInv, StackInGraph
<1>6. Dep \in exists => Dep \in Package
    BY <1>3, <1>5, ClosureClosed DEF IInv, ScanInv, Package
<1>7. Len(imports[Top.mod]) \in Nat
    BY <1>1, <1>3, ImportListsAssumption DEF TypeOK
<1>8. graph \subseteq graph' /\ graph' \subseteq graph \cup {Dep} /\ (Dep \in exists => Dep \in graph')
      /\ (Dep \in graph' \ graph => Dep \in exists)
    BY <1>1 DEF ScanDep, ScanCall
<1>9. \A k \in 1..L : /\ Advanced[k].mod = stack[k].mod
                        /\ \/ Advanced[k].next = stack[k].next
                           \/ Advanced[k].next = Top.next + 1 /\ k = L
    BY <1>3, <1>4
<1>10. \/ stack' = Advanced /\ graph' = graph /\ L = Len(stack')
       \/ /\ graph' = graph \cup {Dep} /\ Dep \notin graph
          /\ Len(stack') = L + 1
          /\ \A k \in 1..L : stack'[k] = Advanced[k]
          /\ stack'[L + 1].mod = Dep /\ stack'[L + 1].next = 1
          /\ stack' \in Seq(Frames)
    <2>1. CASE Dep \in graph \/ Dep \notin exists
        BY <1>4, <2>1 DEF ScanDep, ScanCall
    <2>2. CASE Dep \notin graph /\ Dep \in exists
        <3>1. stack' = Append(Advanced, Frame(Dep)) /\ graph' = graph \cup {Dep}
            BY <2>2 DEF ScanDep, ScanCall
        <3>2. /\ stack' \in Seq(Frames) /\ Len(stack') = L + 1
              /\ \A k \in 1..L : stack'[k] = Advanced[k]
              /\ stack'[L + 1] = Frame(Dep)
              /\ Frame(Dep).mod = Dep /\ Frame(Dep).next = 1
            BY <1>3, <1>4, <3>1, CallShape
        <3> HIDE DEF L
        <3> QED BY <2>2, <3>1, <3>2
    <2> QED BY <2>1, <2>2
<1>11. TypeOK'
    BY <1>1, <1>3, <1>4, <1>8, <1>10 DEF TypeOK, sources
<1>12. StackInGraph'
    <2>1. \A k \in 1..L : stack'[k].mod \in graph' /\ stack'[k].next <= Len(imports[stack'[k].mod]) + 1
        <3> SUFFICES ASSUME NEW k \in 1..L
            PROVE stack'[k].mod \in graph' /\ stack'[k].next <= Len(imports[stack'[k].mod]) + 1
            OBVIOUS
        <3>1. stack'[k] = Advanced[k]
            BY <1>10
        <3>2. stack[k].mod \in graph /\ stack[k].next <= Len(imports[stack[k].mod]) + 1
            BY DEF IInv, StackInGraph
        <3>3. stack'[k].mod = stack[k].mod
            BY <1>9, <3>1
        <3>4. CASE Advanced[k].next = stack[k].next
            BY <1>8, <3>1, <3>2, <3>3, <3>4
        <3>5. CASE Advanced[k].next = Top.next + 1 /\ k = L
            <4>1. stack'[k].next = Top.next + 1 /\ stack[k].mod = Top.mod
                BY <1>3, <3>1, <3>5
            <4> QED BY <1>3, <1>5, <1>7, <1>8, <3>3, <4>1
        <3> QED BY <1>9, <3>4, <3>5
    <2>2. CASE Len(stack') = L
        BY <1>1, <2>1, <2>2 DEF StackInGraph, sources
    <2>3. CASE Len(stack') = L + 1
        <3>1. stack'[L + 1].mod \in graph' /\ stack'[L + 1].next <= Len(imports[stack'[L + 1].mod]) + 1
            <4>1. stack'[L + 1].mod = Dep /\ stack'[L + 1].next = 1 /\ Dep \in graph'
                BY <1>3, <1>10, <2>3
            <4>2. Len(imports[Dep]) \in Nat
                BY <1>1, <1>3, ImportListsAssumption DEF TypeOK
            <4> QED BY <4>1, <4>2
        <3>2. \A k \in 1..Len(stack') : k \in 1..L \/ k = L + 1
            BY <1>3, <2>3
        <3> HIDE DEF L
        <3> QED BY <1>1, <2>1, <3>1, <3>2 DEF StackInGraph, sources
    <2> QED BY <1>10, <2>2, <2>3
<1>13. ScanInv'
    <2>1. graph' \subseteq Package'
        BY <1>1, <1>6, <1>8, SourcesFixed DEF IInv, ScanInv
    <2>2. Entry \in exists => Entry \in graph'
        BY <1>1, <1>8 DEF IInv, ScanInv
    <2>3. ASSUME NEW n \in graph'
          PROVE  \/ Imported(n) \subseteq graph'
                 \/ \E k \in 1..Len(stack') :
                     /\ stack'[k].mod = n
                     /\ \A i \in 1..(stack'[k].next - 1) :
                         imports[n][i] \in exists => imports[n][i] \in graph'
        <3>1. CASE n \notin graph
            BY <1>3, <1>8, <1>10, <3>1
        <3>2. CASE n \in graph /\ Imported(n) \subseteq graph
            BY <1>8, <3>2
        <3>3. CASE n \in graph /\ ~(Imported(n) \subseteq graph)
            <4>1. PICK k \in 1..L :
                    /\ stack[k].mod = n
                    /\ \A i \in 1..(stack[k].next - 1) :
                        imports[n][i] \in exists => imports[n][i] \in graph
                BY <1>1, <3>3 DEF IInv, ScanInv
            <4>2. k \in 1..Len(stack') /\ stack'[k] = Advanced[k] /\ Advanced[k].mod = n
                BY <1>3, <1>9, <1>10, <4>1
            <4>3. ASSUME NEW i \in 1..(stack'[k].next - 1), imports[n][i] \in exists
                  PROVE  imports[n][i] \in graph'
                <5>1. CASE Advanced[k].next = stack[k].next
                    BY <1>8, <4>1, <4>2, <4>3, <5>1
                <5>2. CASE Advanced[k].next = Top.next + 1 /\ k = L
                    <6>1. i \in 1..(Top.next - 1) \/ i = Top.next
                        BY <1>3, <4>2, <5>2
                    <6>2. CASE i = Top.next
                        BY <1>3, <1>8, <4>1, <4>3, <5>2, <6>2 DEF Dep
                    <6>3. CASE i \in 1..(Top.next - 1)
                        BY <1>3, <1>8, <4>1, <4>3, <5>2, <6>3
                    <6> QED BY <6>1, <6>2, <6>3
                <5> QED BY <1>9, <5>1, <5>2
            <4> QED BY <4>2, <4>3
        <3> QED BY <3>1, <3>2, <3>3
    <2> QED BY <1>1, <2>1, <2>2, <2>3, SourcesFixed DEF ScanInv, Sorting, sources
<1> QED BY <1>1, <1>2, <1>11, <1>12, <1>13 DEF IInv

(* The scan of a module ends. *)
LEMMA ScanReturnStep ==
    ASSUME IInv, ScanReturn
    PROVE  IInv'
<1>1. /\ UNCHANGED <<sources, state, queue, graph>>
      /\ phase = "scan" /\ phase' = "scan" /\ AtReturn /\ TypeOK /\ stack' = Pop
    BY DEF ScanReturn, IInv
<1>2. Fresh' /\ MarksInv' /\ BehindInv' /\ OrderInv' /\ ChainInv'
    BY <1>1, ScanPhases
<1> DEFINE L == Len(stack)
<1>3. /\ L \in Nat \ {0}
      /\ Pop \in Seq(Frames) /\ Len(Pop) = L - 1
      /\ \A k \in 1..(L - 1) : Pop[k] = stack[k]
      /\ Top = stack[L] /\ Top \in Frames
    BY <1>1, StackShapes DEF AtReturn, Top
<1>4. TypeOK'
    BY <1>1, <1>3 DEF TypeOK, sources
<1>5. StackInGraph'
    BY <1>1, <1>3, SMTT(60) DEF IInv, StackInGraph, sources
<1>6. ScanInv'
    <2>1. graph' \subseteq Package' /\ (Entry \in exists => Entry \in graph')
        BY <1>1, SourcesFixed DEF IInv, ScanInv
    <2>2. ASSUME NEW n \in graph
          PROVE  \/ Imported(n) \subseteq graph
                 \/ \E k \in 1..Len(stack') :
                     /\ stack'[k].mod = n
                     /\ \A i \in 1..(stack'[k].next - 1) :
                         imports[n][i] \in exists => imports[n][i] \in graph
        <3>1. CASE Imported(n) \subseteq graph
            BY <3>1
        <3>2. CASE ~(Imported(n) \subseteq graph)
            <4>1. PICK k \in 1..L :
                    /\ stack[k].mod = n
                    /\ \A i \in 1..(stack[k].next - 1) :
                        imports[n][i] \in exists => imports[n][i] \in graph
                BY <1>1, <3>2 DEF IInv, ScanInv
            <4>2. k # L
                <5> SUFFICES ASSUME k = L PROVE FALSE
                    OBVIOUS
                <5>1. n = Top.mod /\ Top.next - 1 >= Len(imports[n])
                    <6>1. imports[n] \in Seq(Names)
                        BY <1>1, <1>3, <4>1, ImportListsAssumption DEF TypeOK, Frames
                    <6> QED BY <1>1, <1>3, <4>1, <6>1 DEF AtReturn, Frames
                <5>2. \A i \in 1..Len(imports[n]) : imports[n][i] \in exists => imports[n][i] \in graph
                    <6>1. imports[n] \in Seq(Names)
                        BY <1>1, <1>3, <4>1, ImportListsAssumption DEF TypeOK, Frames
                    <6> QED BY <1>3, <4>1, <5>1, <6>1 DEF Frames
                <5> QED BY <3>2, <5>2 DEF Imported
            <4> QED BY <1>1, <1>3, <4>1, <4>2
        <3> QED BY <3>1, <3>2
    <2> QED BY <1>1, <2>1, <2>2, SourcesFixed DEF ScanInv, Sorting, sources
<1> QED BY <1>1, <1>2, <1>4, <1>5, <1>6 DEF IInv

(* The sort begins when the scan has reached all the modules. *)
LEMMA BeginSortStep ==
    ASSUME IInv, BeginSort
    PROVE  IInv'
<1>1. /\ UNCHANGED <<sources, graph, queue>> /\ TypeOK
      /\ phase = "scan" /\ phase' = "sort" /\ stack = <<>> /\ Len(stack) = 0
      /\ state = [n \in Names |-> "Unvisited"] /\ queue = <<>> /\ Len(queue) = 0
      /\ graph \subseteq Package /\ Package \subseteq exists /\ exists \subseteq Names
    BY DEF BeginSort, IInv, Fresh, ScanInv, Sorting, Package, Closure, TypeOK
<1>2. graph = Package
    <2>1. \A n \in graph : Imported(n) \subseteq graph
        BY <1>1 DEF IInv, ScanInv
    <2>2. {Entry} \cap exists \subseteq graph
        BY <1>1 DEF IInv, ScanInv
    <2>3. Package \subseteq graph
        BY <1>1, <2>1, <2>2, ClosureMinimal DEF Package, Closed
    <2> QED BY <1>1, <2>3
<1>3. ScanInv' /\ Fresh' /\ OrderInv' /\ phase' # "cyclic"
    BY <1>1, <1>2, SourcesFixed DEF ScanInv, Fresh, OrderInv, Sorting
<1>4. CASE Entry \in graph
    <2>1. /\ state' = [state EXCEPT ![Entry] = "Visiting"]
          /\ stack' = Append(<<>>, Frame(Entry))
        BY <1>1, <1>4 DEF BeginSort, SortCall
    <2>2. Frame(Entry) \in Frames /\ Frame(Entry).mod = Entry /\ Frame(Entry).next = 1
        BY EntryAssumption DEF Frame, Frames
    <2>3. stack' = <<Frame(Entry)>>
        BY <2>1
    <2>4. /\ stack' \in Seq(Frames) /\ Len(stack') = 1
          /\ stack'[1].mod = Entry /\ stack'[1].next = 1
        BY <2>2, <2>3
    <2>5. TypeOK'
        BY <1>1, <2>1, <2>4, EntryAssumption DEF TypeOK, VisitState, sources
    <2>6. StackInGraph'
        <3>1. Len(imports'[Entry]) \in Nat
            BY <2>5, EntryAssumption, ImportListsAssumption DEF TypeOK
        <3> QED BY <1>1, <1>4, <2>4, <3>1 DEF StackInGraph
    <2>7. MarksInv'
        BY <1>1, <1>4, <2>1, <2>4, EntryAssumption DEF MarksInv, Sorting
    <2>8. BehindInv' /\ ChainInv'
        BY <2>4 DEF BehindInv, ChainInv
    <2> QED BY <1>3, <2>5, <2>6, <2>7, <2>8 DEF IInv
<1>5. CASE Entry \notin graph
    <2>1. UNCHANGED <<state, stack>>
        BY <1>5 DEF BeginSort
    <2>2. TypeOK'
        BY <1>1, <2>1 DEF TypeOK, sources
    <2>3. StackInGraph' /\ MarksInv' /\ BehindInv' /\ ChainInv'
        BY <1>1, <1>5, <2>1 DEF StackInGraph, MarksInv, BehindInv, ChainInv, Sorting
    <2> QED BY <1>3, <2>2, <2>3 DEF IInv
<1> QED BY <1>4, <1>5

(* While sortDeps runs, the graph and what was said of it stay. *)
LEMMA SortPhases ==
    ASSUME IInv, phase = "sort", phase' \in {"sort", "queued", "cyclic"},
           UNCHANGED <<sources, graph>>
    PROVE  /\ Fresh' /\ ScanInv'
           /\ graph = Package /\ TypeOK
BY SourcesFixed DEF IInv, Fresh, ScanInv, Sorting

(* The sort passes over an import that it has been to. *)
LEMMA SkipDepStep ==
    ASSUME IInv, SkipDep
    PROVE  IInv'
<1>1. /\ UNCHANGED <<sources, phase, graph, state, queue>>
      /\ phase = "sort" /\ AtDep /\ stack' = Advanced
      /\ Dep \notin graph \/ state[Dep] = "Visited"
    BY DEF SkipDep
<1>2. Fresh' /\ ScanInv' /\ TypeOK
    BY <1>1, SortPhases
<1> DEFINE L == Len(stack)
<1>3. /\ L \in Nat \ {0}
      /\ Top.mod \in Names /\ Top = stack[L]
      /\ Top.next \in 1..Len(imports[Top.mod])
    BY <1>1, <1>2, DepType, StackShapes DEF AtDep, Top
<1>4. /\ stack' \in Seq(Frames) /\ Len(stack') = L
      /\ \A k \in 1..(L - 1) : stack'[k] = stack[k]
      /\ stack'[L].mod = Top.mod
      /\ stack'[L].next = Top.next + 1
    BY <1>1, <1>2, StackShapes DEF AtDep
<1>5. \A k \in 1..L : stack'[k].mod = stack[k].mod
    BY <1>3, <1>4
<1>6. TypeOK'
    BY <1>1, <1>2, <1>4 DEF TypeOK, sources
<1>7. StackInGraph'
    <2>1. Len(imports[Top.mod]) \in Nat
        BY <1>2, <1>3, ImportListsAssumption DEF TypeOK
    <2> SUFFICES ASSUME NEW k \in 1..L
        PROVE  /\ stack'[k].mod \in graph
               /\ stack'[k].next <= Len(imports[stack'[k].mod]) + 1
        BY <1>1, <1>4 DEF StackInGraph, sources
    <2>2. /\ stack[k].mod \in graph
          /\ stack[k].next <= Len(imports[stack[k].mod]) + 1
        BY DEF IInv, StackInGraph
    <2>3. CASE k = L
        BY <1>3, <1>4, <2>1, <2>2, <2>3
    <2>4. CASE k # L
        BY <1>3, <1>4, <2>2, <2>4
    <2> QED BY <2>3, <2>4
<1>8. MarksInv'
    BY <1>1, <1>4, <1>5 DEF IInv, MarksInv, Sorting
<1>9. BehindInv'
    <2> SUFFICES ASSUME NEW k \in 1..L, NEW i \in 1..(stack'[k].next - 1),
                        imports[stack[k].mod][i] \in graph
        PROVE  \/ state[imports[stack[k].mod][i]] = "Visited"
               \/ k < L /\ imports[stack[k].mod][i] = stack[k + 1].mod
        <3>1. \A k \in 1..L : k < L => stack'[k + 1].mod = stack[k + 1].mod
            BY <1>3, <1>5
        <3> HIDE DEF L
        <3> QED BY <1>1, <1>4, <1>5, <3>1 DEF BehindInv, sources
    <2>1. CASE i \in 1..(stack[k].next - 1)
        BY <1>1, <2>1 DEF IInv, BehindInv, Sorting
    <2>2. CASE i \notin 1..(stack[k].next - 1)
        <3>1. k = L
            BY <1>3, <1>4, <2>2
        <3>2. i = Top.next
            BY <1>3, <1>4, <2>2, <3>1
        <3> QED BY <1>1, <1>3, <3>1, <3>2 DEF Dep
    <2> QED BY <2>1, <2>2
<1>10. OrderInv' /\ phase' # "cyclic"
    BY <1>1, SourcesFixed DEF IInv, OrderInv
<1>11. ChainInv'
    <2> SUFFICES ASSUME NEW k \in 1..L, NEW l \in 1..L, k < l
        PROVE  stack[l].mod \in Closure(Imported(stack[k].mod))
        BY <1>1, <1>4, <1>5, SourcesFixed DEF ChainInv
    <2> QED BY <1>1 DEF IInv, ChainInv, Sorting
<1> QED BY <1>2, <1>6, <1>7, <1>8, <1>9, <1>10, <1>11 DEF IInv

(* The sort goes into an import that it has not been to. *)
LEMMA VisitDepStep ==
    ASSUME IInv, VisitDep
    PROVE  IInv'
<1>1. /\ UNCHANGED <<sources, phase, graph, queue>>
      /\ phase = "sort" /\ AtDep
      /\ Dep \in graph /\ state[Dep] = "Unvisited"
      /\ state' = [state EXCEPT ![Dep] = "Visiting"]
      /\ stack' = Append(Advanced, Frame(Dep))
    BY DEF VisitDep, SortCall
<1>2. Fresh' /\ ScanInv' /\ TypeOK /\ graph = Package
    BY <1>1, SortPhases
<1> DEFINE L == Len(stack)
<1>3. /\ L \in Nat \ {0}
      /\ Dep \in Names /\ Top.mod \in Names /\ Top = stack[L]
      /\ Top.next \in 1..Len(imports[Top.mod])
      /\ Dep \in exists /\ Dep \in Imported(Top.mod)
    BY <1>1, <1>2, DepType, StackShapes DEF AtDep, Top, Package, Closure
<1>4. /\ stack' \in Seq(Frames) /\ Len(stack') = L + 1
      /\ \A k \in 1..(L - 1) : stack'[k] = stack[k]
      /\ stack'[L].mod = Top.mod
      /\ stack'[L].next = Top.next + 1
      /\ stack'[L + 1].mod = Dep
      /\ stack'[L + 1].next = 1
    <2>1. /\ Advanced \in Seq(Frames) /\ Len(Advanced) = L
          /\ \A k \in 1..(L - 1) : Advanced[k] = stack[k]
          /\ Advanced[L].mod = Top.mod
          /\ Advanced[L].next = Top.next + 1
        BY <1>1, <1>2, StackShapes DEF AtDep
    <2>2. /\ stack' \in Seq(Frames) /\ Len(stack') = Len(Advanced) + 1
          /\ \A k \in 1..Len(Advanced) : stack'[k] = Advanced[k]
          /\ stack'[Len(Advanced) + 1] = Frame(Dep)
          /\ Frame(Dep).mod = Dep /\ Frame(Dep).next = 1
        BY <1>1, <1>3, <2>1, CallShape
    <2> QED BY <1>3, <2>1, <2>2
<1>5. \A k \in 1..L : stack'[k].mod = stack[k].mod
    BY <1>3, <1>4
<1> HIDE DEF L
<1>6. \A k \in 1..(L + 1) : k \in 1..L \/ k = L + 1
    BY <1>3
<1>7. TypeOK'
    BY <1>1, <1>2, <1>3, <1>4 DEF TypeOK, VisitState, sources
<1>8. StackInGraph'
    <2>1. Len(imports[Top.mod]) \in Nat /\ Len(imports[Dep]) \in Nat
        BY <1>2, <1>3, ImportListsAssumption DEF TypeOK
    <2> SUFFICES ASSUME NEW k \in 1..(L + 1)
        PROVE  /\ stack'[k].mod \in graph
               /\ stack'[k].next <= Len(imports[stack'[k].mod]) + 1
        BY <1>1, <1>4 DEF StackInGraph, sources
    <2>2. \A j \in 1..L : /\ stack[j].mod \in graph
                          /\ stack[j].next <= Len(imports[stack[j].mod]) + 1
        BY DEF IInv, StackInGraph, L
    <2>3. CASE k = L + 1
        BY <1>1, <1>4, <2>1, <2>3
    <2>4. CASE k = L
        <3>1. stack[L].mod \in graph
            BY <1>3, <2>2
        <3>2. stack'[k].mod = Top.mod /\ stack'[k].next = Top.next + 1
            BY <1>4, <2>4
        <3> QED BY <1>3, <2>1, <3>1, <3>2
    <2>5. CASE k \in 1..(L - 1)
        <3>1. k \in 1..L /\ stack'[k] = stack[k]
            BY <1>3, <1>4, <2>5
        <3> QED BY <2>2, <3>1
    <2> QED BY <1>3, <2>3, <2>4, <2>5
<1>9. \A k \in 1..L : stack[k].mod # Dep
    <2>1. state[Dep] # "Visiting"
        BY <1>1
    <2> QED BY <1>1, <1>3, <2>1 DEF IInv, MarksInv, Sorting, L
<1>10. MarksInv'
    <2>1. \A n \in Names : state'[n] = IF n = Dep THEN "Visiting" ELSE state[n]
        BY <1>1, <1>2, <1>3 DEF TypeOK
    <2>2. \A n \in Names : state'[n] = "Visited" <=> \E i \in 1..Len(queue') : queue'[i] = n
        BY <1>1, <2>1 DEF IInv, MarksInv
    <2>3. \A n \in Names : state'[n] # "Unvisited" => n \in graph'
        BY <1>1, <2>1 DEF IInv, MarksInv
    <2>4. \A n \in Names : state'[n] = "Visiting" <=> \E k \in 1..(L + 1) : stack'[k].mod = n
        <3>1. \A n \in Names : state[n] = "Visiting" <=> \E k \in 1..L : stack[k].mod = n
            BY <1>1 DEF IInv, MarksInv, Sorting, L
        <3>2. L + 1 \in 1..(L + 1) /\ 1..L \subseteq 1..(L + 1)
            BY <1>3
        <3> QED BY <1>4, <1>5, <1>6, <1>9, <2>1, <3>1, <3>2
    <2>5. \A k, l \in 1..(L + 1) : stack'[k].mod = stack'[l].mod => k = l
        <3>1. \A k, l \in 1..L : stack[k].mod = stack[l].mod => k = l
            BY <1>1 DEF IInv, MarksInv, Sorting, L
        <3> QED BY <1>4, <1>5, <1>6, <1>9, <3>1
    <2>6. Entry \in graph' => state'[Entry] # "Unvisited"
        BY <1>1, <2>1, EntryAssumption DEF IInv, MarksInv, Sorting
    <2>7. \A i, j \in 1..Len(queue') : queue'[i] = queue'[j] => i = j
        BY <1>1 DEF IInv, MarksInv
    <2> QED BY <1>1, <1>4, <2>2, <2>3, <2>4, <2>5, <2>6, <2>7, SMTT(60) DEF MarksInv
<1>11. BehindInv'
    <2> SUFFICES ASSUME NEW k \in 1..(L + 1), NEW i \in 1..(stack'[k].next - 1),
                        imports[stack'[k].mod][i] \in graph
        PROVE  \/ state'[imports[stack'[k].mod][i]] = "Visited"
               \/ k < L + 1 /\ imports[stack'[k].mod][i] = stack'[k + 1].mod
        BY <1>1, <1>4 DEF BehindInv, sources
    <2>1. CASE k = L + 1
        BY <1>4, <2>1
    <2>2. CASE k = L /\ i = Top.next
        BY <1>3, <1>4, <1>5, <2>2 DEF Dep
    <2>3. CASE k \in 1..L /\ ~(k = L /\ i = Top.next)
        <3>1. i \in 1..(stack[k].next - 1)
            BY <1>3, <1>4, <2>3
        <3>2. imports[stack[k].mod][i] \in graph /\ graph \subseteq Names
            BY <1>2, <1>5, <2>3 DEF TypeOK
        <3>3. \/ state[imports[stack[k].mod][i]] = "Visited"
              \/ k < L /\ imports[stack[k].mod][i] = stack[k + 1].mod
            BY <1>1, <2>3, <3>1, <3>2 DEF IInv, BehindInv, Sorting, L
        <3>4. CASE state[imports[stack[k].mod][i]] = "Visited"
            BY <1>1, <1>2, <1>5, <2>3, <3>2, <3>4 DEF TypeOK
        <3>5. CASE k < L /\ imports[stack[k].mod][i] = stack[k + 1].mod
            BY <1>3, <1>5, <2>3, <3>5
        <3> QED BY <3>3, <3>4, <3>5
    <2> QED BY <1>6, <2>1, <2>2, <2>3
<1>12. OrderInv' /\ phase' # "cyclic"
    <2>1. OrderInv
        BY DEF IInv
    <2>2. \A n : Imported(n)' = Imported(n)
        BY <1>1, SourcesFixed
    <2> QED BY <1>1, <2>1, <2>2, SMTT(60) DEF OrderInv
<1>13. ChainInv'
    <2> SUFFICES ASSUME NEW k \in 1..(L + 1), NEW l \in 1..(L + 1), k < l
        PROVE  stack'[l].mod \in Closure(Imported(stack'[k].mod))
        BY <1>1, <1>4, SourcesFixed DEF ChainInv
    <2>1. k \in 1..L
        BY <1>3
    <2>2. CASE l \in 1..L
        BY <1>1, <1>5, <2>1, <2>2 DEF IInv, ChainInv, Sorting, L
    <2>3. CASE l = L + 1 /\ k = L
        BY <1>3, <1>4, <2>3, ClosureContains
    <2>4. CASE l = L + 1 /\ k < L
        <3>1. Top.mod \in Closure(Imported(stack[k].mod))
            BY <1>1, <1>3, <2>1, <2>4 DEF IInv, ChainInv, Sorting, L
        <3> QED BY <1>3, <1>4, <1>5, <2>1, <2>4, <3>1, ClosureClosed
    <2> QED BY <1>3, <1>6, <2>1, <2>2, <2>3, <2>4
<1> QED BY <1>2, <1>7, <1>8, <1>10, <1>11, <1>12, <1>13 DEF IInv

(* The sort meets a module that is still on its stack. *)
LEMMA ReportCycleStep ==
    ASSUME IInv, ReportCycle
    PROVE  IInv'
<1>1. /\ UNCHANGED <<sources, graph, state, queue, stack>>
      /\ phase = "sort" /\ phase' = "cyclic" /\ AtDep
      /\ Dep \in graph /\ state[Dep] = "Visiting"
    BY DEF ReportCycle
<1>2. Fresh' /\ ScanInv' /\ TypeOK /\ graph = Package
    BY <1>1, SortPhases
<1>3. HasCycle
    <2> DEFINE L == Len(stack)
    <2>1. /\ L \in Nat \ {0} /\ Dep \in Names /\ Top = stack[L]
          /\ Dep \in Imported(Top.mod)
        BY <1>1, <1>2, DepType, StackShapes DEF AtDep, Top, Package, Closure
    <2>2. PICK k \in 1..L : stack[k].mod = Dep
        BY <1>1, <2>1 DEF IInv, MarksInv, Sorting
    <2>3. CASE k = L
        <3>1. Dep \in Imported(Dep) /\ Dep \in exists
            BY <1>1, <1>2, <2>1, <2>2, <2>3 DEF Package, Closure
        <3>2. Dep \in Closure(Imported(Dep))
            BY <3>1, ClosureContains
        <3> QED BY <1>1, <1>2, <3>2 DEF HasCycle
    <2>4. CASE k < L
        <3>1. Top.mod \in Closure(Imported(Dep))
            BY <1>1, <2>1, <2>2, <2>4 DEF IInv, ChainInv, Sorting
        <3>2. Dep \in Closure(Imported(Dep))
            BY <2>1, <3>1, ClosureClosed
        <3> QED BY <1>1, <1>2, <3>2 DEF HasCycle
    <2> QED BY <2>1, <2>3, <2>4
<1>4. HasCycle'
    BY <1>1, <1>3, SourcesFixed
<1>5. TypeOK'
    BY <1>1, <1>2 DEF TypeOK, sources
<1>6. StackInGraph' /\ MarksInv' /\ BehindInv'
    BY <1>1 DEF IInv, StackInGraph, MarksInv, BehindInv, Sorting, sources
<1>7. OrderInv' /\ ChainInv'
    <2>1. /\ \A n : Imported(n)' = Imported(n)
          /\ \A n : Closure(Imported(n))' = Closure(Imported(n))
        BY <1>1, SourcesFixed
    <2>2. OrderInv /\ ChainInv
        BY DEF IInv
    <2>3. OrderInv'
        <3>1. queue' = queue /\ \A n : Imported(n)' = Imported(n)
            BY <1>1, <2>1
        <3> QED BY <2>2, <3>1 DEF OrderInv
    <2>4. ChainInv'
        BY <1>1, <2>1, <2>2 DEF ChainInv, Sorting
    <2> QED BY <2>3, <2>4
<1> QED BY <1>2, <1>4, <1>5, <1>6, <1>7 DEF IInv

(* The sort is done. *)
LEMMA EndSortStep ==
    ASSUME IInv, EndSort
    PROVE  IInv'
<1>1. /\ UNCHANGED <<sources, graph, state, queue, stack>>
      /\ phase = "sort" /\ phase' = "queued" /\ stack = <<>>
    BY DEF EndSort
<1>2. Fresh' /\ ScanInv' /\ TypeOK
    BY <1>1, SortPhases
<1>3. TypeOK' /\ phase' # "cyclic"
    BY <1>1, <1>2 DEF TypeOK, sources
<1>4. StackInGraph' /\ MarksInv' /\ BehindInv'
    BY <1>1 DEF IInv, StackInGraph, MarksInv, BehindInv, Sorting, sources
<1>5. OrderInv' /\ ChainInv'
    BY <1>1, SourcesFixed DEF IInv, OrderInv, ChainInv, Sorting
<1> QED BY <1>2, <1>3, <1>4, <1>5 DEF IInv

(* The sort of a module ends, after those of all its imports. *)
LEMMA SortReturnStep ==
    ASSUME IInv, SortReturn
    PROVE  IInv'
<1> DEFINE L == Len(stack)
           M == Top.mod
           Q == Len(queue)
<1>1. /\ UNCHANGED <<sources, phase, graph>>
      /\ phase = "sort" /\ AtReturn
      /\ state' = [state EXCEPT ![M] = "Visited"]
      /\ queue' = Append(queue, M)
      /\ stack' = Pop
    BY DEF SortReturn
<1>2. Fresh' /\ ScanInv' /\ TypeOK /\ graph = Package
    BY <1>1, SortPhases
<1>3. /\ L \in Nat \ {0} /\ M \in Names /\ M = stack[L].mod /\ M \in graph
      /\ Top = stack[L]
      /\ stack' \in Seq(Frames) /\ Len(stack') = L - 1
      /\ \A k \in 1..(L - 1) : stack'[k] = stack[k]
    <2>1. stack # <<>>
        BY <1>1 DEF AtReturn
    <2>2. /\ L \in Nat \ {0} /\ Top = stack[L] /\ Top \in Frames
          /\ stack' \in Seq(Frames) /\ Len(stack') = L - 1
          /\ \A k \in 1..(L - 1) : stack'[k] = stack[k]
        BY <1>1, <1>2, <2>1, StackShapes DEF Top
    <2>3. M \in graph
        BY <2>2 DEF IInv, StackInGraph
    <2> QED BY <2>2, <2>3 DEF Frames
<1>4. /\ Q \in Nat /\ queue' \in Seq(Names) /\ Len(queue') = Q + 1
      /\ \A i \in 1..Q : queue'[i] = queue[i]
      /\ queue'[Q + 1] = M
    BY <1>1, <1>2, <1>3 DEF TypeOK
<1>5. state[M] = "Visiting"
    BY <1>1, <1>3 DEF IInv, MarksInv, Sorting
<1>6. \A d \in Imported(M) : state[d] = "Visited" /\ d \in graph
    <2> SUFFICES ASSUME NEW d \in Imported(M)
        PROVE  state[d] = "Visited" /\ d \in graph
        OBVIOUS
    <2>1. d \in graph
        BY <1>2, <1>3, ClosureClosed DEF Package
    <2>2. PICK i \in 1..Len(imports[M]) : imports[M][i] = d
        BY DEF Imported
    <2>3. i \in 1..(stack[L].next - 1)
        <3>1. Len(imports[M]) \in Nat
            BY <1>2, <1>3, ImportListsAssumption DEF TypeOK
        <3>2. Top \in Frames
            BY <1>1, <1>2, StackShapes DEF AtReturn
        <3>3. Top.next \in Nat /\ Top.next > Len(imports[M])
            BY <1>1, <3>2 DEF AtReturn, Frames
        <3>4. i \in 1..(Top.next - 1)
            BY <3>1, <3>3
        <3> QED BY <1>3, <3>4
    <2> QED BY <1>1, <1>3, <2>1, <2>2, <2>3 DEF IInv, BehindInv, Sorting
<1> HIDE DEF L, M, Q
<1>7. TypeOK'
    BY <1>1, <1>2, <1>3, <1>4 DEF TypeOK, VisitState, sources
<1>8. StackInGraph'
    <2>1. \A k \in 1..L : /\ stack[k].mod \in graph
                         /\ stack[k].next <= Len(imports[stack[k].mod]) + 1
        BY DEF IInv, StackInGraph, L
    <2>2. \A k \in 1..(L - 1) : k \in 1..L
        BY <1>3
    <2> QED BY <1>1, <1>3, <2>1, <2>2 DEF StackInGraph, sources
<1>9. \A n \in Names : state'[n] = IF n = M THEN "Visited" ELSE state[n]
    BY <1>1, <1>2, <1>3 DEF TypeOK
<1>10. \A i \in 1..Q : queue[i] # M
    BY <1>3, <1>5 DEF IInv, MarksInv, Q
<1>11. \A k, l \in 1..L : stack[k].mod = stack[l].mod => k = l
    BY <1>1 DEF IInv, MarksInv, Sorting, L
<1>12. MarksInv'
    <2>1. \A n \in Names : state'[n] = "Visited" <=> \E i \in 1..(Q + 1) : queue'[i] = n
        <3>1. \A n \in Names : state[n] = "Visited" <=> \E i \in 1..Q : queue[i] = n
            BY DEF IInv, MarksInv, Q
        <3>2. \A i \in 1..(Q + 1) : i \in 1..Q \/ i = Q + 1
            BY <1>4
        <3>3. 1..Q \subseteq 1..(Q + 1) /\ Q + 1 \in 1..(Q + 1)
            BY <1>4
        <3> QED BY <1>4, <1>9, <3>1, <3>2, <3>3
    <2>2. \A i, j \in 1..(Q + 1) : queue'[i] = queue'[j] => i = j
        <3>1. \A i, j \in 1..Q : queue[i] = queue[j] => i = j
            BY DEF IInv, MarksInv, Q
        <3> QED BY <1>4, <1>10, <3>1
    <2>3. \A n \in Names : state'[n] # "Unvisited" => n \in graph'
        BY <1>1, <1>3, <1>9 DEF IInv, MarksInv
    <2>4. \A n \in Names : state'[n] = "Visiting" <=> \E k \in 1..(L - 1) : stack'[k].mod = n
        <3>1. \A n \in Names : state[n] = "Visiting" <=> \E k \in 1..L : stack[k].mod = n
            BY <1>1 DEF IInv, MarksInv, Sorting, L
        <3>2. \A k \in 1..L : k \in 1..(L - 1) \/ k = L
            BY <1>3
        <3>3. 1..(L - 1) \subseteq 1..L /\ L \in 1..L /\ L \notin 1..(L - 1)
            BY <1>3
        <3> QED BY <1>3, <1>9, <1>11, <3>1, <3>2, <3>3
    <2>5. \A k, l \in 1..(L - 1) : stack'[k].mod = stack'[l].mod => k = l
        BY <1>3, <1>11
    <2>6. Entry \in graph' => state'[Entry] # "Unvisited"
        BY <1>1, <1>9, EntryAssumption DEF IInv, MarksInv, Sorting
    <2> QED BY <1>1, <1>3, <1>4, <2>1, <2>2, <2>3, <2>4, <2>5, <2>6 DEF MarksInv
<1>13. BehindInv'
    <2> SUFFICES ASSUME NEW k \in 1..(L - 1), NEW i \in 1..(stack'[k].next - 1),
                        imports[stack'[k].mod][i] \in graph
        PROVE  \/ state'[imports[stack'[k].mod][i]] = "Visited"
               \/ k < L - 1 /\ imports[stack'[k].mod][i] = stack'[k + 1].mod
        <3>1. Len(stack') = L - 1 /\ imports' = imports /\ graph' = graph
            BY <1>1, <1>3 DEF sources
        <3> QED BY <3>1 DEF BehindInv
    <2>1. stack'[k] = stack[k]
        BY <1>3
    <2>2. imports[stack[k].mod][i] \in Names
        BY <1>2, <2>1 DEF TypeOK
    <2>3. \/ state[imports[stack[k].mod][i]] = "Visited"
          \/ k < L /\ imports[stack[k].mod][i] = stack[k + 1].mod
        BY <1>1, <1>3, <2>1 DEF IInv, BehindInv, Sorting, L
    <2>4. CASE state[imports[stack[k].mod][i]] = "Visited"
        BY <1>9, <2>1, <2>2, <2>4
    <2>5. CASE k < L /\ imports[stack[k].mod][i] = stack[k + 1].mod
        <3>1. k + 1 = L \/ k + 1 \in 1..(L - 1)
            BY <1>3
        <3>2. CASE k + 1 = L
            BY <1>3, <1>9, <2>1, <2>2, <2>5, <3>2
        <3>3. CASE k + 1 \in 1..(L - 1)
            BY <1>3, <2>1, <2>5, <3>3
        <3> QED BY <3>1, <3>2, <3>3
    <2> QED BY <2>3, <2>4, <2>5
<1>14. OrderInv'
    <2>1. \A n : Imported(n)' = Imported(n)
        BY <1>1, SourcesFixed
    <2> SUFFICES ASSUME NEW i \in 1..(Q + 1), NEW d \in Imported(queue'[i])
        PROVE  \E j \in 1..(i - 1) : queue'[j] = d
        BY <1>4, <2>1 DEF OrderInv
    <2>2. CASE i \in 1..Q
        <3>1. PICK j \in 1..(i - 1) : queue[j] = d
            BY <1>4, <2>2 DEF IInv, OrderInv, Q
        <3> QED BY <1>4, <2>2, <3>1
    <2>3. CASE i = Q + 1
        <3>1. state[d] = "Visited" /\ d \in Names
            BY <1>2, <1>4, <1>6, <2>3 DEF TypeOK
        <3>2. PICK j \in 1..Q : queue[j] = d
            BY <3>1 DEF IInv, MarksInv, Q
        <3> QED BY <1>4, <2>3, <3>2
    <2> QED BY <1>4, <2>2, <2>3
<1>15. ChainInv' /\ phase' # "cyclic"
    <2>1. \A k, l \in 1..L : k < l => stack[l].mod \in Closure(Imported(stack[k].mod))
        BY <1>1 DEF IInv, ChainInv, Sorting, L
    <2>2. \A k \in 1..(L - 1) : k \in 1..L
        BY <1>3
    <2>3. \A n : Closure(Imported(n))' = Closure(Imported(n))
        BY <1>1, SourcesFixed
    <2> QED BY <1>1, <1>3, <2>1, <2>2, <2>3 DEF ChainInv
<1> QED BY <1>2, <1>7, <1>8, <1>12, <1>13, <1>14, <1>15 DEF IInv

(* A step that changes no variable keeps the invariant. *)
LEMMA StutterStep ==
    ASSUME IInv, UNCHANGED vars
    PROVE  IInv'
<1>1. UNCHANGED sources /\ UNCHANGED <<phase, graph, state, queue, stack>>
    BY DEF vars, sources
<1>2. TypeOK' /\ StackInGraph' /\ Fresh' /\ MarksInv' /\ BehindInv'
    BY <1>1 DEF IInv, TypeOK, StackInGraph, Fresh, MarksInv, BehindInv, Sorting, sources
<1>3. ScanInv' /\ OrderInv' /\ ChainInv' /\ (phase' = "cyclic" => HasCycle')
    <2>1. /\ \A n : Imported(n)' = Imported(n)
          /\ \A n : Closure(Imported(n))' = Closure(Imported(n))
          /\ Package' = Package
          /\ HasCycle' = HasCycle
        BY <1>1, SourcesFixed
    <2>2. ScanInv /\ OrderInv /\ ChainInv /\ (phase = "cyclic" => HasCycle)
        BY DEF IInv
    <2>3. ScanInv'
        BY <1>1, <2>1, <2>2 DEF ScanInv, Sorting, sources
    <2>4. OrderInv' /\ ChainInv'
        BY <1>1, <2>1, <2>2 DEF OrderInv, ChainInv, Sorting
    <2> QED BY <1>1, <2>1, <2>2, <2>3, <2>4
<1> QED BY <1>2, <1>3 DEF IInv

-----------------------------------------------------------------------------
(* What holds in every run. *)

(* IInv is an invariant: the C++ recursion never breaks its bookkeeping. *)
THEOREM Invariance == Spec => []IInv
<1>1. Init => IInv
    BY InitIInv
<1>2. IInv /\ [Next]_vars => IInv'
    BY BeginScanStep, ScanDepStep, ScanReturnStep, BeginSortStep, SkipDepStep,
       VisitDepStep, ReportCycleStep, SortReturnStep, EndSortStep, StutterStep
       DEF Next
<1> QED BY <1>1, <1>2, PTL DEF Spec

(* Every variable keeps its range. *)
THEOREM TypeCorrect == Spec => []TypeOK
<1>1. IInv => TypeOK
    BY DEF IInv
<1> QED BY <1>1, Invariance, PTL

(* The queue Build() compiles has every import before its importer. *)
THEOREM TopologicalOrder == Spec => []QueueIsTopological
<1>1. IInv => QueueIsTopological
    BY DEF IInv, OrderInv, QueueIsTopological
<1> QED BY <1>1, Invariance, PTL

(* At the end of sortDeps, what is marked Visited is the whole package. *)
LEMMA QueuedIsPackage ==
    IInv => QueueIsComplete
<1> SUFFICES ASSUME IInv, phase = "queued"
    PROVE  /\ {queue[i] : i \in 1..Len(queue)} = Package
           /\ \A i, j \in 1..Len(queue) : queue[i] = queue[j] => i = j
    BY DEF QueueIsComplete
<1> DEFINE Queued == {queue[i] : i \in 1..Len(queue)}
<1>1. /\ graph = Package /\ stack = <<>> /\ Len(stack) = 0 /\ TypeOK
      /\ \A n \in Names : state[n] = "Visited" <=> n \in Queued
    BY DEF IInv, ScanInv, MarksInv, Sorting
<1>2. Queued \subseteq Package
    BY <1>1 DEF IInv, MarksInv, TypeOK
<1>3. Closed(Queued)
    BY DEF IInv, OrderInv, Closed
<1>4. {Entry} \cap exists \subseteq Queued
    <2> SUFFICES ASSUME Entry \in exists PROVE Entry \in Queued
        OBVIOUS
    <2>1. Entry \in graph
        BY <1>1, ClosureContains DEF Package
    <2>2. state[Entry] # "Unvisited" /\ state[Entry] # "Visiting"
        BY <1>1, <2>1, EntryAssumption DEF IInv, MarksInv, Sorting
    <2>3. state[Entry] \in VisitState
        BY <1>1, EntryAssumption DEF TypeOK
    <2> QED BY <1>1, <2>2, <2>3, EntryAssumption DEF VisitState
<1>5. Queued \subseteq exists
    BY <1>2 DEF Package, Closure
<1>6. Package \subseteq Queued
    BY <1>3, <1>4, <1>5, ClosureMinimal DEF Package
<1> QED BY <1>2, <1>6 DEF IInv, MarksInv

(* The queue is the package: nothing missing, nothing foreign, nothing twice. *)
THEOREM QueueComplete == Spec => []QueueIsComplete
BY QueuedIsPackage, Invariance, PTL

(* What Build takes over is a compilation queue of the package: the assumption
   on which the incremental build is modelled, and proved about, holds of every
   queue that sortDeps leaves. *)
THEOREM QueueIsHandedOver ==
    Spec => [](phase = "queued" =>
                  IsCompilationQueue(queue, Package, [n \in Package |-> Imported(n)]))
<1>1. ASSUME IInv, phase = "queued"
      PROVE  IsCompilationQueue(queue, Package, [n \in Package |-> Imported(n)])
    <2>1. /\ {queue[i] : i \in 1..Len(queue)} = Package
          /\ \A i, j \in 1..Len(queue) : queue[i] = queue[j] => i = j
        BY <1>1, QueuedIsPackage DEF QueueIsComplete
    <2>2. queue \in Seq(Names)
        BY <1>1 DEF IInv, TypeOK
    <2>3. queue \in Seq(Package)
        BY <2>1, <2>2
    <2>4. \A i \in 1..Len(queue) : \A d \in Imported(queue[i]) :
              \E j \in 1..(i - 1) : queue[j] = d
        BY <1>1 DEF IInv, OrderInv
    <2> QED BY <2>1, <2>3, <2>4 DEF IsCompilationQueue
<1> QED BY <1>1, Invariance, PTL

(* "Cyclic dependency" is printed for the packages that have a cycle, only. *)
THEOREM VerdictCorrect == Spec => []VerdictIsRight
<1>1. IInv => VerdictIsRight
    <2> SUFFICES ASSUME IInv, phase = "queued", HasCycle PROVE FALSE
        BY DEF IInv, VerdictIsRight
    <2>1. PICK n \in Package : n \in Closure(Imported(n))
        BY DEF HasCycle
    <2>2. PICK i \in 1..Len(queue) : queue[i] = n
        BY <2>1, QueuedIsPackage DEF QueueIsComplete
    <2> DEFINE Before == {queue[j] : j \in 1..(i - 1)}
    <2>3. Closed(Before) /\ Imported(n) \subseteq Before
        <3>1. ASSUME NEW k \in 1..i, NEW d \in Imported(queue[k])
              PROVE  d \in Before
            <4>1. Len(queue) \in Nat
                BY DEF IInv, TypeOK
            <4>2. PICK j \in 1..(k - 1) : queue[j] = d
                BY <2>2, <4>1, SMTT(60) DEF IInv, OrderInv
            <4> QED BY <4>1, <4>2
        <3>2. i \in 1..i /\ \A j \in 1..(i - 1) : j \in 1..i
            OBVIOUS
        <3>3. Imported(n) \subseteq Before
            BY <2>2, <3>1, <3>2
        <3>4. ASSUME NEW m \in Before, NEW d \in Imported(m)
              PROVE  d \in Before
            <4>1. PICK j \in 1..(i - 1) : queue[j] = m
                OBVIOUS
            <4> QED BY <3>1, <3>2, <4>1
        <3>5. Closed(Before)
            BY <3>4 DEF Closed
        <3> QED BY <3>3, <3>5
    <2>4. Before \subseteq exists
        BY <2>2, QueuedIsPackage DEF QueueIsComplete, Package, Closure
    <2>5. n \in Before
        BY <2>1, <2>3, <2>4, ClosureMinimal
    <2> QED BY <2>2, <2>5, QueuedIsPackage DEF QueueIsComplete
<1> QED BY <1>1, Invariance, PTL

=============================================================================
