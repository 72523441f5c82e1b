----------------------------- MODULE ImportGraph -----------------------------
(***************************************************************************)
(* How the build driver turns the import statements of a package into a    *)
(* compilation queue: BuildDriver::scanDeps collects the files reachable   *)
(* from the entry point, BuildDriver::sortDeps orders them depth first and *)
(* stops the build on a cyclic import (stage0/src/driver/build.cpp).       *)
(*                                                                         *)
(* Both functions are recursive.  Their C++ call stack is the variable     *)
(* "stack": a frame holds the module being visited and the index of the    *)
(* next entry of its Deps vector.  A step of the model is one iteration of *)
(* the loop over Deps, or one return.                                      *)
(***************************************************************************)
EXTENDS Naturals, Sequences

CONSTANTS
    Names,        \* the import paths that occur in the package
    Entry,        \* the import path of the entry point
    ImportLists   \* the import lists a file may have (bounds the instance)

ASSUME EntryAssumption == Entry \in Names
ASSUME ImportListsAssumption == ImportLists \subseteq Seq(Names)

VARIABLES
    imports,   \* imports[n]: what resolveDeps finds in the file of n
    exists,    \* the import paths that have a file under src/
    phase,     \* where Build() is, "cyclic" once it has called exit(1)
    graph,     \* the keys of _graph
    state,     \* File.State of every module
    queue,     \* _compilationQueue
    stack      \* the frames of scanDeps, then of sortDeps

vars == <<imports, exists, phase, graph, state, queue, stack>>
sources == <<imports, exists>>

VisitState == {"Unvisited", "Visiting", "Visited"}
Frames == [mod : Names, next : Nat \ {0}]

Frame(n) == [mod |-> n, next |-> 1]
Top == stack[Len(stack)]
Pop == SubSeq(stack, 1, Len(stack) - 1)

(* Mutant: the loop does not move on.                                      *)
NotAdvanced == stack

(* The top frame after its loop has moved past the current dependency.     *)
Advanced == [stack EXCEPT ![Len(stack)].next = @ + 1]

AtDep == stack # <<>> /\ Top.next <= Len(imports[Top.mod])
AtReturn == stack # <<>> /\ Top.next > Len(imports[Top.mod])
Dep == imports[Top.mod][Top.next]

-----------------------------------------------------------------------------

Init ==
    /\ imports \in [Names -> ImportLists]
    /\ exists \in SUBSET Names
    /\ phase = "start"
    /\ graph = {}
    /\ state = [n \in Names |-> "Unvisited"]
    /\ queue = <<>>
    /\ stack = <<>>

(* scanDeps(n), when n is not a key of _graph: a missing file is skipped   *)
(* silently, a file is recorded before its own imports are followed.       *)
ScanCall(n, callers) ==
    IF n \in exists
    THEN /\ graph' = graph \cup {n}
         /\ stack' = Append(callers, Frame(n))
    ELSE /\ stack' = callers
         /\ UNCHANGED graph

BeginScan ==
    /\ phase = "start"
    /\ phase' = "scan"
    /\ ScanCall(Entry, <<>>)
    /\ UNCHANGED <<sources, state, queue>>

ScanDep ==
    /\ phase = "scan"
    /\ AtDep
    /\ IF Dep \in graph
       THEN stack' = Advanced /\ UNCHANGED graph
       ELSE ScanCall(Dep, Advanced)
    /\ UNCHANGED <<sources, phase, state, queue>>

ScanReturn ==
    /\ phase = "scan"
    /\ AtReturn
    /\ stack' = Pop
    /\ UNCHANGED <<sources, phase, graph, state, queue>>

(* sortDeps(n) for a module that is in _graph and not yet visited.         *)
SortCall(n, callers) ==
    /\ state' = [state EXCEPT ![n] = "Visiting"]
    /\ stack' = Append(callers, Frame(n))

BeginSort ==
    /\ phase = "scan"
    /\ stack = <<>>
    /\ phase' = "sort"
    /\ IF Entry \in graph
       THEN SortCall(Entry, <<>>)
       ELSE UNCHANGED <<state, stack>>
    /\ UNCHANGED <<sources, graph, queue>>

(* A dependency without a file, or one that is already in the queue.       *)
SkipDep ==
    /\ phase = "sort"
    /\ AtDep
    /\ Dep \notin graph \/ state[Dep] = "Visited"
    /\ stack' = Advanced
    /\ UNCHANGED <<sources, phase, graph, state, queue>>

(* Mutant: the test for "Visited" is dropped.                              *)
VisitDepAgain ==
    /\ phase = "sort"
    /\ AtDep
    /\ Dep \in graph
    /\ state[Dep] # "Visiting"
    /\ SortCall(Dep, Advanced)
    /\ UNCHANGED <<sources, phase, graph, queue>>

VisitDep ==
    /\ phase = "sort"
    /\ AtDep
    /\ Dep \in graph
    /\ state[Dep] = "Unvisited"
    /\ SortCall(Dep, Advanced)
    /\ UNCHANGED <<sources, phase, graph, queue>>

(* Mutant: a module that is in the queue already counts as a cycle.        *)
ReportCycleOrDiamond ==
    /\ phase = "sort"
    /\ AtDep
    /\ Dep \in graph
    /\ state[Dep] # "Unvisited"
    /\ phase' = "cyclic"
    /\ UNCHANGED <<sources, graph, state, queue, stack>>

(* "Cyclic dependency detected": the process exits.                        *)
ReportCycle ==
    /\ phase = "sort"
    /\ AtDep
    /\ Dep \in graph
    /\ state[Dep] = "Visiting"
    /\ phase' = "cyclic"
    /\ UNCHANGED <<sources, graph, state, queue, stack>>

(* Mutant: importers before the modules they import.                       *)
SortReturnReversed ==
    /\ phase = "sort"
    /\ AtReturn
    /\ state' = [state EXCEPT ![Top.mod] = "Visited"]
    /\ queue' = <<Top.mod>> \o queue
    /\ stack' = Pop
    /\ UNCHANGED <<sources, phase, graph>>

SortReturn ==
    /\ phase = "sort"
    /\ AtReturn
    /\ state' = [state EXCEPT ![Top.mod] = "Visited"]
    /\ queue' = Append(queue, Top.mod)
    /\ stack' = Pop
    /\ UNCHANGED <<sources, phase, graph>>

(* Build() goes on to compile the queue.                                   *)
EndSort ==
    /\ phase = "sort"
    /\ stack = <<>>
    /\ phase' = "queued"
    /\ UNCHANGED <<sources, graph, state, queue, stack>>

Next ==
    \/ BeginScan \/ ScanDep \/ ScanReturn
    \/ BeginSort \/ SkipDep \/ VisitDep \/ ReportCycle \/ SortReturn \/ EndSort

(* The driver is a single sequential process: it keeps running until it    *)
(* exits or hands over the queue.                                          *)
Spec == Init /\ [][Next]_vars /\ WF_vars(Next)

-----------------------------------------------------------------------------
(* What the traversal is compared with: reachability as the least set that *)
(* is closed under imports, with no reference to the order of the visit.   *)

Imported(n) == {d \in exists : \E i \in 1..Len(imports[n]) : imports[n][i] = d}

Closed(S) == \A n \in S : Imported(n) \subseteq S

(* The files that importing every member of T brings in.                   *)
Closure(T) ==
    {n \in exists : \A S \in SUBSET exists : T \subseteq S /\ Closed(S) => n \in S}

Package == Closure({Entry} \cap exists)

HasCycle == \E n \in Package : n \in Closure(Imported(n))

-----------------------------------------------------------------------------

(* Every variable keeps its range; in particular a frame never points before the
   first entry of its Deps vector. *)
TypeOK ==
    /\ imports \in [Names -> ImportLists]
    /\ exists \subseteq Names
    /\ phase \in {"start", "scan", "sort", "queued", "cyclic"}
    /\ graph \subseteq Names
    /\ state \in [Names -> VisitState]
    /\ queue \in Seq(Names)
    /\ stack \in Seq(Frames)

(* Build() compiles the queue from front to back and an import statement   *)
(* only finds modules that are already loaded: every file a queued file    *)
(* imports must come strictly before it.                                   *)
QueueIsTopological ==
    phase = "queued" =>
        \A i \in 1..Len(queue) : \A d \in Imported(queue[i]) :
            \E j \in 1..(i - 1) : queue[j] = d

(* No file of the package is missing from the queue, nothing outside the   *)
(* package is compiled, and nothing is compiled or linked twice.           *)
QueueIsComplete ==
    phase = "queued" =>
        /\ {queue[i] : i \in 1..Len(queue)} = Package
        /\ \A i, j \in 1..Len(queue) : queue[i] = queue[j] => i = j

(* The build is refused with "Cyclic dependency" exactly when some module  *)
(* of the package reaches itself; two paths to one module are no cycle.    *)
VerdictIsRight ==
    /\ phase = "cyclic" => HasCycle
    /\ phase = "queued" => ~HasCycle

(* Neither recursion runs forever, whatever cycles the imports have.       *)
Terminates == <>(phase \in {"queued", "cyclic"})

=============================================================================
