--------------------------- MODULE CompilationQueue ---------------------------
(* What passes from sortDeps to Build (stage0/src/driver/build.cpp): the    *)
(* field _compilationQueue.  ImportGraph fills it, BuildCache walks it; this *)
(* is what the one promises and the other relies on.                        *)
EXTENDS Naturals, Sequences

(* The modules of the queue are those, each once, and behind its imports.   *)
IsCompilationQueue(queue, modules, deps) ==
    /\ queue \in Seq(modules)
    /\ modules = {queue[i] : i \in 1..Len(queue)}
    /\ \A i, j \in 1..Len(queue) : queue[i] = queue[j] => i = j
    /\ \A i \in 1..Len(queue) : \A d \in deps[queue[i]] :
        \E j \in 1..(i - 1) : queue[j] = d

===============================================================================
