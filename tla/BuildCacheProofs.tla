--------------------------- MODULE BuildCacheProofs ---------------------------
(* Proofs about BuildCache for every package, every text of its files and any
   clock, whether or not sources are saved while veoc is running.

   The argument: an artefact that is newer than its source was written after
   the last save, and, as long as nobody saves during a build, from the text
   that is still there; so is what the loader holds, and with it the code of
   the modules that the loop has behind it.  And the only way out of a
   compilation between its two files, other than a kill, goes through
   SerializeModule, which writes what is in memory.                           *)
EXTENDS BuildCache, TLAPS

AtWork == {"read", "openObj", "writeObj", "openVmeta", "writeVmeta"}
Holding == AtWork \ {"read"}

(* The source buffer is that of one text, and there only while a module is
   compiled; the loop is over when the C sources are compiled. *)
UnitInv ==
    /\ AtMostOne(unit)
    /\ unit # {} => pc \in AtWork
    /\ pc \in Holding => unit # {}
    /\ pc \in {"csources", "link"} => pos = Len(Queue) + 1

(* No file is of the future. *)
TimesInv ==
    \A m \in Modules :
        /\ src[m].mtime <= clock
        /\ obj[m].mtime <= clock
        /\ vmeta[m].mtime <= clock

(* If sources are saved between builds only: what is newer than its source is
   of the present text; so is what a build has in memory, what it has behind
   it, and what the modules in memory declare. *)
ObjCurrent(m) == \A c \in obj[m].data : c.text = src[m].text
CurrentInv ==
    ~EditDuringBuild =>
        /\ \A m \in Modules : obj[m].mtime > src[m].mtime => ObjCurrent(m)
        /\ \A m \in Modules : vmeta[m].mtime > src[m].mtime =>
                                  \A t \in vmeta[m].data : t = src[m].text
        /\ \A t \in unit : t = src[Cur].text
        /\ pc \in {"openVmeta", "writeVmeta"} => ObjCurrent(Cur)
        /\ pc \in InBuild =>
            /\ \A d \in Modules : \A i \in loader[d] : i.sig = src[d].text.sig
            /\ \A j \in 1..(pos - 1) : ObjCurrent(Queue[j])

(* If nothing was killed: the two files of a module agree, the object file
   with the source buffer until the metadata are written, and both files of
   every module that the loop has behind it are there. *)
BothThere(m) == obj[m].there /\ vmeta[m].there
PairsInv ==
    ~dirty =>
        /\ pc \in {"writeObj", "openVmeta", "writeVmeta"} => obj[Cur].there
        /\ pc \in {"openVmeta", "writeVmeta"} => \E c \in obj[Cur].data : unit = {c.text}
        /\ pc \in InBuild => \A j \in 1..(pos - 1) : BothThere(Queue[j])

IInv == TypeOK /\ UnitInv /\ TimesInv /\ CurrentInv /\ SkewIsVisible /\ PairsAgree /\ PairsInv

-----------------------------------------------------------------------------

(* The compilation queue is a finite sequence of all the modules. *)
LEMMA QueueFacts ==
    /\ Len(Queue) \in Nat
    /\ \A i \in 1..Len(Queue) : Queue[i] \in Modules
    /\ \A m \in Modules : \E i \in 1..Len(Queue) : Queue[i] = m
BY QueueAssumption DEF IsCompilationQueue

(* The empty build directory satisfies the inductive invariant. *)
LEMMA InitIInv == Init => IInv
<1> SUFFICES ASSUME Init PROVE IInv
    OBVIOUS
<1>1. TypeOK
    <2>1. src \in [Modules -> [text : Text, mtime : Nat]]
        <3>1. \A m \in Modules : Texts[m] \subseteq Text
            BY TextsAssumption
        <3> QED BY <3>1 DEF Init
    <2>2. NoFile \in File(Code) /\ NoFile \in File(Text) /\ NoFile.data = {}
        BY DEF NoFile, File
    <2>3. 1 \in 1..(Len(Queue) + 1)
        BY QueueFacts
    <2> QED BY <2>1, <2>2, <2>3 DEF Init, TypeOK, InBuild, AtMostOne
<1>2. UnitInv /\ SkewIsVisible /\ PairsAgree /\ PairsInv
    BY DEF Init, UnitInv, SkewIsVisible, PairsAgree, PairsInv, AtMostOne, NoFile, Holding,
           AtWork, InBuild
<1>3. TimesInv
    <2>1. ASSUME NEW m \in Modules PROVE src[m].mtime = 0
        <3>1. src[m] \in {[text |-> t, mtime |-> 0] : t \in UNION {Texts[n] : n \in Modules}}
            BY DEF Init
        <3> QED BY <3>1
    <2>2. \A m \in Modules : obj[m].mtime = 0 /\ vmeta[m].mtime = 0
        BY DEF Init, NoFile
    <2>3. clock = 1
        BY DEF Init
    <2>4. 0 <= 1
        OBVIOUS
    <2> QED BY <2>1, <2>2, <2>3, <2>4 DEF TimesInv
<1>4. CurrentInv
    BY DEF Init, CurrentInv, ObjCurrent, NoFile, InBuild
<1> QED BY <1>1, <1>2, <1>3, <1>4 DEF IInv

-----------------------------------------------------------------------------
(* The environment.                                                         *)

(* A new text has a time that no artefact is newer than. *)
LEMMA EditStep ==
    ASSUME IInv, NEW m \in Modules, NEW t \in Texts[m], Edit(m, t)
    PROVE  IInv'
<1> USE DEF IInv
<1>1. /\ src' = [src EXCEPT ![m] = [text |-> t, mtime |-> clock]]
      /\ UNCHANGED <<obj, vmeta, exe, clock, pc, pos, loader, unit, dirty, EditDuringBuild>>
    BY DEF Edit, process, history
<1>2. TypeOK'
    <2>1. t \in Text /\ clock \in Nat
        BY TextsAssumption DEF TypeOK
    <2>2. src' \in [Modules -> [text : Text, mtime : Nat]]
        BY <1>1, <2>1 DEF TypeOK
    <2> QED BY <1>1, <2>2 DEF TypeOK
<1>3. UnitInv' /\ PairsAgree' /\ PairsInv'
    BY <1>1 DEF UnitInv, PairsAgree, PairsInv, Compiling, Cur, BothThere
<1>4. /\ \A n \in Modules \ {m} : src'[n] = src[n]
      /\ src'[m].text = t /\ src'[m].mtime = clock
    BY <1>1 DEF TypeOK
<1>5. TimesInv'
    BY <1>1, <1>4 DEF TimesInv, TypeOK
<1>6. ~(obj[m].mtime > clock) /\ ~(vmeta[m].mtime > clock)
    BY DEF TimesInv, TypeOK, File
<1>7. CurrentInv'
    <2> SUFFICES ASSUME ~EditDuringBuild PROVE CurrentInv'
        BY <1>1 DEF CurrentInv
    <2>1. ~Running /\ unit = {} /\ pc \notin InBuild
        BY DEF Edit, Running, UnitInv, AtWork, InBuild
    <2>2. ASSUME NEW n \in Modules
          PROVE  /\ obj'[n].mtime > src'[n].mtime => \A c \in obj'[n].data : c.text = src'[n].text
                 /\ vmeta'[n].mtime > src'[n].mtime => \A x \in vmeta'[n].data : x = src'[n].text
        <3>1. CASE n = m
            BY <1>1, <1>4, <1>6, <3>1
        <3>2. CASE n # m
            BY <1>1, <1>4, <3>2 DEF CurrentInv, ObjCurrent
        <3> QED BY <3>1, <3>2
    <2>3. unit' = {} /\ pc' \notin InBuild /\ pc' \notin {"openVmeta", "writeVmeta"}
        BY <1>1, <2>1 DEF InBuild
    <2> QED BY <2>2, <2>3 DEF CurrentInv, ObjCurrent
<1>8. SkewIsVisible'
    <2> SUFFICES ASSUME ~EditDuringBuild, NEW n \in Modules, NEW c \in obj[n].data,
                        NEW p \in c.seen, p[2] # src'[p[1]].text.sig
                 PROVE  src'[p[1]].mtime >= obj[n].mtime
        BY <1>1 DEF SkewIsVisible
    <2>1. p[1] \in Modules
        BY DEF TypeOK, File, Code
    <2>2. CASE p[1] = m
        BY <1>4, <2>2 DEF TimesInv, TypeOK, File
    <2>3. CASE p[1] # m
        BY <1>4, <2>1, <2>3 DEF SkewIsVisible
    <2> QED BY <2>2, <2>3
<1> QED BY <1>2, <1>3, <1>5, <1>7, <1>8

(* Time goes on: the files stay no newer than the clock. *)
LEMMA TickStep ==
    ASSUME IInv, Tick
    PROVE  IInv'
<1>1. /\ clock \in Nat /\ clock' = clock + 1
      /\ UNCHANGED <<src, obj, vmeta, exe, pc, pos, loader, unit, dirty, EditDuringBuild>>
    BY DEF Tick, process, history, IInv, TypeOK
<1>2. TypeOK'
    BY <1>1 DEF IInv, TypeOK
<1>3. TimesInv'
    <2> SUFFICES ASSUME NEW m \in Modules
                 PROVE  src[m].mtime <= clock' /\ obj[m].mtime <= clock' /\ vmeta[m].mtime <= clock'
        BY <1>1 DEF TimesInv
    <2> QED BY <1>1 DEF IInv, TimesInv, TypeOK, File
<1>4. UnitInv' /\ CurrentInv' /\ SkewIsVisible' /\ PairsAgree' /\ PairsInv'
    BY <1>1 DEF IInv, UnitInv, CurrentInv, SkewIsVisible, PairsAgree, PairsInv, Compiling, Cur,
                BothThere, ObjCurrent
<1> QED BY <1>2, <1>3, <1>4 DEF IInv

(* A process that ends, or is not running, with files that did not change. *)
LEMMA AtRestStep ==
    ASSUME IInv, UNCHANGED <<src, obj, vmeta, clock, EditDuringBuild>>,
           exe' \subseteq [Modules -> Code],
           pc' \in {"idle", "clean"}, unit' = {}, pos' \in 1..(Len(Queue) + 1),
           loader' \in [Modules -> SUBSET Iface],
           dirty' \in BOOLEAN,
           dirty' \/ (dirty' = dirty /\ pc \notin {"writeObj", "openVmeta", "writeVmeta"})
    PROVE  IInv'
<1>1. TypeOK'
    BY DEF IInv, TypeOK, InBuild
<1>2. UnitInv'
    BY DEF UnitInv, AtMostOne, Holding, AtWork
<1>3. TimesInv' /\ SkewIsVisible'
    BY DEF IInv, TimesInv, SkewIsVisible
<1>4. CurrentInv'
    BY DEF IInv, CurrentInv, ObjCurrent, InBuild
<1>5. PairsAgree'
    BY DEF IInv, PairsAgree, Compiling
<1>6. PairsInv'
    BY DEF PairsInv, InBuild
<1> QED BY <1>1, <1>2, <1>3, <1>4, <1>5, <1>6 DEF IInv

(* An exit of veoc takes its memory with it and leaves the files alone. *)
LEMMA ExitFacts ==
    ASSUME IInv, Exit
    PROVE  /\ pc' = "idle" /\ unit' = {} /\ pos' \in 1..(Len(Queue) + 1)
           /\ loader' \in [Modules -> SUBSET Iface]
BY QueueFacts DEF Exit

(* The executable, whatever build linked it, is made of code. *)
LEMMA ExeFacts == IInv => exe \subseteq [Modules -> Code] /\ dirty \in BOOLEAN
BY DEF IInv, TypeOK

(* The exits of a build, and the start of a clean, touch no file of a module. *)
LEMMA EndSteps ==
    ASSUME IInv, Crash \/ StartClean \/ LoadFails \/ RejectSource \/ CannotOpenObject \/ LinkFails
    PROVE  IInv'
<1>1. CASE Crash
    BY <1>1, ExitFacts, ExeFacts, AtRestStep DEF Crash
<1>2. CASE StartClean
    <2>1. unit = {} /\ pc \notin {"writeObj", "openVmeta", "writeVmeta"}
        BY <1>2 DEF StartClean, Running, InBuild, IInv, UnitInv, AtWork
    <2>2. pos \in 1..(Len(Queue) + 1) /\ loader \in [Modules -> SUBSET Iface]
        BY DEF IInv, TypeOK
    <2> QED BY <1>2, <2>1, <2>2, ExeFacts, AtRestStep DEF StartClean, history
<1>3. CASE LoadFails
    BY <1>3, ExitFacts, ExeFacts, AtRestStep DEF LoadFails, history
<1>4. CASE RejectSource
    BY <1>4, ExitFacts, ExeFacts, AtRestStep DEF RejectSource, history
<1>5. CASE CannotOpenObject
    BY <1>5, ExitFacts, ExeFacts, AtRestStep DEF CannotOpenObject, history
<1>6. CASE LinkFails
    BY <1>6, ExitFacts, ExeFacts, AtRestStep DEF LinkFails, history
<1> QED BY <1>1, <1>2, <1>3, <1>4, <1>5, <1>6

-----------------------------------------------------------------------------
(* veoc clean.                                                              *)

(* A missing file is a file, of code or of metadata, with nothing in it. *)
LEMMA NoFileFacts ==
    /\ NoFile \in File(Code) /\ NoFile \in File(Text)
    /\ NoFile.data = {} /\ NoFile.mtime = 0 /\ ~NoFile.there
BY DEF NoFile, File

(* veoc clean removes one file: what is gone disagrees with nothing. *)
LEMMA RemoveFileStep ==
    ASSUME IInv, RemoveFile
    PROVE  IInv'
<1>1. /\ pc = "clean"
      /\ UNCHANGED <<src, clock, pc, pos, loader, unit, dirty, EditDuringBuild>>
    BY DEF RemoveFile, process, history
<1>2. /\ \A m \in Modules : obj'[m] \in {obj[m], NoFile} /\ vmeta'[m] \in {vmeta[m], NoFile}
      /\ obj' \in [Modules -> File(Code)] /\ vmeta' \in [Modules -> File(Text)]
      /\ exe' \subseteq [Modules -> Code]
    <2>1. CASE \E m \in Modules : obj' = [obj EXCEPT ![m] = NoFile] /\ UNCHANGED <<vmeta, exe>>
        BY <2>1, NoFileFacts DEF IInv, TypeOK
    <2>2. CASE \E m \in Modules : vmeta' = [vmeta EXCEPT ![m] = NoFile] /\ UNCHANGED <<obj, exe>>
        BY <2>2, NoFileFacts DEF IInv, TypeOK
    <2>3. CASE exe' = {} /\ UNCHANGED <<obj, vmeta>>
        BY <2>3 DEF IInv, TypeOK
    <2> QED BY <2>1, <2>2, <2>3 DEF RemoveFile
<1>3. TypeOK'
    BY <1>1, <1>2, NoFileFacts DEF IInv, TypeOK, AtMostOne
<1>4. UnitInv'
    BY <1>1 DEF IInv, UnitInv
<1>5. TimesInv'
    <2>1. 0 <= clock
        BY DEF IInv, TypeOK
    <2> QED BY <1>1, <1>2, <2>1, NoFileFacts DEF IInv, TimesInv
<1>6. CurrentInv'
    <2>1. pc' \notin InBuild /\ unit' = {}
        BY <1>1 DEF InBuild, IInv, UnitInv, AtWork
    <2> QED BY <1>1, <1>2, <2>1, NoFileFacts DEF IInv, CurrentInv, ObjCurrent
<1>7. SkewIsVisible'
    BY <1>1, <1>2, NoFileFacts DEF IInv, SkewIsVisible
<1>8. PairsAgree' /\ PairsInv'
    BY <1>1, <1>2, NoFileFacts DEF IInv, PairsAgree, PairsInv, Compiling, InBuild
<1> QED BY <1>3, <1>4, <1>5, <1>6, <1>7, <1>8 DEF IInv

(* Afterwards nothing is there that could disagree. *)
LEMMA EndCleanStep ==
    ASSUME IInv, EndClean
    PROVE  IInv'
<1>1. /\ pc = "clean" /\ pc' = "cleaned" /\ dirty' = FALSE
      /\ \A m \in Modules : ~obj[m].there /\ ~vmeta[m].there
      /\ UNCHANGED <<src, obj, vmeta, exe, clock, pos, loader, unit, EditDuringBuild>>
    BY DEF EndClean
<1>2. TypeOK'
    BY <1>1 DEF IInv, TypeOK, InBuild
<1>3. UnitInv'
    BY <1>1 DEF IInv, UnitInv, AtWork, Holding
<1>4. TimesInv' /\ SkewIsVisible'
    BY <1>1 DEF IInv, TimesInv, SkewIsVisible
<1>5. CurrentInv'
    <2>1. pc' \notin InBuild /\ unit' = {}
        BY <1>1 DEF InBuild, IInv, UnitInv, AtWork
    <2> QED BY <1>1, <2>1 DEF IInv, CurrentInv, ObjCurrent
<1>6. PairsAgree' /\ PairsInv'
    BY <1>1 DEF PairsAgree, PairsInv, InBuild
<1> QED BY <1>2, <1>3, <1>4, <1>5, <1>6 DEF IInv

-----------------------------------------------------------------------------
(* The loop over the queue.                                                 *)

(* A build starts with an empty module pool. *)
LEMMA StartBuildStep ==
    ASSUME IInv, StartBuild
    PROVE  IInv'
<1>1. /\ ~Running
      /\ pos' = 1 /\ pc' = Turn(1) /\ loader' = [m \in Modules |-> {}] /\ unit' = {}
      /\ UNCHANGED <<src, obj, vmeta, exe, clock, dirty, EditDuringBuild>>
    BY DEF StartBuild, history
<1>2. /\ pc' \in {"check", "csources"}
      /\ pc' = "check" => pos' <= Len(Queue)
      /\ pc' = "csources" => pos' = Len(Queue) + 1
      /\ pos' \in 1..(Len(Queue) + 1) /\ 1..(pos' - 1) = {}
    BY <1>1, QueueFacts DEF Turn
<1>3. TypeOK'
    BY <1>1, <1>2 DEF IInv, TypeOK, InBuild
<1>4. UnitInv'
    BY <1>1, <1>2 DEF UnitInv, AtMostOne, AtWork, Holding
<1>5. TimesInv' /\ SkewIsVisible'
    BY <1>1 DEF IInv, TimesInv, SkewIsVisible
<1>6. CurrentInv'
    BY <1>1, <1>2 DEF IInv, CurrentInv, ObjCurrent
<1>7. PairsAgree' /\ PairsInv'
    BY <1>1, <1>2 DEF IInv, PairsAgree, PairsInv, Compiling, Running, InBuild
<1> QED BY <1>3, <1>4, <1>5, <1>6, <1>7 DEF IInv

(* What moving on to the next module does to the loop. *)
LEMMA NextModuleFacts ==
    ASSUME IInv, NextModule, pc \in AtWork \cup {"check"}
    PROVE  /\ pc' \in {"check", "csources"}
           /\ pc' = "check" => pos' <= Len(Queue)
           /\ pc' = "csources" => pos' = Len(Queue) + 1
           /\ pos' \in 1..(Len(Queue) + 1)
           /\ Cur \in Modules
           /\ \A j \in 1..(pos' - 1) : j \in 1..(pos - 1) \/ Queue[j] = Cur
           /\ pc \in InBuild
<1>1. pos \in 1..Len(Queue) /\ Len(Queue) \in Nat
    BY QueueFacts DEF IInv, TypeOK, AtWork
<1>2. Cur \in Modules
    BY <1>1, QueueFacts DEF Cur
<1>3. pos' = pos + 1 /\ pc' = Turn(pos + 1)
    BY DEF NextModule
<1>4. \A j \in 1..(pos' - 1) : j \in 1..(pos - 1) \/ Queue[j] = Cur
    BY <1>1, <1>3 DEF Cur
<1>5. /\ pc' \in {"check", "csources"}
      /\ pc' = "check" => pos' <= Len(Queue)
      /\ pc' = "csources" => pos' = Len(Queue) + 1
      /\ pos' \in 1..(Len(Queue) + 1)
    BY <1>1, <1>3 DEF Turn
<1> QED BY <1>2, <1>4, <1>5 DEF AtWork, InBuild

(* Where veoc is inside the loop the module at hand is one of the package. *)
LEMMA CurFacts ==
    ASSUME IInv, pc \in AtWork \cup {"check"}
    PROVE  Cur \in Modules /\ pc \in InBuild /\ Running /\ pos \in 1..Len(Queue)
<1>1. pos \in 1..Len(Queue)
    BY QueueFacts DEF IInv, TypeOK, AtWork
<1> QED BY <1>1, QueueFacts DEF Cur, AtWork, InBuild, Running

(* What looks fresh is of the present text, and so is what is loaded. *)
LEMMA LoadCachedStep ==
    ASSUME IInv, LoadCached
    PROVE  IInv'
<1>1. /\ pc = "check" /\ isArtefactsFresh(Cur) /\ NextModule
      /\ UNCHANGED <<src, obj, vmeta, exe, clock, unit, dirty, EditDuringBuild>>
    BY DEF LoadCached, history
<1>2. PICK t \in vmeta[Cur].data : loader' = [loader EXCEPT ![Cur] = {Deserialized(t)}]
    BY DEF LoadCached
<1>3. /\ pc' \in {"check", "csources"}
      /\ pc' = "check" => pos' <= Len(Queue)
      /\ pc' = "csources" => pos' = Len(Queue) + 1
      /\ pos' \in 1..(Len(Queue) + 1)
      /\ Cur \in Modules
      /\ \A j \in 1..(pos' - 1) : j \in 1..(pos - 1) \/ Queue[j] = Cur
      /\ pc \in InBuild
    BY <1>1, NextModuleFacts
<1>4. unit = {}
    BY <1>1 DEF IInv, UnitInv, AtWork
<1>5. TypeOK'
    <2>1. t \in Text
        BY <1>3 DEF IInv, TypeOK, File
    <2>2. Deserialized(t) \in Iface
        BY <2>1 DEF Deserialized, Iface, Text
    <2>3. loader' \in [Modules -> SUBSET Iface]
        BY <1>2, <2>2 DEF IInv, TypeOK
    <2> QED BY <1>1, <1>3, <2>3 DEF IInv, TypeOK, InBuild
<1>6. UnitInv'
    BY <1>1, <1>3, <1>4 DEF UnitInv, AtMostOne, AtWork, Holding
<1>7. TimesInv' /\ SkewIsVisible'
    BY <1>1 DEF IInv, TimesInv, SkewIsVisible
<1>8. CurrentInv'
    <2> SUFFICES ASSUME ~EditDuringBuild PROVE CurrentInv'
        BY <1>1 DEF CurrentInv
    <2>1. t = src[Cur].text /\ ObjCurrent(Cur)
        BY <1>1, <1>3 DEF IInv, CurrentInv, isArtefactsFresh
    <2>2. ASSUME NEW d \in Modules, NEW i \in loader'[d] PROVE i.sig = src[d].text.sig
        <3>1. CASE d = Cur
            BY <1>2, <1>3, <2>1, <3>1 DEF Deserialized, IInv, TypeOK
        <3>2. CASE d # Cur
            BY <1>2, <1>3, <3>2 DEF IInv, TypeOK, CurrentInv
        <3> QED BY <3>1, <3>2
    <2>3. \A j \in 1..(pos' - 1) : \A c \in obj'[Queue[j]].data : c.text = src'[Queue[j]].text
        <3>1. \A j \in 1..(pos' - 1) : ObjCurrent(Queue[j])
            BY <1>3, <2>1 DEF IInv, CurrentInv
        <3> QED BY <1>1, <3>1 DEF ObjCurrent
    <2>4. \A m \in Modules :
            /\ obj'[m].mtime > src'[m].mtime => \A c \in obj'[m].data : c.text = src'[m].text
            /\ vmeta'[m].mtime > src'[m].mtime => \A x \in vmeta'[m].data : x = src'[m].text
        BY <1>1 DEF IInv, CurrentInv, ObjCurrent
    <2>5. unit' = {} /\ pc' \notin {"openVmeta", "writeVmeta"}
        BY <1>1, <1>3, <1>4
    <2>6. \A d \in Modules : \A i \in loader'[d] : i.sig = src'[d].text.sig
        BY <1>1, <2>2
    <2> QED BY <2>3, <2>4, <2>5, <2>6 DEF CurrentInv, ObjCurrent
<1>9. PairsAgree' /\ PairsInv'
    <2>1. BothThere(Cur)
        BY <1>1 DEF isArtefactsFresh, BothThere
    <2>2. ~dirty => \A j \in 1..(pos' - 1) : BothThere(Queue[j])
        BY <1>3, <2>1 DEF IInv, PairsInv
    <2> QED BY <1>1, <1>3, <2>2 DEF IInv, PairsAgree, PairsInv, Compiling, BothThere
<1> QED BY <1>5, <1>6, <1>7, <1>8, <1>9 DEF IInv

-----------------------------------------------------------------------------
(* A compilation.                                                           *)

(* The cached pair of the module is too old, so the module will be read. *)
LEMMA NeedsCompilingStep ==
    ASSUME IInv, NeedsCompiling
    PROVE  IInv'
<1>1. /\ pc = "check" /\ pc' = "read" /\ unit = {}
      /\ UNCHANGED <<src, obj, vmeta, exe, clock, pos, loader, unit, dirty, EditDuringBuild>>
    BY DEF NeedsCompiling, history, IInv, UnitInv, AtWork
<1>2. TypeOK'
    BY <1>1 DEF IInv, TypeOK, InBuild
<1>3. UnitInv'
    BY <1>1 DEF UnitInv, AtMostOne, AtWork, Holding
<1>4. TimesInv' /\ SkewIsVisible'
    BY <1>1 DEF IInv, TimesInv, SkewIsVisible
<1>5. CurrentInv'
    BY <1>1 DEF IInv, CurrentInv, ObjCurrent, InBuild
<1>6. PairsAgree' /\ PairsInv'
    BY <1>1 DEF IInv, PairsAgree, PairsInv, Compiling, InBuild, BothThere
<1> QED BY <1>2, <1>3, <1>4, <1>5, <1>6 DEF IInv

(* The source is read before its object is opened. *)
LEMMA ReadSourceStep ==
    ASSUME IInv, ReadSource
    PROVE  IInv'
<1>1. /\ pc = "read" /\ unit' = {src[Cur].text}
      /\ UNCHANGED <<src, obj, vmeta, exe, clock, pc, pos, loader, dirty, EditDuringBuild>>
    BY DEF ReadSource, history
<1>2. src[Cur].text \in Text
    BY <1>1, CurFacts DEF AtWork, IInv, TypeOK
<1>3. TypeOK'
    BY <1>1, <1>2 DEF IInv, TypeOK
<1>4. UnitInv'
    BY <1>1 DEF UnitInv, AtMostOne, AtWork, Holding
<1>5. TimesInv' /\ SkewIsVisible'
    BY <1>1 DEF IInv, TimesInv, SkewIsVisible
<1>6. CurrentInv'
    BY <1>1 DEF IInv, CurrentInv, ObjCurrent, Cur
<1>7. PairsAgree' /\ PairsInv'
    BY <1>1 DEF IInv, PairsAgree, PairsInv, Compiling, BothThere, Cur
<1> QED BY <1>3, <1>4, <1>5, <1>6, <1>7 DEF IInv

(* The analysis accepts the text that was read. *)
LEMMA AcceptSourceStep ==
    ASSUME IInv, AcceptSource
    PROVE  IInv'
<1>1. /\ pc = "read" /\ pc' = "openObj"
      /\ UNCHANGED <<src, obj, vmeta, exe, clock, pos, unit, dirty, EditDuringBuild>>
    BY DEF AcceptSource, history
<1>2. PICK t \in unit : loader' = [loader EXCEPT ![Cur] = {Analysed(t)}]
    BY DEF AcceptSource
<1>3. Cur \in Modules /\ pc \in InBuild
    BY <1>1, CurFacts DEF AtWork
<1>4. TypeOK'
    <2>1. Analysed(t) \in Iface
        BY DEF Analysed, Iface, Text, IInv, TypeOK
    <2>2. loader' \in [Modules -> SUBSET Iface]
        BY <1>2, <2>1 DEF IInv, TypeOK
    <2> QED BY <1>1, <2>2 DEF IInv, TypeOK, InBuild
<1>5. UnitInv'
    BY <1>1, <1>2 DEF IInv, UnitInv, AtMostOne, AtWork, Holding
<1>6. TimesInv' /\ SkewIsVisible'
    BY <1>1 DEF IInv, TimesInv, SkewIsVisible
<1>7. CurrentInv'
    <2> SUFFICES ASSUME ~EditDuringBuild PROVE CurrentInv'
        BY <1>1 DEF CurrentInv
    <2>1. t = src[Cur].text
        BY DEF IInv, CurrentInv
    <2>2. ASSUME NEW d \in Modules, NEW i \in loader'[d] PROVE i.sig = src[d].text.sig
        <3>1. CASE d = Cur
            BY <1>2, <1>3, <2>1, <3>1 DEF Analysed, IInv, TypeOK
        <3>2. CASE d # Cur
            BY <1>2, <1>3, <3>2 DEF IInv, TypeOK, CurrentInv
        <3> QED BY <3>1, <3>2
    <2> QED BY <1>1, <1>3, <2>2 DEF IInv, CurrentInv, ObjCurrent, Cur
<1>8. PairsAgree' /\ PairsInv'
    BY <1>1, <1>3 DEF IInv, PairsAgree, PairsInv, Compiling, BothThere, Cur, InBuild
<1> QED BY <1>4, <1>5, <1>6, <1>7, <1>8 DEF IInv

(* The object is truncated: from here to its write the pair is open. *)
LEMMA OpenObjectStep ==
    ASSUME IInv, OpenObject
    PROVE  IInv'
<1>1. /\ pc = "openObj" /\ pc' = "writeObj" /\ obj' = [obj EXCEPT ![Cur] = Truncated]
      /\ UNCHANGED <<src, vmeta, exe, clock, pos, loader, unit, dirty, EditDuringBuild>>
    BY DEF OpenObject, history
<1>2. Cur \in Modules /\ pc \in InBuild /\ Cur' = Cur
    BY <1>1, CurFacts DEF AtWork, Cur
<1>3. /\ Truncated \in File(Code) /\ Truncated.data = {} /\ Truncated.there
      /\ Truncated.mtime = clock
    BY DEF Truncated, File, IInv, TypeOK
<1>4. /\ \A m \in Modules \ {Cur} : obj'[m] = obj[m]
      /\ obj'[Cur] = Truncated
      /\ obj' \in [Modules -> File(Code)]
    BY <1>1, <1>2, <1>3 DEF IInv, TypeOK
<1>5. TypeOK'
    BY <1>1, <1>3, <1>4 DEF IInv, TypeOK, InBuild, AtMostOne
<1>6. UnitInv'
    BY <1>1 DEF IInv, UnitInv, AtWork, Holding
<1>7. TimesInv'
    BY <1>1, <1>3, <1>4 DEF IInv, TimesInv, TypeOK
<1>8. SkewIsVisible'
    BY <1>1, <1>3, <1>4 DEF IInv, SkewIsVisible
<1>9. CurrentInv'
    <2> SUFFICES ASSUME ~EditDuringBuild PROVE CurrentInv'
        BY <1>1 DEF CurrentInv
    <2>1. \A m \in Modules : ObjCurrent(m) \/ m = Cur => ObjCurrent(m)'
        BY <1>1, <1>3, <1>4 DEF ObjCurrent
    <2>2. \A m \in Modules : obj'[m].mtime > src[m].mtime => ObjCurrent(m)'
        BY <1>4, <2>1 DEF IInv, CurrentInv
    <2>3. \A j \in 1..(pos - 1) : ObjCurrent(Queue[j])'
        <3>1. \A j \in 1..(pos - 1) : Queue[j] \in Modules
            BY <1>1, QueueFacts DEF IInv, TypeOK
        <3> QED BY <1>2, <2>1, <3>1 DEF IInv, CurrentInv
    <2> QED BY <1>1, <1>2, <2>2, <2>3 DEF IInv, CurrentInv
<1>10. PairsAgree' /\ PairsInv'
    <2>1. \A m \in Modules : BothThere(m) => BothThere(m)'
        BY <1>1, <1>3, <1>4 DEF BothThere
    <2>2. \A j \in 1..(pos - 1) : Queue[j] \in Modules
        BY <1>1, QueueFacts DEF IInv, TypeOK
    <2>3. PairsInv'
        BY <1>1, <1>2, <1>3, <1>4, <2>1, <2>2 DEF IInv, PairsInv
    <2>4. PairsAgree'
        BY <1>1, <1>2, <1>4 DEF IInv, PairsAgree, Compiling
    <2> QED BY <2>3, <2>4
<1> QED BY <1>5, <1>6, <1>7, <1>8, <1>9, <1>10 DEF IInv

(* Code is written of the text in memory and against the declarations in
   memory, which are the present ones as long as nobody saves. *)
LEMMA SeenFacts ==
    ASSUME IInv, Cur \in Modules
    PROVE  /\ Seen(Cur) \subseteq Modules \X Nat
           /\ ~EditDuringBuild /\ pc \in InBuild =>
                  \A p \in Seen(Cur) : p[2] = src[p[1]].text.sig
<1>1. Deps[Cur] \subseteq Modules
    BY DepsAssumption
<1>2. ASSUME NEW p \in Seen(Cur)
      PROVE  /\ p \in Modules \X Nat
             /\ ~EditDuringBuild /\ pc \in InBuild => p[2] = src[p[1]].text.sig
    <2>1. PICK d \in Deps[Cur] : p \in {<<d, i.sig>> : i \in loader[d]}
        BY DEF Seen
    <2>2. PICK i \in loader[d] : p = <<d, i.sig>>
        BY <2>1
    <2>3. d \in Modules /\ i \in Iface
        BY <1>1, <2>2 DEF IInv, TypeOK
    <2>4. i.sig \in Nat
        BY <2>3 DEF Iface
    <2>5. ~EditDuringBuild /\ pc \in InBuild => i.sig = src[d].text.sig
        BY <2>2, <2>3 DEF IInv, CurrentInv
    <2> QED BY <2>2, <2>3, <2>4, <2>5
<1> QED BY <1>2

(* The object holds the code of the unit and is as new as the clock. *)
LEMMA WriteObjectStep ==
    ASSUME IInv, WriteObject
    PROVE  IInv'
<1>1. /\ pc = "writeObj" /\ pc' = "openVmeta"
      /\ UNCHANGED <<src, vmeta, exe, clock, pos, loader, unit, dirty, EditDuringBuild>>
    BY DEF WriteObject, history
<1>2. Cur \in Modules /\ pc \in InBuild /\ Cur' = Cur
    BY <1>1, CurFacts DEF AtWork, Cur
<1> DEFINE CodeOf(t) == [text |-> t, seen |-> Seen(Cur)]
<1>3. PICK t \in unit : obj' = [obj EXCEPT ![Cur] = Filled(CodeOf(t))]
    BY DEF WriteObject
<1>4. unit = {t} /\ t \in Text
    BY <1>3 DEF IInv, UnitInv, TypeOK, AtMostOne
<1> DEFINE New == Filled(CodeOf(t))
<1>5. CodeOf(t) \in Code
    BY <1>2, <1>4, SeenFacts DEF Code
<1>6. /\ New \in File(Code) /\ New.data = {CodeOf(t)} /\ New.there /\ New.mtime = clock
    BY <1>5 DEF Filled, File, IInv, TypeOK
<1> HIDE DEF New, CodeOf
<1>7. /\ \A m \in Modules \ {Cur} : obj'[m] = obj[m]
      /\ obj'[Cur] = New
      /\ obj' \in [Modules -> File(Code)]
    BY <1>2, <1>3, <1>6 DEF IInv, TypeOK, New
<1>8. TypeOK'
    BY <1>1, <1>6, <1>7, SMTT(60) DEF IInv, TypeOK, InBuild, AtMostOne
<1>9. UnitInv'
    BY <1>1 DEF IInv, UnitInv, AtWork, Holding
<1>10. TimesInv'
    <2>1. clock <= clock
        BY DEF IInv, TypeOK
    <2>2. \A m \in Modules : obj'[m].mtime <= clock
        BY <1>6, <1>7, <2>1 DEF IInv, TimesInv
    <2> QED BY <1>1, <2>2 DEF IInv, TimesInv
<1>11. SkewIsVisible'
    <2> SUFFICES ASSUME ~EditDuringBuild, NEW m \in Modules, NEW c \in obj'[m].data,
                        NEW p \in c.seen, p[2] # src[p[1]].text.sig
                 PROVE  src[p[1]].mtime >= obj'[m].mtime
        BY <1>1 DEF SkewIsVisible
    <2>1. CASE m = Cur
        <3>1. c.seen = Seen(Cur)
            BY <1>6, <1>7, <2>1 DEF CodeOf
        <3> QED BY <1>2, <3>1, SeenFacts
    <2>2. CASE m # Cur
        BY <1>7, <2>2 DEF IInv, SkewIsVisible
    <2> QED BY <2>1, <2>2
<1>12. CurrentInv'
    <2> SUFFICES ASSUME ~EditDuringBuild PROVE CurrentInv'
        BY <1>1 DEF CurrentInv
    <2>1. t = src[Cur].text
        BY DEF IInv, CurrentInv
    <2>2. ASSUME NEW m \in Modules, ObjCurrent(m) \/ m = Cur PROVE ObjCurrent(m)'
        <3>1. CASE m = Cur
            BY <1>1, <1>6, <1>7, <2>1, <3>1 DEF ObjCurrent, CodeOf
        <3>2. CASE m # Cur
            BY <1>1, <1>7, <2>2, <3>2 DEF ObjCurrent
        <3> QED BY <3>1, <3>2
    <2>3. \A m \in Modules : obj'[m].mtime > src[m].mtime => ObjCurrent(m)'
        BY <1>7, <2>2 DEF IInv, CurrentInv
    <2>4. \A j \in 1..(pos - 1) : ObjCurrent(Queue[j])'
        <3>1. \A j \in 1..(pos - 1) : Queue[j] \in Modules
            BY QueueFacts DEF IInv, TypeOK
        <3> QED BY <1>2, <2>2, <3>1 DEF IInv, CurrentInv
    <2>5. \A c \in obj'[Cur'].data : c.text = src'[Cur'].text
        BY <1>1, <1>2, <1>6, <1>7, <2>1 DEF CodeOf
    <2> QED BY <1>1, <1>2, <2>3, <2>4, <2>5 DEF IInv, CurrentInv, ObjCurrent
<1>13. PairsAgree' /\ PairsInv'
    <2>1. \A m \in Modules : BothThere(m) => BothThere(m)'
        BY <1>1, <1>6, <1>7 DEF BothThere
    <2>2. \A j \in 1..(pos - 1) : Queue[j] \in Modules
        BY QueueFacts DEF IInv, TypeOK
    <2>3. PairsInv'
        <3>1. \E c \in obj'[Cur].data : unit = {c.text}
            BY <1>4, <1>6, <1>7 DEF CodeOf
        <3> QED BY <1>1, <1>2, <1>6, <1>7, <2>1, <2>2, <3>1 DEF IInv, PairsInv
    <2>4. PairsAgree'
        BY <1>1, <1>2, <1>7 DEF IInv, PairsAgree, Compiling
    <2> QED BY <2>3, <2>4
<1> QED BY <1>8, <1>9, <1>10, <1>11, <1>12, <1>13 DEF IInv

(* The metadata file is truncated after its object was written. *)
LEMMA OpenMetadataStep ==
    ASSUME IInv, OpenMetadata
    PROVE  IInv'
<1>1. /\ pc = "openVmeta" /\ pc' = "writeVmeta" /\ vmeta' = [vmeta EXCEPT ![Cur] = Truncated]
      /\ UNCHANGED <<src, obj, exe, clock, pos, loader, unit, dirty, EditDuringBuild>>
    BY DEF OpenMetadata, history
<1>2. Cur \in Modules /\ pc \in InBuild /\ Cur' = Cur
    BY <1>1, CurFacts DEF AtWork, Cur
<1>3. /\ Truncated \in File(Text) /\ Truncated.data = {} /\ Truncated.there
      /\ Truncated.mtime = clock
    BY DEF Truncated, File, IInv, TypeOK
<1>4. /\ \A m \in Modules \ {Cur} : vmeta'[m] = vmeta[m]
      /\ vmeta'[Cur] = Truncated
      /\ vmeta' \in [Modules -> File(Text)]
    BY <1>1, <1>2, <1>3 DEF IInv, TypeOK
<1>5. TypeOK'
    BY <1>1, <1>3, <1>4 DEF IInv, TypeOK, InBuild, AtMostOne
<1>6. UnitInv'
    BY <1>1 DEF IInv, UnitInv, AtWork, Holding
<1>7. TimesInv'
    BY <1>1, <1>3, <1>4 DEF IInv, TimesInv, TypeOK
<1>8. SkewIsVisible'
    BY <1>1 DEF IInv, SkewIsVisible
<1>9. CurrentInv'
    BY <1>1, <1>2, <1>3, <1>4 DEF IInv, CurrentInv, ObjCurrent
<1>10. PairsAgree' /\ PairsInv'
    <2>1. \A m \in Modules : BothThere(m) => BothThere(m)'
        BY <1>1, <1>3, <1>4 DEF BothThere
    <2>2. \A j \in 1..(pos - 1) : Queue[j] \in Modules
        BY <1>1, QueueFacts DEF IInv, TypeOK
    <2>3. PairsInv'
        BY <1>1, <1>2, <1>3, <1>4, <2>1, <2>2 DEF IInv, PairsInv
    <2>4. PairsAgree'
        BY <1>1, <1>2, <1>4 DEF IInv, PairsAgree, Compiling
    <2> QED BY <2>3, <2>4
<1> QED BY <1>5, <1>6, <1>7, <1>8, <1>9, <1>10 DEF IInv

(* The metadata are those of the text in memory, which is also the text of the
   object file; the module is behind the loop now. *)
LEMMA WriteMetadataStep ==
    ASSUME IInv, WriteMetadata
    PROVE  IInv'
<1>1. /\ pc = "writeVmeta" /\ unit' = {} /\ NextModule
      /\ UNCHANGED <<src, obj, exe, clock, loader, dirty, EditDuringBuild>>
    BY DEF WriteMetadata, history
<1>2. /\ pc' \in {"check", "csources"}
      /\ pc' = "check" => pos' <= Len(Queue)
      /\ pc' = "csources" => pos' = Len(Queue) + 1
      /\ pos' \in 1..(Len(Queue) + 1)
      /\ Cur \in Modules
      /\ \A j \in 1..(pos' - 1) : j \in 1..(pos - 1) \/ Queue[j] = Cur
      /\ pc \in InBuild
    BY <1>1, NextModuleFacts DEF AtWork
<1>3. PICK t \in unit : vmeta' = [vmeta EXCEPT ![Cur] = Filled(t)]
    BY DEF WriteMetadata
<1>4. unit = {t} /\ t \in Text
    BY <1>3 DEF IInv, UnitInv, TypeOK, AtMostOne
<1> DEFINE New == Filled(t)
<1>5. /\ New \in File(Text) /\ New.data = {t} /\ New.there /\ New.mtime = clock
    BY <1>4 DEF Filled, File, IInv, TypeOK
<1> HIDE DEF New
<1>6. /\ \A m \in Modules \ {Cur} : vmeta'[m] = vmeta[m]
      /\ vmeta'[Cur] = New
      /\ vmeta' \in [Modules -> File(Text)]
    BY <1>2, <1>3, <1>5 DEF IInv, TypeOK, New
<1>7. TypeOK'
    BY <1>1, <1>2, <1>5, <1>6 DEF IInv, TypeOK, InBuild, AtMostOne
<1>8. UnitInv'
    BY <1>1, <1>2 DEF UnitInv, AtMostOne, AtWork, Holding
<1>9. TimesInv'
    <2>1. clock <= clock
        BY DEF IInv, TypeOK
    <2>2. \A m \in Modules : vmeta'[m].mtime <= clock
        BY <1>5, <1>6, <2>1 DEF IInv, TimesInv
    <2> QED BY <1>1, <2>2 DEF IInv, TimesInv
<1>10. SkewIsVisible'
    BY <1>1 DEF IInv, SkewIsVisible
<1>11. CurrentInv'
    <2> SUFFICES ASSUME ~EditDuringBuild PROVE CurrentInv'
        BY <1>1 DEF CurrentInv
    <2>1. t = src[Cur].text /\ ObjCurrent(Cur)
        BY <1>1 DEF IInv, CurrentInv
    <2>2. \A m \in Modules : vmeta'[m].mtime > src[m].mtime =>
                \A x \in vmeta'[m].data : x = src[m].text
        BY <1>5, <1>6, <2>1 DEF IInv, CurrentInv
    <2>3. \A j \in 1..(pos' - 1) : \A c \in obj'[Queue[j]].data : c.text = src'[Queue[j]].text
        <3>1. \A j \in 1..(pos' - 1) : ObjCurrent(Queue[j])
            BY <1>2, <2>1 DEF IInv, CurrentInv
        <3> QED BY <1>1, <3>1 DEF ObjCurrent
    <2>4. \A m \in Modules :
            /\ obj'[m].mtime > src'[m].mtime => \A c \in obj'[m].data : c.text = src'[m].text
            /\ vmeta'[m].mtime > src'[m].mtime => \A x \in vmeta'[m].data : x = src'[m].text
        BY <1>1, <2>2 DEF IInv, CurrentInv, ObjCurrent
    <2>5. unit' = {} /\ pc' \notin {"openVmeta", "writeVmeta"}
        BY <1>1, <1>2
    <2>6. \A d \in Modules : \A i \in loader'[d] : i.sig = src'[d].text.sig
        BY <1>1, <1>2 DEF IInv, CurrentInv
    <2> QED BY <2>3, <2>4, <2>5, <2>6 DEF CurrentInv, ObjCurrent
<1>12. PairsAgree'
    <2> SUFFICES ASSUME ~dirty, NEW m \in Modules, obj[m].there, vmeta'[m].there
                 PROVE  \E c \in obj[m].data : vmeta'[m].data = {c.text}
        BY <1>1 DEF PairsAgree
    <2>1. CASE m = Cur
        <3>1. PICK c \in obj[Cur].data : unit = {c.text}
            BY <1>1 DEF IInv, PairsInv
        <3> QED BY <1>4, <1>5, <1>6, <2>1, <3>1
    <2>2. CASE m # Cur
        BY <1>6, <2>2 DEF IInv, PairsAgree, Compiling
    <2> QED BY <2>1, <2>2
<1>13. PairsInv'
    <2> SUFFICES ASSUME ~dirty
                 PROVE  \A j \in 1..(pos' - 1) : obj[Queue[j]].there /\ vmeta'[Queue[j]].there
        BY <1>1, <1>2 DEF PairsInv, BothThere
    <2>1. obj[Cur].there /\ vmeta'[Cur].there
        BY <1>1, <1>5, <1>6 DEF IInv, PairsInv
    <2>2. \A j \in 1..(pos - 1) : obj[Queue[j]].there /\ vmeta[Queue[j]].there
        BY <1>2 DEF IInv, PairsInv, BothThere
    <2>3. \A j \in 1..(pos' - 1) : j \in 1..(pos - 1) \/ Queue[j] = Cur
        BY <1>2
    <2>4. \A j \in 1..(pos - 1) : Queue[j] \in Modules
        BY QueueFacts DEF IInv, TypeOK
    <2> QED BY <1>6, <2>1, <2>2, <2>3, <2>4
<1> QED BY <1>7, <1>8, <1>9, <1>10, <1>11, <1>12, <1>13 DEF IInv

(* The metadata file stays empty, and the build fails. *)
LEMMA MetadataNotWrittenStep ==
    ASSUME IInv, MetadataNotWritten
    PROVE  IInv'
<1>1. /\ pc = "openVmeta" /\ unit' = {} /\ NextModule /\ dirty' = TRUE
      /\ UNCHANGED <<src, obj, vmeta, exe, clock, loader, EditDuringBuild>>
    BY DEF MetadataNotWritten
<1>2. /\ pc' \in {"check", "csources"}
      /\ pc' = "check" => pos' <= Len(Queue)
      /\ pc' = "csources" => pos' = Len(Queue) + 1
      /\ pos' \in 1..(Len(Queue) + 1)
      /\ Cur \in Modules
      /\ \A j \in 1..(pos' - 1) : j \in 1..(pos - 1) \/ Queue[j] = Cur
      /\ pc \in InBuild
    BY <1>1, NextModuleFacts DEF AtWork
<1>3. TypeOK'
    BY <1>1, <1>2 DEF IInv, TypeOK, InBuild
<1>4. UnitInv'
    BY <1>1, <1>2 DEF UnitInv, AtMostOne, AtWork, Holding
<1>5. TimesInv' /\ SkewIsVisible'
    BY <1>1 DEF IInv, TimesInv, SkewIsVisible
<1>6. CurrentInv'
    <2> SUFFICES ASSUME ~EditDuringBuild PROVE CurrentInv'
        BY <1>1 DEF CurrentInv
    <2>1. ObjCurrent(Cur)
        BY <1>1 DEF IInv, CurrentInv
    <2>2. \A j \in 1..(pos' - 1) : \A c \in obj'[Queue[j]].data : c.text = src'[Queue[j]].text
        <3>1. \A j \in 1..(pos' - 1) : ObjCurrent(Queue[j])
            BY <1>2, <2>1 DEF IInv, CurrentInv
        <3> QED BY <1>1, <3>1 DEF ObjCurrent
    <2>3. \A m \in Modules :
            /\ obj'[m].mtime > src'[m].mtime => \A c \in obj'[m].data : c.text = src'[m].text
            /\ vmeta'[m].mtime > src'[m].mtime => \A x \in vmeta'[m].data : x = src'[m].text
        BY <1>1 DEF IInv, CurrentInv, ObjCurrent
    <2>4. unit' = {} /\ pc' \notin {"openVmeta", "writeVmeta"}
        BY <1>1, <1>2
    <2>5. \A d \in Modules : \A i \in loader'[d] : i.sig = src'[d].text.sig
        BY <1>1, <1>2 DEF IInv, CurrentInv
    <2> QED BY <2>2, <2>3, <2>4, <2>5 DEF CurrentInv, ObjCurrent
<1>7. PairsAgree' /\ PairsInv'
    BY <1>1 DEF PairsAgree, PairsInv
<1> QED BY <1>3, <1>4, <1>5, <1>6, <1>7 DEF IInv

-----------------------------------------------------------------------------
(* After the loop.                                                          *)

(* The queue is done, and the C sources touch no file of a module. *)
LEMMA CompileCSourcesStep ==
    ASSUME IInv, CompileCSources
    PROVE  IInv'
<1>1. /\ pc = "csources"
      /\ UNCHANGED <<src, obj, vmeta, exe, clock, dirty, EditDuringBuild>>
    BY DEF CompileCSources, history
<1>2. CASE Exit
    BY <1>1, <1>2, ExitFacts, ExeFacts, AtRestStep
<1>3. CASE pc' = "link" /\ UNCHANGED <<pos, loader, unit>>
    <2>1. TypeOK'
        BY <1>1, <1>3 DEF IInv, TypeOK, InBuild
    <2>2. UnitInv'
        BY <1>1, <1>3 DEF IInv, UnitInv, AtWork, Holding
    <2>3. TimesInv' /\ SkewIsVisible'
        BY <1>1, <1>3 DEF IInv, TimesInv, SkewIsVisible
    <2>4. CurrentInv'
        BY <1>1, <1>3 DEF IInv, CurrentInv, ObjCurrent, InBuild, Cur
    <2>5. PairsAgree' /\ PairsInv'
        BY <1>1, <1>3 DEF IInv, PairsAgree, PairsInv, Compiling, BothThere, InBuild
    <2> QED BY <2>1, <2>2, <2>3, <2>4, <2>5 DEF IInv
<1> QED BY <1>2, <1>3 DEF CompileCSources

(* The executable is linked from the objects of all the modules. *)
LEMMA LinkStep ==
    ASSUME IInv, Link
    PROVE  IInv'
<1>1. /\ pc = "link" /\ Exit
      /\ UNCHANGED <<src, obj, vmeta, clock, dirty, EditDuringBuild>>
    BY DEF Link, history
<1>2. PICK code \in [Modules -> UNION {obj[m].data : m \in Modules}] : exe' = {code}
    BY DEF Link
<1>3. \A m \in Modules : obj[m].data \subseteq Code
    BY DEF IInv, TypeOK, File
<1>4. exe' \subseteq [Modules -> Code]
    BY <1>2, <1>3
<1> QED BY <1>1, <1>4, ExitFacts, ExeFacts, AtRestStep

-----------------------------------------------------------------------------
(* The theorems.                                                            *)

(* No step of the programmer, of the clock or of veoc, killed or not, breaks
   the invariant. *)
LEMMA NextIInv == IInv /\ [Next]_vars => IInv'
<1> SUFFICES ASSUME IInv, [Next]_vars PROVE IInv'
    OBVIOUS
<1>1. CASE Environment
    BY <1>1, EditStep, TickStep, EndSteps, StartBuildStep DEF Environment
<1>2. CASE Veoc
    BY <1>2, RemoveFileStep, EndCleanStep, LoadCachedStep, EndSteps, NeedsCompilingStep,
       ReadSourceStep, AcceptSourceStep, OpenObjectStep, WriteObjectStep, OpenMetadataStep,
       WriteMetadataStep, MetadataNotWrittenStep, CompileCSourcesStep, LinkStep DEF Veoc
<1>3. CASE UNCHANGED vars
    <2>1. UNCHANGED <<src, obj, vmeta, exe, clock, pc, pos, loader, unit, dirty, EditDuringBuild>>
        BY <1>3 DEF vars, history
    <2> QED BY <2>1, SMTT(60) DEF IInv, TypeOK, UnitInv, TimesInv, CurrentInv, SkewIsVisible, PairsAgree,
                        PairsInv, ObjCurrent, BothThere, Compiling, Cur
<1> QED BY <1>1, <1>2, <1>3 DEF Next

(* Every build, edit, clean and kill keeps the inductive invariant. *)
THEOREM Invariance == Spec => []IInv
BY InitIInv, NextIInv, PTL DEF Spec

(* Every variable of the build keeps its range. *)
THEOREM TypeCorrect == Spec => []TypeOK
<1>1. IInv => TypeOK
    BY DEF IInv
<1> QED BY <1>1, Invariance, PTL

(* Sources that are saved between builds only: what isArtefactsFresh accepts
   was compiled from the present text, for any package and any clock. *)
THEOREM FreshAlways == Spec => []FreshIsCurrent
<1>1. IInv => FreshIsCurrent
    BY DEF IInv, CurrentInv, ObjCurrent, FreshIsCurrent, isArtefactsFresh
<1> QED BY <1>1, Invariance, PTL

(* Code that rests on declarations that are gone is never newer than them. *)
THEOREM SkewAlwaysVisible == Spec => []SkewIsVisible
<1>1. IInv => SkewIsVisible
    BY DEF IInv
<1> QED BY <1>1, Invariance, PTL

(* The two files of a module are of one compilation, unless one was killed. *)
THEOREM PairsAlwaysAgree == Spec => []PairsAgree
<1>1. IInv => PairsAgree
    BY DEF IInv
<1> QED BY <1>1, Invariance, PTL

(* Only after a killed veoc is an artefact there that cannot be used. *)
THEOREM OnlyKillsHurt == Spec => []ArtefactsFailOnlyIfKilled
<1>1. ASSUME IInv, ~dirty, pc = "check", isArtefactsFresh(Cur)
      PROVE  vmeta[Cur].data # {}
    <2>1. Cur \in Modules
        BY <1>1, CurFacts
    <2>2. ~Compiling(Cur)
        BY <1>1 DEF Compiling
    <2> QED BY <1>1, <2>1, <2>2 DEF IInv, PairsAgree, isArtefactsFresh
<1>2. ASSUME IInv, ~dirty, pc = "link", NEW m \in Modules
      PROVE  obj[m].data # {}
    <2>1. pos = Len(Queue) + 1 /\ pc \in InBuild
        BY <1>2 DEF IInv, UnitInv, InBuild
    <2>2. PICK i \in 1..Len(Queue) : Queue[i] = m
        BY QueueFacts
    <2>3. i \in 1..(pos - 1)
        BY <2>1, QueueFacts
    <2>4. obj[m].there /\ vmeta[m].there
        BY <1>2, <2>1, <2>2, <2>3 DEF IInv, PairsInv, BothThere
    <2>5. ~Compiling(m)
        BY <1>2 DEF Compiling
    <2> QED BY <1>2, <2>4, <2>5 DEF IInv, PairsAgree
<1>3. IInv => ArtefactsFailOnlyIfKilled
    BY <1>1, <1>2 DEF ArtefactsFailOnlyIfKilled
<1> QED BY <1>3, Invariance, PTL

(* An executable that is linked is made of the present text of every module,
   whatever was compiled in which of the builds before. *)
THEOREM LinksCurrent == Spec => LinksCurrentSources
<1>1. ASSUME IInv, ~EditDuringBuild, Link, NEW code \in exe', NEW m \in Modules
      PROVE  code[m].text = src[m].text
    <2>1. obj[m].data = {code[m]}
        BY <1>1 DEF Link
    <2>2. pc = "link" /\ pos = Len(Queue) + 1 /\ pc \in InBuild
        BY <1>1 DEF Link, IInv, UnitInv, InBuild
    <2>3. PICK i \in 1..Len(Queue) : Queue[i] = m
        BY QueueFacts
    <2>4. i \in 1..(pos - 1)
        BY <2>2, QueueFacts
    <2>5. ObjCurrent(m)
        BY <1>1, <2>2, <2>3, <2>4 DEF IInv, CurrentInv
    <2> QED BY <2>1, <2>5 DEF ObjCurrent
<1>2. IInv => [~EditDuringBuild /\ Link =>
                 \A code \in exe' : \A m \in Modules : code[m].text = src[m].text]_vars
    BY <1>1
<1> QED BY <1>2, Invariance, PTL DEF LinksCurrentSources

-----------------------------------------------------------------------------
(* The refinement: the build of build.py, clean first and with nobody saving
   meanwhile, implements ScratchBuild, for every package and every text of its
   files.

   The argument: after a clean no module looks fresh, so each one is compiled
   in this build, after its imports and from the present text of all of them;
   the loader holds what the sources say, the verdict on a module is that of
   the sources, and so is its code.                                          *)


(* The verdict on m and its code, as the sources alone determine them. *)
Verdict(m) ==
    /\ ~src[m].text.broken
    /\ src[m].text.use = "constCall" => \A d \in Deps[m] : ~src[d].text.mutates
CodeFrom(m) == [text |-> src[m].text, seen |-> {<<d, src[d].text.sig>> : d \in Deps[m]}]

Loaded(m) == loader[m] = {Analysed(src[m].text)} /\ Verdict(m)
Built(m) == Loaded(m) /\ obj[m].data = {CodeFrom(m)}

CleanInv ==
    /\ pc = "cleaned" => \A m \in Modules : ~obj[m].there
    /\ pc \in InBuild =>
        /\ \A j \in 1..(pos - 1) : Built(Queue[j])
        /\ \A j \in (pos + 1)..Len(Queue) : ~obj[Queue[j]].there
    /\ pc \in {"check", "read"} => ~obj[Cur].there
    /\ pc \in Holding => Loaded(Cur) /\ unit = {src[Cur].text}
    /\ pc \in {"openVmeta", "writeVmeta"} => Built(Cur)

-----------------------------------------------------------------------------

(* The compiler's verdict and code are the abstract ones of the same texts. *)
LEMMA MapFacts ==
    ASSUME NEW m \in Modules
    PROVE  /\ Scratch!Correct(m) <=> Verdict(m)
           /\ Scratch!Compiled(m) = CodeFrom(m)
<1>1. Deps[m] \subseteq Modules
    BY DepsAssumption
<1> QED BY <1>1 DEF Scratch!Correct, Scratch!Compiled, Verdict, CodeFrom

(* The module at hand, the ones behind it and the ones ahead of it. *)
LEMMA LoopFacts ==
    ASSUME IInv, pc \in AtWork \cup {"check"}
    PROVE  /\ Cur \in Modules /\ pc \in InBuild /\ pos \in 1..Len(Queue) /\ Len(Queue) \in Nat
           /\ \A j \in 1..(pos - 1) : Queue[j] \in Modules \ {Cur}
           /\ \A j \in (pos + 1)..Len(Queue) : Queue[j] \in Modules \ {Cur}
           /\ \A d \in Deps[Cur] : d \in Modules /\ \E j \in 1..(pos - 1) : Queue[j] = d
<1>1. Cur \in Modules /\ pc \in InBuild /\ pos \in 1..Len(Queue) /\ Len(Queue) \in Nat
    BY CurFacts, QueueFacts
<1>2. \A j \in 1..Len(Queue) : Queue[j] \in Modules /\ (Queue[j] = Cur => j = pos)
    BY <1>1, QueueFacts, QueueAssumption DEF Cur, IsCompilationQueue
<1>3. \A d \in Deps[Cur] : d \in Modules /\ \E j \in 1..(pos - 1) : Queue[j] = d
    BY <1>1, DepsAssumption, QueueAssumption DEF Cur, IsCompilationQueue
<1> QED BY <1>1, <1>2, <1>3

(* With the habit of not saving during a build, no edit falls into one. *)
LEMMA NobodySaves == ASSUME IInv, Habits = {FALSE} PROVE ~EditDuringBuild
BY DEF IInv, TypeOK

(* CleanInv says nothing of a veoc that is at rest or cleaning. *)
LEMMA AwayStep ==
    ASSUME pc' \in {"idle", "clean"}
    PROVE  CleanInv'
BY DEF CleanInv, InBuild, Holding, AtWork

(* Before the first build there is nothing to be clean of. *)
LEMMA InitCleanInv == Init => CleanInv
BY DEF Init, CleanInv, InBuild, Holding, AtWork

(* Moving on: what is built stays built, and the next module is one of those
   ahead. *)
LEMMA MoveOnStep ==
    ASSUME IInv, CleanInv, pc = "openVmeta" \/ pc = "writeVmeta", NextModule,
           UNCHANGED <<src, obj, loader>>
    PROVE  CleanInv'
<1>1. /\ pc' \in {"check", "csources"} /\ pos' = pos + 1 /\ pc \in InBuild
      /\ pc' = "check" => pos' <= Len(Queue)
      /\ pos \in 1..Len(Queue) /\ Len(Queue) \in Nat
    BY NextModuleFacts, LoopFacts DEF AtWork, NextModule
<1>2. \A j \in 1..(pos' - 1) : Built(Queue[j])
    <2>1. \A j \in 1..(pos' - 1) : j \in 1..(pos - 1) \/ j = pos
        BY <1>1
    <2>2. Built(Queue[pos])
        BY DEF CleanInv, Cur
    <2> QED BY <1>1, <2>1, <2>2 DEF CleanInv
<1>3. \A j \in 1..(pos' - 1) : Built(Queue[j])'
    BY <1>2 DEF Built, Loaded, Verdict, CodeFrom
<1>4. \A j \in (pos' + 1)..Len(Queue) : ~obj[Queue[j]].there
    BY <1>1 DEF CleanInv
<1>5. pc' = "check" => ~obj[Queue[pos']].there
    BY <1>1 DEF CleanInv
<1> QED BY <1>1, <1>3, <1>4, <1>5 DEF CleanInv, Holding, AtWork, Cur

(* The imports are in the loader as the sources have them, so the verdict is
   that of the sources. *)
LEMMA AcceptSourceClean ==
    ASSUME IInv, CleanInv, AcceptSource, Habits = {FALSE}
    PROVE  CleanInv'
<1>1. /\ pc = "read" /\ pc' = "openObj"
      /\ UNCHANGED <<src, obj, pos, unit>>
    BY DEF AcceptSource
<1>2. PICK t \in unit : ~Rejects(Cur, t) /\ loader' = [loader EXCEPT ![Cur] = {Analysed(t)}]
    BY DEF AcceptSource
<1>3. unit = {t} /\ t = src[Cur].text
    BY NobodySaves DEF IInv, UnitInv, AtMostOne, CurrentInv
<1>4. /\ Cur \in Modules /\ pc \in InBuild /\ pos \in 1..Len(Queue) /\ Len(Queue) \in Nat
      /\ \A j \in 1..(pos - 1) : Queue[j] \in Modules \ {Cur}
      /\ \A d \in Deps[Cur] : d \in Modules /\ \E j \in 1..(pos - 1) : Queue[j] = d
    BY <1>1, LoopFacts DEF AtWork
<1>5. \A d \in Deps[Cur] : loader[d] = {Analysed(src[d].text)}
    BY <1>4 DEF CleanInv, Built, Loaded
<1>6. Verdict(Cur)
    BY <1>2, <1>3, <1>5 DEF Rejects, Verdict, Analysed
<1>7. /\ loader'[Cur] = {Analysed(src[Cur].text)}
      /\ \A m \in Modules \ {Cur} : loader'[m] = loader[m]
    BY <1>2, <1>3, <1>4 DEF IInv, TypeOK
<1>8. Loaded(Cur)'
    BY <1>1, <1>6, <1>7 DEF Loaded, Verdict, Cur
<1>9. \A j \in 1..(pos - 1) : Built(Queue[j])'
    <2> SUFFICES ASSUME NEW j \in 1..(pos - 1) PROVE Built(Queue[j])'
        OBVIOUS
    <2>1. Built(Queue[j]) /\ loader'[Queue[j]] = loader[Queue[j]]
        BY <1>4, <1>7 DEF CleanInv
    <2> QED BY <1>1, <2>1 DEF Built, Loaded, Verdict, CodeFrom
<1> QED BY <1>1, <1>3, <1>4, <1>8, <1>9 DEF CleanInv, Cur

(* The module that is compiled is the one whose object is truncated. *)
LEMMA OpenObjectClean ==
    ASSUME IInv, CleanInv, OpenObject
    PROVE  CleanInv'
<1>1. /\ pc = "openObj" /\ pc' = "writeObj" /\ obj' = [obj EXCEPT ![Cur] = Truncated]
      /\ UNCHANGED <<src, pos, loader, unit>>
    BY DEF OpenObject
<1>2. /\ Cur \in Modules /\ pc \in InBuild /\ pos \in 1..Len(Queue) /\ Len(Queue) \in Nat
      /\ \A j \in 1..(pos - 1) : Queue[j] \in Modules \ {Cur}
      /\ \A j \in (pos + 1)..Len(Queue) : Queue[j] \in Modules \ {Cur}
    BY <1>1, LoopFacts DEF AtWork
<1>3. \A m \in Modules \ {Cur} : obj'[m] = obj[m]
    BY <1>1 DEF IInv, TypeOK
<1>4. Loaded(Cur)' /\ unit' = {src'[Cur'].text}
    BY <1>1 DEF CleanInv, Holding, AtWork, Loaded, Verdict, Cur
<1>5. \A j \in 1..(pos - 1) : Built(Queue[j])'
    <2> SUFFICES ASSUME NEW j \in 1..(pos - 1) PROVE Built(Queue[j])'
        OBVIOUS
    <2>1. Built(Queue[j]) /\ obj'[Queue[j]] = obj[Queue[j]]
        BY <1>2, <1>3 DEF CleanInv
    <2> QED BY <1>1, <2>1 DEF Built, Loaded, Verdict, CodeFrom
<1>6. \A j \in (pos + 1)..Len(Queue) : ~obj'[Queue[j]].there
    BY <1>2, <1>3 DEF CleanInv
<1> QED BY <1>1, <1>4, <1>5, <1>6 DEF CleanInv

(* The declarations that go into the code are those of the sources. *)
LEMMA WriteObjectClean ==
    ASSUME IInv, CleanInv, WriteObject
    PROVE  CleanInv'
<1>1. /\ pc = "writeObj" /\ pc' = "openVmeta"
      /\ UNCHANGED <<src, pos, loader, unit>>
    BY DEF WriteObject
<1>2. PICK t \in unit : obj' = [obj EXCEPT ![Cur] = Filled([text |-> t, seen |-> Seen(Cur)])]
    BY DEF WriteObject
<1>3. t = src[Cur].text /\ Loaded(Cur)
    BY <1>1 DEF CleanInv, Holding, AtWork
<1>4. /\ Cur \in Modules /\ pc \in InBuild /\ pos \in 1..Len(Queue) /\ Len(Queue) \in Nat
      /\ \A j \in 1..(pos - 1) : Queue[j] \in Modules \ {Cur}
      /\ \A j \in (pos + 1)..Len(Queue) : Queue[j] \in Modules \ {Cur}
      /\ \A d \in Deps[Cur] : d \in Modules /\ \E j \in 1..(pos - 1) : Queue[j] = d
    BY <1>1, LoopFacts DEF AtWork
<1>5. \A d \in Deps[Cur] : {<<d, i.sig>> : i \in loader[d]} = {<<d, src[d].text.sig>>}
    <2>1. \A d \in Deps[Cur] : loader[d] = {Analysed(src[d].text)}
        BY <1>4 DEF CleanInv, Built, Loaded
    <2>2. \A d \in Deps[Cur] : \A i : i \in loader[d] <=> i = Analysed(src[d].text)
        BY <2>1
    <2>3. \A d \in Deps[Cur] : Analysed(src[d].text).sig = src[d].text.sig
        BY DEF Analysed
    <2> QED BY <2>2, <2>3
<1>6. Seen(Cur) = {<<d, src[d].text.sig>> : d \in Deps[Cur]}
    BY <1>5 DEF Seen
<1>7. /\ obj'[Cur].data = {CodeFrom(Cur)}
      /\ \A m \in Modules \ {Cur} : obj'[m] = obj[m]
    BY <1>2, <1>3, <1>4, <1>6 DEF IInv, TypeOK, Filled, CodeFrom
<1>8. Built(Cur)'
    BY <1>1, <1>3, <1>7 DEF Built, Loaded, Verdict, CodeFrom, Cur
<1>9. \A j \in 1..(pos - 1) : Built(Queue[j])'
    <2> SUFFICES ASSUME NEW j \in 1..(pos - 1) PROVE Built(Queue[j])'
        OBVIOUS
    <2>1. Built(Queue[j]) /\ obj'[Queue[j]] = obj[Queue[j]]
        BY <1>4, <1>7 DEF CleanInv
    <2> QED BY <1>1, <2>1 DEF Built, Loaded, Verdict, CodeFrom
<1>10. \A j \in (pos + 1)..Len(Queue) : ~obj'[Queue[j]].there
    BY <1>4, <1>7 DEF CleanInv
<1>11. unit' = {src'[Cur'].text}
    BY <1>1 DEF CleanInv, Holding, AtWork, Cur
<1>12. Loaded(Cur)'
    BY <1>8 DEF Built
<1> QED BY <1>1, <1>8, <1>9, <1>10, <1>11, <1>12 DEF CleanInv

(* Every step of a build after a clean keeps to the current texts. *)
LEMMA CleanStep ==
    ASSUME IInv, CleanInv, Next, CleanFirst, Habits = {FALSE}
    PROVE  CleanInv'
<1>1. ASSUME NEW m \in Modules, NEW t \in Texts[m], Edit(m, t) PROVE CleanInv'
    <2>1. pc' = pc /\ obj' = obj /\ ~Running
        BY <1>1, NobodySaves DEF Edit, process
    <2> QED BY <2>1 DEF CleanInv, Running, InBuild, Holding, AtWork
<1>2. CASE Tick
    BY <1>2 DEF Tick, process, CleanInv, Built, Loaded, Verdict, CodeFrom, Cur
<1>3. CASE Crash \/ StartClean \/ LoadFails \/ RejectSource \/ CannotOpenObject \/ Link \/ LinkFails
    BY <1>3, AwayStep DEF Crash, StartClean, LoadFails, RejectSource, CannotOpenObject, Link,
                          LinkFails, Exit
<1>4. CASE RemoveFile
    BY <1>4, AwayStep DEF RemoveFile, process
<1>5. CASE EndClean
    BY <1>5 DEF EndClean, CleanInv, InBuild, Holding, AtWork
<1>6. CASE StartBuild
    <2>1. /\ pc = "cleaned" /\ pos' = 1 /\ pc' = Turn(1) /\ UNCHANGED <<src, obj>>
        BY <1>6 DEF StartBuild
    <2>2. pc' \in {"check", "csources"} /\ (pc' = "check" => 1 \in 1..Len(Queue))
        BY <2>1, QueueFacts DEF Turn
    <2>3. \A j \in 1..Len(Queue) : ~obj'[Queue[j]].there
        BY <2>1, QueueFacts DEF CleanInv
    <2>4. /\ \A j \in (pos' + 1)..Len(Queue) : j \in 1..Len(Queue)
          /\ 1..(pos' - 1) = {}
        BY <2>1
    <2> QED BY <2>1, <2>2, <2>3, <2>4 DEF CleanInv, Holding, AtWork, Cur
<1>7. CASE LoadCached
    BY <1>7 DEF LoadCached, isArtefactsFresh, CleanInv
<1>8. CASE NeedsCompiling
    BY <1>8 DEF NeedsCompiling, history, CleanInv, InBuild, Holding, AtWork, Built, Loaded, Verdict,
                CodeFrom, Cur
<1>9. CASE ReadSource
    <2>1. pc = "read" /\ UNCHANGED <<src, obj, pc, pos, loader>>
        BY <1>9 DEF ReadSource
    <2> QED BY <2>1 DEF CleanInv, Holding, AtWork, Built, Loaded, Verdict, CodeFrom, Cur
<1>10. CASE AcceptSource
    BY <1>10, AcceptSourceClean
<1>11. CASE OpenObject
    BY <1>11, OpenObjectClean
<1>12. CASE WriteObject
    BY <1>12, WriteObjectClean
<1>13. CASE OpenMetadata
    BY <1>13 DEF OpenMetadata, history, CleanInv, InBuild, Holding, AtWork, Built, Loaded, Verdict,
                CodeFrom, Cur
<1>14. CASE WriteMetadata \/ MetadataNotWritten
    BY <1>14, MoveOnStep DEF WriteMetadata, MetadataNotWritten
<1>15. CASE CompileCSources
    <2>1. CASE Exit
        BY <2>1, AwayStep DEF Exit
    <2>2. CASE pc' = "link" /\ UNCHANGED <<pos, loader, unit>>
        BY <1>15, <2>2 DEF CompileCSources, CleanInv, InBuild, Holding, AtWork, Built, Loaded,
                           Verdict, CodeFrom
    <2> QED BY <1>15, <2>1, <2>2 DEF CompileCSources
<1> QED BY <1>1, <1>2, <1>3, <1>4, <1>5, <1>6, <1>7, <1>8, <1>9, <1>10, <1>11, <1>12, <1>13, <1>14,
           <1>15 DEF Next, Environment, Veoc

-----------------------------------------------------------------------------
(* The refinement.                                                          *)

(* The first state of the builds is the first state of the abstract one. *)
LEMMA InitScratch == Init => Scratch!Init
<1> SUFFICES ASSUME Init PROVE Scratch!Init
    OBVIOUS
<1>1. \A m \in Modules : src[m].text \in Texts[m]
    BY DEF Init
<1> QED BY <1>1 DEF Init, Scratch!Init

(* A save is an edit, a link a build; what removes the executable discards it,
   and all other steps stutter. *)
LEMMA StepScratch ==
    ASSUME IInv, CleanInv, Next
    PROVE  Scratch!Next \/ UNCHANGED <<[m \in Modules |-> src[m].text], exe>>
<1>1. ASSUME NEW m \in Modules, NEW t \in Texts[m], Edit(m, t) PROVE Scratch!Edit
    <2>1. src' = [src EXCEPT ![m] = [text |-> t, mtime |-> clock]] /\ exe' = exe
        BY <1>1 DEF Edit
    <2>2. [n \in Modules |-> src'[n].text] = [[n \in Modules |-> src[n].text] EXCEPT ![m] = t]
        BY <2>1 DEF IInv, TypeOK
    <2> QED BY <2>1, <2>2 DEF Scratch!Edit
<1>2. ASSUME Link PROVE Scratch!Build
    <2>1. PICK code \in [Modules -> UNION {obj[m].data : m \in Modules}] :
            (\A m \in Modules : obj[m].data = {code[m]}) /\ exe' = {code}
        BY <1>2 DEF Link
    <2>2. src' = src /\ pc = "link" /\ pc \in InBuild /\ pos = Len(Queue) + 1
        BY <1>2 DEF Link, IInv, UnitInv, InBuild
    <2>3. \A m \in Modules : Built(m)
        <3>1. \A m \in Modules : \E i \in 1..(pos - 1) : Queue[i] = m
            BY <2>2, QueueFacts
        <3> QED BY <2>2, <3>1 DEF CleanInv
    <2>4. \A m \in Modules : Scratch!Correct(m) /\ code[m] = Scratch!Compiled(m)
        BY <2>1, <2>3, MapFacts DEF Built, Loaded
    <2>5. code = [m \in Modules |-> Scratch!Compiled(m)]
        BY <2>4
    <2> QED BY <2>1, <2>2, <2>4, <2>5 DEF Scratch!Build
<1>3. ASSUME RemoveFile \/ LinkFails
      PROVE  Scratch!Discard \/ UNCHANGED <<[m \in Modules |-> src[m].text], exe>>
    BY <1>3 DEF RemoveFile, LinkFails, Scratch!Discard
<1>4. CASE \/ Tick \/ Crash \/ StartClean \/ StartBuild \/ EndClean \/ LoadCached \/ LoadFails
           \/ NeedsCompiling \/ ReadSource \/ RejectSource \/ AcceptSource \/ OpenObject
           \/ CannotOpenObject \/ WriteObject \/ OpenMetadata \/ WriteMetadata
           \/ MetadataNotWritten \/ CompileCSources
    <2>1. UNCHANGED <<src, exe>>
        BY <1>4 DEF Tick, Crash, StartClean, StartBuild, EndClean, LoadCached, LoadFails,
                    NeedsCompiling, ReadSource, RejectSource, AcceptSource, OpenObject,
                    CannotOpenObject, WriteObject, OpenMetadata, WriteMetadata,
                    MetadataNotWritten, CompileCSources
    <2> QED BY <2>1
<1> QED BY <1>1, <1>2, <1>3, <1>4 DEF Next, Environment, Veoc, Scratch!Next

(* BuildsFromScratch, for every package: with a clean before every build and no
   saves meanwhile, the executable is what the sources alone determine. *)
THEOREM CleanBuildsRefine ==
    ASSUME CleanFirst, Habits = {FALSE}
    PROVE  Spec => BuildsFromScratch
<1>1. IInv /\ CleanInv /\ [Next]_vars => CleanInv'
    <2> SUFFICES ASSUME IInv, CleanInv, UNCHANGED vars PROVE CleanInv'
        BY CleanStep
    <2>1. UNCHANGED <<src, obj, pc, pos, loader, unit>>
        BY DEF vars
    <2> QED BY <2>1 DEF CleanInv, Built, Loaded, Verdict, CodeFrom, Cur
<1>2. IInv /\ CleanInv /\ [Next]_vars =>
        [Scratch!Next]_<<[m \in Modules |-> src[m].text], exe>>
    BY StepScratch DEF vars
<1> QED BY <1>1, <1>2, InitCleanInv, InitScratch, Invariance, PTL
       DEF Spec, BuildsFromScratch, Scratch!Spec
=============================================================================
