------------------------------ MODULE BuildCache ------------------------------
(***************************************************************************)
(* The incremental build of a package: BuildDriver::Build walks the        *)
(* compilation queue, skips a module whose artefacts look fresh, compiles  *)
(* the others, and links (stage0/src/driver/build.cpp, compiler.cpp).      *)
(*                                                                         *)
(* What survives a build is on the disk: the sources, one object file and  *)
(* one .vmeta file per module, the executable.  What decides whether a     *)
(* module is compiled again is only the modification times, which come     *)
(* from a clock that may not advance between two steps.  Files are written *)
(* by truncating and then filling them, so that a process that is killed   *)
(* leaves an empty file with a new time.                                   *)
(***************************************************************************)
EXTENDS CompilationQueue

CONSTANTS
    Modules,          \* the files of the package
    Deps,             \* Deps[m]: the modules that m imports
    Queue,            \* the compilation queue that sortDeps computed
    Texts,            \* Texts[m]: what the source file of m may contain
    MaxTime,          \* the clock stops here (bounds the instance)
    Habits,           \* may sources be saved while veoc is running? (a set of answers)
    CleanFirst        \* is every build preceded by "veoc clean" (build.py)?

(* What one compilation can tell apart in a source file: "sig" stands for  *)
(* the declarations its importers see, "mutates" for an exported method    *)
(* that modifies its receiver, "constCall" for a call of such a method on  *)
(* an immutable variable, "instantiates" for a use of an imported generic; *)
(* a "broken" file has an error of its own.                                *)
Uses == {"plain", "constCall", "instantiates"}
Text == [sig : Nat, mutates : BOOLEAN, use : Uses, broken : BOOLEAN]

ASSUME DepsAssumption == Deps \in [Modules -> SUBSET Modules]
ASSUME TextsAssumption == Texts \in [Modules -> SUBSET Text]
ASSUME SwitchAssumption == Habits \subseteq BOOLEAN /\ CleanFirst \in BOOLEAN

(* What ImportGraph establishes of the queue (see ImportGraphProofs).       *)
ASSUME QueueAssumption == IsCompilationQueue(Queue, Modules, Deps)

VARIABLES
    src,      \* the source files: text and modification time
    obj,      \* the object files
    vmeta,    \* the .vmeta files
    exe,      \* the executable: {}, or the code of every module
    clock,    \* the clock of the file system
    pc,       \* where veoc is
    pos,      \* the position in the queue
    loader,   \* ModuleLoader: the symbols of a module, {} if not loaded
    unit,     \* the source buffer of the module being compiled, or {}
    dirty,    \* history: since the last complete clean, was veoc killed or
              \* unable to write metadata?
    EditDuringBuild   \* the programmer saves also while veoc is running

history == <<dirty, EditDuringBuild>>
vars == <<src, obj, vmeta, exe, clock, pc, pos, loader, unit, history>>
process == <<pc, pos, loader, unit>>

(* The symbols of a module, as importers find them in the ModuleLoader;    *)
(* "bodies" says that the AST of its generic functions is at hand.         *)
Iface == [sig : Nat, mutates : BOOLEAN, bodies : BOOLEAN]
Analysed(t) == [sig |-> t.sig, mutates |-> t.mutates, bodies |-> TRUE]

(* An object file holds the compiled text and the declarations of its      *)
(* imports that went into it; the metadata are those of the text.          *)
Code == [text : Text, seen : SUBSET (Modules \X Nat)]

(* A file that veoc writes.  "data" is empty or has one element: what the  *)
(* file contains, if it has been written to the end.                       *)
File(S) == [there : BOOLEAN, mtime : Nat, data : SUBSET S]
NoFile == [there |-> FALSE, mtime |-> 0, data |-> {}]
Truncated == [there |-> TRUE, mtime |-> clock, data |-> {}]
Filled(x) == [there |-> TRUE, mtime |-> clock, data |-> {x}]

(* DeserializeModule: the method flag IsConst is read but not stored, so   *)
(* that every method of a loaded module has the default, and no AST comes  *)
(* back.                                                                   *)
Deserialized(t) == [sig |-> t.sig, mutates |-> FALSE, bodies |-> FALSE]

InBuild == {"check", "read", "openObj", "writeObj", "openVmeta", "writeVmeta",
            "csources", "link"}
Running == pc \in InBuild \cup {"clean"}

Cur == Queue[pos]

-----------------------------------------------------------------------------

Init ==
    /\ src \in [Modules -> {[text |-> t, mtime |-> 0] : t \in UNION {Texts[m] : m \in Modules}}]
    /\ \A m \in Modules : src[m].text \in Texts[m]
    /\ obj = [m \in Modules |-> NoFile]
    /\ vmeta = [m \in Modules |-> NoFile]
    /\ exe = {}
    /\ clock = 1
    /\ pc = "idle"
    /\ pos = 1
    /\ loader = [m \in Modules |-> {}]
    /\ unit = {}
    /\ dirty = FALSE
    /\ EditDuringBuild \in Habits

(* The programmer and the clock.  A save that changes nothing is a save too, *)
(* with a new time.  Bound: while veoc is running, only changes are saved.   *)

Edit(m, t) ==
    /\ Running => EditDuringBuild
    /\ t # src[m].text \/ ~EditDuringBuild
    /\ src' = [src EXCEPT ![m] = [text |-> t, mtime |-> clock]]
    /\ UNCHANGED <<obj, vmeta, exe, clock, process, history>>

Tick ==
    /\ clock < MaxTime
    /\ clock' = clock + 1
    /\ UNCHANGED <<src, obj, vmeta, exe, process, history>>

(* The process ends, with whatever status: only the files remain.          *)
Exit ==
    /\ pc' = "idle"
    /\ loader' = [m \in Modules |-> {}]
    /\ unit' = {}
    /\ pos' = 1

(* veoc is killed: its memory is lost, the files stay as they are.         *)
Crash ==
    /\ Running
    /\ Exit
    /\ dirty' = TRUE
    /\ UNCHANGED <<src, obj, vmeta, exe, clock, EditDuringBuild>>

(* veoc clean: CleanPackage removes the target directory, file by file.    *)

StartClean ==
    /\ ~Running
    /\ pc' = "clean"
    /\ UNCHANGED <<src, obj, vmeta, exe, clock, pos, loader, unit, history>>

RemoveFile ==
    /\ pc = "clean"
    /\ \/ \E m \in Modules :
            /\ obj[m].there
            /\ obj' = [obj EXCEPT ![m] = NoFile]
            /\ UNCHANGED <<vmeta, exe>>
       \/ \E m \in Modules :
            /\ vmeta[m].there
            /\ vmeta' = [vmeta EXCEPT ![m] = NoFile]
            /\ UNCHANGED <<obj, exe>>
       \/ /\ exe # {}
          /\ exe' = {}
          /\ UNCHANGED <<obj, vmeta>>
    /\ UNCHANGED <<src, clock, process, history>>

(* Mutant: remove_all is not waited for.                                   *)
EndCleanEarly ==
    /\ pc = "clean"
    /\ pc' = "cleaned"
    /\ dirty' = FALSE
    /\ UNCHANGED <<src, obj, vmeta, exe, clock, pos, loader, unit, EditDuringBuild>>

EndClean ==
    /\ pc = "clean"
    /\ \A m \in Modules : ~obj[m].there /\ ~vmeta[m].there
    /\ exe = {}
    /\ pc' = "cleaned"
    /\ dirty' = FALSE
    /\ UNCHANGED <<src, obj, vmeta, exe, clock, pos, loader, unit, EditDuringBuild>>

(* veoc build.                                                             *)

(* The loop over the queue: its turn number i, or what follows the loop.   *)
Turn(i) == IF i <= Len(Queue) THEN "check" ELSE "csources"

StartBuild ==
    /\ ~Running
    /\ CleanFirst => pc = "cleaned"
    /\ pos' = 1
    /\ pc' = Turn(1)
    /\ loader' = [m \in Modules |-> {}]
    /\ unit' = {}
    /\ UNCHANGED <<src, obj, vmeta, exe, clock, history>>

(* Mutant: the loop does not move on.                                      *)
SameModule ==
    /\ pos' = pos
    /\ pc' = Turn(pos)

NextModule ==
    /\ pos' = pos + 1
    /\ pc' = Turn(pos + 1)

(* Mutants: ">=" for ">"; no look at the times; no look at the metadata.   *)
FreshIfNotOlder(m) ==
    /\ obj[m].there
    /\ vmeta[m].there
    /\ obj[m].mtime >= src[m].mtime
    /\ vmeta[m].mtime >= src[m].mtime

FreshIfThere(m) == obj[m].there /\ vmeta[m].there

FreshByObject(m) ==
    /\ obj[m].there
    /\ vmeta[m].there
    /\ obj[m].mtime > src[m].mtime

isArtefactsFresh(m) ==
    /\ obj[m].there
    /\ vmeta[m].there
    /\ obj[m].mtime > src[m].mtime
    /\ vmeta[m].mtime > src[m].mtime

LoadCached ==
    /\ pc = "check"
    /\ isArtefactsFresh(Cur)
    /\ \E t \in vmeta[Cur].data :
        loader' = [loader EXCEPT ![Cur] = {Deserialized(t)}]
    /\ NextModule
    /\ UNCHANGED <<src, obj, vmeta, exe, clock, unit, history>>

(* "Module ... was not be loaded": exit(1).                                *)
LoadFails ==
    /\ pc = "check"
    /\ isArtefactsFresh(Cur)
    /\ vmeta[Cur].data = {}
    /\ Exit
    /\ UNCHANGED <<src, obj, vmeta, exe, clock, history>>

NeedsCompiling ==
    /\ pc = "check"
    /\ ~isArtefactsFresh(Cur)
    /\ pc' = "read"
    /\ UNCHANGED <<src, obj, vmeta, exe, clock, pos, loader, unit, history>>

(* The file is read into memory once; it is not looked at again.           *)
ReadSource ==
    /\ pc = "read"
    /\ unit = {}
    /\ unit' = {src[Cur].text}
    /\ UNCHANGED <<src, obj, vmeta, exe, clock, pc, pos, loader, history>>

(* The errors that Sema reports of text t in module m: its own, an import  *)
(* that is not loaded, a mutating method called on an immutable receiver,  *)
(* and a generic whose AST is missing, which is a crash of the compiler.   *)
Rejects(m, t) ==
    \/ t.broken
    \/ \E d \in Deps[m] : loader[d] = {}
    \/ \E d \in Deps[m] : \E i \in loader[d] :
        \/ t.use = "constCall" /\ i.mutates
        \/ t.use = "instantiates" /\ ~i.bodies

(* Compile exits before it has touched an artefact.                        *)
RejectSource ==
    /\ pc = "read"
    /\ \E t \in unit : Rejects(Cur, t)
    /\ Exit
    /\ UNCHANGED <<src, obj, vmeta, exe, clock, history>>

AcceptSource ==
    /\ pc = "read"
    /\ \E t \in unit :
        /\ ~Rejects(Cur, t)
        /\ loader' = [loader EXCEPT ![Cur] = {Analysed(t)}]
    /\ pc' = "openObj"
    /\ UNCHANGED <<src, obj, vmeta, exe, clock, pos, unit, history>>

(* EmitFile: opening the stream truncates the file.                        *)
OpenObject ==
    /\ pc = "openObj"
    /\ obj' = [obj EXCEPT ![Cur] = Truncated]
    /\ pc' = "writeObj"
    /\ UNCHANGED <<src, vmeta, exe, clock, pos, loader, unit, history>>

CannotOpenObject ==
    /\ pc = "openObj"
    /\ Exit
    /\ UNCHANGED <<src, obj, vmeta, exe, clock, history>>

(* The declarations of its imports are compiled into the code of m.        *)
Seen(m) == UNION {{<<d, i.sig>> : i \in loader[d]} : d \in Deps[m]}

WriteObject ==
    /\ pc = "writeObj"
    /\ \E t \in unit :
        obj' = [obj EXCEPT ![Cur] = Filled([text |-> t, seen |-> Seen(Cur)])]
    /\ pc' = "openVmeta"
    /\ UNCHANGED <<src, vmeta, exe, clock, pos, loader, unit, history>>

(* SerializeModule, in the same two steps; that the stream cannot be       *)
(* opened goes unnoticed.                                                  *)
OpenMetadata ==
    /\ pc = "openVmeta"
    /\ vmeta' = [vmeta EXCEPT ![Cur] = Truncated]
    /\ pc' = "writeVmeta"
    /\ UNCHANGED <<src, obj, exe, clock, pos, loader, unit, history>>

(* Mutants: the source is read a second time; the stream is not flushed.   *)
WriteMetadataOfReread ==
    /\ pc = "writeVmeta"
    /\ vmeta' = [vmeta EXCEPT ![Cur] = Filled(src[Cur].text)]
    /\ unit' = {}
    /\ NextModule
    /\ UNCHANGED <<src, obj, exe, clock, loader, history>>

MetadataNotFlushed ==
    /\ pc = "writeVmeta"
    /\ unit' = {}
    /\ NextModule
    /\ UNCHANGED <<src, obj, vmeta, exe, clock, loader, history>>

WriteMetadata ==
    /\ pc = "writeVmeta"
    /\ \E t \in unit : vmeta' = [vmeta EXCEPT ![Cur] = Filled(t)]
    /\ unit' = {}
    /\ NextModule
    /\ UNCHANGED <<src, obj, exe, clock, loader, history>>

MetadataNotWritten ==
    /\ pc = "openVmeta"
    /\ unit' = {}
    /\ NextModule
    /\ dirty' = TRUE
    /\ UNCHANGED <<src, obj, vmeta, exe, clock, loader, EditDuringBuild>>

(* The C sources of the manifest are compiled by clang in every build: they *)
(* may be missing or wrong, and with --no-link the build ends after them.   *)
CompileCSources ==
    /\ pc = "csources"
    /\ \/ pc' = "link" /\ UNCHANGED <<pos, loader, unit>>
       \/ Exit
    /\ UNCHANGED <<src, obj, vmeta, exe, clock, history>>

(* clang links the object files of the queue.  That needs every one of     *)
(* them, and may fail all the same; the old executable may be gone then.   *)
Link ==
    /\ pc = "link"
    /\ \E code \in [Modules -> UNION {obj[m].data : m \in Modules}] :
        /\ \A m \in Modules : obj[m].data = {code[m]}
        /\ exe' = {code}
    /\ Exit
    /\ UNCHANGED <<src, obj, vmeta, clock, history>>

LinkFails ==
    /\ pc = "link"
    /\ exe' \in {exe, {}}
    /\ Exit
    /\ UNCHANGED <<src, obj, vmeta, clock, history>>

Environment ==
    \/ \E m \in Modules : \E t \in Texts[m] : Edit(m, t)
    \/ Tick \/ Crash \/ StartClean \/ StartBuild

Veoc ==
    \/ RemoveFile \/ EndClean
    \/ LoadCached \/ LoadFails \/ NeedsCompiling
    \/ ReadSource \/ RejectSource \/ AcceptSource
    \/ OpenObject \/ CannotOpenObject \/ WriteObject
    \/ OpenMetadata \/ WriteMetadata \/ MetadataNotWritten
    \/ CompileCSources \/ Link \/ LinkFails

Next == Environment \/ Veoc

(* veoc is one sequential process: it runs on until it exits.              *)
Spec == Init /\ [][Next]_vars /\ WF_vars(Veoc)

-----------------------------------------------------------------------------

AtMostOne(S) == \A x, y \in S : x = y

(* Every variable keeps its range, and a file has one contents at most. *)
TypeOK ==
    /\ src \in [Modules -> [text : Text, mtime : Nat]]
    /\ obj \in [Modules -> File(Code)]
    /\ vmeta \in [Modules -> File(Text)]
    /\ \A m \in Modules : AtMostOne(obj[m].data) /\ AtMostOne(vmeta[m].data)
    /\ \A c \in exe : c \in [Modules -> Code]
    /\ clock \in Nat
    /\ pc \in InBuild \cup {"idle", "clean", "cleaned"}
    /\ pos \in 1..(Len(Queue) + 1)
    /\ pc \in {"check", "read", "openObj", "writeObj", "openVmeta", "writeVmeta"} =>
        pos <= Len(Queue)
    /\ loader \in [Modules -> SUBSET Iface]
    /\ unit \subseteq Text
    /\ dirty \in BOOLEAN
    /\ EditDuringBuild \in Habits

(* isArtefactsFresh only compares times, with a strict ">".  If sources are
   saved between builds only, that is enough: what it accepts was compiled
   from the present text, whatever was killed in the middle before, and even
   when the clock stands still.  (A file that is empty satisfies this: see
   ArtefactsFailOnlyIfKilled.) *)
FreshIsCurrent ==
    ~EditDuringBuild =>
        \A m \in Modules : isArtefactsFresh(m) =>
            /\ \A c \in obj[m].data : c.text = src[m].text
            /\ \A t \in vmeta[m].data : t = src[m].text

(* The executable that a build links is made of the present text of every
   module, although most of it may come from earlier builds. *)
LinksCurrentSources ==
    [][~EditDuringBuild /\ Link =>
        \A code \in exe' : \A m \in Modules : code[m].text = src[m].text]_vars

(* A module is not compiled again when a module it imports has changed, so its
   object file may rest on declarations that are gone.  Whenever it does, that
   module was saved no earlier than the object file was written: comparing the
   object file with the sources of the imports would show every such case. *)
SkewIsVisible ==
    ~EditDuringBuild =>
        \A m \in Modules : \A c \in obj[m].data : \A p \in c.seen :
            p[2] # src[p[1]].text.sig => src[p[1]].mtime >= obj[m].mtime

Compiling(m) == pc \in {"writeObj", "openVmeta", "writeVmeta"} /\ m = Cur

(* Two files, one compilation: unless a veoc was killed or could not write, the
   object file and the metadata of a module hold the same text, even if the
   source was saved while it was compiled. *)
PairsAgree ==
    ~dirty =>
        \A m \in Modules : obj[m].there /\ vmeta[m].there /\ ~Compiling(m) =>
            \E c \in obj[m].data : vmeta[m].data = {c.text}

(* A build that stops at its own artefacts, because the metadata "was not be
   loaded" or an object file is empty, follows a killed one: no build that ends
   by itself, with success or not, and no save at any time leaves a file that
   looks fresh and cannot be used. *)
ArtefactsFailOnlyIfKilled ==
    ~dirty =>
        /\ pc = "check" /\ isArtefactsFresh(Cur) => vmeta[Cur].data # {}
        /\ pc = "link" => \A m \in Modules : obj[m].data # {}

(* veoc always comes to an end, however often the sources change meanwhile. *)
VeocEnds == Running ~> ~Running

(* A method that modifies its receiver is not called on an immutable one: the
   compiler does not accept a program that does, whether the library was
   analysed in the same run or loaded from its metadata. *)
ImmutableReceiverRejected ==
    [][~EditDuringBuild /\ AcceptSource =>
        ~ /\ src[Cur].text.use = "constCall"
          /\ \E d \in Deps[Cur] : src[d].text.mutates]_vars

(* The build that build.py runs, clean first, is the build from scratch: the
   executable is what the sources alone determine, or there is none.  It holds
   with CleanFirst and Habits = {FALSE}. *)
Scratch == INSTANCE ScratchBuild WITH text <- [m \in Modules |-> src[m].text]
BuildsFromScratch == Scratch!Spec

=============================================================================
