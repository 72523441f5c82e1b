# Verification of the Veo compiler

TLA+ specifications of the Veo compiler, the TLC runs that check them and the
theorems that TLAPS proves about them. Paths below are relative to the
repository (which is under `src/` here, so that `src/stage0` is its `stage0`).

Veo has two compilers. `stage0` (C++, LLVM) is the one that works: `veoc build`
reads a manifest, finds the modules that the entry point imports, orders them,
compiles each one or loads the metadata of an earlier compilation, and links.
`src/` is the second stage, the compiler rewritten in Veo and in the making. The
specifications are about stage0's core first: what is built, in which order,
from what, and what the semantic analysis infers.

## 1. Inventory

| Component | State | Operations | What makes it hard | What makes it correct |
|---|---|---|---|---|
| Import graph (`stage0/src/driver/build.cpp`) | `_graph`, `File.State`, `_compilationQueue`, the call stack | `scanDeps`, `sortDeps`, `resolveDeps` | cycles, shared and missing imports in one recursive walk | the queue is a topological order of exactly the package; refused exactly for cycles; ends |
| Incremental build (`build.cpp`, `compiler.cpp`, `cli_options.cpp`, `module_loader.h`) | files and their times on the disk; the loader, the position in the queue | `Build`, `Compile`, `isArtefactsFresh`, `EmitFile`, `CleanPackage` | kills and edits at any step, failed builds, coarse times | what looks fresh is current; the linked code is the present one |
| Metadata (`stage0/src/bitcode`) | string, type and module pools; fixups | `SerializeModule`, `DeserializeModule` | what one run infers is needed in the next; types completed late | a module loaded is the module analysed |
| Import scanner (`deps_resolver.cpp`) | position in the text | `Deps` | a second tokenizer, with its own idea of comments and names | finds the imports that the parser finds |
| Declarations and types (`stmts.cpp`, `exprs.cpp`, `casting.cpp`, `candidates.cpp`, `folding.cpp`, `types_manip.cpp`) | symbols of the modules, scopes, overload sets, constants | four passes of `declare*` and `analyze*`; overloads, casts, folding | names resolved at several times; instances that join the overload sets; constants folded apart from generated code | no two functions alike; each body in its own function; values have their type; calls mean what the text says |
| Semantic analysis (`stage0/src/sema`, `include/sema/sema.h`) | symbols of the module, scopes, types of the expressions, `_insideMethod`, `_loops`, insertion block | one function per kind of statement and expression | templates instantiated in the middle of a body; fixpoints; abandoned statements | refuses what the tests refuse, whatever the order and the cache |
| Linearizer (`stage0/src/linearizer`) | insertion block, `_asLValue` | one function per kind of node | short circuits split blocks in the middle of an expression | evaluates what the tree evaluates |
| Control flow (`stage0/src/hir_analyze`) | successors, reachable blocks | `CFGBuilder`, `DeadCodeEliminator`, `ReturnChecker` | code after a terminator | a function without a return on some path is refused |
| Type pool (`stage0/include/basic/types`) | the types made | `GetOrCreate` | structural equality of incomplete and recursive types | equal types are one object, different ones two |
| Lexer, parser (`stage0/src/lexer`, `stage0/src/parser`) | position, tokens, nodes so far | `NextToken`, one function per production, `synchronize` | one character of look-ahead; recovery after an error | what is written is read; what is accepted was written; an error loses no other statement; ends |
| Code generation, mangling | LLVM module | one function per kind of node | names of overloads and instances | no two entities share a name |
| Second stage (`src/*.veo`) | maps, scopes, types | lexer, parser, `NamesResolver`, `TypeChecker` | open addressing, integer limits | the same verdicts |
| Standard library (`src/std`) | arena chunks, strings | `alloc`, `realloc`, `append` | growth at the limit | no write outside a block |

The driver calls everything else: `Build` scans and sorts, then for each module
of the queue either deserialises its `.vmeta` into the `ModuleLoader` or runs
lexer, parser, `Sema`, linearizer, dead code elimination, return check and code
generation on it, writes its object file and serialises its symbols. `Sema`
reads the modules imported from the `ModuleLoader`. Nothing runs concurrently
inside `veoc`; the concurrency is between `veoc`, the programmer who saves
files, the clock of the file system and whoever kills processes. One `veoc` at a
time is assumed: the sources have no lock, and two of them in one directory are
not modelled.

## 2. Modules

| Module | Models | Checked by | Proved in |
|---|---|---|---|
| `ImportGraph` | `scanDeps`, `sortDeps` | `MCImportGraph` | `ImportGraphProofs` |
| `CompilationQueue` | what `Build` takes over from `sortDeps`: an order of the package, imports first | | the same |
| `BuildCache` | `Build` from the queue to the link, `Compile`, `CleanPackage`, kills, edits, clock | `MCBuildCache` | `BuildCacheProofs` |
| `ScratchBuild` | what a build promises: code that is a function of the sources | as a refinement of `BuildCache` | `BuildCacheProofs` |
| `MethodConstness` | how `Sema` infers `Method.IsConst` and checks calls on constants | `MCMethodConstness` | `MethodConstnessProofs` |
| `Lexer` | characters to tokens; the import scanner | `MCSyntax` | |
| `Parser` | tokens to statements, with errors and recovery | `MCSyntax` | |
| `Syntax` | the text of a tree; the properties of the front end | `MCSyntax` | |
| `Types` | equality, common type, casts and their costs, the choice of an overload | `MCDeclarations` | `TypesProofs` |
| `Constants` | values of constant expressions: widths, folding, casts | `MCDeclarations` | |
| `Declarations` | imports, structs, traits, impls, externs, heads of functions: the first three passes | `MCDeclarations` | |
| `Analysis` | bodies, calls, instances of templates, conversions: the last pass; mangled names; the properties of all four | `MCDeclarations` | |
| `Lowering` | statements of function bodies and templates to basic blocks; scopes, loops; control flow graph, dead code, return check | `MCLowering` | `LoweringProofs` |
| `LoweringNames` | what the names of a program mean by its text; `NamesAreLexical` | the same | `LoweringNamesProofs` |
| `LoweringReturns` | which bodies can be run to their end by their text; `MissingReturnsAreFound` | the same | `LoweringReturnProofs` |
| `LoweringFlow` | what the control flow of a body is by its text; `FlowIsPreserved` | the same | |
| `Evaluation` | one function's expressions through `Sema`, linearizer and code generator to a run | `MCEvaluation` | |
| `EvaluationOrder` | what the function does by its text; the properties of `Evaluation` | the same | |
| `Metadata` | `Serializer`, `Deserializer`, `TypePool`, `ModuleLoader` over several builds | `MCMetadata` | |
| `Iteration` | nothing of the code: induction over numbers, repeated functions and sums, for the proofs | | itself |

`BuildCache` assumes of its constant `Queue` what `ImportGraph` establishes of
`queue`: `CompilationQueue` states it once, `QueueAssumption` is an instance of it,
and `QueueIsHandedOver` proves it of the queue that the driver ends with. Its
`Rejects` and `Deserialized` summarise the verdict that `MethodConstness` details.

### ImportGraph

Both recursive functions become loops over an explicit stack: a frame is the
module and the index of the next element of its `Deps`. One step is one
iteration or one return. `imports` and `exists` are chosen at the start and
never change: any import list per file, any files missing. `phase = "cyclic"` is
the `exit(1)` of `sortDeps`.

### BuildCache

`src`, `obj`, `vmeta`, `exe` are the disk, `clock` the time of the file system,
`pc`, `pos`, `loader`, `unit` the memory of `veoc`. A source text is a record of
what one compilation can tell apart (the declarations importers see, whether a
method modifies its receiver, how the text uses its imports, whether it has an
error of its own). An object file holds the text it was compiled from and the
declarations of the imports that went into it. Writing is two steps, truncate
and fill, since that is what a kill can separate; the metadata are buffered and
written at once, so that a file is empty or whole. The clock may stand still between any two steps, so that a
source and an artefact may have one time; it never runs backwards, and a saved
file gets the present time (no `touch -d`, no checkout that restores times).
`dirty` is a history variable, read by properties only. `EditDuringBuild` is
chosen once: it says whether this programmer saves while `veoc` is running, which
some properties have to exclude.

### MethodConstness

A body is the list of the operations that bear on constness. The bodies are
analysed in any order of the file; a call of a template pushes the body of its
instance on the stack. Then the passes over the map visit its entries in any
order, and the report follows. The model gives each template one instance.
Vectors of recorded calls are sets: their order and multiplicity only change the
order and the repetition of messages.

### Lowering

The declarations of a file are analysed one after the other, each body statement
by statement. The recursion of `analyzeStmt` is an agenda: the statements and
the ends of constructs (`CloseLoop`, `CloseScope`, `MoveOrJump`, `EndBody`) that
are still to come, in the order of the code. `vars`, `loops` and the insertion
block are those of `Sema`; a call of a template that has no instance yet puts the
body of the template in front of the agenda, as `generateGenericFunc` does, with
one instance per template. `phase = "crashed"` stands for a null pointer dereferenced or
the top of an empty stack read. After the last declaration the passes of
`Compile` run on every function.

The programs are a constant, and so are four sets of statements: `Statements` is
closed under what is nested in a statement, `Loose` are those with a break or
continue that no loop of their own takes, `Blockless` those that do without an
insertion block, `Simple` those whose dead branches do. They are given by
equations, one level of nesting at a time, so that the module needs no recursion
and the theorems hold for statements of any depth; `MCLowering` computes them by
recursion, and the assumptions of `Lowering` are checked of the result. The linearizer is left out here: it refines
blocks and keeps the branches between them, which `Evaluation` shows.
`LoweringNames`, `LoweringReturns` and `LoweringFlow` hold the reference. A statement
has a path in the text; a name means the nearest definition at a level of its path
(`Lexical`): before the statement, or in the head of the loop that it is the body of.
`LoweringNames` needs no recursion for that. `LoweringReturns` says which statements
can be run through (`Completing`) and which may end in a break or a continue of a
loop around them (`Breaking`, `Continuing`), by one equation each over the parts of a
statement; like `Simple` and its like the sets are constants that `MCLowering` computes
and TLC compares with the equations. `LeavingAssumption`, that what leaves a loop is
`Loose`, would follow by induction over statements, which is out of the prover's reach,
and is evaluated like them. `LoweringFlow` has the paths of control, place by place,
by structural recursion, so it is checked and nothing is proved from it;
`FlowIsPreserved` also says that the two readings of the text, by equations and by
places, agree on which bodies can be run to their end.

### Evaluation

One function, `{ let x = init; if test { use; } }`, whose three expressions are
any trees of the shapes in `MCEvaluation`. `Analyze` is `Sema`'s tree of nodes
with what it puts into the block on the way; `Linearize` with its flag `lv` is
`HIRLinearizer` with `_asLValue`; `GenerateInst` and `GenerateTerm` follow
`CodeGen` through the blocks and the search of `findLocal`; `RunInst` and
`RunTerm` execute the result, calls returning anything. Types are abstracted:
every value is a truth value. `findLocal` compares variables by name, place and
type, which makes all variables of ternary expressions alike; `found` is the one
that the unordered map yields, chosen again whenever the map grows.
`EvaluationOrder` gives the meaning of the text. `Tame` says for which
expressions the order is kept, and each of its parts names the construct of the
code that breaks it for the others.

### Metadata

`BuildCache` says when metadata are read, `Metadata` what then is in the memory
of `veoc`. A package of three modules, chosen at the start, is built three times;
each module is compiled (`Compile`, then `SerializeModule`) or read
(`DeserializePools`, then `DeserializeSymbols`), as the times of the files would
have it: since these are free, so is the choice. `types` is the global
`TypePool`, `mods` the module objects, `writer`, `reader` and `fixups` the members
of the one `Serializer` and the one `Deserializer` of a build. A declaration is a
name and a type and stands for variables, functions, arguments, fields and
methods, which the code writes and reads alike. `Unfold` is `operator==` on
types: it compares what two types unfold to, incomplete ones included. Two fields
of a file, `build` and `alone`, are for the properties only. `SerializeModule`
collects, then writes strings, types and modules in the order of the code, which
matters since writing asks for further IDs. Undefined behaviour ends a behaviour
of the model (`"undefined"`); what a compiler that goes on would write is not
described.

### Lexer, Parser, Syntax

A text is a sequence of characters, with keywords, names and blanks as single
characters where their spelling does not matter. `NextToken` is the scanner of
the compiler, `DepToken` that of the driver, which looks for imports before
anything is parsed. Every function of the parser is an operator from a state of
the parser to a state of the parser; a null result is `Null`, a null pointer
that is used ends the parser with `crashed`. The productions call each other in
cycles, so `Part(p, q)` is the one recursive entry: `q` names the production, and
`Parts` strings several of them together as the code does with its returns on
null. `Then` is such a return. One step parses one statement of the file, as the
loop of `Parse` does, recovery included. `Syntax` writes trees: `Write` puts
parentheses where the precedence of the language asks for them, so that what the
parser makes of the text can be compared with the tree it was written for, and
what it accepts with what its own result would be written as.

### Types, Constants, Declarations, Analysis

A type is the sequence of its parts, the outermost first; a path that is not
resolved yet is `<<"named", ...>>`, which matters, since some comparisons of the
code come before the resolution and some after. A constant is its type, the word
that Sema computes with and the bits that the generated code has: widths are
scaled (3 to 6 bits for 8 to 64), in the order of the real ones, so that overflow,
wrap-around and sign happen among small numbers. Numbers with a point have their
value as constants, so that a division by zero is refused for them, too, but no
bits, and a quotient of two of them loses its fraction: no text operates on one. `Declarations`
holds what the module knows (candidates, structs, traits, impls, imports, the
scopes) in the record `sema`; every handler is an operator on it. One step takes
one declaration of the file through one of the four passes of `Sema::Analyze`:
imports; structs, traits and externs; the heads of functions and impls; bodies,
variables and expressions. `Analysis` has
the expressions and bodies: `CallAmong` chooses, `InstanceBody` analyses the body
of a template in the middle of that of the caller - a definition of its own, that
leaves the head of the template (`sigs`) as it was read - and `Allowed` is the checks
after the analysis. `Mangled` is the name that the code generator gives. The
reference for folding, `Reference`, evaluates a constant as generated code would.

Operators that take a whole state pass what they computed on as a parameter of
the next one, where a LET would be read several times: the state is large, and so
each result is computed once.

## 3. Runs

| Run | Instance and bounds | Shows |
|---|---|---|
| `import_graph` | 3 import paths, up to 2 imports per file, any files missing | `QueueIsTopological`, `QueueIsComplete`, `VerdictIsRight`, `Terminates` |
| `builds` | 2 modules, a library with 2 texts and a program that uses it, `MaxTime` 2, saves between builds only, unchanged texts included, or changes saved at any time (`Habits`), kills anywhere | `FreshIsCurrent`, `SkewIsVisible`, `LinksCurrentSources`, `PairsAgree`, `ArtefactsFailOnlyIfKilled`, `VeocEnds` |
| `build_clean` | 2 modules, 2 and 4 texts, every build after a complete clean | `BuildsFromScratch`: the incremental build implements `ScratchBuild` |
| `cached_receiver` | 2 modules, the verdict on the program depends on the library | violation of `ImmutableReceiverRejected`, see 5 |
| `constness` | 3 methods and a template, up to 8 bodies each, assignments to inner fields, 2 bodies of functions | `ReportsAreRight`, `PlainCallsAreChecked`, `Settles` |
| `lowering` | 574,772 states: one function whose statements nest three deep if it returns a value and two deep if it does not, with a return, break, continue or definition anywhere; or two functions, a template and a variable of the module, with definitions, uses and calls in loops and branches, conditions that fail and a loop whose iteration is a definition; or statements of the module behind a scope left open | `FlowIsPreserved`, `MissingReturnsAreFound`, `NamesAreLexical`, `StacksAreBalanced`, `GraphsAreClosed`, `CrashesAreKnown` |
| `evaluation_order` | 1460 functions, one expression of depth two, at most two ternary variables | `OrderIsKept` (1049 are `Tame`), `NothingIsLost`, `CrashesAreKnown` |
| `hoisted_ternary` | one function | violation of `ShortCircuits`, see 5 |
| `metadata` | 324 packages of three modules in a chain of imports: in one directory, one of them in another, two of one name; scalars, pointers, pointers to pointers, aliases, structs, traits, constants, types inferred through two modules; three builds | `UnsharedAreKept`, `FilesAreUsable` |
| `metadata_pointers` | one module with two pointer types, two builds | violation of `AllAreKept`, see 5 |
| `front_end` | expressions two operators deep, one statement of every kind and form, numerals and literals of every form, imports with comments and blanks at every place; every statement with one token left out, put in or replaced, or cut off, and a definition behind it | `WellFormedIsParsed`, `AcceptedIsWritten`, `LetsAreKept`, `ImportsAreFound`, `CrashesAreKnown`, `StatementsAdvance` |
| `declarations` | sequences of up to three declarations of one subject each (functions, traits, imports, externs, and declarations that are refused), 8000 pairs of constants; two libraries to import | `DuplicatesAreFound`, `BodiesAreTheirOwn`, `CrashesAreKnown`, `NothingIsLost`, `ValuesHaveTheirType`, `CallsMeanTheSame`, `NamesAreDistinct`, `FoldingIsInvisible` |

Why the bounds are enough. Three import paths are the fewest with a path of
length two, a cycle that avoids the entry point, and a module shared by two
others; two imports per file are needed for the latter, and a repeated import is
among them. A build needs a library and an importer for every effect of one
module on another; two instants after the first save give a file that is older
than, as old as and newer than its source. Three methods make call chains that
run against the order of the map, so that a second and a third pass are needed,
and cycles with and without an assignment.

Two levels of nesting give a branch inside a loop, a loop inside a branch and
code after a terminator in both; the third, in functions that return a value,
puts the return that is missing behind each of them. Two callers and a template
give an instance made inside a body and a later one that finds it there. Depth
two puts every kind of expression under every other in each position; the
functions with more than two variables of ternary expressions add only further
ways to take one for the other.

Three modules in a chain give a module that is known only through one that was
read; three builds give files of two builds read in a third. The properties of
`Metadata` name their conditions (`OneBuild`, `OneOfEach`, `NamedByPath`,
`FlatPointers`, `OwnConstants`), and packages for which each condition fails are
among the 324: dropping any of them makes the run fail.

Two operators one inside the other put every precedence next to every other on
either side. A mistake with a definition behind it is what recovery is for; a
second one inside the recovery of the first adds no path of the code. Three
declarations of one subject give a first one, a second that meets it and a third
that was analysed against either (an instance, an impl, a body), in every order,
which is what the passes and the overload sets depend on; a trait and a struct
are put in front where three would be used up by them. Constants of depth one,
with another constant as an operand, give every operator every pair of kinds of
operand, values that fit and values that do not.

Deadlock is not checked: the traversal and the analysis stop when they are done,
and in `BuildCache` the environment can always start another build, until the
clock stands at its bound and everything is at rest.

Fairness. `veoc` is one sequential process that the system keeps running:
`WF_vars(Next)` in `ImportGraph` and `MethodConstness`, `WF_vars(Veoc)` in
`BuildCache`. Nothing is assumed of the programmer, the clock or kills.

Every property has a mutant, a definition beside the one that it replaces, that
makes the property fail: `>=` for `>` in `isArtefactsFresh`, a pass that forgets
`changed`, a queue in the reverse order, and so on.

## 4. Proofs

`ImportGraphProofs` proves for any set of import paths and any import lists:

- `TypeCorrect`, `TopologicalOrder`, `QueueComplete`, `VerdictCorrect`, each
  `Spec => []P` for the property of the run.

The properties of the queue are about its final state only, so none is
inductive. The invariant `IInv` adds the history that the two recursions keep on
their stack: while scanning, everything an entry of `graph` imports is in
`graph`, or still ahead of the index of a frame of that module; while sorting,
`"Visiting"` modules are exactly those on the stack, each frame's module was
imported by the one below it, the queue holds exactly the `"Visited"` ones, each
once, and whatever a visited module imports was queued before it. A module that
is met while `"Visiting"` is therefore reached from itself, and a module with a
cycle can never be queued. Reachability is the least set closed under imports
(`Closure`), so that no induction over paths is needed: `ClosureMinimal` does
its work. The proofs use `EntryAssumption` and `ImportListsAssumption` only.

`BuildCacheProofs` proves for any package, any texts of its files and any clock,
with saves and kills at any time, from the assumptions of `BuildCache` about its
constants (`QueueAssumption` is what `ImportGraphProofs` proves of the queue):

- `FreshAlways`, `LinksCurrent`, `SkewAlwaysVisible`, `PairsAlwaysAgree`,
  `OnlyKillsHurt`: each `Spec => []P`, or the action property, of the run
  `builds`; and `TypeCorrect`.

That fresh artefacts are current is not inductive: a step that writes one must
know that what is in memory is current, too. `IInv` adds where the source buffer
is full and where it is empty (`UnitInv`), that no file has a time ahead of the
clock (`TimesInv`, so that a save makes every artefact stale), that while nobody
saves the buffer, the loader and the code of every module behind the loop are of
the present texts (`CurrentInv`), and that without a kill the object file agrees
with the buffer until the metadata are written (`PairsInv`).

It also proves the refinement (`CleanBuildsRefine`): with a complete
clean before every build and no saves meanwhile, `Spec => BuildsFromScratch`. Its
invariant `CleanInv` says that what the loop has behind it is loaded as the
sources have it and compiled from them, and that what it has ahead has no object
file; so no module is ever taken from the cache, and the verdict and the code of
a module are those of `ScratchBuild`. Since importers come behind their imports
in the queue, a module finds all it sees in the loader.

`MethodConstnessProofs` proves for any program, any templates and any order of
the bodies and of the map `ReportsAlwaysRight`, `PlainCallsAlwaysChecked` and
`TypeCorrect`. One half of `IInv` says that what is recorded is in the text, so
that a flag is lowered only for a method of `Mutating`, the least set closed under
the calls (`MutatingFacts`; no induction over call chains is needed). The other
half says that what is in the text of a plain method is recorded once the
analysis is past it (`TextInv`), and that a pass without a change has seen no
method whose callee is lowered and which is not (`PassInv`): the lowered methods
are closed under the calls, and so contain the least such set.

`QueueIsHandedOver` joins the first two: when `ImportGraph` has ended without a
cycle, its queue is a `CompilationQueue`, which is all that `BuildCache` assumes of
its own. The theorems about builds therefore hold for the queues that the driver
computes.

`LoweringProofs` proves for any programs, statements of any depth and templates
that call each other in any way, from the equations of the four sets and the
shapes of statements (`StatementsAssumption` and the assumptions beside it):

- `StacksAlwaysBalanced`, `CrashesAlwaysKnown`: `Spec => []P` for the properties of
  the run `lowering`; `TypeCorrect`; and `BlocksAlwaysGrow`, that no step takes
  anything from a block, moves it to another function or writes behind its
  terminator.

Neither property is inductive, since whether the stacks are balanced at the end of
a body depends on everything that is still on the agenda. `IInv` is
`TypeOK /\ StackInv /\ CrashesAreKnown`. `StackInv` says that the agenda is a path
(`Leads`): there is a list of situations, one before each item and one after the
last, the first of which is how the stacks stand now and the last how they stand
between two declarations. A situation is the depth of the scopes, the loops and the
functions that are open and whether code is being muted; `Effect` says what an item
does to it. An item that the code may drop with all that is in front of the end of
its loop (a condition that fails) must leave its situation reachable by the other
way too (`Leaves`). A step takes the first item off the path or puts in front of it
a path of its own, for a branch, a loop, or the body of a template that is called,
and `LeadsConcat` puts paths together, so that the proof follows the code item by item
and never needs the depth of a statement. How strict a path is depends on `Mode`: after an
error was reported only the least is kept; without one the stacks stand exactly as
the situation says; and in a program without stray breaks and without dead branches
that need a block (`Sound`), every break has a loop of its own function and no item
meets a null block unless its branch is dead.

Behind these stands `GraphsAlwaysClosed`. `JumpInv` is `IInv` with
`GraphsAreClosed` and the fact that nothing is erased before the passes; the paths
carry the function of every block that an item will jump to (`Home`), so that a jump
written now stays inside. That what the dead code elimination keeps does not jump to
what it erases needs that `Reachable` is closed: the sets `within[0]`, `within[1]`,
... grow, and have stopped to grow after as many steps as there are blocks
(`IterationSettles`, by counting).

`LoweringNamesProofs` adds `NamesAlwaysLexical`, `Spec => []NamesAreLexical`. What
`getVariable` finds depends on the scopes that stand when a use is met, long after the
item of the agenda was made, so the invariant has to say it of all that is still to
come. `NamesInv` says that the scopes can be walked along the agenda (`Walk`): `vars`
is where the walk begins, it ends with the outermost scope alone, each item is met
with the scopes that the one before it leaves (`Step`), and the scopes that a
statement at a place of the text is met with see that place (`Sees`): they hold the
definitions before it among its siblings (`Knows`), and whatever name they hold, they
hold it as what it means there (`Agrees`). That is not enough for a body that is
analysed for the first time in the middle of another: what its template does not
define itself is looked up in the scopes of its caller, so `Good` says that all that
scopes hold, the outermost apart, belongs to functions whose bodies are or were
analysed, which a body that is begun now is not. After an error was reported nothing
is claimed, and items may be dropped; as it is not known in advance what will be
reported, a walk may end anywhere with a report (`Goes`), after which the rest is
passed over. The lemmas on paths and on `Lexical` say how the meaning of a name
changes from a statement to the next one (`SeesNext`, `SeesDefined`), into a part of a statement
(`SeesBelow`) and into a body; those on walks put a branch, a loop and a body
together from the walks of their parts. The rest is one lemma for each action.

`LoweringReturnProofs` adds `ReturnsAlwaysFound`, `Spec => []MissingReturnsAreFound`:
exactly the functions are refused whose text can be run to its end. The invariant has
to relate a graph that is half written to a text that is half read, while the blocks
of the branches are made long before the jumps to them and bodies of templates are
put in between. `ReturnInv` is `IInv` with

- `ReturnsInv`. Between the steps a body on the agenda is walked (`Walk`) as a run
  would go through what is still to be lowered: a mark before each item says whether a
  run can come to it. A walk is judged by a set of blocks that the jumps written so far
  do not leave (`Shut`, `View`); it becomes alive where the insertion point moves to a block of the
  set, and as long as it is alive, jumps must go to blocks of the set. `Upper`: for some set
  with the entry block the walk ends dead unless the text of the function completes, so
  that blocks are reached only as the text says. `Lower`: if the text completes, every
  walk ends alive, whichever set with the entry block it is judged by, so that they are reached as
  far as the text says. Both are needed, since a body can be refused wrongly and be
  accepted wrongly. For a body that is finished both come down to `Fin`: a block
  without a terminator can be come to from the entry exactly if the text completes.
  `Hold` states this for every body on the agenda, each cut out of it up to its own
  `endBody`, and says that no item of another body goes to its blocks.
- `AwayInv`: before the passes nothing is reported at the place of a function unless
  something is reported elsewhere, too, so that in a file without other errors the
  refusals are those of the return checker.
- `PassInv`: `Fin` of every function, and that what the passes have reported is what is
  missing in the functions they have behind them.

A step takes the head of the agenda and puts others in its place, while it adds blocks
and one terminator. `Turns` says of such an exchange that walks of the old items become
walks of the new and back, with the new blocks that the set needs; it speaks of
neither the rest of the body nor of the bodies around it (`BodyTurned`, `HeadTurned`
carry it there). `TurnIf`, `TurnConstant` and `TurnFor` show it from the equations of
the text, and the remaining lemmas go through the actions.

`TypesProofs` is about operators, for any widths in the order of the real ones:
`CastsAgree`, that the check of an argument (`canImplicitCast`) and the costs of an
overload (`checkCastCost`), two functions of the code, allow the same casts;
`OverloadIsRight`, what `resolveBestOverload` chooses; `WideningKeepsValues` and
`CommonIntegerHoldsBoth`, which casts keep every value. Its hypothesis `IsType` is
that a scalar type has no parts.

`Iteration` holds what these proofs need of induction. The induction theorems of the
library take an operator as a parameter, which the provers cannot instantiate;
stated with a set in its place (`SetInduction`) the same can be cited, and a
recursive function over numbers is then shown to be what its definition says by
building a table of it (`IterationExists`, `RepeatedExists`, `SumsExist`).

What stays with TLC: liveness (`Terminates`, `VeocEnds`, `Settles`), which the prover
has no rules for; `FlowIsPreserved` of `LoweringFlow` and the properties in `EvaluationOrder`, `Syntax`
and `Analysis`, whose references are recursive over the text of a program, and with
them `Evaluation`, `Parser`, `Lexer`, `Declarations` and `Constants`, which declare
recursive operators themselves (`Constants` uses `Bitwise`, too); and `Metadata`,
whose folds over sequences of records are recursive in the library.

## 5. What the checks found

- A mutating method of a library may be called on a constant when the library
  comes from its metadata (`cached_receiver`): the bit is read and dropped.
- A ternary expression to the right of `&&` or `||` is evaluated before the left
  operand and whatever it says (`hoisted_ternary`).
- Two pointer types of one module are one type after the module is read from its
  metadata, and so are two structs, traits or aliases (`metadata_pointers`).

Two more were shown by runs that made room for others, and follow from the
modules as they stand: `this.inner.field = e` does not count as a modification of
`this` (`exprs.cpp:824`, `AssignInnerField` of `MethodConstness`), and a
definition, a loop or an `if` in the branch of a constant `if` that is not taken
dereferences a null block (`stmts.cpp:393`, `DeadBranchesAreSimple` in
`CrashesAreKnown` of `Lowering`). A third is confined by that property: a loop whose
condition cannot be analysed leaves its scope open, so that a `return` among the
declarations behind it passes for one in a body and takes the top of no functions
(`ReturnOutside`); it happens after a reported error only.

Some hazards are confined by the condition of a property that holds, and the
condition says where the code goes wrong. `PlainCallsAreChecked` leaves out the
first call of a mutating template. `CrashesAreKnown` of `EvaluationOrder` names
the variable initialised with `&&` or `||` and used in a branch, for which the
code generator dereferences null. `FilesAreUsable` leaves out files of different
builds (an ID past the end of the pool of strings), modules in directories (which
are looked up by the stem of the file), a pointer and a pointer to it in one
module (a type that is its own base), and the constants of modules that were read
(whose value no file has).

Of the front end, the exceptions of the properties in `Syntax` say:

- `&=` and `|=` are read as two operators (`lexer.cpp:251-262`); a ternary
  expression in the condition of an `if` or `for` takes the brace of the body for
  a literal of a structure (`parser.cpp:825`).
- `pub` before what has no access, any token in the place of `func` in the body of
  an impl or trait (`parser.cpp:342`), and the end of the file in the place of
  closing braces are accepted.
- A member of a cast that was wrong is a null pointer dereferenced
  (`parser.cpp:766`).
- The scanner of imports finds the word in comments, strings and names, too; a
  comment inside of a path cuts the path, and the word without a name behind it
  ends the search.

Of the semantic analysis, the exceptions of the properties in `Analysis` say:

- Functions or methods whose parameters have one type spelled as names are not
  found to be duplicates, since `getFunction` and `getMethod` compare before the
  types are resolved; both bodies go into one function (`DuplicatesAreFound`,
  `BodiesAreTheirOwn`).
- An impl inside of a body adds to the methods of its type unchecked, or
  dereferences null (`NestedImpl`).
- A literal without a suffix that does not fit its type is dropped without a
  message, and with it the variable, the return or the argument it was for
  (`NothingIsLost`); one with a suffix is never compared with its range.
- Casts and bitwise operators of constants ignore the type that is expected
  (`TypeIgnored` in `ValuesHaveTheirType`).
- Bitwise operators on constants of size type and the least value divided by -1
  end the compiler (`UnguardedFold` in `CrashesAreKnown`); words outside the range
  of their type and constants of mixed sign are folded to other values than the
  generated code has (`FoldingIsInvisible`).
- An unsigned type accepts values of any narrower signed type, negative ones
  included (`casting.cpp:83`); `WideningKeepsValues` is about the other casts.
- An instance joins the overload set of its template, so that a later call with
  an argument that can be cast is accepted or ambiguous by what was called before
  (`CallsMeanTheSame`).
- The names of generated functions leave out the module of a struct, and a static
  method that is passed a pointer to its type has the name of a method
  (`NamesAreDistinct`).

The hazards that hold in the checked form are worth knowing too: an importer is
not compiled again when its import changes (`SkewIsVisible` says how that can be
seen), and a kill between opening and writing a `.vmeta` makes every later build
stop until the source is saved or the package is cleaned
(`ArtefactsFailOnlyIfKilled` says that nothing else does). The body of a
loop sees the variable that its iteration defines, and in the first round reads it
before it was ever written (`stmts.cpp:488`). The body of a template sees the local variables of the function that happens to call it first
(`NamesAreLexical` says so, and that nothing else is seen). Two ternary
expressions of one type in one function may read each other's result; no
document speaks of it, so it is a hazard and not a finding, and `OrderIsKept` is
stated for functions with one.

## 6. Plan

What is left, in this order:

1. `NameMap` and `Scopes` of the second stage: the open-addressing map as an
   implementation of a function, the resolver against lexical scoping; the ranges
   of literals, for which stage0's `Constants` can be the reference.
2. Fields, instances of structs and the methods of traits in `Analysis`, which
   are checked there only as far as calls and types go.
3. `FlowIsPreserved` for any program: the paths of control would have to be given by
   equations, as `LoweringReturns` gives what completes, and the walks of
   `LoweringReturnProofs` would have to carry the block that each place is lowered into.
4. `MetadataProofs`: `FilesAreUsable` for any packages and any number of builds, with
   the folds of `Metadata` written as recursive functions, that `Iteration` can
   unfold.
5. The arena of the standard library.

A component gets one run with all of its properties, on an instance that is
chosen for all of them; components that follow one another in the compiler share
a run (`front_end`, `declarations`). Findings that need a run of their own are
those that a document speaks of.

## 7. Not modelled

Text formatting, parsing of the manifest and of options, LLVM's optimisation and
code generation, clang, and the dumps. The second stage is in the making: its
front end repeats that of stage0, its back end is not called. Two `veoc`
processes at once, a file system that restores old times, and partially written
files are outside of the models. The text that diagnostics show is not part of
the parser's or the analysis' state; which are reported, and where, is.
