------------------------------ MODULE Metadata ------------------------------
(***************************************************************************)
(* What the .vmeta files carry from one build to the next: the symbols of  *)
(* a module with their types (stage0/src/bitcode), through the pool of     *)
(* types that all modules of a build share (basic/types/pool.h).           *)
(*                                                                         *)
(* A package has a source that stays as it is.  A module is compiled, and  *)
(* its metadata written, or it is fresh and its metadata are read; which,  *)
(* is up to the times of the files (see BuildCache).  One Serializer and   *)
(* one Deserializer serve a whole build, so that their members last from   *)
(* one module to the next.                                                 *)
(*                                                                         *)
(* A declaration is whatever has a name and a type: variable, function,    *)
(* argument, field.  A type is built from a scalar or a symbol (struct or  *)
(* trait) by wrappers, pointer or alias.  A constant has a value too,      *)
(* which is "lost" when it was read, for no file has it.  Type objects and *)
(* module objects are known by their index, 0 is the null pointer.  The    *)
(* phase is "undefined" where the behaviour of the program is (a null      *)
(* pointer dereferenced, an index past the end): nothing follows it.       *)
(*                                                                         *)
(* Left out: access and other flags, submodules (which nothing creates),   *)
(* the name of an alias (Sema makes the alias This only), usize and isize. *)
(* The code also takes two symbols for equal that have the same name, the  *)
(* same members and equal modules; here a symbol equals itself only.       *)
(***************************************************************************)
EXTENDS Naturals, SequencesExt

CONSTANTS Packages,     \* the packages considered
          MaxBuilds     \* bound: how many times the package is built

VARIABLES package,      \* [queue, stem, source], see MCMetadata
          build,        \* number of the present build
          pos,          \* which module of the queue it is at
          phase,        \* what is done with that module
          vmeta,        \* the files, by import path; None if there is none
          types,        \* the objects of the pool of types
          mods,         \* the module objects
          loader,       \* ModuleLoader: from import paths to module objects
          writer,       \* the pools of the Serializer
          reader,       \* the pools of the Deserializer
          fixups        \* its types that wait for their symbols

memory == <<types, mods, loader, writer, reader, fixups>>
vars == <<package, build, pos, phase, vmeta, memory>>

None == [build |-> 0]
Wrappers == {"pointer", "alias"}
NamedKinds == {"struct", "trait"}

Paths == {package.queue[i] : i \in DOMAIN package.queue}
Cur == package.queue[pos]
Source == package.source[Cur]

----------------------------------------------------------------------------
(* The pool of types.  Two types are equal if they unfold to the same      *)
(* spine: pointers down to a scalar, a symbol or a null pointer.  Aliases  *)
(* are transparent, except when they are not completed.                    *)

NoSymbol == <<0, "">>
Leaf(kind) == <<0, kind, "">>

Unfold(heap, type) ==
    LET spine[n \in 0..Len(heap), x \in 0..Len(heap)] ==
            IF x = 0 THEN <<Leaf("null")>>
            ELSE IF heap[x].kind \notin Wrappers
            THEN <<<<heap[x].sym[1], heap[x].kind, heap[x].sym[2]>>>>
            ELSE IF n = 0 THEN <<Leaf("endless")>>
            ELSE IF heap[x].kind = "pointer"
            THEN <<Leaf("pointer")>> \o spine[n - 1, heap[x].base]
            ELSE IF heap[x].base = 0 THEN <<Leaf("incomplete")>>
            ELSE spine[n - 1, heap[x].base]
    IN  spine[Len(heap), type]

\* The first object of that kind that equals the new one, or the new one.
GetOrCreate(heap, new) ==
    LET grown == Append(heap, new)
        same == {x \in 1..Len(heap) :
                    /\ heap[x].kind = new.kind
                    /\ Unfold(grown, x) = Unfold(grown, Len(grown))}
    IN  IF same = {} THEN [heap |-> grown, id |-> Len(grown)]
        ELSE [heap |-> heap, id |-> CHOOSE x \in same : \A y \in same : x <= y]

Object(kind, base, sym) == [kind |-> kind, base |-> base, sym |-> sym]

\* The type of a source, wrappers from the inside to the outside.
Create(heap, wrappers, kind, sym) ==
    FoldLeft(LAMBDA made, w : GetOrCreate(made.heap, Object(w, made.id, NoSymbol)),
             GetOrCreate(heap, Object(kind, 0, sym)), wrappers)

----------------------------------------------------------------------------
(* Modules.                                                                *)

Module(name, syms, decls, imports) ==
    [name |-> name, syms |-> syms, decls |-> decls, imports |-> imports]

DeclOf(module, name) ==
    module.decls[CHOOSE i \in DOMAIN module.decls : module.decls[i].name = name]

\* A declaration names its type, or its type is inferred from another's.
Inferred(d) == "like" \in DOMAIN d

Declared(made, d) ==
    IF Inferred(d)
    THEN [heap |-> made.heap, id |-> DeclOf(mods[loader[d.like[1]]], d.like[2]).type]
    ELSE Create(made.heap, d.wrappers, d.kind,
                IF d.kind \notin NamedKinds THEN NoSymbol
                ELSE <<IF d.sym[1] = Cur THEN Len(mods) + 1 ELSE loader[d.sym[1]],
                       d.sym[2]>>)

ValueOf(d) ==
    IF "const" \in DOMAIN d THEN "known" ELSE "none"

\* The value of a constant that was read is taken: an empty optional.
UsesLostValue ==
    \E d \in Range(Source.decls) :
        Inferred(d) /\ DeclOf(mods[loader[d.like[1]]], d.like[2]).value = "lost"

\* What Sema leaves of a source: the module object and its symbols.
Compile ==
    LET analysed ==
            FoldLeft(LAMBDA made, d :
                        LET one == Declared(made, d)
                        IN  [heap |-> one.heap,
                             decls |-> Append(made.decls, [name |-> d.name, type |-> one.id,
                                                           value |-> ValueOf(d)])],
                     [heap |-> types, decls |-> <<>>], Source.decls)
    IN  /\ phase = "check" /\ ~UsesLostValue
        /\ types' = analysed.heap
        /\ loader' = [p \in DOMAIN loader \cup {Cur} |->
                         IF p = Cur THEN Len(mods) + 1 ELSE loader[p]]
        /\ mods' = Append(mods, Module(package.stem[Cur], Source.syms, analysed.decls,
                                       [i \in DOMAIN Source.imports |->
                                           loader[Source.imports[i]]]))
        /\ phase' = "serialize"
        /\ UNCHANGED <<package, build, pos, vmeta, writer, reader, fixups>>

Undefined ==
    /\ phase' = "undefined"
    /\ UNCHANGED <<package, build, pos, vmeta, memory>>

CompileFails == phase = "check" /\ UsesLostValue /\ Undefined

----------------------------------------------------------------------------
(* The Serializer.  A pool hands out the index of a value as its ID.       *)

Add(pool, value) == IF Contains(pool, value) THEN pool ELSE Append(pool, value)
AddAll(pool, values) == FoldLeft(Add, pool, values)
ID(pool, value) ==
    IF Contains(pool, value) THEN CHOOSE i \in DOMAIN pool : pool[i] = value
    ELSE Len(pool) + 1

EmptyPools == [strs |-> <<>>, types |-> <<>>, mods |-> <<>>]

Mapped(s, Op(_)) == [i \in DOMAIN s |-> Op(s[i])]
Joined(s, Op(_)) == FlattenSeq(Mapped(s, Op))

IsNamed(t) == types[t].kind \in NamedKinds

\* collectType: a type, through its pointers.
Spine(type) ==
    LET next[n \in 0..Len(types), x \in 0..Len(types)] ==
            IF x = 0 THEN <<>>
            ELSE IF types[x].kind # "pointer" \/ n = 0 THEN <<x>>
            ELSE <<x>> \o next[n - 1, types[x].base]
    IN  next[Len(types), type]

Collected(type) ==
    LET end == Last(Spine(type))
    IN  Spine(type) \o IF types[end].kind = "alias" THEN <<types[end].base>> ELSE <<>>

Named(type) ==
    SelectSeq(Spine(type), LAMBDA t : IsNamed(t) /\ types[t].sym # NoSymbol)

\* collectStringsAndTypes: a module, then its imports.
Visited(object) ==
    LET visit[o \in 1..Len(mods)] == <<o>> \o Joined(mods[o].imports, LAMBDA i : visit[i])
    IN  visit[object]

\* Mutant: the name of the module is not collected.
StringsOfSymbols(o) ==
    Joined(mods[o].decls, LAMBDA d :
           <<d.name>> \o Mapped(Named(d.type), LAMBDA t : types[t].sym[2]))
    \o Mapped(mods[o].syms, LAMBDA s : s.name)

StringsOf(o) ==
    <<mods[o].name>>
    \o Joined(mods[o].decls, LAMBDA d :
           <<d.name>> \o Mapped(Named(d.type), LAMBDA t : types[t].sym[2]))
    \o Mapped(mods[o].syms, LAMBDA s : s.name)
TypesOf(o) == Joined(mods[o].decls, LAMBDA d : Collected(d.type))
ModsOf(o) ==
    <<o>> \o Joined(mods[o].decls, LAMBDA d :
                 Mapped(Named(d.type), LAMBDA t : types[t].sym[1]))

\* The pools after collection, and after the IDs that writing asks for late.
CollectedPools ==
    LET visited == Visited(loader[Cur])
    IN  [strs  |-> AddAll(writer.strs, Joined(visited, StringsOf)),
         types |-> AddAll(writer.types, Joined(visited, TypesOf)),
         mods  |-> AddAll(writer.mods, Joined(visited, ModsOf))]

NamedIn(pool) == SelectSeq(pool, IsNamed)
WrittenPools(pools) ==
    LET named == NamedIn(pools.types)
        parents == AddAll(pools.mods, Mapped(named, LAMBDA t : types[t].sym[1]))
        names == AddAll(pools.strs, Mapped(named, LAMBDA t : types[t].sym[2]))
    IN  [strs  |-> AddAll(names, Mapped(parents, LAMBDA o : mods[o].name)),
         types |-> pools.types,
         mods  |-> parents]

\* A pointer that comes back to itself has no end; a symbol or a base is null
\* when it is needed, or the pool grows while it is read.
Endless(type) == Len(Spine(type)) > Len(types)
Uncollectable ==
    \E o \in Range(Visited(loader[Cur])) : \E i \in DOMAIN mods[o].decls :
        Endless(mods[o].decls[i].type)
Unwritable(pool) ==
    \E i \in DOMAIN pool :
        \/ IsNamed(pool[i]) /\ types[pool[i]].sym = NoSymbol
        \/ types[pool[i]].kind \in Wrappers /\ ~Contains(pool, types[pool[i]].base)

\* The string pool is written before the late IDs, the module pool after.
\* The build, and whether nothing was read before in it, are for properties.
FileOf(pools, ids) ==
    LET own == mods[loader[Cur]]
    IN  [build |-> build,
         alone |-> reader = EmptyPools,
         strs  |-> pools.strs,
         types |-> Mapped(pools.types, LAMBDA t :
                      [kind |-> types[t].kind,
                       base |-> IF types[t].kind \in Wrappers
                                THEN ID(ids.types, types[t].base) ELSE 0,
                       name |-> IF IsNamed(t) THEN ID(ids.strs, types[t].sym[2]) ELSE 0,
                       mod  |-> IF IsNamed(t) THEN ID(ids.mods, types[t].sym[1]) ELSE 0]),
         mods  |-> Mapped(ids.mods, LAMBDA o : ID(ids.strs, mods[o].name)),
         self  |-> ID(ids.mods, loader[Cur]),
         syms  |-> Mapped(own.syms, LAMBDA s : [kind |-> s.kind, name |-> ID(ids.strs, s.name)]),
         decls |-> Mapped(own.decls, LAMBDA d :
                      [name |-> ID(ids.strs, d.name), type |-> ID(ids.types, d.type),
                       const |-> d.value # "none"])]

NextModule ==
    /\ pos' = pos + 1
    /\ phase' = "check"

SerializeModule ==
    LET pools == CollectedPools
        ids == WrittenPools(pools)
        fails == Uncollectable \/ Unwritable(pools.types)
    IN  /\ phase = "serialize"
        /\ \/ fails /\ Undefined
           \/ /\ ~fails
              /\ vmeta' = [vmeta EXCEPT ![Cur] = FileOf(pools, ids)]
              /\ writer' = ids
              /\ NextModule
              /\ UNCHANGED <<package, build, types, mods, loader, reader, fixups>>

----------------------------------------------------------------------------
(* The Deserializer.  Types that refer to others are made with a null      *)
(* pointer and completed later: pointers and aliases after the pool of     *)
(* types, structs and traits after the symbols.                            *)

File == vmeta[Cur]

MadeTypes(records) ==
    FoldLeft(LAMBDA made, r :
                LET one == GetOrCreate(made.heap, Object(r.kind, 0, NoSymbol))
                IN  [heap |-> one.heap, ids |-> Append(made.ids, one.id)],
             [heap |-> types, ids |-> <<>>], records)

\* Mutant: aliases are not completed.
PointersCompleted(made, records) ==
    [x \in DOMAIN made.heap |->
        LET for == {i \in DOMAIN records : records[i].kind = "pointer" /\ made.ids[i] = x}
        IN  IF for = {} THEN made.heap[x]
            ELSE [made.heap[x] EXCEPT !.base = made.ids[records[Max(for)].base]]]

\* Of several completions of one object the last one stays.
Completed(made, records) ==
    [x \in DOMAIN made.heap |->
        LET for == {i \in DOMAIN records :
                       records[i].kind \in Wrappers /\ made.ids[i] = x}
        IN  IF for = {} THEN made.heap[x]
            ELSE [made.heap[x] EXCEPT !.base = made.ids[records[Max(for)].base]]]

Pending(ids) ==
    SelectSeq([i \in DOMAIN ids |-> [File.types[i] EXCEPT !.base = ids[i]]],
              LAMBDA r : r.kind \in NamedKinds)

\* A module that is not loaded by its name is made anew, empty.
FoundModules(names) ==
    FoldLeft(LAMBDA found, name :
                IF name \in DOMAIN loader
                THEN [found EXCEPT !.ids = Append(@, loader[name])]
                ELSE [mods |-> Append(found.mods, Module(name, <<>>, <<>>, <<>>)),
                      ids |-> Append(found.ids, Len(found.mods) + 1)],
             [mods |-> mods, ids |-> <<>>], names)

DeserializePools ==
    LET made == MadeTypes(File.types)
        found == FoundModules(Mapped(File.mods, LAMBDA n : File.strs[n]))
    IN  /\ phase = "check" /\ File # None
        /\ \/ (\E i \in DOMAIN File.mods : File.mods[i] > Len(File.strs)) /\ Undefined
           \/ /\ \A i \in DOMAIN File.mods : File.mods[i] <= Len(File.strs)
              /\ types' = Completed(made, File.types)
              /\ mods' = found.mods
              /\ reader' = [strs |-> File.strs, types |-> made.ids, mods |-> found.ids]
              /\ fixups' = fixups \o Pending(made.ids)
              /\ phase' = "symbols"
              /\ UNCHANGED <<package, build, pos, vmeta, loader, writer>>

\* emplace: what is there already stays.
Emplaced(old, new) ==
    old \o SelectSeq(new, LAMBDA n : \A i \in DOMAIN old : old[i].name # n.name)

WithSymbols(o) ==
    [mods EXCEPT
        ![o].syms = Emplaced(@, Mapped(File.syms, LAMBDA s :
            [kind |-> s.kind, name |-> reader.strs[s.name]])),
        ![o].decls = Emplaced(@, Mapped(File.decls, LAMBDA d :
            [name |-> reader.strs[d.name], type |-> reader.types[d.type],
             value |-> IF d.const THEN "lost" ELSE "none"]))]

\* The symbol that a fixup finds, by the pools of the present file.
Applies(f) == f.mod <= Len(reader.mods)
Target(f) == <<reader.mods[f.mod], reader.strs[f.name]>>
IsThere(objects, kind, sym) ==
    Contains(objects[sym[1]].syms, [kind |-> kind, name |-> sym[2]])

Fixed(objects) ==
    [x \in DOMAIN types |->
        LET for == {k \in DOMAIN fixups :
                       /\ fixups[k].base = x /\ Applies(fixups[k])
                       /\ IsThere(objects, fixups[k].kind, Target(fixups[k]))}
        IN  IF for = {} THEN types[x]
            ELSE [types[x] EXCEPT !.sym = Target(fixups[Max(for)])]]

\* An ID past the end of the pool of strings: undefined behaviour.
Unreadable ==
    \/ \E i \in DOMAIN File.syms : File.syms[i].name > Len(reader.strs)
    \/ \E i \in DOMAIN File.decls : File.decls[i].name > Len(reader.strs)
    \/ \E k \in DOMAIN fixups : Applies(fixups[k]) /\ fixups[k].name > Len(reader.strs)

\* Every fixup so far is applied: none is ever removed.
DeserializeSymbols ==
    LET o == reader.mods[File.self]
    IN  /\ phase = "symbols"
        /\ \/ Unreadable /\ Undefined
           \/ /\ ~Unreadable
              /\ mods' = WithSymbols(o)
              /\ types' = Fixed(mods')
              /\ loader' = [p \in DOMAIN loader \cup {Cur} |->
                               IF p \in DOMAIN loader THEN loader[p] ELSE o]
              /\ NextModule
              /\ UNCHANGED <<package, build, vmeta, writer, reader, fixups>>

----------------------------------------------------------------------------
Init ==
    /\ package \in Packages
    /\ build = 1
    /\ pos = 1
    /\ phase = "check"
    /\ vmeta = [p \in Paths |-> None]
    /\ types = <<>>
    /\ mods = <<>>
    /\ loader = <<>>
    /\ writer = EmptyPools
    /\ reader = EmptyPools
    /\ fixups = <<>>

InQueue == pos <= Len(package.queue)

\* veoc ends, and is started again.
NextBuild ==
    /\ phase = "check" /\ ~InQueue /\ build < MaxBuilds
    /\ build' = build + 1
    /\ pos' = 1
    /\ types' = <<>>
    /\ mods' = <<>>
    /\ loader' = <<>>
    /\ writer' = EmptyPools
    /\ reader' = EmptyPools
    /\ fixups' = <<>>
    /\ UNCHANGED <<package, phase, vmeta>>

Next ==
    \/ InQueue /\ (Compile \/ CompileFails \/ SerializeModule \/ DeserializePools \/ DeserializeSymbols)
    \/ NextBuild

Spec == Init /\ [][Next]_vars

----------------------------------------------------------------------------

(* What a declaration means by the sources, and what the compiler has.     *)

Decls(p) == Range(package.source[p].decls)
Copied(d) == IF Inferred(d) THEN DeclOf(package.source[d.like[1]], d.like[2]) ELSE d
\* Bound: a type is inferred through two modules at most.
Meant(d) == Copied(Copied(d))

Expected(d) ==
    Mapped(SelectSeq(d.wrappers, LAMBDA w : w = "pointer"), Leaf)
    \o <<IF d.kind \in NamedKinds THEN <<loader[d.sym[1]], d.kind, d.sym[2]>>
         ELSE Leaf(d.kind)>>

IsKept(p, d) ==
    \E i \in DOMAIN mods[loader[p]].decls :
        LET got == mods[loader[p]].decls[i]
        IN  got.name = d.name /\ Unfold(types, got.type) = Expected(Meant(d))

(* When the files can be trusted.                                          *)

\* The types that need completion, of one kind, that a package speaks of.
Terms == UNION {{Meant(d) : d \in Decls(p)} : p \in Paths}
WrappedBy(w) ==
    {[wrappers |-> SubSeq(d.wrappers, 1, i), kind |-> d.kind,
      sym |-> IF d.kind \in NamedKinds THEN d.sym ELSE NoSymbol] :
        <<i, d>> \in {<<i, d>> \in (1..2) \X Terms :
                        i <= Len(d.wrappers) /\ d.wrappers[i] = w}}
Symbols(k) == {d.sym : d \in {e \in Terms : e.kind = k}}
OneOfEach ==
    /\ \A w \in Wrappers : Cardinality(WrappedBy(w)) <= 1
    /\ \A k \in NamedKinds : Cardinality(Symbols(k)) <= 1

\* The stems of the files are their import paths.
NamedByPath == \A p \in Paths : package.stem[p] = p

FlatPointers ==
    \A d \in Terms : Len(SelectSeq(d.wrappers, LAMBDA w : w = "pointer")) <= 1

OwnConstants ==
    \A p \in Paths : \A d \in Decls(p) :
        Inferred(d) => ValueOf(DeclOf(package.source[d.like[1]], d.like[2])) = "none"

\* The files of earlier builds are of one build that read none itself.
Old == {p \in Paths : vmeta[p].build \notin {0, build}}
OneBuild ==
    /\ Cardinality({vmeta[p].build : p \in Old}) <= 1
    /\ \A p \in Old : vmeta[p].alone

\* So has every other type, as long as the package has one pointer type, one
\* alias, one struct and one trait at most: of two that wait for completion,
\* the pool of types makes one.
UnsharedAreKept ==
    OneBuild /\ OneOfEach /\ NamedByPath =>
        \A p \in DOMAIN loader : \A d \in Decls(p) : IsKept(p, d)

\* Reading what one complete build wrote, using and writing what was read,
\* never meets a null symbol, an ID past the end of a pool, a pointer to itself
\* (unless the package has pointers to pointers) or a missing value (unless a
\* module uses a constant of another).
FilesAreUsable ==
    OneBuild /\ NamedByPath /\ FlatPointers /\ OwnConstants => phase # "undefined"

\* A module that is read is the module that was written: every declaration
\* has the type of its source.  CHANGELOG.md:144 promises it.
AllAreKept == \A p \in DOMAIN loader : \A d \in Decls(p) : IsKept(p, d)
=============================================================================
