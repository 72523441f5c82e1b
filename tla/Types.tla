------------------------------- MODULE Types -------------------------------
(* The types of the language and the questions Sema asks about them: which   *)
(* are the same, what two operands have in common, which type is accepted    *)
(* where another is expected, and with which instruction.                    *)
(*                                                                           *)
(* A type is the sequence of its parts, the outermost first: <<"i32">>,      *)
(* <<"*", "i32">>, <<"struct", "main", "S">>, <<"named", "lib", "S">> for a  *)
(* path that is not resolved yet, <<"aka", ...>> for the alias This.  None   *)
(* is the null pointer.                                                      *)
EXTENDS Integers, Sequences, FiniteSets, SequencesExt

CONSTANTS
    Width,      \* how many bits an integer type has, in the order of the real widths
    PtrBits     \* ... and a size, which no literal and no value needs exactly

Unsigned == {"u8", "u16", "u32", "u64"}

ASSUME WidthAssumption ==
    /\ DOMAIN Width = Unsigned \cup {"i8", "i16", "i32", "i64"}
    /\ \A t \in DOMAIN Width : Width[t] \in Nat \ {0}
    /\ Width["u8"] < Width["u16"] /\ Width["u16"] < Width["u32"] /\ Width["u32"] < Width["u64"]
    /\ \A p \in {<<"i8", "u8">>, <<"i16", "u16">>, <<"i32", "u32">>, <<"i64", "u64">>} :
        Width[p[1]] = Width[p[2]]
    /\ PtrBits = Width["u64"]

None == <<>>
Bool == <<"bool">>
Char == <<"char">>
Noth == <<"noth">>
I32 == <<"i32">>
USize == <<"usize">>

Outermost(t) == IF t = None THEN "none" ELSE Head(t)
IsInteger(t) == Outermost(t) \in DOMAIN Width
IsSize(t) == Outermost(t) \in {"usize", "isize"}
IsFloating(t) == Outermost(t) \in {"f32", "f64"}
IsIntOrSize(t) == IsInteger(t) \/ IsSize(t)
IsNumber(t) == IsIntOrSize(t) \/ IsFloating(t)
IsPointer(t) == Outermost(t) = "*"
IsStruct(t) == Outermost(t) = "struct"
IsTrait(t) == Outermost(t) = "trait"
IsIntegral(t) == IsIntOrSize(t) \/ t \in {Bool, Char}

IsUnsigned(t) == Outermost(t) \in Unsigned \cup {"usize"}
BitWidth(t) == Width[Head(t)]

CanonicalType(t) == IF Outermost(t) = "aka" THEN Tail(t) ELSE t

(* Structs and traits have one symbol per name and module.  Two paths that   *)
(* are not resolved are never the same, as a name is compared with its place *)
(* in the text; nor is a path and what it leads to.                          *)
SameType(a, b) ==
    LET Bare(t) == SelectSeq([i \in 1..Len(t) |-> IF t[i] = "isize" THEN "usize" ELSE t[i]],
                             LAMBDA part : part # "aka")
    IN /\ Bare(a) = Bare(b)
       /\ \A i \in 1..Len(a) : a[i] # "named"

compareTypesWithThis(inTrait, inImpl, concreteTarget) ==
    LET shared == {d \in 1..Len(inTrait) : \A k \in 1..d :
                        k <= Len(inImpl) /\ inTrait[k] = "*" /\ inImpl[k] = "*"}
        t == SubSeq(inTrait, 1 + Cardinality(shared), Len(inTrait))
        i == SubSeq(inImpl, 1 + Cardinality(shared), Len(inImpl))
    IN IF Outermost(t) = "traitThis" THEN CanonicalType(i) = concreteTarget ELSE SameType(t, i)

-----------------------------------------------------------------------------
(* The common type of two operands; None if there is none.                   *)

getCommonInteger(l, r) ==
    LET u == IF IsUnsigned(l) THEN l ELSE r
        s == IF IsUnsigned(l) THEN r ELSE l
    IN CASE IsUnsigned(l) = IsUnsigned(r) -> IF BitWidth(l) > BitWidth(r) THEN l ELSE r
         [] OTHER -> IF BitWidth(u) >= BitWidth(s) THEN u ELSE s

getCommonType(l, r) ==
    IF SameType(l, r) THEN l
    ELSE CASE IsInteger(l) /\ IsInteger(r) -> getCommonInteger(l, r)
           [] IsFloating(l) /\ IsFloating(r) -> IF l = <<"f64">> THEN l ELSE r
           [] IsFloating(l) /\ IsInteger(r) -> l
           [] IsInteger(l) /\ IsFloating(r) -> r
           [] IsPointer(l) /\ IsIntOrSize(r) -> l
           [] IsIntOrSize(l) /\ IsPointer(r) -> r
           [] OTHER -> None

-----------------------------------------------------------------------------
(* Casts.  implemented is the set of pairs of a type and a trait that the    *)
(* module knows of.                                                          *)

Widens(src, dst) ==
    /\ BitWidth(dst) >= BitWidth(src)
    /\ IsUnsigned(src) = IsUnsigned(dst) \/ BitWidth(dst) > BitWidth(src)

canImplicitCast(from, to, implemented) ==
    LET src == CanonicalType(from)
        dst == CanonicalType(to)
    IN /\ src # None /\ dst # None
       /\ \/ SameType(src, dst)
          \/ IsInteger(src) /\ IsInteger(dst) /\ Widens(src, dst)
          \/ IsFloating(src) /\ IsFloating(dst) /\ (dst = <<"f64">> \/ src = dst)
          \/ IsInteger(src) /\ IsFloating(dst)
          \/ IsTrait(dst) /\ <<src, dst>> \in implemented

canExplicitCast(src, dst) ==
    LET IsScalar(t) == IsNumber(t) \/ t \in {Bool, Char}
    IN \/ SameType(src, dst)
       \/ IsScalar(src) /\ IsScalar(dst)
       \/ IsPointer(src) /\ (IsSize(dst) \/ IsPointer(dst))
       \/ IsSize(src) /\ IsPointer(dst)

(* The instruction of an implicit cast between integers, which is also that  *)
(* of an explicit one but for bool, char and sizes.                          *)
IntegralWidth(t) == CASE IsInteger(t) -> BitWidth(t) [] IsSize(t) -> PtrBits
                      [] t = Bool -> 1 [] t = Char -> Width["i32"]
castInts(src, dst) ==
    CASE BitWidth(src) < BitWidth(dst) -> IF IsUnsigned(src) THEN "ZExt" ELSE "SExt"
      [] BitWidth(src) > BitWidth(dst) -> "Trunc"
      [] OTHER -> "BitCast"
castIntegrals(src, dst) ==
    CASE IntegralWidth(src) < IntegralWidth(dst) ->
            IF IntegralWidth(src) = 1 \/ IsUnsigned(src) THEN "ZExt" ELSE "SExt"
      [] IntegralWidth(src) > IntegralWidth(dst) -> "Trunc"
      [] OTHER -> "BitCast"
castFloats(src, dst) == IF src = <<"f32">> /\ dst = <<"f64">> THEN "FPExt" ELSE "FPTrunc"

ImplicitKind(src, dst) ==
    CASE IsInteger(src) /\ IsInteger(dst) -> castInts(src, dst)
      [] IsFloating(src) /\ IsFloating(dst) -> castFloats(src, dst)
      [] IsInteger(src) /\ IsFloating(dst) -> IF IsUnsigned(src) THEN "UIToFP" ELSE "SIToFP"
      [] OTHER -> "BitCast"
ExplicitKind(src, dst) ==
    CASE IsIntegral(src) /\ IsIntegral(dst) -> castIntegrals(src, dst)
      [] IsFloating(src) /\ IsFloating(dst) -> castFloats(src, dst)
      [] IsFloating(src) /\ IsIntegral(dst) -> IF IsUnsigned(dst) THEN "FPToUI" ELSE "FPToSI"
      [] IsIntegral(src) /\ IsFloating(dst) -> IF IsUnsigned(src) THEN "UIToFP" ELSE "SIToFP"
      [] OTHER -> "BitCast"

-----------------------------------------------------------------------------
(* The cost of passing an argument, written apart from canImplicitCast.      *)

Exact == 0
TraitMatch == 10
SafeImplicit == 20
Incompatible == 1000

\* Mutant: a cast to fewer bits is one of the safe ones.
NarrowingIsSafe(src, dst) == SafeImplicit
checkCastCostIntegers(src, dst) == IF Widens(src, dst) THEN SafeImplicit ELSE Incompatible

checkCastCostFloatings(src, dst) ==
    CASE dst = <<"f64">> /\ src = <<"f32">> -> SafeImplicit
      [] dst = src -> Exact
      [] OTHER -> Incompatible

checkCastCost(from, to, implemented) ==
    LET src == CanonicalType(from)
        dst == CanonicalType(to)
    IN IF src = None \/ dst = None THEN Incompatible
       ELSE IF SameType(src, dst) THEN Exact
       ELSE CASE IsInteger(src) /\ IsInteger(dst) -> checkCastCostIntegers(src, dst)
              [] IsInteger(src) /\ IsFloating(dst) -> SafeImplicit
              [] IsFloating(src) /\ IsFloating(dst) -> checkCastCostFloatings(src, dst)
              [] IsTrait(dst) -> IF <<src, dst>> \in implemented THEN TraitMatch
                                 ELSE Incompatible
              [] OTHER -> Incompatible

-----------------------------------------------------------------------------
(* Which candidate a call takes: the cheapest, if there is one.              *)

Ambiguous == 0
NoMatch == -1

(* Every argument has to be compatible by itself, however high the sum.      *)
viableFuncCandidate(params, argTypes, implemented) ==
    /\ Len(params) = Len(argTypes)
    /\ \A i \in 1..Len(argTypes) :
            checkCastCost(argTypes[i], params[i], implemented) # Incompatible

costSum(params, argTypes, implemented) ==
    LET sum[n \in 0..Len(argTypes)] ==
            IF n = 0 THEN 0
            ELSE sum[n - 1] + checkCastCost(argTypes[n], params[n], implemented)
    IN sum[Len(argTypes)]

(* paramLists is the sequence of the candidates' types of parameters.        *)
resolveBestOverload(paramLists, argTypes, implemented) ==
    LET Cost(c) == costSum(paramLists[c], argTypes, implemented)
        viable == {c \in 1..Len(paramLists) :
                        viableFuncCandidate(paramLists[c], argTypes, implemented)}
        best == {c \in viable : \A d \in viable : Cost(c) <= Cost(d)}
    IN CASE viable = {} -> NoMatch
         [] Cardinality(best) > 1 -> Ambiguous
         [] OTHER -> CHOOSE c \in best : TRUE
=============================================================================
