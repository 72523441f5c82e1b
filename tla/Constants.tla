----------------------------- MODULE Constants -----------------------------
(* Expressions of literals and variables of the module: the type Sema gives  *)
(* them, the value it computes for the constant ones, and the value that the *)
(* generated code computes.                                                  *)
(*                                                                           *)
(* Sema keeps the value of a constant in a word of 64 bits with a sign,      *)
(* whatever its type; the generated code has the width of the type.  A       *)
(* result holds both: data is the word, bits is what the node puts into a    *)
(* register of the type as.  Numbers with a point are followed by their type *)
(* and as a constant: the bits of a value that passed through one are not    *)
(* known, it is not exact.  Their quotient is kept without its fraction.     *)
EXTENDS Types, Bitwise

Word == Width["u64"]
Signed(n, w) == LET m == n % 2^w IN IF m >= 2^(w - 1) THEN m - 2^w ELSE m
ToWord(n) == Signed(n, Word)
Held(n, type) == IF IsFloating(type) THEN n ELSE ToWord(n)

(* generateLiteralExpr.                                                      *)
Encode(data, type) ==
    CASE type = Bool -> IF data # 0 THEN 1 ELSE 0
      [] IsIntegral(type) /\ type # Bool -> data % 2^IntegralWidth(type)
      [] OTHER -> 0

Result(kind, type, data, bits, as, exact) ==
    [ok |-> TRUE, kind |-> kind, type |-> type, data |-> data, bits |-> bits, as |-> as,
     exact |-> exact, errs |-> {}]
Failed(errs) ==
    [ok |-> FALSE, kind |-> "Unknown", type |-> None, data |-> 0, bits |-> 0, as |-> None,
     exact |-> FALSE, errs |-> errs]
Literal(type, data, exact) == Result("Const", type, data, Encode(data, type), type, exact)
WithErrors(res, errs) == [res EXCEPT !.errs = @ \cup errs]

(* An exception that nothing catches, or the null pointer.                   *)
Crash == "crash"

-----------------------------------------------------------------------------
(* What the instructions of LLVM do.                                         *)

Quotient(a, b) ==
    LET Abs(n) == IF n < 0 THEN -n ELSE n
    IN IF (a < 0) = (b < 0) THEN Abs(a) \div Abs(b) ELSE -(Abs(a) \div Abs(b))
Remainder(a, b) == a - b * Quotient(a, b)

Holds(p) == IF p THEN 1 ELSE 0

Compare(op, l, r) ==
    CASE op = "==" -> Holds(l = r)   [] op = "!=" -> Holds(l # r)
      [] op = "<" -> Holds(l < r)    [] op = "<=" -> Holds(l <= r)
      [] op = ">" -> Holds(l > r)    [] op = ">=" -> Holds(l >= r)

Comparisons == {"==", "!=", "<", "<=", ">", ">="}
BitwiseOps == {"&", "|", "^"}
Logical == {"&&", "||"}

OnBits(op, l, r) == CASE op = "&" -> l & r [] op = "|" -> l | r [] op = "^" -> l ^^ r

(* Only an integer type can be unsigned here: sizes are signed.              *)
generateBinaryExpr(op, type, l, r) ==
    LET w == IntegralWidth(type)
        View(n) == IF IsInteger(type) /\ IsUnsigned(type) THEN n ELSE Signed(n, w)
        a == View(l)
        b == View(r)
    IN CASE op = "+" -> (l + r) % 2^w
         [] op = "-" -> (l - r) % 2^w
         [] op = "*" -> (l * r) % 2^w
         [] op = "/" -> Quotient(a, b) % 2^w
         [] op = "%" -> Remainder(a, b) % 2^w
         [] op \in Comparisons -> Compare(op, a, b)
         [] op \in BitwiseOps -> OnBits(op, l, r)
         [] op = "&&" -> l * r
         [] op = "||" -> Holds(l + r > 0)

(* Division by zero, and the quotient that does not fit, have no value.      *)
HasValue(op, type, l, r) ==
    IsIntegral(type) /\ (op \in {"/", "%"} => r # 0 /\ (l # 2^(IntegralWidth(type) - 1)
                                                        \/ r # 2^IntegralWidth(type) - 1))

generateUnaryExpr(op, type, n) ==
    IF op = "-" THEN (-n) % 2^IntegralWidth(type) ELSE 2^IntegralWidth(type) - 1 - n

generateCast(kind, n, src, dst) ==
    CASE kind = "SExt" -> Signed(n, IntegralWidth(src)) % 2^IntegralWidth(dst)
      [] kind = "Trunc" -> n % 2^IntegralWidth(dst)
      [] OTHER -> n

-----------------------------------------------------------------------------
(* Casts of values.                                                          *)

cast(kind, dst, val) ==
    LET known == IsIntegral(val.as) /\ IsIntegral(dst) /\ val.as = val.type
    IN [val EXCEPT !.type = CanonicalType(dst),
                   !.as = IF val.as = val.type THEN CanonicalType(dst) ELSE None,
                   !.bits = IF known THEN generateCast(kind, val.bits, val.type, dst) ELSE 0,
                   !.data = IF IsNumber(dst) THEN Held(@, dst) ELSE 0,
                   !.exact = @ /\ known]

(* Mutant: what cannot be cast is dropped in silence.                        *)
SilentlyRefused(val, expected, implemented) ==
    LET src == CanonicalType(val.type)
        dst == CanonicalType(expected)
    IN CASE ~val.ok \/ val.type = None \/ expected = None -> val
         [] val.ok /\ SameType(src, dst) -> [val EXCEPT !.type = src]
         [] canImplicitCast(src, dst, implemented) -> cast(ImplicitKind(src, dst), dst, val)
         [] OTHER -> Failed(val.errs)

implicitlyCast(val, expected, implemented) ==
    LET src == CanonicalType(val.type)
        dst == CanonicalType(expected)
    IN CASE ~val.ok \/ val.type = None \/ expected = None -> val
         [] val.ok /\ SameType(src, dst) -> [val EXCEPT !.type = src]
         [] canImplicitCast(src, dst, implemented) -> cast(ImplicitKind(src, dst), dst, val)
         [] OTHER -> Failed(val.errs \cup {"ECannotCast"})

(* canFit: does the word lie in the range of an integer type?                *)
canFit(data, type) ==
    LET w == IntegralWidth(type)
    IN IF IsUnsigned(type) THEN data \in 0..(2^w - 1) ELSE data \in -(2^(w - 1))..(2^(w - 1) - 1)

-----------------------------------------------------------------------------
(* Folding.  The values of unsigned types are words with a sign, too.        *)

foldBinary(op, lhs, rhs, resType) ==
    LET l == lhs.data
        r == rhs.data
        Folded(n) == Literal(resType, n, lhs.exact /\ rhs.exact)
    IN CASE op \in {"/", "%"} /\ r = 0 -> Failed({"EDivByZero"})
         [] op = "+" -> Folded(Held(l + r, lhs.type))
         [] op = "-" -> Folded(Held(l - r, lhs.type))
         [] op = "*" -> Folded(Held(l * r, lhs.type))
         [] op = "/" /\ r # 0 ->
                IF ~IsFloating(lhs.type) /\ r = -1 /\ l = -(2^(Word - 1)) THEN Failed({Crash})
                ELSE Folded(Quotient(l, r))
         [] op \in Comparisons -> Folded(Compare(op, l, r))
         [] OTHER -> Failed({})

foldBinaryBitwise(op, lhs, rhs, commonType) ==
    LET w == 2^Word
    IN IF IsInteger(commonType)
       THEN Literal(commonType, ToWord(OnBits(op, lhs.data % w, rhs.data % w)), TRUE)
       ELSE Failed({Crash})

(* Mutant: ~ is taken for -.                                                 *)
FoldsNotAsMinus(op, rhs, resType) ==
    IF op = "!" THEN Literal(resType, Holds(rhs.data = 0), rhs.exact)
    ELSE Literal(resType, ToWord(-rhs.data), rhs.exact)

foldUnary(op, rhs, resType) ==
    CASE op = "-" -> Literal(resType, Held(-rhs.data, rhs.type), rhs.exact)
      [] op = "!" -> Literal(resType, Holds(rhs.data = 0), rhs.exact)
      [] op = "~" -> Literal(resType, ToWord(-rhs.data - 1), rhs.exact)

-----------------------------------------------------------------------------
(* analyzeExpr.  With fold = FALSE nothing is a constant: what the program   *)
(* means if its operators are all left to the generated code.                *)

analyzeLiteral(e, expected, implemented) ==
    LET inferred == IF expected = None THEN I32 ELSE CanonicalType(expected)
        type == IF e.type # None THEN e.type ELSE inferred
        data == IF e.type # None THEN Held(e.num, type) ELSE ToWord(e.num)
        lit == Literal(type, data, ~IsFloating(type))
    IN CASE e.type = None /\ ~IsNumber(type) -> Failed({"ECannotCast"})
         [] IsNumber(type) /\ ~IsFloating(e.type) /\ e.num >= 2^Word -> Failed({"EIntLitTooLarge"})
         [] e.type # None /\ (IsFloating(type) \/ e.num < 2^Word) ->
                implicitlyCast(lit, expected, implemented)
         [] IsIntOrSize(type) /\ ~canFit(data, type) -> Failed({})
         [] OTHER -> lit

(* What is left of a result once it is not a constant.                       *)
Plain(res, fold) == IF fold \/ ~res.ok THEN res ELSE [res EXCEPT !.kind = "Unknown", !.data = 0]

AsCode(op, common, resType, l, r) ==
    LET known == l.exact /\ r.exact /\ l.as = common /\ r.as = common
                 /\ HasValue(op, common, l.bits, r.bits)
    IN Result("Unknown", resType, 0,
              IF known THEN generateBinaryExpr(op, common, l.bits, r.bits) ELSE 0,
              IF l.as = common /\ r.as = common THEN resType ELSE None, known)

(* A literal is made of the folded value, if there is one; a value that      *)
(* could not be folded or cast leaves the operation to the code, where the   *)
(* cast is tried once more.                                                  *)
Folded(folded, code, expected, implemented) ==
    LET f == implicitlyCast(folded, expected, implemented)
        c == implicitlyCast(code, expected, implemented)
    IN CASE Crash \in f.errs -> f
         [] f.ok -> WithErrors(Literal(f.type, f.data, f.exact), f.errs)
         [] OTHER -> WithErrors(c, f.errs)

(* The operands are of the common type, or could not be cast to it.          *)
Operated(op, l, r, common, expected, implemented) ==
    LET resType == IF op \in Comparisons THEN Bool ELSE common
        code == AsCode(op, common, resType, l, r)
        bothConst == l.kind = "Const" /\ r.kind = "Const"
    IN CASE ~l.ok \/ ~r.ok -> Failed({})
         [] op \in BitwiseOps /\ l.ok /\ r.ok /\ None \in {l.type, r.type} -> Failed({Crash})
         [] op \in BitwiseOps /\ l.ok /\ r.ok /\ None \notin {l.type, r.type} ->
                CASE ~(IsIntOrSize(l.type) /\ IsIntOrSize(r.type)) -> Failed({"ECannotApplyOp"})
                  [] IsIntOrSize(l.type) /\ IsIntOrSize(r.type) /\ bothConst ->
                        foldBinaryBitwise(op, l, r, common)
                  [] OTHER -> implicitlyCast(code, expected, implemented)
         [] OTHER -> IF bothConst
                     THEN Folded(foldBinary(op, l, r, resType), code, expected, implemented)
                     ELSE implicitlyCast(code, expected, implemented)

InCommon(op, left, right, common, expected, implemented) ==
    LET l == implicitlyCast(left, common, implemented)
        r == implicitlyCast(right, common, implemented)
        noType == IF common = None /\ left.type # None /\ right.type # None
                  THEN {"ECannotFindCommonType"} ELSE {}
        refused == IF l.ok /\ r.ok THEN {} ELSE l.errs \cup r.errs
    IN WithErrors(Operated(op, l, r, common, expected, implemented), noType \cup refused)

(* A pointer and an offset make a pointer, with nothing cast.                *)
analyzeBinary(op, left, right, expected, implemented) ==
    LET errs == left.errs \cup right.errs
        l == CanonicalType(left.type)
        r == CanonicalType(right.type)
        moved == CASE op \in {"+", "-"} /\ IsPointer(l) /\ IsIntOrSize(r) -> left.type
                   [] op = "+" /\ IsIntOrSize(l) /\ IsPointer(r) -> right.type
                   [] OTHER -> None
        common == IF op \in Logical THEN Bool ELSE getCommonType(left.type, right.type)
    IN CASE ~left.ok \/ ~right.ok -> Failed(errs)
         [] left.ok /\ right.ok /\ moved # None ->
                WithErrors(implicitlyCast(Result("Unknown", moved, 0, 0, moved, FALSE),
                                          expected, implemented), errs)
         [] OTHER -> WithErrors(InCommon(op, left, right, common, expected, implemented), errs)

analyzeUnary(op, rhs, expected, implemented) ==
    LET applies == CASE op = "-" -> IsNumber(rhs.type)
                     [] op = "!" -> rhs.type = Bool
                     [] op = "~" -> IsInteger(rhs.type)
        known == rhs.exact /\ rhs.as = rhs.type /\ IsIntegral(rhs.type)
        code == Result("Unknown", rhs.type, 0,
                       IF known THEN generateUnaryExpr(op, rhs.type, rhs.bits) ELSE 0,
                       rhs.as, known)
    IN CASE ~rhs.ok -> rhs
         [] rhs.ok /\ rhs.type = None -> Failed(rhs.errs \cup {Crash})
         [] rhs.ok /\ rhs.type # None /\ ~applies -> Failed(rhs.errs \cup {"ECannotApplyOp"})
         [] OTHER -> WithErrors(
                IF rhs.kind = "Const"
                THEN Folded(foldUnary(op, rhs, rhs.type), code, expected, implemented)
                ELSE implicitlyCast(code, expected, implemented), rhs.errs)

(* The type that is expected of a cast is not looked at.                     *)
analyzeCast(val, dst) ==
    CASE ~val.ok -> val
      [] val.ok /\ val.type = None -> Failed(val.errs \cup {Crash})
      [] val.ok /\ val.type # None /\ ~canExplicitCast(val.type, dst) ->
            Failed(val.errs \cup {"ECannotCast"})
      [] val.ok /\ val.type # None /\ SameType(val.type, dst) -> val
      [] OTHER -> cast(ExplicitKind(val.type, dst), dst, val)

(* With a condition that is known both sides are analysed and one is taken.  *)
analyzeTernary(cond, yes, no, expected, implemented) ==
    LET errs == cond.errs \cup yes.errs \cup no.errs
        code == Result("Unknown", expected, 0, IF cond.bits = 1 THEN yes.bits ELSE no.bits,
                       IF yes.as = expected /\ no.as = expected THEN expected ELSE None,
                       cond.exact /\ yes.exact /\ no.exact)
    IN CASE ~cond.ok -> cond
         [] cond.ok /\ ~yes.ok -> Failed(cond.errs \cup yes.errs)
         [] cond.ok /\ yes.ok /\ ~no.ok -> Failed(errs)
         [] OTHER -> WithErrors(IF cond.kind = "Const"
                                THEN IF cond.data = 1 THEN yes ELSE no
                                ELSE code, errs)

(* env: the variables that are declared so far.  A constant is replaced by   *)
(* its value.                                                                *)
RECURSIVE analyzeExpr(_, _, _, _, _)
analyzeExpr(e, expected, env, implemented, fold) ==
    LET Sub(x, type) == analyzeExpr(x, type, env, implemented, fold)
    IN CASE e.kind = "lit" -> Plain(analyzeLiteral(e, expected, implemented), fold)
         [] e.kind = "var" ->
                IF e.name \notin DOMAIN env THEN Failed({"EUndefined"})
                ELSE LET v == env[e.name]
                         lit == Literal(v.type, v.data, v.exact)
                         load == Result("Unknown", v.type, 0, v.bits, v.as, v.exact)
                     IN implicitlyCast(IF v.isConst /\ fold THEN lit ELSE load,
                                       expected, implemented)
         [] e.kind = "binary" ->
                analyzeBinary(e.op, Sub(e.lhs, None), Sub(e.rhs, None), expected, implemented)
         [] e.kind = "unary" -> analyzeUnary(e.op, Sub(e.rhs, None), expected, implemented)
         [] e.kind = "cast" -> analyzeCast(Sub(e.expr, None), e.type)
         [] e.kind = "ternary" ->
                LET yes == Sub(e.yes, expected)
                    type == IF expected = None THEN yes.type ELSE expected
                IN analyzeTernary(Sub(e.cond, Bool), yes, Sub(e.no, type), type, implemented)
=============================================================================
