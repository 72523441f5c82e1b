----------------------------- MODULE MCMetadata -----------------------------
(* Packages of three modules: the second imports the first, the third the  *)
(* second.                                                                 *)
EXTENDS Metadata

Plain(n, w, k) == [name |-> n, wrappers |-> w, kind |-> k]
Of(n, w, k, p, s) == [name |-> n, wrappers |-> w, kind |-> k, sym |-> <<p, s>>]
Constant(n, k) == [name |-> n, wrappers |-> <<>>, kind |-> k, const |-> TRUE]
Like(n, p, d) == [name |-> n, like |-> <<p, d>>]
Syms(k, n) == <<[kind |-> k, name |-> n]>>

Text(imports, syms, decls) == [imports |-> imports, syms |-> syms, decls |-> decls]
Package(q, stem, first, second, third) ==
    [queue |-> q, stem |-> stem,
     source |-> [p \in Range(q) |->
        CASE p = q[1] -> Text(<<>>, Syms("struct", "S") \o Syms("trait", "R"), first)
          [] p = q[2] -> Text(<<q[1]>>, Syms("struct", "U"), second)
          [] p = q[3] -> Text(<<q[2]>>, <<>>, third)]]

First(p) ==
    LET named == {Of("x", w, "struct", p, "S") : w \in {<<>>, <<"pointer">>, <<"alias">>}}
        plain == {Plain("x", <<>>, "i32"), Plain("x", <<"pointer">>, "i32")}
        more == {Plain("y", <<>>, "bool"), Plain("y", <<"pointer", "pointer">>, "i32"),
                 Of("y", <<>>, "trait", p, "R"),
                 Of("y", <<"alias", "pointer">>, "struct", p, "S")}
    IN  {<<d>> : d \in named \cup plain \cup {Constant("x", "i32")}} \cup {<<d, e>> : d \in plain, e \in more}
Second(p, q) ==
    {<<Plain("u", <<>>, "bool")>>, <<Plain("u", <<"pointer">>, "i32")>>, <<Like("u", p, "x")>>,
     <<Of("u", <<>>, "struct", p, "S")>>, <<Of("u", <<>>, "struct", q, "U")>>,
     <<Of("u", <<>>, "struct", p, "S"), Of("t", <<>>, "struct", q, "U")>>}
Third(q) ==
    {<<Plain("v", <<>>, "i32")>>, <<Like("v", q, "u")>>,
     <<Of("v", <<"pointer">>, "struct", q, "U")>>}

PackagesOf(q, stem, firsts) ==
    {Package(q, stem, first, second, third) :
        first \in firsts, second \in Second(q[1], q[2]), third \in Third(q[2])}

\* Modules at the top of the package; one in a directory; two of one name.
Stems(q, names) == [p \in Range(q) |-> names[CHOOSE i \in DOMAIN q : q[i] = p]]
Few(p) == {<<Plain("x", <<>>, "i32")>>, <<Of("x", <<>>, "struct", p, "S")>>}
Top == <<"a", "b", "c">>
Flat == PackagesOf(Top, Stems(Top, Top), First("a"))
Deep == LET q == <<"d.a", "b", "c">> IN PackagesOf(q, Stems(q, Top), Few("d.a"))
Twice == LET q == <<"b", "d.b", "c">>
         IN  PackagesOf(q, Stems(q, <<"b", "b", "c">>), Few("b"))
MCPackages == Flat \cup Deep \cup Twice

\* Two pointers in one module.
TwoPointers ==
    {Package(Top, Stems(Top, Top),
             <<Plain("x", <<"pointer">>, "i32"), Plain("y", <<"pointer">>, "bool")>>,
             <<Plain("u", <<>>, "bool")>>, <<Plain("v", <<>>, "i32")>>)}
=============================================================================
