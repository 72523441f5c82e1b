------------------------------- MODULE Lexer -------------------------------
(* The two scanners of source text: Lexer, which makes the tokens of the    *)
(* parser, and DepsResolver, with which the driver finds the imports of a    *)
(* file before anything is compiled.                                         *)
(*                                                                           *)
(* A text is a sequence of characters.  A run of letters that no property    *)
(* looks into is one character here ("let", "import", "a"); digits, blanks   *)
(* and punctuation are single.  Reading past the end yields Nul.             *)
EXTENDS Integers, Sequences, FiniteSets

Nul == "nul"
Digits == {"0", "1", "2", "3", "4", "5", "6", "7", "8", "9"}
Blanks == {" ", "nl"}
Punctuation == {";", ",", ".", "(", ")", "{", "}", "[", "]", "~", "?", ":", "$", "=",
                "!", ">", "<", "+", "-", "*", "/", "%", "^", "&", "|", "@", "quote",
                "apostrophe", "backslash", "#"}

IsAlnum(c) == c \notin Punctuation \cup Blanks \cup {Nul}
IsAlpha(c) == IsAlnum(c) /\ c \notin Digits

IsDigit(c, base) ==
    CASE base = 2  -> c \in {"0", "1"}
      [] base = 8  -> c \in Digits \ {"8", "9"}
      [] base = 10 -> c \in Digits
      [] base = 16 -> c \in Digits \cup {"a", "b", "c", "d", "e", "f"}

Peek(t, i) == IF i \in DOMAIN t THEN t[i] ELSE Nul

(* The first position from i on at which the text ends or Stop holds.       *)
RECURSIVE Until(_, _, _)
Until(t, i, stops) == IF Peek(t, i) \in stops \cup {Nul} THEN i ELSE Until(t, i + 1, stops)
RECURSIVE AfterWord(_, _)
AfterWord(t, i) == IF IsAlnum(Peek(t, i)) THEN AfterWord(t, i + 1) ELSE i

-----------------------------------------------------------------------------
(* Comments and blanks.  An open comment ends with the file.                *)

RECURSIVE CommentEnd(_, _)
CommentEnd(t, i) ==
    IF Peek(t, i) = Nul \/ (Peek(t, i) = "*" /\ Peek(t, i + 1) = "/")
    THEN i + 2
    ELSE CommentEnd(t, i + 1)

skipComments(t, i) ==
    IF Peek(t, i + 1) = "*" THEN CommentEnd(t, i + 2) ELSE Until(t, i + 2, {"nl"}) + 1

RECURSIVE Skip(_, _)
Skip(t, i) ==
    IF Peek(t, i) = "/" /\ Peek(t, i + 1) \in {"/", "*"} THEN Skip(t, skipComments(t, i))
    ELSE IF Peek(t, i) \in Blanks THEN Skip(t, i + 1)
    ELSE i

-----------------------------------------------------------------------------
(* Tokens: what kind, its value, the type of a literal, where it ends,      *)
(* whether an error was reported.                                            *)

Token(t, kind, start, end, bad) ==
    [kind |-> kind, val |-> SubSeq(t, start, end - 1), type |-> <<>>, end |-> end,
     bad |-> bad]

Keywords ==
    {"false", "true", "let", "const", "bool", "i32", "func", "return", "if", "else",
     "for", "break", "continue", "struct", "pub", "impl", "trait", "nil", "mod",
     "import", "static", "extern"}

(* The one keyword with a sign in it is @size_of; any other name may be     *)
(* written with the sign, which also makes a name of a keyword.              *)
tokenizeId(t, i) ==
    LET sign == Peek(t, i) = "@"
        end  == AfterWord(t, IF sign THEN i + 1 ELSE i)
        word == SubSeq(t, IF sign THEN i + 1 ELSE i, end - 1)
    IN  CASE sign /\ word = <<"size_of">> -> Token(t, "sizeof", i, end, FALSE)
          [] ~sign /\ \E k \in Keywords : word = <<k>> ->
                 Token(t, IF word[1] \in {"true", "false"} THEN "lit" ELSE word[1],
                       i, end, FALSE)
          [] OTHER -> [Token(t, "id", i, end, FALSE) EXCEPT !.val = word]

(* A literal between two quotes: where it ends, its value, and of how many  *)
(* characters.  A backslash that no letter of these follows stands for       *)
(* itself, and the pair counts as one character.                             *)
Escapes ==
    [c \in {"n", "t", "r", "0", "e", "backslash", "quote", "apostrophe"} |->
        CASE c = "n" -> "nl" [] c = "t" -> "tab" [] c = "r" -> "cr" [] c = "0" -> Nul
          [] c = "e" -> "esc" [] OTHER -> c]

RECURSIVE Quoted(_, _, _, _, _)
Quoted(t, i, quote, val, len) ==
    LET c == Peek(t, i + 1)
        escaped == IF c \in DOMAIN Escapes THEN <<Escapes[c]>> ELSE <<"backslash", c>>
    IN  CASE Peek(t, i) \in {Nul, quote} -> [end |-> i, val |-> val, len |-> len]
          [] Peek(t, i) = "backslash" /\ c = Nul -> [end |-> i + 1, val |-> val, len |-> len]
          [] Peek(t, i) = "backslash" /\ c # Nul -> Quoted(t, i + 2, quote, val \o escaped, len + 1)
          [] OTHER -> Quoted(t, i + 1, quote, Append(val, Peek(t, i)), len + 1)

tokenizeStrLit(t, i) ==
    LET q == Quoted(t, i + 1, "quote", <<>>, 0)
    IN  [Token(t, "strlit", i, q.end + 1, Peek(t, q.end) = Nul)
            EXCEPT !.val = q.val, !.type = <<"string">>]

tokenizeCharLit(t, i) ==
    LET q == Quoted(t, i + 1, "apostrophe", <<>>, 0)
    IN  [Token(t, "lit", i, q.end + 1, Peek(t, q.end) = Nul \/ q.len # 1)
            EXCEPT !.val = q.val, !.type = <<"char">>]

(* Compound operators.  triple compares the second character with the first *)
(* twice, and never with '='.                                                *)
tokenizeOp(t, i) ==
    LET c == Peek(t, i)
        d == Peek(t, i + 1)
        One == Token(t, c, i, i + 1, FALSE)
        Two == Token(t, c \o d, i, i + 2, FALSE)
    IN  CASE c \in {"=", "!", ">", "<", "+", "-", "*", "/", "%", "^"} /\ d = "=" -> Two
          [] c \in {"&", "|"} /\ d = c -> Two
          [] c \in {"[", "]", "$", "#"} -> [One EXCEPT !.kind = "other"]
          [] OTHER -> One

(* Numerals: where the digits end, and whether there was a point.           *)
RECURSIVE NumEnd(_, _, _, _)
NumEnd(t, i, base, isFloat) ==
    LET c == Peek(t, i)
        isPoint == /\ c = "."
                   /\ ~isFloat /\ base = 10 /\ IsDigit(Peek(t, i + 1), base)
    IN  IF IsDigit(c, base) \/ (c = "_" /\ IsDigit(Peek(t, i - 1), base)) \/ isPoint
        THEN NumEnd(t, i + 1, base, isFloat \/ isPoint)
        ELSE <<i, isFloat>>

(* The suffix that starts at i, if it is one: its letters without the       *)
(* first.                                                                    *)
Widths == {<<"8">>, <<"1", "6">>, <<"3", "2">>, <<"6", "4">>, <<"1", "2", "8">>, <<"z">>}

parseNumSuffix(t, i, isFloat) ==
    LET first == Peek(t, i)
        Fits(w) == /\ \A k \in DOMAIN w : Peek(t, i + k) = w[k]
                   /\ ~IsAlnum(Peek(t, i + 1 + Len(w)))
        widths == {w \in IF first = "f" THEN {<<"3", "2">>, <<"6", "4">>} ELSE Widths : Fits(w)}
        None == [type |-> IF isFloat THEN <<"f", "6", "4">> ELSE <<"int">>, end |-> i, bad |-> FALSE]
    IN  CASE first \in {"u", "i"} /\ isFloat -> [None EXCEPT !.bad = TRUE]
          [] first \in {"u", "i", "f"} /\ ~(first # "f" /\ isFloat) /\ widths # {} ->
                 LET w == CHOOSE w \in widths : TRUE
                 IN  [None EXCEPT !.type = <<first>> \o w, !.end = i + 1 + Len(w)]
          [] OTHER -> None

tokenizeNumLit(t, i) ==
    LET base  == CASE Peek(t, i) = "0" /\ Peek(t, i + 1) = "x" -> 16
                   [] Peek(t, i) = "0" /\ Peek(t, i + 1) = "o" -> 8
                   [] Peek(t, i) = "0" /\ Peek(t, i + 1) = "b" -> 2
                   [] OTHER -> 10
        point == Peek(t, i) = "."
        num   == NumEnd(t, CASE point -> i + 1 [] base # 10 -> i + 2 [] OTHER -> i,
                        base, point)
        suffix == parseNumSuffix(t, num[1], num[2])
        digits == SubSeq(t, i, num[1] - 1)
        wide   == suffix.type \in {<<"u", "1", "2", "8">>, <<"i", "1", "2", "8">>}
    IN  [Token(t, IF wide THEN "wide" ELSE "lit", i, suffix.end, suffix.bad)
            EXCEPT !.val = (IF point THEN <<"0">> ELSE <<>>) \o SelectSeq(digits, LAMBDA c : c # "_"),
                   !.type = suffix.type]

NextToken(t, from) ==
    LET i == Skip(t, from)
        c == Peek(t, i)
    IN  CASE c = Nul -> Token(t, "eof", i, i, FALSE)
          [] IsAlpha(c) \/ c = "@" -> tokenizeId(t, i)
          [] c \in Digits \/ (c = "." /\ Peek(t, i + 1) \in Digits) -> tokenizeNumLit(t, i)
          [] c = "apostrophe" -> tokenizeCharLit(t, i)
          [] c = "quote" -> tokenizeStrLit(t, i)
          [] OTHER -> tokenizeOp(t, i)

RECURSIVE TokensFrom(_, _)
TokensFrom(t, i) ==
    LET tok == NextToken(t, i)
    IN  IF tok.kind = "eof" THEN <<>> ELSE <<tok>> \o TokensFrom(t, tok.end)
Tokens(t) == TokensFrom(t, 1)

-----------------------------------------------------------------------------
(* DepsResolver: only names and points are tokens; it knows no comments, no *)
(* strings and no "@".                                                       *)

RECURSIVE DepToken(_, _)
DepToken(t, i) ==
    LET c == Peek(t, i)
    IN  CASE c = Nul -> Token(t, "eof", i, i, FALSE)
          [] c = "." -> Token(t, ".", i, i + 1, FALSE)
          [] IsAlpha(c) -> Token(t, "id", i, AfterWord(t, i), FALSE)
          [] OTHER -> DepToken(t, i + 1)

RECURSIVE SkipBlanks(_, _)
SkipBlanks(t, i) == IF Peek(t, i) \in Blanks THEN SkipBlanks(t, i + 1) ELSE i

(* The rest of a path after its names so far: <<path or {}, position>>.     *)
RECURSIVE DepPath(_, _, _)
(* Mutant: blanks before a point are not skipped.                           *)
BlankEndsPath(t, i, path) ==
    LET n == DepToken(t, i + 1)
    IN  CASE Peek(t, i) # "." -> <<{path}, i>>
          [] Peek(t, i) = "." /\ n.kind # "id" -> <<{}, n.end>>
          [] OTHER -> DepPath(t, n.end, Append(path, n.val))
DepPath(t, i, path) ==
    LET j == SkipBlanks(t, i)
        n == DepToken(t, j + 1)
    IN  CASE Peek(t, j) # "." -> <<{path}, j>>
          [] Peek(t, j) = "." /\ n.kind # "id" -> <<{}, n.end>>
          [] OTHER -> DepPath(t, n.end, Append(path, n.val))

(* The imports of a file, in order.  An "import" that no name follows ends  *)
(* the search.                                                               *)
RECURSIVE DepsFrom(_, _)
DepsFrom(t, i) ==
    LET tok  == DepToken(t, i)
        name == DepToken(t, tok.end)
        path == DepPath(t, name.end, <<name.val>>)
    IN  CASE tok.kind = "eof" -> <<>>
          [] tok.val = <<"import">> /\ name.kind # "id" -> <<>>
          [] tok.val = <<"import">> /\ name.kind = "id" ->
                 (IF path[1] = {} THEN <<>> ELSE <<CHOOSE p \in path[1] : TRUE>>)
                     \o DepsFrom(t, path[2])
          [] OTHER -> DepsFrom(t, tok.end)
Deps(t) == DepsFrom(t, 1)

=============================================================================
