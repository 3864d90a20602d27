------------------------------ MODULE Grammar ------------------------------
(***************************************************************************)
(* The grammar that docs/language-specification.md calls normative (the    *)
(* EBNF of its section 3), as a printer from trees to the tokens it gives  *)
(* them, with parentheses where precedence asks for them and nowhere else. *)
(* What Lexer and Parser make of its text must be the tree again.          *)
(*                                                                         *)
(* Three marks stand in what Show prints: "<:" and ":>" around type        *)
(* arguments, which tells them from comparisons, and "[,]" where a comma   *)
(* may come before a close.  Text writes them in one of two styles, with a *)
(* blank only where two tokens might be read as another: tight leaves it   *)
(* out after the closing angle of a type, spaced writes the commas, and    *)
(* comments after them.                                                    *)
(***************************************************************************)
EXTENDS Parser, Lexer

Ext == INSTANCE SequencesExt

CONSTANT MaxGrowth      \* how often an expression is put into a larger one

VARIABLES
    tree,       \* an expression, then the file it stands in
    growth      \* how often the expression has grown; MaxGrowth + 1: a file

vars == <<tree, growth>>

-----------------------------------------------------------------------------
(* The printer.                                                            *)

RECURSIVE ShowType(_), Commas(_, _, _), Show(_, _, _), ShowStmt(_)

Shown(kind, x, ban) ==
    CASE kind = "type" -> ShowType(x)
      [] kind = "name" -> <<x>>
      [] kind = "typed" -> <<x[1], ":">> \o ShowType(x[2])
      [] kind = "valued" -> <<x[1], ":">> \o Show(x[2], 1, ban)
      [] kind = "variant" ->
            <<x[1]>> \o (IF x[2] = <<>> THEN <<>> ELSE <<"(">> \o Commas("type", x[2], FALSE) \o <<")">>)
      [] kind = "expression" -> Show(x, 1, ban)
Commas(kind, l, ban) ==
    IF l = <<>> THEN <<>>
    ELSE Shown(kind, Head(l), ban)
            \o (IF Len(l) = 1 THEN <<>> ELSE <<",">> \o Commas(kind, Tail(l), ban))
Trailing(l) == IF l = <<>> THEN <<>> ELSE <<"[,]">>
Angled(kind, l) == IF l = <<>> THEN <<>> ELSE <<"<:">> \o Commas(kind, l, FALSE) \o <<":>">>
ConstWord(c) == IF c THEN <<"const">> ELSE <<>>

ShowType(t) ==
    CASE t[1] = "name type" -> <<t[2]>> \o Angled("type", t[3])
      [] t[1] = "pointer type" -> <<"*">> \o ConstWord(t[2]) \o ShowType(t[3])
      [] t[1] = "slice type" -> <<"[", "]">> \o ConstWord(t[2]) \o ShowType(t[3])
      [] t[1] = "array type" -> <<"[">> \o ShowType(t[2]) \o <<";", t[3], "]">>
      [] t[1] = "tuple type" -> <<"(">> \o Commas("type", t[2], FALSE) \o <<"[,]", ")">>
      [] t[1] = "fn type" ->
            <<"fn", "(">> \o Commas("type", t[2], FALSE) \o <<")", "->">> \o ShowType(t[3])

\* the production of an expression, logical-or the first and primary the last
LevelOf(e) ==
    CASE e[1] = "binary" -> CHOOSE l \in 1..Len(Levels) : e[2] \in Levels[l]
      [] e[1] = "cast" -> 11
      [] e[1] \in {"unary", "try", "move"} -> 12
      [] e[1] \in {"call", "field", "index"} -> 13
      [] OTHER -> 14
Shape(e, ban) ==
    CASE e[1] = "binary" ->
            Show(e[3], LevelOf(e), ban) \o <<e[2]>> \o Show(e[4], LevelOf(e) + 1, ban)
      [] e[1] = "cast" -> Show(e[2], 11, ban) \o <<"as">> \o ShowType(e[3])
      [] e[1] = "unary" -> <<e[2]>> \o Show(e[3], 12, ban)
      [] e[1] \in {"try", "move"} -> <<e[1]>> \o Show(e[2], 12, ban)
      [] e[1] = "call" ->
            Show(e[2], 13, ban) \o Angled("type", e[4])
                \o <<"(">> \o Commas("expression", e[3], ban) \o <<")">>
      [] e[1] = "field" -> Show(e[2], 13, ban) \o <<".", e[3]>>
      [] e[1] = "index" -> Show(e[2], 13, ban) \o <<"[">> \o Show(e[3], 1, ban) \o <<"]">>
      [] e[1] = "var" -> ShowType(e[2])
      [] e[1] = "null" -> <<"null">>
      [] e[1] \in {"int", "float", "char", "bool", "str"} -> <<e[2]>>
      [] e[1] = "tuple lit" -> <<"(">> \o Commas("expression", e[2], FALSE) \o <<"[,]", ")">>
      [] e[1] = "array lit" -> <<"[">> \o Commas("expression", e[2], ban) \o <<"[,]", "]">>
      [] e[1] = "repeat" -> <<"[">> \o Show(e[2], 1, ban) \o <<";", e[3], "]">>
      [] e[1] = "struct lit" ->
            ShowType(e[2]) \o <<"{">> \o Commas("valued", e[3], ban) \o Trailing(e[3]) \o <<"}">>
\* in a condition a struct literal needs parentheses too, wherever it stands
Show(e, level, ban) ==
    IF LevelOf(e) < level \/ (ban /\ e[1] = "struct lit")
    THEN <<"(">> \o Shape(e, FALSE) \o <<")">> ELSE Shape(e, ban)

Decl(t) == IF t = <<>> THEN <<>> ELSE <<":">> \o ShowType(t[1])
ShowLet(s) ==
    <<IF s[5] THEN "let" ELSE "const", s[2]>> \o Decl(s[3]) \o <<"=">> \o Show(s[4], 1, FALSE) \o <<";">>
ShowArm(a) ==
    (IF a[2] = <<>> THEN <<"_">> ELSE Show(a[2][1], 1, FALSE)) \o <<"=>">> \o ShowStmt(a[3]) \o <<"[,]">>
Run(l, F(_)) == Ext!FlattenSeq([i \in DOMAIN l |-> F(l[i])])
ShowStmt(s) ==
    CASE s[1] = "block" -> <<"{">> \o Run(s[2], ShowStmt) \o <<"}">>
      [] s[1] = "let" -> ShowLet(s)
      [] s[1] = "assign" -> Show(s[2], 1, FALSE) \o <<s[4]>> \o Show(s[3], 1, FALSE) \o <<";">>
      [] s[1] = "return" -> <<"return">> \o (IF s[2] = <<>> THEN <<>> ELSE Show(s[2][1], 1, FALSE)) \o <<";">>
      [] s[1] = "if" ->
            <<"if">> \o Show(s[2], 1, TRUE) \o ShowStmt(s[3])
                \o (IF s[4] = <<>> THEN <<>> ELSE <<"else">> \o ShowStmt(s[4][1]))
      [] s[1] = "while" ->
            (IF s[2] = BoolLit("true") THEN <<"loop">> ELSE <<"while">> \o Show(s[2], 1, TRUE))
                \o ShowStmt(s[3])
      [] s[1] = "for" ->
            <<"for", s[2]>> \o Decl(s[3]) \o <<"in">> \o Show(s[4], 1, TRUE)
                \o <<IF s[7] THEN "..=" ELSE "..">> \o Show(s[5], 1, TRUE) \o ShowStmt(s[6])
      [] s[1] = "match" -> <<"match">> \o Show(s[2], 1, TRUE) \o <<"{">> \o Run(s[3], ShowArm) \o <<"}">>
      [] s[1] = "asm" -> <<"asm", "(", s[2], ")", ";">>
      [] s[1] = "defer" -> <<"defer">> \o Show(s[2], 1, FALSE) \o <<";">>
      [] s[1] = "expr" -> Show(s[2], 1, FALSE) \o <<";">>
      [] OTHER -> <<s[1], ";">>

RECURSIVE Dots(_)
Dots(l) == IF Len(l) = 1 THEN l ELSE <<l[1], ".">> \o Dots(Tail(l))
Arrow(t) == IF t = Void THEN <<>> ELSE <<"->">> \o ShowType(t)
ShowDecl(d) ==
    CASE d[1] = "module" -> <<"module">> \o Dots(d[2]) \o <<";">>
      [] d[1] = "import" ->
            <<"import">> \o Dots(d[2]) \o (IF d[3] = <<>> THEN <<>> ELSE <<"as", d[3][1]>>) \o <<";">>
      [] d[1] = "struct" ->
            (IF d[5] THEN <<"resource">> ELSE <<>>) \o <<"struct", d[2]>> \o Angled("name", d[4])
                \o <<"{">> \o Commas("typed", d[3], FALSE) \o Trailing(d[3]) \o <<"}">>
      [] d[1] = "enum" ->
            <<"enum", d[2]>> \o Angled("name", d[4])
                \o <<"{">> \o Commas("variant", d[3], FALSE) \o Trailing(d[3]) \o <<"}">>
      [] d[1] = "alias" -> <<"type", d[2], "=">> \o ShowType(d[3]) \o <<";">>
      [] d[1] = "test" -> <<"test", d[2]>> \o ShowStmt(d[3])
      [] d[1] = "let" -> ShowLet(d)
      [] d[1] = "extern" ->
            <<"extern", "fn", d[2], "(">> \o Commas("typed", d[3], FALSE) \o <<")">> \o Arrow(d[4]) \o <<";">>
      [] d[1] = "fn" ->
            (IF d[7] THEN <<"pub">> ELSE <<>>) \o <<"fn", d[2]>> \o Angled("name", d[6])
                \o <<"(">> \o Commas("typed", d[3], FALSE) \o <<")">> \o Arrow(d[4]) \o ShowStmt(d[5])

(* The text of the tokens, character by character.                         *)
Symbols == {c \in Punctuation : c \in
    {"(", ")", "{", "}", ",", ";", ":", ".", "&", "[", "]", "=", "+", "-", "*", "/", "%", "<",
     ">", "!", "|", "^", "~"}}
Spellings ==
    {<<c>> : c \in Symbols} \cup (Symbols \X {"=", ">", "<", "&", "|", "."})
        \cup ({"<", ">", "."} \X {"<", ">", "."} \X {"="})
SymbolSpelling == [t \in Punctuation |-> CHOOSE cs \in Spellings : Joined(cs) = t]
Spelling(token) ==
    CASE token \in Punctuation -> SymbolSpelling[token]
      [] token = "<:" -> <<"<">>
      [] token = ":>" -> <<">">>
      [] token = "1.5" -> <<"1", ".", "5">>
      [] token \in Chars -> IF token = "'c'" THEN <<"'", "c", "'">> ELSE <<"'", "\\", "n", "'">>
      [] token \in Strings -> <<"\"", "s", "\\", "\"", "\"">>
      [] OTHER -> <<token>>

Alone == {"(", ")", "{", "}", "[", "]", ",", ";", ":", "<:"}
Symbolic == Punctuation \cup {"<:", ":>"}
Closes(token, next) == token = ":>" /\ next \in {":>", "="}
Apart(style, token, next) ==
    \/ {token, next} \cap Symbolic = {}
    \/ {token, next} \subseteq Symbolic \ Alone /\ (style = "tight" => ~Closes(token, next))
Comments == <<"/", "*", "/", "*", "*", "/", ";", "*", "/", "/", "/", "\"", "\n">>
Written(style, token, next) ==
    IF token = "[,]" THEN <<",">> \o Comments
    ELSE Spelling(token) \o (IF Apart(style, token, next) THEN <<" ">> ELSE <<>>)
Text(style, marked) ==
    LET tokens == SelectSeq(marked, LAMBDA t : style = "spaced" \/ t # "[,]")
    IN Ext!FlattenSeq([i \in DOMAIN tokens |->
          Written(style, tokens[i], IF i = Len(tokens) THEN ";" ELSE tokens[i + 1])])

-----------------------------------------------------------------------------
(* Trees to print: an expression grows MaxGrowth times, by an operator, a  *)
(* prefix, a suffix or a list around it, and is then put into a file.      *)

I64 == NameType("i64", <<>>)
Box(t) == NameType("Box", <<t>>)
Types == {I64, Box(I64), Box(Box(I64)), PointerType(TRUE, I64), SliceType(FALSE, Box(I64)),
          ArrayType(I64, "1"), TupleType(<<I64, Box(I64)>>), FnType(<<Box(I64)>>, I64)}
X == Named("x")
One == IntLit("1")
Atoms == {X, FieldAccess(Var(Box(I64)), "f"), StructLit(Box(Box(I64)), << <<"f", X>> >>)}
Beside == {X, Binary(">", X, Binary("-", X, One)), Cast(X, Box(Box(I64)))}
\* one operator of each level first, then some
Operators ==
    IF growth = 0 THEN {"||", "&&", "|", "^", "&", "==", "<", ">>", "-", "*"}
    ELSE {"<", ">", "-"}

Grown(e) ==
    growth < MaxGrowth /\ growth' = growth + 1 /\ tree' = e
Combine == \E op \in Operators, e \in Beside, left \in BOOLEAN :
    Grown(IF left THEN Binary(op, tree, e) ELSE Binary(op, e, tree))
Prefixed == Grown(Try(tree)) \/ Grown(Move(tree)) \/ \E op \in {"-", "*"} : Grown(Unary(op, tree))
Suffixed ==
    \/ \E t \in {I64, Box(Box(I64)), PointerType(FALSE, I64)} : Grown(Cast(tree, t))
    \/ Grown(FieldAccess(tree, "1")) \/ Grown(Index(tree, X)) \/ Grown(Index(X, tree))
Called ==
    \/ Callable(tree) /\ \E l \in {<<>>, <<Box(I64), Box(Box(I64))>>} : Grown(Call(tree, <<X, One>>, l))
    \/ Grown(Call(Named("null"), <<tree, NullLit>>, <<>>))
Gathered ==
    \/ Grown(TupleLit(<<tree, X>>)) \/ Grown(ArrayLit(<<tree, FloatLit("1.5"), CharLit("'c'"), CharLit("'\\n'"), StrLit("\"s\\\"\"")>>)) \/ Grown(ArrayRepeat(tree, "1"))
    \/ Grown(StructLit(Box(I64), << <<"f", tree>>, <<"x", One>> >>))

\* the statements an expression may stand in
Body(s) == Block(<<s, ExprStmt(X)>>)
Statements(e) ==
    {Let("x", <<>>, e, FALSE), Defer(e), While(e, Body(Continue)), While(BoolLit("true"), Body(ExprStmt(e))),
     For("x", <<I64>>, e, X, Body(Return(<<>>)), TRUE), For("x", <<>>, X, e, Body(Asm("\"s\\\"\"")), FALSE),
     Match(e, <<MatchArm(<<>>, Body(Break))>>),
     Match(X, <<MatchArm(<<e>>, Body(Break)), MatchArm(<<X>>, Block(<<>>))>>)}
        \cup {Let("x", <<t>>, e, TRUE) : t \in Types}
        \cup (IF IsLvalue(e) THEN {Assign(e, X, "="), Assign(e, X, ">>=")} ELSE {})
AnyStatements(e) ==
    {If(e, Body(Break), <<If(X, Body(ExprStmt(e)), <<Block(<<>>)>>)>>)}
        \cup (IF growth < MaxGrowth THEN Statements(e) \cup {Return(<<e>>)} ELSE {})
\* what a statement's function may come after
Heads ==
    {ModuleDecl(<<"x">>), ImportDecl(<<"x", "f">>, <<>>), ImportDecl(<<"x">>, <<"f">>),
     StructDecl("Box", << <<"f", Box(I64)>> >>, <<"x", "f">>, FALSE), StructDecl("x", <<>>, <<>>, TRUE),
     EnumDecl("Box", << <<"f", <<>>>>, <<"x", <<Box(Box(I64)), I64>>>> >>, <<"x">>),
     TypeAliasDecl("f", Box(Box(I64))), ExternFnDecl("null", << <<"x", Box(Box(I64))>> >>, Void),
     Let("x", <<>>, One, FALSE)}
Files(s) ==
    IF growth = 0
    THEN {Program(<<h, FnDecl("f", << <<"x", I64>> >>, Box(Box(I64)), Block(<<s>>), <<"x">>, TRUE),
                    TestDecl("\"s\\\"\"", Block(<<>>))>>) : h \in Heads}
    ELSE {Program(<<FnDecl("f", <<>>, Void, Block(<<s>>), <<>>, FALSE)>>)}
Enclosed ==
    /\ growth <= MaxGrowth
    /\ growth' = MaxGrowth + 1
    /\ \E s \in AnyStatements(tree) : tree' \in Files(s)

Init == growth = 0 /\ tree \in Atoms
Next == Combine \/ Prefixed \/ Suffixed \/ Called \/ Gathered \/ Enclosed
Spec == Init /\ [][Next]_vars

-----------------------------------------------------------------------------
Styles == {"tight", "spaced"}
Marked == Run(tree[2], ShowDecl)
IsFile == growth > MaxGrowth
Back(style) == Parse(Tokenize(Text(style, Marked))) = Ok(tree, <<>>)

(* What the parser's scans take for the angles of type arguments: a        *)
(* comparison "<", then a ">" of any kind before "(" or "{", and no ";"    *)
(* between them.                                                           *)
LooksLikeAngles(ts) ==
    \E i \in 1..Len(ts) : ts[i] = "<"
        /\ \E j \in (i + 1)..(Len(ts) - 1) :
            /\ ts[j] \in {">", ":>", ">>"} /\ ts[j + 1] \in {"(", "{"}
            /\ ";" \notin {ts[k] : k \in i..j}
\* two closing angles, tight, before a struct literal's brace or an assignment
ClosesTwo(ts) ==
    \E i \in 1..(Len(ts) - 2) : ts[i] = ":>" /\ ts[i + 1] = ":>" /\ ts[i + 2] \in {"{", "="}

(* Precedence, associativity, the angles of types and the ban of struct    *)
(* literals in conditions: a file printed by the grammar is parsed to the  *)
(* same tree, in either style, unless a comparison looks like type         *)
(* arguments or the lexer has joined the angles that close two of them.    *)
ParsesBack ==
    IsFile /\ ~LooksLikeAngles(Marked) =>
        /\ Back("spaced")
        /\ ~ClosesTwo(Marked) => Back("tight")

(* docs/language-specification.md:109: "The following EBNF is normative."  *)
(* Every file of the grammar is parsed to its tree.                        *)
ParsesAsWritten == IsFile => Back("spaced")
=============================================================================
