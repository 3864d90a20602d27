------------------------------- MODULE Parser -------------------------------
(***************************************************************************)
(* The recursive-descent parser of mort/parser.py, from the tokens of a    *)
(* file to its syntax tree.  A function takes the tokens that are left and *)
(* gives the tree with the tokens after it, or Fail for the MortError that *)
(* ends the compilation.  `ban` is the parser's _no_struct_lit.            *)
(***************************************************************************)
EXTENDS MortAst

Levels == << {"||"}, {"&&"}, {"|"}, {"^"}, {"&"}, {"==", "!="}, {"<", ">", "<=", ">="},
             {"<<", ">>"}, {"+", "-"}, {"*", "/", "%"} >>
Prefixes == {"!", "-", "&", "*", "~"}

Ok(tree, ts) == [ok |-> TRUE, tree |-> tree, rest |-> ts]
Fail == [ok |-> FALSE]
Then(r, F(_, _)) == IF r.ok THEN F(r.tree, r.rest) ELSE Fail
At(ts, token) == ts # <<>> /\ Head(ts) = token
AtAny(ts, tokens) == ts # <<>> /\ Head(ts) \in tokens
Expect(token, ts, F(_)) == IF At(ts, token) THEN F(Tail(ts)) ELSE Fail
\* the tree, if the token comes after it
Before(r, token) == Then(r, LAMBDA tree, ts : Expect(token, ts, LAMBDA rest : Ok(tree, rest)))
ExpectIdent(ts) == IF AtAny(ts, Idents) THEN Ok(Head(ts), Tail(ts)) ELSE Fail
ExpectInt(ts) == IF AtAny(ts, Ints) THEN Ok(Head(ts), Tail(ts)) ELSE Fail
ExpectString(ts) == IF AtAny(ts, Strings) THEN Ok(Head(ts), Tail(ts)) ELSE Fail

(* What every production is made of; the recursion of the parser goes      *)
(* through Item.                                                           *)
RECURSIVE Item(_, _, _), Sequel(_, _, _, _, _)
TypeName(ts) == Item("type", ts, FALSE)
Expression(ts, ban) == Item("expression", ts, ban)
Stmts(ts) == Item("statements", ts, FALSE)

\* _expect_type_close: >> and >= leave their second character behind
TypeClose(ts) ==
    CASE At(ts, ">>") -> <<">">> \o Tail(ts)
      [] At(ts, ">=") -> <<"=">> \o Tail(ts)
      [] At(ts, ">") -> Tail(ts)
      [] OTHER -> <<"no close">>

Typed(ts) ==
    Then(Before(ExpectIdent(ts), ":"), LAMBDA x, r : Then(TypeName(r), LAMBDA t, r2 : Ok(<<x, t>>, r2)))
Valued(ts, ban) ==
    Then(Before(ExpectIdent(ts), ":"), LAMBDA x, r :
        Then(Expression(r, ban), LAMBDA e, r2 : Ok(<<x, e>>, r2)))
Variant(ts) ==
    Then(ExpectIdent(ts), LAMBDA x, r :
        IF At(r, "(")
        THEN Then(Sequel("type", ")", {}, Tail(r), FALSE), LAMBDA l, r2 : Ok(<<x, l>>, r2))
        ELSE Ok(<<x, <<>>>>, r))
\* items with commas and what closes them; may: a comma before the close, no
\* item at all, the close of type arguments
Sequel(kind, close, may, ts, ban) ==
    IF "empty" \in may /\ At(ts, close) THEN Ok(<<>>, Tail(ts))
    ELSE Then(Item(kind, ts, ban), LAMBDA first, r :
        CASE At(r, ",") /\ "trail" \in may /\ At(Tail(r), close) ->
                Ok(<<first>>, Tail(Tail(r)))
          [] At(r, ",") /\ ~("trail" \in may /\ At(Tail(r), close)) ->
                Then(Sequel(kind, close, may \ {"empty"}, Tail(r), ban),
                     LAMBDA l, r2 : Ok(<<first>> \o l, r2))
          [] "angle" \in may /\ AtAny(r, {">", ">>", ">="}) -> Ok(<<first>>, TypeClose(r))
          [] "angle" \notin may /\ At(r, close) -> Ok(<<first>>, Tail(r))
          [] OTHER -> Fail)
TypeArgs(ts) == Sequel("type", ">", {"angle"}, ts, FALSE)
Atleast2(r, F(_)) ==
    Then(r, LAMBDA l, ts : IF Len(l) < 2 THEN Fail ELSE Ok(F(l), ts))

-----------------------------------------------------------------------------
(* Types.  `int` is another name of i64.                                   *)

Const(ts) == IF At(ts, "const") THEN <<TRUE, Tail(ts)>> ELSE <<FALSE, ts>>
AnyType(ts) ==
    CASE At(ts, "fn") ->
            Expect("(", Tail(ts), LAMBDA r :
                Then(Before(Sequel("type", ")", {"empty"}, r, FALSE), "->"), LAMBDA l, r2 :
                    Then(TypeName(r2), LAMBDA t, r3 : Ok(FnType(l, t), r3))))
      [] At(ts, "(") -> Atleast2(Sequel("type", ")", {"trail"}, Tail(ts), FALSE), TupleType)
      [] At(ts, "*") ->
            LET c == Const(Tail(ts))
            IN Then(TypeName(c[2]), LAMBDA t, r : Ok(PointerType(c[1], t), r))
      [] At(ts, "[") /\ At(Tail(ts), "]") ->
            LET c == Const(Tail(Tail(ts)))
            IN Then(TypeName(c[2]), LAMBDA t, r : Ok(SliceType(c[1], t), r))
      [] At(ts, "[") /\ ~At(Tail(ts), "]") ->
            Then(Before(TypeName(Tail(ts)), ";"), LAMBDA t, r :
                Then(Before(ExpectInt(r), "]"), LAMBDA n, r2 : Ok(ArrayType(t, n), r2)))
      [] At(ts, "int") -> Ok(NameType("i64", <<>>), Tail(ts))
      [] AtAny(ts, {"bool", "void"} \cup Scalars) -> Ok(NameType(Head(ts), <<>>), Tail(ts))
      [] AtAny(ts, Idents \ Scalars) /\ At(Tail(ts), "<") ->
            Then(TypeArgs(Tail(Tail(ts))), LAMBDA l, r : Ok(NameType(Head(ts), l), r))
      [] AtAny(ts, Idents \ Scalars) /\ ~At(Tail(ts), "<") -> Ok(NameType(Head(ts), <<>>), Tail(ts))
      [] OTHER -> Fail

-----------------------------------------------------------------------------
(* Expressions.  Levels 1 to 10 are _logic_or to _factor; what is below    *)
(* them is _cast, which takes any number of `as` after a _unary.           *)

RECURSIVE Casts(_, _), Operands(_, _, _, _), Level(_, _, _), Unaries(_, _), Postfix(_, _, _),
          Primary(_, _)
Casts(e, ts) ==
    IF At(ts, "as") THEN Then(TypeName(Tail(ts)), LAMBDA t, r : Casts(Cast(e, t), r))
    ELSE Ok(e, ts)
(* Mutant: the right operand takes the operators of its own level. *)
OperandsOfRight(l, left, ts, ban) ==
    IF AtAny(ts, Levels[l])
    THEN Then(Level(l, Tail(ts), ban), LAMBDA right, r :
            Operands(l, Binary(Head(ts), left, right), r, ban))
    ELSE Ok(left, ts)
Operands(l, left, ts, ban) ==
    IF AtAny(ts, Levels[l])
    THEN Then(Level(l + 1, Tail(ts), ban), LAMBDA right, r :
            Operands(l, Binary(Head(ts), left, right), r, ban))
    ELSE Ok(left, ts)
Level(l, ts, ban) ==
    IF l > Len(Levels) THEN Then(Unaries(ts, ban), Casts)
    ELSE Then(Level(l + 1, ts, ban), LAMBDA e, r : Operands(l, e, r, ban))
Unaries(ts, ban) ==
    IF AtAny(ts, Prefixes \cup {"try", "move"})
    THEN Then(Unaries(Tail(ts), ban), LAMBDA e, r :
            Ok(CASE Head(ts) = "try" -> Try(e)
                 [] Head(ts) = "move" -> Move(e)
                 [] OTHER -> Unary(Head(ts), e), r))
    ELSE Then(Primary(ts, ban), LAMBDA e, r : Postfix(e, r, ban))

(* From the angle that opens at i: is the token after the one that closes  *)
(* it `next`?  The scans for a call and for a qualifier count >> as two    *)
(* closing angles, the scan for a struct literal passes over it.           *)
RECURSIVE Angles(_, _, _, _, _)
Angles(ts, i, depth, next, shr) ==
    IF i > Len(ts) \/ ts[i] = ";" THEN FALSE
    ELSE LET d == CASE ts[i] = "<" -> depth + 1
                    [] ts[i] = ">" -> depth - 1
                    [] ts[i] = ">>" /\ shr -> depth - 2
                    [] OTHER -> depth
         IN IF d > 0 THEN Angles(ts, i + 1, d, next, shr)
            ELSE d = 0 /\ i < Len(ts) /\ ts[i + 1] = next
LooksLikeCallTypeArgs(ts) == At(ts, "<") /\ Angles(ts, 1, 0, "(", TRUE)
LooksLikeGenericQualifier(ts) ==
    AtAny(ts, Idents) /\ At(Tail(ts), "<") /\ Angles(ts, 2, 0, ".", TRUE)
LooksLikeStructLit(ts) ==
    /\ AtAny(ts, Idents)
    /\ IF At(Tail(ts), "<") THEN Angles(ts, 2, 0, "{", FALSE) ELSE At(Tail(ts), "{")

\* _qualified_name: a name, or a field of a field ... of a name
RECURSIVE Callable(_)
Callable(e) == e[1] = "var" \/ (e[1] = "field" /\ Callable(e[2]))

CallOf(e, typeArgs, ts, ban) ==
    IF ~Callable(e) THEN Fail
    ELSE Expect("(", ts, LAMBDA r :
            Then(Sequel("expression", ")", {"empty"}, r, ban), LAMBDA args, r2 :
                Postfix(Call(e, args, typeArgs), r2, ban)))
Postfix(e, ts, ban) ==
    CASE LooksLikeCallTypeArgs(ts) ->
            Then(TypeArgs(Tail(ts)), LAMBDA l, r : CallOf(e, l, r, ban))
      [] At(ts, "(") -> CallOf(e, <<>>, ts, ban)
      [] At(ts, ".") ->
            IF AtAny(Tail(ts), Ints \cup Idents)
            THEN Postfix(FieldAccess(e, ts[2]), Tail(Tail(ts)), ban) ELSE Fail
      [] At(ts, "[") ->
            Then(Before(Expression(Tail(ts), ban), "]"), LAMBDA x, r : Postfix(Index(e, x), r, ban))
      [] OTHER -> Ok(e, ts)

\* between parentheses a struct literal may stand again
Parenthesised(ts) ==
    Then(Expression(ts, FALSE), LAMBDA e, r :
        IF At(r, ",")
        THEN Atleast2(Sequel("expression", ")", {"trail"}, ts, FALSE), TupleLit)
        ELSE Expect(")", r, LAMBDA r2 : Ok(e, r2)))
ArrayLiteral(ts, ban) ==
    Then(Expression(ts, ban), LAMBDA e, r :
        IF At(r, ";")
        THEN Then(Before(ExpectInt(Tail(r)), "]"), LAMBDA n, r2 : Ok(ArrayRepeat(e, n), r2))
        ELSE Then(Sequel("expression", "]", {"trail"}, ts, ban), LAMBDA l, r2 : Ok(ArrayLit(l), r2)))
StructLiteral(ts, ban) ==
    Then(Before(TypeName(ts), "{"), LAMBDA t, r :
        Then(Sequel("valued", "}", {"empty", "trail"}, r, ban), LAMBDA l, r2 :
            Ok(StructLit(t, l), r2)))
Named(x) == Var(NameType(x, <<>>))
\* `null` in the place of a called name is a name
Null(ts) == IF At(ts, "(") \/ LooksLikeCallTypeArgs(ts) THEN Named("null") ELSE NullLit
Primary(ts, ban) ==
    CASE AtAny(ts, Ints) -> Ok(IntLit(Head(ts)), Tail(ts))
      [] AtAny(ts, Floats) -> Ok(FloatLit(Head(ts)), Tail(ts))
      [] AtAny(ts, Chars) -> Ok(CharLit(Head(ts)), Tail(ts))
      [] AtAny(ts, Strings) -> Ok(StrLit(Head(ts)), Tail(ts))
      [] AtAny(ts, {"true", "false"}) -> Ok(BoolLit(Head(ts)), Tail(ts))
      [] At(ts, "null") -> Ok(Null(Tail(ts)), Tail(ts))
      [] At(ts, "[") -> ArrayLiteral(Tail(ts), ban)
      [] At(ts, "(") -> Parenthesised(Tail(ts))
      [] AtAny(ts, Idents) ->
            IF LooksLikeStructLit(ts) /\ ~ban THEN StructLiteral(ts, ban)
            ELSE IF LooksLikeGenericQualifier(ts)
            THEN Then(TypeName(ts), LAMBDA t, r : Ok(Var(t), r))
            ELSE Ok(Named(Head(ts)), Tail(ts))
      [] OTHER -> Fail

-----------------------------------------------------------------------------
(* Statements.                                                             *)

BlockOf(ts) == Expect("{", ts, LAMBDA r : Then(Stmts(r), LAMBDA l, r2 : Ok(Block(l), r2)))
DeclaredType(ts) ==
    IF At(ts, ":") THEN Then(TypeName(Tail(ts)), LAMBDA t, r : Ok(<<t>>, r)) ELSE Ok(<<>>, ts)
Terminated(ts) == Before(Expression(ts, FALSE), ";")
Condition(ts) == Expression(ts, TRUE)

LetStmt(ts, mutable) ==
    Then(ExpectIdent(ts), LAMBDA x, r :
        Then(Before(DeclaredType(r), "="), LAMBDA t, r2 :
            Then(Terminated(r2), LAMBDA e, r3 : Ok(Let(x, t, e, mutable), r3))))
ReturnStmt(ts) ==
    IF At(ts, ";") THEN Ok(Return(<<>>), Tail(ts))
    ELSE Then(Terminated(ts), LAMBDA e, r : Ok(Return(<<e>>), r))
RECURSIVE IfStmt(_)
IfStmt(ts) ==
    Then(Condition(ts), LAMBDA c, r : Then(BlockOf(r), LAMBDA b, r2 :
        IF At(r2, "else")
        THEN Then(IF At(Tail(r2), "if") THEN IfStmt(Tail(Tail(r2))) ELSE BlockOf(Tail(r2)),
                  LAMBDA els, r3 : Ok(If(c, b, <<els>>), r3))
        ELSE Ok(If(c, b, <<>>), r2)))
WhileStmt(ts) ==
    Then(Condition(ts), LAMBDA c, r : Then(BlockOf(r), LAMBDA b, r2 : Ok(While(c, b), r2)))
ForStmt(ts) ==
    Then(ExpectIdent(ts), LAMBDA x, r :
        Then(Before(DeclaredType(r), "in"), LAMBDA t, r2 :
            Then(Condition(r2), LAMBDA start, r3 :
                IF ~AtAny(r3, {"..", "..="}) THEN Fail
                ELSE Then(Condition(Tail(r3)), LAMBDA end, r4 :
                        Then(BlockOf(r4), LAMBDA b, r5 :
                            Ok(For(x, t, start, end, b, Head(r3) = "..="), r5))))))
Pattern(ts) ==
    IF At(ts, "_") THEN Ok(<<>>, Tail(ts))
    ELSE Then(Expression(ts, FALSE), LAMBDA e, r : Ok(<<e>>, r))
RECURSIVE Arms(_)
Arms(ts) ==
    IF At(ts, "}") THEN Ok(<<>>, Tail(ts))
    ELSE Then(Before(Pattern(ts), "=>"), LAMBDA p, r : Then(BlockOf(r), LAMBDA b, r2 :
            Then(Arms(IF At(r2, ",") THEN Tail(r2) ELSE r2), LAMBDA l, r3 :
                Ok(<<MatchArm(p, b)>> \o l, r3))))
MatchStmt(ts) ==
    Then(Before(Condition(ts), "{"), LAMBDA e, r : Then(Arms(r), LAMBDA l, r2 : Ok(Match(e, l), r2)))
AsmStmt(ts) ==
    Expect("(", ts, LAMBDA r : Then(Before(Before(ExpectString(r), ")"), ";"), LAMBDA s, r2 :
        Ok(Asm(s), r2)))
IsLvalue(e) == e[1] \in {"var", "field", "index"} \/ (e[1] = "unary" /\ e[2] = "*")
ExprOrAssign(ts) ==
    Then(Expression(ts, FALSE), LAMBDA e, r :
        IF AtAny(r, Assignments)
        THEN IF IsLvalue(e)
             THEN Then(Terminated(Tail(r)), LAMBDA v, r2 : Ok(Assign(e, v, Head(r)), r2)) ELSE Fail
        ELSE Expect(";", r, LAMBDA r2 : Ok(ExprStmt(e), r2)))
Stmt(ts) ==
    CASE At(ts, "let") -> LetStmt(Tail(ts), TRUE)
      [] At(ts, "const") -> LetStmt(Tail(ts), FALSE)
      [] At(ts, "return") -> ReturnStmt(Tail(ts))
      [] At(ts, "if") -> IfStmt(Tail(ts))
      [] At(ts, "while") -> WhileStmt(Tail(ts))
      [] At(ts, "loop") -> Then(BlockOf(Tail(ts)), LAMBDA b, r : Ok(While(BoolLit("true"), b), r))
      [] At(ts, "for") -> ForStmt(Tail(ts))
      [] At(ts, "asm") -> AsmStmt(Tail(ts))
      [] At(ts, "break") -> Before(Ok(Break, Tail(ts)), ";")
      [] At(ts, "continue") -> Before(Ok(Continue, Tail(ts)), ";")
      [] At(ts, "match") -> MatchStmt(Tail(ts))
      [] At(ts, "defer") -> Then(Terminated(Tail(ts)), LAMBDA e, r : Ok(Defer(e), r))
      [] At(ts, "{") -> BlockOf(ts)
      [] OTHER -> ExprOrAssign(ts)
BlockBody(ts) ==
    IF At(ts, "}") THEN Ok(<<>>, Tail(ts))
    ELSE Then(Stmt(ts), LAMBDA s, r : Then(Stmts(r), LAMBDA l, r2 : Ok(<<s>> \o l, r2)))

-----------------------------------------------------------------------------
(* Declarations.                                                           *)

RECURSIVE Path(_)
Path(ts) ==
    Then(ExpectIdent(ts), LAMBDA x, r :
        IF At(r, ".") THEN Then(Path(Tail(r)), LAMBDA l, r2 : Ok(<<x>> \o l, r2))
        ELSE Ok(<<x>>, r))
GenericParams(ts) == IF At(ts, "<") THEN Sequel("name", ">", {}, Tail(ts), FALSE) ELSE Ok(<<>>, ts)
Members(kind, ts) == Sequel(kind, "}", {"empty", "trail"}, ts, FALSE)
Alias(ts) == IF At(ts, "as") THEN Then(ExpectIdent(Tail(ts)), LAMBDA x, r : Ok(<<x>>, r)) ELSE Ok(<<>>, ts)
Import(ts) ==
    Then(Path(ts), LAMBDA p, r : Then(Before(Alias(r), ";"), LAMBDA a, r2 : Ok(ImportDecl(p, a), r2)))
Struct(ts, resource) ==
    Then(ExpectIdent(ts), LAMBDA x, r : Then(Before(GenericParams(r), "{"), LAMBDA g, r2 :
        Then(Members("typed", r2), LAMBDA l, r3 : Ok(StructDecl(x, l, g, resource), r3))))
Enum(ts) ==
    Then(ExpectIdent(ts), LAMBDA x, r : Then(Before(GenericParams(r), "{"), LAMBDA g, r2 :
        Then(Members("variant", r2), LAMBDA l, r3 : Ok(EnumDecl(x, l, g), r3))))
TypeAlias(ts) ==
    Then(Before(ExpectIdent(ts), "="), LAMBDA x, r :
        Then(Before(TypeName(r), ";"), LAMBDA t, r2 : Ok(TypeAliasDecl(x, t), r2)))
Test(ts) ==
    Then(ExpectString(ts), LAMBDA s, r : Then(BlockOf(r), LAMBDA b, r2 : Ok(TestDecl(s, b), r2)))
FunctionName(ts) == IF At(ts, "null") THEN Ok("null", Tail(ts)) ELSE ExpectIdent(ts)
Result(ts) == IF At(ts, "->") THEN TypeName(Tail(ts)) ELSE Ok(Void, ts)
Parameters(ts) == Expect("(", ts, LAMBDA r : Sequel("typed", ")", {"empty"}, r, FALSE))
Extern(ts) ==
    Expect("fn", ts, LAMBDA r : Then(FunctionName(r), LAMBDA x, r2 :
        Then(Parameters(r2), LAMBDA l, r3 : Then(Before(Result(r3), ";"), LAMBDA t, r4 :
            Ok(ExternFnDecl(x, l, t), r4)))))
Function(ts, public) ==
    Expect("fn", ts, LAMBDA r : Then(FunctionName(r), LAMBDA x, r2 :
        Then(GenericParams(r2), LAMBDA g, r3 : Then(Parameters(r3), LAMBDA l, r4 :
            Then(Result(r4), LAMBDA t, r5 : Then(BlockOf(r5), LAMBDA b, r6 :
                Ok(FnDecl(x, l, t, b, g, public), r6)))))))
Declaration(ts) ==
    CASE At(ts, "import") -> Import(Tail(ts))
      [] At(ts, "pub") -> Function(Tail(ts), TRUE)
      [] At(ts, "resource") -> Expect("struct", Tail(ts), LAMBDA r : Struct(r, TRUE))
      [] At(ts, "struct") -> Struct(Tail(ts), FALSE)
      [] At(ts, "enum") -> Enum(Tail(ts))
      [] At(ts, "type") -> TypeAlias(Tail(ts))
      [] At(ts, "test") -> Test(Tail(ts))
      [] At(ts, "let") -> LetStmt(Tail(ts), TRUE)
      [] At(ts, "const") -> LetStmt(Tail(ts), FALSE)
      [] At(ts, "extern") -> Extern(Tail(ts))
      [] OTHER -> Function(ts, FALSE)

Item(kind, ts, ban) ==
    CASE kind = "type" -> AnyType(ts)
      [] kind = "expression" -> Level(1, ts, ban)
      [] kind = "statements" -> BlockBody(ts)
      [] kind = "declaration" -> Declaration(ts)
      [] kind = "name" -> ExpectIdent(ts)
      [] kind = "typed" -> Typed(ts)
      [] kind = "valued" -> Valued(ts, ban)
      [] kind = "variant" -> Variant(ts)

\* parse: `module` comes first or not at all
RECURSIVE Declarations(_, _)
Declarations(ts, first) ==
    IF ts = <<>> THEN Ok(<<>>, ts)
    ELSE Then(IF At(ts, "module")
              THEN IF first THEN Then(Before(Path(Tail(ts)), ";"), LAMBDA p, r : Ok(ModuleDecl(p), r))
                   ELSE Fail
              ELSE Item("declaration", ts, FALSE),
              LAMBDA d, r : Then(Declarations(r, FALSE), LAMBDA l, r2 : Ok(<<d>> \o l, r2)))
Parse(ts) == Then(Declarations(ts, TRUE), LAMBDA l, r : Ok(Program(l), r))
=============================================================================
