------------------------------ MODULE MortAst ------------------------------
(***************************************************************************)
(* Tokens and syntax trees: mort/tokens.py and mort/mort_ast.py.  A token  *)
(* is its text.  A node is a tuple, its class first and then what the      *)
(* parser gives its constructor, without the line; what may be absent is a *)
(* sequence of none or one.  The types, which the parser writes as text,   *)
(* are trees too: a type's text and its tree determine each other.         *)
(***************************************************************************)
EXTENDS Naturals, Sequences

CONSTANTS
    Idents,     \* identifiers, those that name scalar types among them
    Ints        \* integer literals

Scalars == {"i64", "u8", "f64", "c_int"}
Keywords ==
    {"let", "fn", "return", "if", "else", "while", "loop", "for", "in", "true", "false",
     "int", "bool", "as", "struct", "asm", "extern", "break", "continue", "void",
     "import", "enum", "match", "const", "test", "module", "pub", "defer", "try", "type",
     "null", "resource", "move"}
Assignments == {"=", "+=", "-=", "*=", "/=", "%=", "&=", "|=", "^=", "<<=", ">>="}
Punctuation ==
    {"(", ")", "{", "}", ",", ";", ":", "->", "=>", ".", "..", "..=", "&", "[", "]",
     "+", "-", "*", "/", "%", "==", "!=", "<", ">", "<=", ">=", "&&", "||", "!", "|",
     "^", "~", "<<", ">>"} \cup Assignments
Floats == {"1.5"}
Chars == {"'c'", "'\\n'"}
Strings == {"\"s\\\"\""}
Tokens == Idents \cup Ints \cup Keywords \cup Punctuation \cup Floats \cup Chars \cup Strings

ASSUME IdentsAssumption == Idents \cap (Keywords \cup Punctuation \cup Ints) = {}

-----------------------------------------------------------------------------
(* Types.                                                                  *)
NameType(name, args) == <<"name type", name, args>>
PointerType(const, t) == <<"pointer type", const, t>>
SliceType(const, t) == <<"slice type", const, t>>
ArrayType(t, n) == <<"array type", t, n>>
TupleType(elements) == <<"tuple type", elements>>
FnType(parameters, result) == <<"fn type", parameters, result>>
Void == NameType("void", <<>>)

(* Expressions.                                                            *)
IntLit(value) == <<"int", value>>
FloatLit(value) == <<"float", value>>
CharLit(value) == <<"char", value>>
NullLit == <<"null">>
BoolLit(value) == <<"bool", value>>
StrLit(value) == <<"str", value>>
Var(name) == <<"var", name>>                      \* name: a type, or a name type
Unary(op, operand) == <<"unary", op, operand>>
Binary(op, left, right) == <<"binary", op, left, right>>
Call(name, args, typeArgs) == <<"call", name, args, typeArgs>>
Cast(expr, target) == <<"cast", expr, target>>
Try(expr) == <<"try", expr>>
Move(expr) == <<"move", expr>>
StructLit(name, fields) == <<"struct lit", name, fields>>
TupleLit(elements) == <<"tuple lit", elements>>
FieldAccess(obj, field) == <<"field", obj, field>>
ArrayLit(elements) == <<"array lit", elements>>
ArrayRepeat(value, count) == <<"repeat", value, count>>
Index(obj, index) == <<"index", obj, index>>

(* Statements.                                                             *)
Let(name, decl, expr, mutable) == <<"let", name, decl, expr, mutable>>
Assign(target, expr, op) == <<"assign", target, expr, op>>
Return(expr) == <<"return", expr>>
If(cond, then, els) == <<"if", cond, then, els>>
While(cond, body) == <<"while", cond, body>>
For(var, decl, start, end, body, inclusive) == <<"for", var, decl, start, end, body, inclusive>>
Block(stmts) == <<"block", stmts>>
ExprStmt(expr) == <<"expr", expr>>
Asm(text) == <<"asm", text>>
Break == <<"break">>
Continue == <<"continue">>
Defer(expr) == <<"defer", expr>>
MatchArm(pattern, body) == <<"arm", pattern, body>>
Match(expr, arms) == <<"match", expr, arms>>

(* Declarations.  A field, a parameter and a variant are pairs.            *)
ModuleDecl(parts) == <<"module", parts>>
ImportDecl(parts, alias) == <<"import", parts, alias>>
StructDecl(name, fields, params, resource) == <<"struct", name, fields, params, resource>>
TypeAliasDecl(name, target) == <<"alias", name, target>>
FnDecl(name, params, ret, body, genericParams, public) ==
    <<"fn", name, params, ret, body, genericParams, public>>
EnumDecl(name, variants, params) == <<"enum", name, variants, params>>
ExternFnDecl(name, params, ret) == <<"extern", name, params, ret>>
TestDecl(name, body) == <<"test", name, body>>
Program(declarations) == <<"program", declarations>>
=============================================================================
