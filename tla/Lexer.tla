-------------------------------- MODULE Lexer --------------------------------
(***************************************************************************)
(* The lexer of mort/lexer.py, from the characters of a file to its        *)
(* tokens, or NoTokens for the MortError that ends the compilation.  The   *)
(* letters of a word and the digits of a number, with its base, separators *)
(* and exponent, are one character each.                                   *)
(***************************************************************************)
EXTENDS MortAst

Blanks == {" ", "\n"}
Words == Idents \cup Keywords \cup {"_"}
Digits == Ints \cup {"5"}
End == "end of file"

RECURSIVE Joined(_)
Joined(cs) == IF cs = <<>> THEN "" ELSE Head(cs) \o Joined(Tail(cs))

NoTokens == <<"no tokens">>
\* _peek: the character at i, or the end
Peek(cs, i) == IF i <= Len(cs) THEN cs[i] ELSE End
Peek2(cs, i) == <<Peek(cs, i), Peek(cs, i + 1)>>

RECURSIVE LineEnd(_, _), CommentEnd(_, _, _), RunEnd(_, _), StringEnd(_, _), Lex(_, _, _)

LineEnd(cs, i) == IF Peek(cs, i) \in {"\n", End} THEN i ELSE LineEnd(cs, i + 1)
\* block comments nest; 0: not terminated
CommentEnd(cs, i, depth) ==
    CASE depth = 0 -> i
      [] depth > 0 /\ i > Len(cs) -> 0
      [] depth > 0 /\ i <= Len(cs) ->
            CASE Peek2(cs, i) = <<"/", "*">> -> CommentEnd(cs, i + 2, depth + 1)
              [] Peek2(cs, i) = <<"*", "/">> -> CommentEnd(cs, i + 2, depth - 1)
              [] OTHER -> CommentEnd(cs, i + 1, depth)
RunEnd(cs, i) == IF Peek(cs, i) \in Words \cup Digits THEN RunEnd(cs, i + 1) ELSE i
\* from the character after the opening quote; an escape is kept as it is
StringEnd(cs, i) ==
    CASE Peek(cs, i) \in {End, "\n"} -> 0
      [] Peek(cs, i) = "\\" -> IF Peek(cs, i + 1) = End THEN 0 ELSE StringEnd(cs, i + 2)
      [] Peek(cs, i) = "\"" -> i + 1
      [] OTHER -> StringEnd(cs, i + 1)
CharEnd(cs, i) ==
    LET last == IF Peek(cs, i) = "\\" THEN i + 1 ELSE i
    IN IF Peek(cs, last) \in {End, "\n"} \/ Peek(cs, i) = "'" \/ Peek(cs, last + 1) # "'"
       THEN 0 ELSE last + 2

(* The longest of three, two and one characters that are a token.          *)
SymbolEnd(cs, i) ==
    LET Is(n) == i + n - 1 <= Len(cs) /\ Joined(SubSeq(cs, i, i + n - 1)) \in Punctuation
    IN IF Is(3) THEN i + 3 ELSE IF Is(2) THEN i + 2 ELSE IF Is(1) THEN i + 1 ELSE 0
(* A number right after a dot is the index of a tuple, and no float.       *)
NumberEnd(cs, i, previous) ==
    LET end == IF previous # "." /\ Peek(cs, i + 1) = "." /\ Peek(cs, i + 2) \in Digits
               THEN i + 3 ELSE i + 1
    IN IF Peek(cs, end) \in Words \cup Digits THEN 0 ELSE end

Lex(cs, i, tokens) ==
    LET c == Peek(cs, i)
        Token(end) ==
            IF end = 0 THEN NoTokens
            ELSE Lex(cs, end, Append(tokens, Joined(SubSeq(cs, i, end - 1))))
        previous == IF tokens = <<>> THEN End ELSE tokens[Len(tokens)]
    IN CASE i > Len(cs) -> tokens
         [] c \in Blanks -> Lex(cs, i + 1, tokens)
         [] c = "/" /\ Peek(cs, i + 1) = "/" -> Lex(cs, LineEnd(cs, i), tokens)
         [] c = "/" /\ Peek(cs, i + 1) = "*" ->
                LET end == CommentEnd(cs, i + 2, 1)
                IN IF end = 0 THEN NoTokens ELSE Lex(cs, end, tokens)
         [] c = "\"" -> Token(StringEnd(cs, i + 1))
         [] c = "'" -> Token(CharEnd(cs, i + 1))
         [] c \in Digits -> Token(NumberEnd(cs, i, previous))
         [] c \in Words -> Token(RunEnd(cs, i))
         [] OTHER -> Token(SymbolEnd(cs, i))
Tokenize(cs) == Lex(cs, 1, <<>>)
=============================================================================
