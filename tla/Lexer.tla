------------------------------- MODULE Lexer -------------------------------
(***************************************************************************)
(* The scanner, lexer.l.  Flex takes the longest match at the position,    *)
(* and of several rules that match as much the first; a rule's action then *)
(* returns a token or goes on scanning.  The text is a string, the end of  *)
(* it reads as "".                                                         *)
(***************************************************************************)
EXTENDS Integers, Sequences, FiniteSets, SequencesExt

CONSTANTS IntMax, NoToken

VARIABLES
    text, pos,           \* the input and the next character of it
    look,                \* the token yylex has returned, or NoToken
    lexical_errors,
    lexed                \* what was matched so far: [rule, from, upto]

lexVars == <<text, pos, look, lexical_errors, lexed>>

Chars(s)  == {SubSeq(s, i, i) : i \in 1 .. Len(s)}
Digit     == Chars("0123456789")
Letter    == Chars("abcdefghijklmnopqrstuvwxyzABCDEFGHIJKLMNOPQRSTUVWXYZ_")

Char(i)      == IF i <= Len(text) THEN SubSeq(text, i, i) ELSE ""
Looks(s)     == SubSeq(text, pos, Min({pos + Len(s) - 1, Len(text)})) = s
Span(i, set)  == Min({j \in i .. Len(text) + 1 : Char(j) \notin set}) - i
Until(i, set) == Min({j \in i .. Len(text) + 1 : Char(j) \in set \cup {""}})

-----------------------------------------------------------------------------
(* The rules.                                                              *)
Keyword  == <<"int", "float", "char", "bool", "string", "void", "if", "else",
              "while", "for", "return", "print", "true", "false">>
Operator == <<"+", "-", "*", "/", "%", "==", "!=", "<=", ">=", "<", ">", "&&",
              "||", "!", "=", ";", ",", "(", ")", "{", "}">>
Rules    == <<"blank", "newline", "line comment", "block comment">>
            \o Keyword \o Operator
            \o <<"INT_NUM", "FLOAT_NUM", "CHAR_LIT", "STRING_LIT", "ID", "other">>

FloatLength ==
    LET whole == Span(pos, Digit)
        part  == Span(pos + whole + 1, Digit)
    IN  IF whole > 0 /\ Char(pos + whole) = "." /\ part > 0
        THEN whole + 1 + part ELSE 0

(* A quote, a character or a backslash and one, and a quote.               *)
CharLength ==
    LET end == pos + (IF Char(pos + 1) = "\\" THEN 3 ELSE 2)
    IN  IF /\ Char(pos) = "'" /\ Char(end) = "'"
           /\ Char(pos + 1) \notin {"'", "\n", ""} /\ Char(end - 1) \notin {"\n", ""}
        THEN end - pos + 1 ELSE 0

(* Mutant: a backslash does not protect the character after it.            *)
StringLength_NoEscape ==
    LET end == Until(pos + 1, {"\"", "\n"})
    IN  IF Char(pos) = "\"" /\ Char(end) = "\"" THEN end - pos + 1 ELSE 0

(* Up to the first quote that no backslash precedes, on the same line.     *)
StringLength ==
    LET end[i \in Nat] ==
            CASE Char(i) = "\""          -> i
              [] Char(i) = "\\"          -> IF Char(i + 1) \in {"\n", ""} THEN 0
                                            ELSE end[i + 2]
              [] Char(i) \in {"\n", ""}  -> 0
              [] OTHER                   -> end[i + 1]
    IN  IF Char(pos) = "\"" /\ end[pos + 1] # 0 THEN end[pos + 1] - pos + 1 ELSE 0

MatchLength(rule) ==
    CASE rule = "blank"         -> Span(pos, Chars(" \t\r"))
      [] rule = "newline"       -> IF Char(pos) = "\n" THEN 1 ELSE 0
      [] rule = "line comment"  -> IF Looks("//") THEN Until(pos, {"\n"}) - pos ELSE 0
      [] rule = "block comment" -> IF Looks("/*") THEN 2 ELSE 0
      [] rule = "INT_NUM"       -> Span(pos, Digit)
      [] rule = "FLOAT_NUM"     -> FloatLength
      [] rule = "CHAR_LIT"      -> CharLength
      [] rule = "STRING_LIT"    -> StringLength
      [] rule = "ID"            -> IF Char(pos) \in Letter
                                   THEN Span(pos, Letter \cup Digit) ELSE 0
      [] rule = "other"         -> IF Char(pos) \in {"\n", ""} THEN 0 ELSE 1
      [] OTHER                  -> IF Looks(rule) THEN Len(rule) ELSE 0

Match ==
    LET length == [r \in DOMAIN Rules |-> MatchLength(Rules[r])]
        most   == Max(Range(length))
    IN  [rule |-> Rules[Min({r \in DOMAIN Rules : length[r] = most})], length |-> most]

-----------------------------------------------------------------------------
(* The actions.                                                            *)

(* Mutant: the character after a star that ends nothing is not unput.      *)
CommentEnd_NoUnput(i) ==
    LET end[j \in Nat] ==
            CASE Char(j) = "" -> 0
              [] Char(j) = "*" -> IF Char(j + 1) = "/" THEN j + 1 ELSE end[j + 2]
              [] OTHER         -> end[j + 1]
    IN  end[i]

(* The loop of input() and unput(): where a block comment ends, 0 if it    *)
(* does not.                                                               *)
CommentEnd(i) ==
    LET end[j \in Nat] ==
            CASE Char(j) = ""  -> 0
              [] Char(j) = "*" -> IF Char(j + 1) = "/" THEN j + 1 ELSE end[j + 1]
              [] OTHER         -> end[j + 1]
    IN  end[i]

(* atoi, whose result is undefined when the number does not fit.           *)
Ints(digits) ==
    LET value(d) == CHOOSE k \in 0 .. 9 : ToString(k) = d
        n == FoldLeft(LAMBDA k, j : 10 * k + value(SubSeq(digits, j, j)), 0,
                      [j \in 1 .. Len(digits) |-> j])
    IN  IF n <= IntMax THEN {n} ELSE (-IntMax - 1) .. IntMax

Unescaped(c) == CASE c = "n" -> "\n" [] c = "t" -> "\t" [] c = "r" -> "\r"
                  [] OTHER -> c

(* What is between the quotes, each escape replaced by its character.      *)
StringValue(s) ==
    LET from[i \in Nat] ==
            IF i >= Len(s) THEN ""
            ELSE IF SubSeq(s, i, i) = "\\"
                 THEN Unescaped(SubSeq(s, i + 1, i + 1)) \o from[i + 2]
            ELSE SubSeq(s, i, i) \o from[i + 1]
    IN  from[2]

(* A float stands for its value as %g would write it, which is without the *)
(* zeros at its end and without the point if no digit is left after it.    *)
Float(s) ==
    LET short[i \in Nat] == CASE SubSeq(s, i, i) = "0" -> short[i - 1]
                              [] SubSeq(s, i, i) = "." -> i - 1
                              [] OTHER                 -> i
    IN  SubSeq(s, 1, short[Len(s)])

(* yylval.  A char literal's value is the character after the quote, also  *)
(* if that is a backslash.                                                 *)
Values(rule, s) ==
    CASE rule = "INT_NUM"    -> Ints(s)
      [] rule = "FLOAT_NUM"  -> {Float(s)}
      [] rule = "CHAR_LIT"   -> {SubSeq(s, 2, 2)}
      [] rule = "STRING_LIT" -> {StringValue(s)}
      [] rule = "ID"         -> {s}
      [] OTHER               -> {""}

Advance(rule, upto) ==
    /\ pos' = upto + 1
    /\ lexed' = Append(lexed, [rule |-> rule, from |-> pos, upto |-> upto])
    /\ UNCHANGED text

Skip(m) ==
    /\ m.rule \in {"blank", "newline", "line comment"}
    /\ Advance(m.rule, pos + m.length - 1)
    /\ UNCHANGED <<look, lexical_errors>>

Comment(m) ==
    /\ m.rule = "block comment"
    /\ LET end == CommentEnd(pos + 2)
       IN  /\ Advance(m.rule, IF end = 0 THEN Len(text) ELSE end)
           /\ lexical_errors' = lexical_errors + (IF end = 0 THEN 1 ELSE 0)
    /\ UNCHANGED look

Unrecognized(m) ==
    /\ m.rule = "other"
    /\ Advance(m.rule, pos) /\ lexical_errors' = lexical_errors + 1
    /\ UNCHANGED look

ReturnToken(m) ==
    /\ m.rule \notin {"blank", "newline", "line comment", "block comment", "other"}
    /\ \E v \in Values(m.rule, SubSeq(text, pos, pos + m.length - 1)) :
          look' = [t |-> m.rule, v |-> v]
    /\ Advance(m.rule, pos + m.length - 1)
    /\ UNCHANGED lexical_errors

EndOfFile ==
    /\ look' = [t |-> "$end", v |-> ""]
    /\ UNCHANGED <<text, pos, lexical_errors, lexed>>

(* yylex is running.                                                       *)
Lex ==
    /\ look = NoToken
    /\ IF pos > Len(text) THEN EndOfFile
       ELSE LET m == Match
            IN  Skip(m) \/ Comment(m) \/ Unrecognized(m) \/ ReturnToken(m)

LexInit(s) == text = s /\ pos = 1 /\ look = NoToken /\ lexical_errors = 0
              /\ lexed = <<>>
=============================================================================
