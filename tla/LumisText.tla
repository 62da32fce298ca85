----------------------------- MODULE LumisText -----------------------------
(***************************************************************************)
(* The text of a tree, its lexemes in order.  Expressions are written by   *)
(* the strata of GRAMMAR.md's grammar, which has one nonterminal for each  *)
(* precedence: parentheses stand only where they ask for them.  Types and  *)
(* statements are those parser.y accepts; GRAMMAR.md leaves out string,    *)
(* void and expression statements, and ends the update of a for statement, *)
(* an assign_stmt there, with a semicolon.                                 *)
(***************************************************************************)
EXTENDS Parser

Stratum == [OR |-> 1, AND |-> 2, EQ |-> 3, NEQ |-> 3, LT |-> 4, GT |-> 4,
            LE |-> 4, GE |-> 4, ADD |-> 5, SUB |-> 5, MUL |-> 6, DIV |-> 6,
            MOD |-> 6]

StratumOf(t) == CASE t.kind = "BINARY_OP" -> Stratum[t.op]
                  [] t.kind = "UNARY_OP"  -> 7
                  [] OTHER                -> 8

Type(t)     == <<CHOOSE n \in DOMAIN TypeNamed : TypeNamed[n] = t>>
Commas(seqs) == FlattenSeq([i \in 1 .. Len(seqs) |->
                              IF i = 1 THEN seqs[i] ELSE <<",">> \o seqs[i]])

LiteralText(t) ==
    CASE t.type = "INT"    -> ToString(t.num)
      [] t.type = "FLOAT"  -> t.name
      [] t.type = "CHAR"   -> "'" \o t.name \o "'"
      [] t.type = "STRING" -> "\"" \o t.name \o "\""
      [] t.type = "BOOL"   -> IF t.num = 1 THEN "true" ELSE "false"

RECURSIVE Expr(_, _)
Expr(t, least) ==
    LET level == StratumOf(t)
        plain ==
            CASE t.kind = "LITERAL" -> <<LiteralText(t)>>
              [] t.kind = "VAR_REF" -> <<t.name>>
              [] t.kind = "UNARY_OP" ->
                    <<IF t.op = "NOT" THEN "!" ELSE "-">> \o Expr(t.children[1], level)
              [] t.kind = "BINARY_OP" ->
                    Expr(t.children[1], level) \o <<OpSymbol[t.op]>>
                    \o Expr(t.children[2], level + 1)
              [] t.kind = "CALL" ->
                    <<t.name, "(">> \o Commas([i \in DOMAIN t.args |-> Expr(t.args[i], 0)])
                    \o <<")">>
    IN  IF level < least THEN <<"(">> \o plain \o <<")">> ELSE plain

RECURSIVE Stmt(_)
Stmt(t) ==
    LET E(i) == Expr(t.children[i], 0)
        Sub(i) == Stmt(t.children[i])
    IN  CASE t.kind = "BLOCK" ->
               <<"{">> \o FlattenSeq([i \in DOMAIN t.children |-> Sub(i)]) \o <<"}">>
          [] t.kind = "VAR_DECL" ->
               Type(t.type) \o <<t.name>>
               \o (IF t.children = <<>> THEN <<";">> ELSE <<"=">> \o E(1) \o <<";">>)
          [] t.kind = "ASSIGN" -> <<t.name, "=">> \o E(1) \o <<";">>
          [] t.kind = "IF" ->
               <<"if", "(">> \o E(1) \o <<")">> \o Sub(2)
               \o (IF Len(t.children) = 2 THEN <<>> ELSE <<"else">> \o Sub(3))
          [] t.kind = "WHILE" -> <<"while", "(">> \o E(1) \o <<")">> \o Sub(2)
          [] t.kind = "FOR" ->
               <<"for", "(">> \o Sub(1) \o E(2) \o <<";", t.children[3].name, "=">>
               \o Expr(t.children[3].children[1], 0) \o <<")">> \o Sub(4)
          [] t.kind = "RETURN" ->
               <<"return">> \o (IF t.children = <<>> THEN <<>> ELSE E(1)) \o <<";">>
          [] t.kind = "PRINT" -> <<"print", "(">> \o E(1) \o <<")", ";">>
          [] OTHER -> Expr(t, 0) \o <<";">>

Func(t) ==
    Type(t.type) \o <<t.name, "(">>
    \o Commas([i \in DOMAIN t.params |-> Type(t.params[i].type) \o <<t.params[i].name>>])
    \o <<")">> \o Stmt(t.children[1])

Lexemes(tree) == FlattenSeq([i \in DOMAIN tree.children |-> Func(tree.children[i])])

(* Lexemes as a text, with a blank after each or only where words meet.    *)
Wordy(lexeme) == SubSeq(lexeme, 1, 1) \in Letter \cup Digit
TextOf(lexemes, blanks) ==
    FoldLeft(LAMBDA txt, i :
                txt \o lexemes[i] \o (IF \/ blanks
                                         \/ /\ i < Len(lexemes) /\ Wordy(lexemes[i])
                                            /\ Wordy(lexemes[i + 1])
                                      THEN " " ELSE ""),
             "", [i \in DOMAIN lexemes |-> i])
=============================================================================
