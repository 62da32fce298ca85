------------------------------- MODULE Parser -------------------------------
(***************************************************************************)
(* The parser, parser.y: what bison's automaton does with the tokens       *)
(* yylex returns, and the tree the rules' actions build.                   *)
(***************************************************************************)
EXTENDS Grammar, Lexer, LumisTrees

VARIABLES
    stack,           \* the automaton's states, with the symbols' values
    yyparse,         \* "running", or what it has returned
    syntax_errors,
    ast_root

parserVars == <<stack, yyparse, syntax_errors, ast_root>>

NoTree == make_node("NONE")

TypeNamed == [int |-> "INT", float |-> "FLOAT", char |-> "CHAR",
              bool |-> "BOOL", string |-> "STRING", void |-> "VOID"]

-----------------------------------------------------------------------------
(* The actions of the rules: $$ from $1, $2, ...                           *)

AddChild(parent, child) == [parent EXCEPT !.children = Append(@, child)]

(* A char's, a string's and a float's value is a text here: it takes the   *)
(* field of the name, which a literal has not.                             *)
LiteralOf(token, v) ==
    CASE token = "INT_NUM"    -> I(v)
      [] token = "FLOAT_NUM"  -> [Literal("FLOAT", 0) EXCEPT !.name = v]
      [] token = "CHAR_LIT"   -> [Literal("CHAR", 0) EXCEPT !.name = v]
      [] token = "STRING_LIT" -> [Literal("STRING", 0) EXCEPT !.name = v]
      [] token = "true"       -> True
      [] token = "false"      -> False

BuildExpr(rhs, v) ==
    CASE rhs[1] \in Literals             -> LiteralOf(rhs[1], v[1])
      [] rhs[1] = "("                    -> v[2]
      [] rhs[1] = "!"                    -> Unary("NOT", v[2])
      [] rhs[1] = "-"                    -> Unary("NEG", v[2])
      [] rhs[1] = "expr"                 ->
            Binary(CHOOSE o \in DOMAIN OpSymbol : OpSymbol[o] = rhs[2], v[1], v[3])
      [] rhs = <<"ID">>                  -> Var(v[1])
      [] rhs = <<"ID", "(", ")">>        -> CallOf(v[1], <<>>)
      [] rhs[1] = "ID" /\ Len(rhs) = 4   -> CallOf(v[1], v[3])

(* Mutant: an argument is put before those that are already there.         *)
BuildList_Prepends(rhs, v) == IF Len(rhs) = 1 THEN <<v[1]>> ELSE <<v[3]>> \o v[1]

(* The container of parameters or arguments, as the sequence it holds.     *)
BuildList(rhs, v) == IF Len(rhs) = 1 THEN <<v[1]>> ELSE Append(v[1], v[3])

(* Mutant: a for statement's body is its third child, its update the last. *)
BuildFor_Swapped(v) == For(v[3], v[4], v[8], v[6])

BuildFor(v) == For(v[3], v[4], v[6], v[8])

BuildStmt(lhs, rhs, v) ==
    CASE lhs = "decl_stmt"   -> IF Len(rhs) = 3 THEN Declare(v[1], v[2])
                                ELSE Decl(v[1], v[2], v[4])
      [] lhs = "assign_expr" -> Assign(v[1], v[3])
      [] lhs = "if_stmt"     -> IF Len(rhs) = 5 THEN If(v[3], v[5])
                                ELSE IfElse(v[3], v[5], v[7])
      [] lhs = "while_stmt"  -> While(v[3], v[5])
      [] lhs = "for_stmt"    -> BuildFor(v)
      [] lhs = "return_stmt" -> IF Len(rhs) = 2 THEN ReturnVoid ELSE Return(v[2])
      [] lhs = "print_stmt"  -> Prints(v[3])

Build(lhs, rhs, v) ==
    CASE lhs = "type"                        -> TypeNamed[rhs[1]]
      [] lhs = "expr"                        -> BuildExpr(rhs, v)
      [] lhs \in {"param_list", "arg_list"}  -> BuildList(rhs, v)
      [] lhs = "param"                       -> P(v[1], v[2])
      [] lhs = "function_list"               ->
            IF Len(rhs) = 1 THEN Program(v) ELSE AddChild(v[1], v[2])
      [] lhs = "function"                    ->
            IF Len(rhs) = 8 THEN Function(v[1], v[2], v[4], v[7].children)
            ELSE Function(v[1], v[2], <<>>, v[6].children)
      [] lhs = "stmt_list"                   ->
            IF rhs = <<>> THEN Block(<<>>) ELSE AddChild(v[1], v[2])
      [] lhs = "block"                       -> v[2]
      [] lhs \in {"program", "stmt", "assign_stmt", "expr_stmt"} -> v[1]
      [] OTHER                               -> BuildStmt(lhs, rhs, v)

-----------------------------------------------------------------------------
(* The automaton.  No state has two rules it could reduce.                 *)

State     == stack[Len(stack)].k
Finished  == Complete(State)
Rule      == CHOOSE i \in Finished : TRUE
Shiftable == Goto(State, look.t) # {}

(* A state that only reduces does so without asking for a token.           *)
Consistent ==
    /\ Finished # {}
    /\ \A i \in Closure(State) : AtDot(i) \in DOMAIN Productions \cup {""}

Reduces == \/ Consistent
           \/ /\ look # NoToken /\ Finished # {}
              /\ ~Shiftable \/ PrefersReduce(Rule.rhs, look.t)

Lexes == yyparse = "running" /\ ~Consistent /\ Lex /\ UNCHANGED parserVars

Push(rest, symbol, value) ==
    stack' = Append(rest, [k |-> Goto(rest[Len(rest)].k, symbol), s |-> symbol,
                           v |-> value])

Reduce ==
    /\ yyparse = "running" /\ Reduces
    /\ LET rest  == SubSeq(stack, 1, Len(stack) - Len(Rule.rhs))
           v     == [i \in DOMAIN Rule.rhs |-> stack[Len(rest) + i].v]
           value == Build(Rule.lhs, Rule.rhs, v)
       IN  /\ Push(rest, Rule.lhs, value)
           /\ ast_root' = IF Rule.lhs = "program" THEN value ELSE ast_root
    /\ UNCHANGED <<lexVars, yyparse, syntax_errors>>

Shift ==
    /\ yyparse = "running" /\ look # NoToken /\ ~Reduces /\ Shiftable
    /\ Push(stack, look.t, look.v)
    /\ look' = NoToken
    /\ yyparse' = IF look.t = "$end" THEN "accepted" ELSE yyparse
    /\ UNCHANGED <<text, pos, lexical_errors, lexed, syntax_errors, ast_root>>

(* No rule of the grammar takes up after an error: yyparse gives up.       *)
SyntaxError ==
    /\ yyparse = "running" /\ look # NoToken /\ ~Reduces /\ ~Shiftable
    /\ syntax_errors' = syntax_errors + 1
    /\ yyparse' = "gave up" /\ stack' = <<>>
    /\ UNCHANGED <<lexVars, ast_root>>

Parse == Lexes \/ Reduce \/ Shift \/ SyntaxError

ParseInit(s) ==
    /\ LexInit(s)
    /\ stack = <<[k |-> Start, s |-> "", v |-> ""]>> /\ yyparse = "running"
    /\ syntax_errors = 0 /\ ast_root = NoTree
=============================================================================
