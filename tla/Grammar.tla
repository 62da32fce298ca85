------------------------------ MODULE Grammar ------------------------------
(***************************************************************************)
(* The grammar of parser.y, and the automaton bison makes of it: its       *)
(* states as sets of items [lhs, rhs, dot].  A token is named by its       *)
(* spelling or, if it has many, by its name in parser.y.                   *)
(***************************************************************************)
EXTENDS Integers, Sequences, FiniteSets

OpSymbol == [OR |-> "||", AND |-> "&&", EQ |-> "==", NEQ |-> "!=", LT |-> "<",
             GT |-> ">", LE |-> "<=", GE |-> ">=", ADD |-> "+", SUB |-> "-",
             MUL |-> "*", DIV |-> "/", MOD |-> "%"]
BinaryOp == {OpSymbol[o] : o \in DOMAIN OpSymbol}

Literals == {"INT_NUM", "FLOAT_NUM", "CHAR_LIT", "STRING_LIT", "true", "false"}

Productions ==
  [ program |-> {<<"function_list">>},
    function_list |-> {<<"function">>, <<"function_list", "function">>},
    function |->
      {<<"type", "ID", "(", "param_list", ")", "{", "stmt_list", "}">>,
       <<"type", "ID", "(", ")", "{", "stmt_list", "}">>},
    param_list |-> {<<"param">>, <<"param_list", ",", "param">>},
    param |-> {<<"type", "ID">>},
    type |-> {<<t>> : t \in {"int", "float", "char", "bool", "string", "void"}},
    stmt_list |-> {<<>>, <<"stmt_list", "stmt">>},
    stmt |-> {<<s>> : s \in {"decl_stmt", "assign_stmt", "if_stmt", "while_stmt",
                 "for_stmt", "return_stmt", "print_stmt", "expr_stmt", "block"}},
    decl_stmt |-> {<<"type", "ID", ";">>, <<"type", "ID", "=", "expr", ";">>},
    assign_expr |-> {<<"ID", "=", "expr">>},
    assign_stmt |-> {<<"assign_expr", ";">>},
    expr_stmt |-> {<<"expr", ";">>},
    if_stmt |-> {<<"if", "(", "expr", ")", "stmt">>,
                 <<"if", "(", "expr", ")", "stmt", "else", "stmt">>},
    while_stmt |-> {<<"while", "(", "expr", ")", "stmt">>},
    for_stmt |->
      {<<"for", "(", init, "expr", ";", "assign_expr", ")", "stmt">> :
          init \in {"assign_stmt", "decl_stmt"}},
    return_stmt |-> {<<"return", "expr", ";">>, <<"return", ";">>},
    print_stmt |-> {<<"print", "(", "expr", ")", ";">>},
    block |-> {<<"{", "stmt_list", "}">>},
    expr |-> {<<"expr", o, "expr">> : o \in BinaryOp} \cup {<<t>> : t \in Literals}
             \cup {<<"!", "expr">>, <<"-", "expr">>, <<"ID">>, <<"(", "expr", ")">>,
                   <<"ID", "(", "arg_list", ")">>, <<"ID", "(", ")">>},
    arg_list |-> {<<"expr">>, <<"arg_list", ",", "expr">>} ]

-----------------------------------------------------------------------------
(* Precedence, lowest first.                                               *)

(* Mutant: the relational operators bind as the equalities do.             *)
Levels_Flat ==
  << {"LOWER_THAN_ELSE"}, {"else"}, {"||"}, {"&&"},
     {"==", "!=", "<", ">", "<=", ">="}, {}, {"+", "-"}, {"*", "/", "%"},
     {"!", "UNARY_MINUS"} >>

Levels ==
  << {"LOWER_THAN_ELSE"}, {"else"}, {"||"}, {"&&"}, {"==", "!="},
     {"<", ">", "<=", ">="}, {"+", "-"}, {"*", "/", "%"}, {"!", "UNARY_MINUS"} >>
LeftLevels == 3 .. 8

Level(t) == IF \E l \in DOMAIN Levels : t \in Levels[l]
            THEN CHOOSE l \in DOMAIN Levels : t \in Levels[l] ELSE 0

(* A rule's precedence: its %prec, or that of its last terminal.           *)
RuleLevel(rhs) ==
    IF rhs = <<"-", "expr">> THEN Level("UNARY_MINUS")
    ELSE IF Len(rhs) = 5 /\ rhs[1] = "if" THEN Level("LOWER_THAN_ELSE")
    ELSE LET terminals == {i \in DOMAIN rhs : rhs[i] \notin DOMAIN Productions}
         IN  IF terminals = {} THEN 0
             ELSE Level(rhs[CHOOSE i \in terminals : \A j \in terminals : j <= i])

(* What bison does where a rule could be reduced and a token be shifted.   *)
PrefersReduce(rhs, t) ==
    LET r == RuleLevel(rhs)
    IN  /\ r > 0 /\ Level(t) > 0
        /\ \/ r > Level(t)
           \/ r = Level(t) /\ r \in LeftLevels

-----------------------------------------------------------------------------
(* The nonterminals a derivation of a nonterminal may begin with.          *)
Corners ==
    LET grown[A \in SUBSET DOMAIN Productions] ==
            LET heads == {rhs[1] : rhs \in UNION {Productions[a] : a \in A} \ {<<>>}}
                more  == A \cup (heads \cap DOMAIN Productions)
            IN  IF more = A THEN A ELSE grown[more]
    IN  [a \in DOMAIN Productions |-> grown[{a}]]

Item(lhs, rhs, dot) == [lhs |-> lhs, rhs |-> rhs, dot |-> dot]
Start == {Item("accept", <<"program", "$end">>, 0)}

AtDot(item) == IF item.dot < Len(item.rhs) THEN item.rhs[item.dot + 1] ELSE ""

(* The items a nonterminal after a dot brings with it.                     *)
Expected == [a \in DOMAIN Productions |->
    {Item(p[1], p[2], 0) : p \in UNION {{<<b, rhs>> : rhs \in Productions[b]} :
                                           b \in Corners[a]}}]

Closure(kernel) ==
    kernel \cup UNION {Expected[a] : a \in {AtDot(i) : i \in kernel} \cap DOMAIN Productions}

Goto(kernel, symbol) ==
    {[i EXCEPT !.dot = @ + 1] : i \in {i \in Closure(kernel) : AtDot(i) = symbol}}

Complete(kernel) == {i \in Closure(kernel) : i.dot = Len(i.rhs)}
=============================================================================
