-------------------------------- MODULE CText --------------------------------
(***************************************************************************)
(* The C text c_backend.c writes of a tree, without its fixed prelude and  *)
(* prototypes, with a blank for any layout, and with Lumis's word for a    *)
(* type in place of C's.                                                   *)
(***************************************************************************)
EXTENDS Parser

c_type_name(t) == CHOOSE n \in DOMAIN TypeNamed : TypeNamed[n] = t

StringOp == [EQ |-> "__lumis_streq", NEQ |-> "__lumis_strneq",
             LT |-> "__lumis_strlt", GT |-> "__lumis_strgt",
             LE |-> "__lumis_strle", GE |-> "__lumis_strge"]

Concat(texts)    == FoldLeft(LAMBDA a, b : a \o b, "", texts)
Separated(texts) == FoldLeft(LAMBDA a, b : IF a = "" THEN b ELSE a \o ", " \o b, "",
                             texts)

IsConcat(t)    == t.op = "ADD" /\ t.type = "STRING"
ComparesStrings(t) ==
    t.op \in DOMAIN StringOp /\ \E i \in 1 .. 2 : t.children[i].type = "STRING"

(* The literal's value as it is: a quote, a backslash or a line's end in   *)
(* it is not made an escape again.                                         *)
c_literal(t) ==
    CASE t.type = "INT"    -> ToString(t.num)
      [] t.type = "FLOAT"  -> t.name
      [] t.type = "CHAR"   -> "'" \o t.name \o "'"
      [] t.type = "BOOL"   -> IF t.num = 1 THEN "true" ELSE "false"
      [] t.type = "STRING" -> "\"" \o t.name \o "\""

RECURSIVE gen_c_expr(_)
gen_c_expr(t) ==
    LET E(i)  == gen_c_expr(t.children[i])
        Strings(f) == f \o "(__lumis_to_str(" \o E(1) \o "), __lumis_to_str("
                        \o E(2) \o "))"
    IN  CASE t.kind = "LITERAL"  -> c_literal(t)
          [] t.kind = "VAR_REF"  -> t.name
          [] t.kind = "UNARY_OP" -> (IF t.op = "NEG" THEN "-(" ELSE "!(") \o E(1) \o ")"
          [] t.kind = "BINARY_OP" ->
               IF IsConcat(t) THEN Strings("__lumis_concat")
               ELSE IF ComparesStrings(t) THEN Strings(StringOp[t.op])
               ELSE "(" \o E(1) \o " " \o OpSymbol[t.op] \o " " \o E(2) \o ")"
          [] t.kind = "CALL"     ->
               t.name \o "("
               \o Separated([i \in DOMAIN t.args |-> gen_c_expr(t.args[i])]) \o ")"

RECURSIVE gen_c_stmt(_)

(* Mutant: the update is written before the body.                          *)
c_for_UpdateFirst(t) ==
    "{ " \o gen_c_stmt(t.children[1]) \o "while (" \o gen_c_expr(t.children[2]) \o ") { "
    \o gen_c_stmt(t.children[3]) \o gen_c_stmt(t.children[4]) \o "} } "

c_for(t) ==
    "{ " \o gen_c_stmt(t.children[1]) \o "while (" \o gen_c_expr(t.children[2]) \o ") { "
    \o gen_c_stmt(t.children[4]) \o gen_c_stmt(t.children[3]) \o "} } "

(* An expression statement that is not a call writes nothing at all.       *)
gen_c_stmt(t) ==
    LET E(i)   == gen_c_expr(t.children[i])
        Sub(i) == gen_c_stmt(t.children[i])
    IN  CASE t.kind = "BLOCK" ->
               "{ " \o Concat([i \in DOMAIN t.children |-> Sub(i)]) \o "} "
          [] t.kind = "VAR_DECL" ->
               c_type_name(t.type) \o " " \o t.name \o " = "
               \o (IF t.children # <<>> THEN E(1)
                   ELSE IF t.type = "STRING" THEN "\"\"" ELSE "0") \o "; "
          [] t.kind = "ASSIGN" -> t.name \o " = " \o E(1) \o "; "
          [] t.kind = "IF"     ->
               "if (" \o E(1) \o ") " \o Sub(2)
               \o (IF Len(t.children) > 2 THEN "else " \o Sub(3) ELSE "")
          [] t.kind = "WHILE"  -> "while (" \o E(1) \o ") " \o Sub(2)
          [] t.kind = "FOR"    -> c_for(t)
          [] t.kind = "RETURN" ->
               IF t.children = <<>> THEN "return; " ELSE "return " \o E(1) \o "; "
          [] t.kind = "PRINT"  -> "__lumis_print(" \o E(1) \o "); "
          [] t.kind = "CALL"   -> gen_c_expr(t) \o "; "
          [] OTHER             -> ""

gen_c_func(f) ==
    c_type_name(f.type) \o " " \o f.name \o "("
    \o Separated([i \in DOMAIN f.params |->
                    c_type_name(f.params[i].type) \o " " \o f.params[i].name])
    \o ") { " \o gen_c_stmt(f.children[1]) \o "} "

c_backend_generate(root) ==
    Concat([i \in DOMAIN root.children |-> gen_c_func(root.children[i])])
=============================================================================
