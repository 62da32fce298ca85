----------------------------- MODULE Translation -----------------------------
(***************************************************************************)
(* `lumis -o' after parsing, main.c: the checker traverses the tree and,   *)
(* if it counts no error, the C backend writes the text of the tree as the *)
(* checker has annotated it.  That text is then read by the scanner and    *)
(* the parser of Lumis, in place of a C compiler, which sees the same      *)
(* statements and operators in the part of C that is written.              *)
(***************************************************************************)
EXTENDS CText

CONSTANTS Ast, Roots, VarName, MaxParams

VARIABLES
    root,
    phase, todo, tab, ret_type, error_count, ann,       \* the checker's
    outcome          \* "pending", "rejected", "written" or "read"

Check == INSTANCE Semantic

checkVars  == <<root, phase, todo, tab, ret_type, error_count, ann>>
readerVars == <<lexVars, parserVars>>
vars       == <<checkVars, readerVars, outcome>>

Functions == {Ast[root].children[i] : i \in DOMAIN Ast[root].children}

(* The tree at node n, with the data_types that notes has of its nodes.    *)
RECURSIVE TreeAt(_, _)
TreeAt(n, notes) ==
    LET Below(nodes) == [i \in DOMAIN nodes |-> TreeAt(nodes[i], notes)]
    IN  [Ast[n] EXCEPT !.children = Below(@), !.args = Below(@),
                       !.type = IF n \in DOMAIN notes THEN notes[n] ELSE @]

Parsed    == TreeAt(root, <<>>)
Annotated == TreeAt(root, ann)

-----------------------------------------------------------------------------
Init == Check!Init /\ ParseInit("") /\ outcome = "pending"

Checking ==
    /\ phase # "checked" /\ Check!Step
    /\ UNCHANGED <<readerVars, outcome>>

(* Any error at all: nothing is built.                                     *)
Reject ==
    /\ phase = "checked" /\ error_count > 0 /\ outcome = "pending"
    /\ outcome' = "rejected"
    /\ UNCHANGED <<checkVars, readerVars>>

(* Mutant: the backend gets the tree as the parser has left it.            *)
WriteC_Parsed ==
    /\ phase = "checked" /\ error_count = 0 /\ outcome = "pending"
    /\ outcome' = "written" /\ text' = c_backend_generate(Parsed)
    /\ UNCHANGED <<checkVars, pos, look, lexical_errors, lexed, parserVars>>

WriteC ==
    /\ phase = "checked" /\ error_count = 0 /\ outcome = "pending"
    /\ outcome' = "written" /\ text' = c_backend_generate(Annotated)
    /\ UNCHANGED <<checkVars, pos, look, lexical_errors, lexed, parserVars>>

ReadC ==
    /\ outcome = "written"
    /\ \/ Parse /\ UNCHANGED outcome
       \/ yyparse # "running" /\ outcome' = "read" /\ UNCHANGED readerVars
    /\ UNCHANGED checkVars

Ended == outcome \in {"rejected", "read"} /\ UNCHANGED vars
Next  == Checking \/ Reject \/ WriteC \/ ReadC \/ Ended
Spec  == Init /\ [][Next]_vars

-----------------------------------------------------------------------------
(* What a program is in C, written as a Lumis tree.  Which expressions are *)
(* strings is told from the declarations in scope and not from the         *)
(* annotations: `strings' are the string variables, each declared before   *)
(* its own initializer, and a for head's variable is one of the loop only. *)

ReturnType(name) ==
    IF \E f \in Functions : Ast[f].name = name
    THEN Ast[CHOOSE f \in Functions : Ast[f].name = name].type ELSE "NONE"

RECURSIVE IsString(_, _)
IsString(e, strings) ==
    CASE e.kind = "LITERAL"   -> e.type = "STRING"
      [] e.kind = "VAR_REF"   -> e.name \in strings
      [] e.kind = "CALL"      -> ReturnType(e.name) = "STRING"
      [] e.kind = "BINARY_OP" -> e.op = "ADD"
                                 /\ \E i \in 1 .. 2 : IsString(e.children[i], strings)
      [] OTHER                -> FALSE

StringFunction == [ADD |-> "__lumis_concat"] @@ StringOp

ToStr(e) == CallOf("__lumis_to_str", <<e>>)

RECURSIVE ExprInC(_, _)
ExprInC(e, strings) ==
    LET c == [i \in DOMAIN e.children |-> ExprInC(e.children[i], strings)]
        a == [i \in DOMAIN e.args |-> ExprInC(e.args[i], strings)]
    IN  IF /\ e.kind = "BINARY_OP" /\ e.op \in DOMAIN StringFunction
           /\ \E i \in 1 .. 2 : IsString(e.children[i], strings)
        THEN CallOf(StringFunction[e.op], <<ToStr(c[1]), ToStr(c[2])>>)
        ELSE [e EXCEPT !.children = c, !.args = a]

Declaring(strings, s) ==
    IF s.kind # "VAR_DECL" THEN strings
    ELSE IF s.type = "STRING" THEN strings \cup {s.name} ELSE strings \ {s.name}

InitialValue(type) == IF type = "STRING" THEN Literal("STRING", 0) ELSE I(0)

(* An expression that is a statement and no call is nothing.               *)
Bare(s)  == s.kind \in {"BINARY_OP", "UNARY_OP", "LITERAL", "VAR_REF"}

RECURSIVE StmtInC(_, _)
StmtInC(t, strings) ==
    LET inner == Declaring(strings, t)
        E(i)  == ExprInC(t.children[i], inner)
        Sub(i) == StmtInC(t.children[i], strings)
        After(i) == FoldLeft(Declaring, strings, SubSeq(t.children, 1, i))
    IN  CASE t.kind = "FOR" ->
               LET head == Declaring(strings, t.children[1])
                   body == IF Bare(t.children[4]) THEN <<>>
                           ELSE <<StmtInC(t.children[4], head)>>
               IN  Block(<<Sub(1), While(ExprInC(t.children[2], head),
                                       Block(Append(body, StmtInC(t.children[3], head))))>>)
          [] t.kind = "BLOCK" ->
               LET kept == SelectSeq([i \in DOMAIN t.children |-> i],
                                     LAMBDA i : ~Bare(t.children[i]))
               IN  Block([j \in DOMAIN kept |->
                             StmtInC(t.children[kept[j]], After(kept[j] - 1))])
          [] t.kind \in {"IF", "WHILE"} ->
               With(t.kind, [i \in DOMAIN t.children |-> IF i = 1 THEN E(1) ELSE Sub(i)])
          [] t.kind = "PRINT" -> CallOf("__lumis_print", <<E(1)>>)
          [] t.kind = "VAR_DECL" /\ t.children = <<>> ->
               Decl(t.type, t.name, InitialValue(t.type))
          [] OTHER -> ExprInC(t, inner)

(* The body of a function is a block inside the function's braces.         *)
FunctionInC(f) ==
    LET names == {f.params[i].name : i \in {i \in DOMAIN f.params : f.params[i].type = "STRING"}}
    IN  [f EXCEPT !.children = <<Block(<<StmtInC(f.children[1], names)>>)>>]

InC(program) ==
    [program EXCEPT !.children = [i \in DOMAIN @ |-> FunctionInC(@[i])]]

-----------------------------------------------------------------------------
(* Programs known to be something else in C, or nothing C has.             *)

(* A branch or a body that C has no statement for: an expression without   *)
(* effect writes nothing, a declaration is not a statement.                *)
LooseBranch(t) ==
    \E i \in DOMAIN t.children :
       /\ Bare(t.children[i]) \/ t.children[i].kind = "VAR_DECL"
       /\ (t.kind = "IF" /\ i > 1) \/ (t.kind = "WHILE" /\ i = 2)

(* A literal that changes when it is written without escapes.              *)
Escapes(t) == t.kind = "LITERAL" /\ t.type \in {"CHAR", "STRING"}
              /\ Chars(t.name) \cap {"\"", "\\", "\n", "'"} # {}

(* An integer that atoi has made negative has no literal.                  *)
Negative(t) == t.kind = "LITERAL" /\ t.num < 0

(* A call that is a statement, which the checker skips (semantic.c:340),   *)
(* computes its arguments: their operators have no annotation.             *)
SkippedOperator(t) ==
    \E i \in DOMAIN t.children :
       /\ t.kind \in {"BLOCK", "IF", "WHILE", "FOR"} /\ t.children[i].kind = "CALL"
       /\ t.kind \in {"IF", "WHILE"} => i > 1
       /\ t.kind = "FOR" => i = 4
       /\ \E e \in NodesOf(t.children[i]) : e.op \in DOMAIN StringFunction

(* The variable of a for head is used after the loop: the checker still    *)
(* has it in scope (semantic.c:294).                                       *)
RECURSIVE HeadNames(_)
HeadNames(t) ==
    CASE t.kind = "FOR" -> HeadNames(t.children[4])
            \cup (IF t.children[1].kind = "VAR_DECL" THEN {t.children[1].name} ELSE {})
      [] t.kind \in {"IF", "WHILE"} ->
            UNION {HeadNames(t.children[i]) : i \in 2 .. Len(t.children)}
      [] OTHER -> {}

OutlivesLoop(t) ==
    /\ t.kind \in {"BLOCK", "IF"}
    /\ \E j \in DOMAIN t.children : \E i \in 1 .. j - 1 : \E n \in NodesOf(t.children[j]) :
          n.kind \in {"VAR_REF", "ASSIGN"} /\ n.name \in HeadNames(t.children[i])

(* An operand without a value makes the type of the whole unknown.         *)
VoidOperand(t) ==
    t.kind = "BINARY_OP" /\ \E i \in 1 .. 2 :
       LET e == t.children[i]
       IN  \/ e.kind = "CALL" /\ ReturnType(e.name) = "VOID"
           \/ /\ e.kind = "VAR_REF"
              /\ \E f \in Functions : P("VOID", e.name) \in ToSet(Ast[f].params)

(* %g writes a float without a fraction as an int.                         *)
WholeFloat(t) == t.kind = "LITERAL" /\ t.type = "FLOAT" /\ "." \notin Chars(t.name)

Translatable ==
    \A t \in NodesOf(Parsed) :
       ~(LooseBranch(t) \/ Escapes(t) \/ Negative(t) \/ WholeFloat(t)
         \/ SkippedOperator(t) \/ OutlivesLoop(t) \/ VoidOperand(t))

ReadAs(tree) == yyparse = "accepted" /\ lexical_errors = 0 /\ ast_root = tree

-----------------------------------------------------------------------------
(* Properties.                                                             *)

(* The C text of an accepted program is the program: its operators group,  *)
(* its elses pair and its blocks nest as the tree's do, a for's update     *)
(* comes after its body, and the operators on strings, and no others, are  *)
(* calls of the functions for strings.                                     *)
CReadsBack == outcome = "read" /\ Translatable => ReadAs(InC(Parsed))
=============================================================================
