----------------------------- MODULE LumisTrees -----------------------------
(***************************************************************************)
(* Source programs as nested trees, written with the constructors of ast.c *)
(* in the way the grammar's actions call them, and the heap of AST nodes   *)
(* such trees are.  Only modules that choose programs for TLC use this:    *)
(* the phases see the heap.                                                *)
(***************************************************************************)
EXTENDS Integers, Sequences, FiniteSets

(* make_node: everything is zeroed, so data_type is TYPE_INT.              *)
make_node(kind) ==
    [kind |-> kind, children |-> <<>>, name |-> "", type |-> "INT",
     op |-> "NONE", num |-> 0, args |-> <<>>, params |-> <<>>]

With(kind, children) == [make_node(kind) EXCEPT !.children = children]
Named(kind, name, children) == [With(kind, children) EXCEPT !.name = name]

Program(functions) == With("PROGRAM", functions)
Block(stmts)       == With("BLOCK", stmts)

P(type, name) == [name |-> name, type |-> type]        \* a parameter
Function(type, name, params, stmts) ==
    [Named("FUNC_DECL", name, <<Block(stmts)>>) EXCEPT
        !.type = type, !.params = params]

Declare(type, name)  == [Named("VAR_DECL", name, <<>>) EXCEPT !.type = type]
Decl(type, name, e)  == [Named("VAR_DECL", name, <<e>>) EXCEPT !.type = type]
Assign(name, e)      == Named("ASSIGN", name, <<e>>)
If(c, s)             == With("IF", <<c, s>>)
IfElse(c, s, t)      == With("IF", <<c, s, t>>)
While(c, s)          == With("WHILE", <<c, s>>)
For(init, c, upd, s) == With("FOR", <<init, c, upd, s>>)
ReturnVoid           == With("RETURN", <<>>)
Return(e)            == With("RETURN", <<e>>)
Prints(e)            == With("PRINT", <<e>>)

Binary(op, l, r) == [With("BINARY_OP", <<l, r>>) EXCEPT !.op = op]
Unary(op, e)     == [With("UNARY_OP", <<e>>) EXCEPT !.op = op]
CallOf(name, args) == [Named("CALL", name, <<>>) EXCEPT !.args = args]
Var(name)        == Named("VAR_REF", name, <<>>)

Literal(type, i) == [make_node("LITERAL") EXCEPT !.type = type, !.num = i]
I(i)  == Literal("INT", i)
True  == Literal("BOOL", 1)
False == Literal("BOOL", 0)
C     == Literal("CHAR", 1)        \* some character
F     == Literal("FLOAT", 0)       \* some float
S     == Literal("STRING", 0)      \* some string

-----------------------------------------------------------------------------
(* The heap holds a pool of trees, and programs that are put together from *)
(* trees of the pool: functions and main bodies are lists of indices into  *)
(* the pool.  A node of the pool is named by its path: the index of its    *)
(* tree and then a child or argument number per level.  Program p is       *)
(* <<0, p>>, its main <<0, p, 1>> and the block of that <<0, p, 1, 1>>.    *)
Subtrees(t) == t.children \o t.args

RECURSIVE Paths(_, _)
Paths(t, path) ==
    {path} \cup UNION {Paths(Subtrees(t)[j], Append(path, j)) :
                          j \in 1 .. Len(Subtrees(t))}

RECURSIVE SubtreeAt(_, _)
SubtreeAt(t, path) ==
    IF path = <<>> THEN t ELSE SubtreeAt(Subtrees(t)[Head(path)], Tail(path))

RECURSIVE NodesOf(_)
NodesOf(t) == {t} \cup UNION {NodesOf(Subtrees(t)[j]) : j \in 1 .. Len(Subtrees(t))}

PoolNode(pool, p) ==
    LET t == SubtreeAt(pool[Head(p)], Tail(p))
        count == Len(t.children)
    IN  [t EXCEPT !.children = [j \in 1 .. count |-> Append(p, j)],
                  !.args = [j \in 1 .. Len(t.args) |-> Append(p, count + j)]]

Trees(indices) == [j \in 1 .. Len(indices) |-> <<indices[j]>>]

(* type main() { <body> }, after the functions of the pool.                *)
ProgramNode(functions, type, body, p) ==
    CASE Len(p) = 2 -> Program(Append(Trees(functions), Append(p, 1)))
      [] Len(p) = 3 -> [Named("FUNC_DECL", "main", <<Append(p, 1)>>)
                           EXCEPT !.type = type]
      [] Len(p) = 4 -> Block(Trees(body))

Heap(pool, functions, type, bodies) ==
    LET poolNodes == UNION {Paths(pool[j], <<j>>) : j \in DOMAIN pool}
        programs  == {<<0, p>> : p \in DOMAIN bodies}
        mains     == {<<0, p, 1>> : p \in DOMAIN bodies}
        blocks    == {<<0, p, 1, 1>> : p \in DOMAIN bodies}
    IN  [p \in poolNodes \cup programs \cup mains \cup blocks |->
            IF p[1] = 0 THEN ProgramNode(functions, type, bodies[p[2]], p)
            ELSE PoolNode(pool, p)]

Programs(bodies) == {<<0, p>> : p \in DOMAIN bodies}
=============================================================================
