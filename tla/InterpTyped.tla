----------------------------- MODULE InterpTyped -----------------------------
(***************************************************************************)
(* A well-typed program while it runs: what holds of the C call stack and  *)
(* of the environments if the program keeps clear of the known gaps and    *)
(* its notes fit it (LumisTyping).  Each Env is described by what the      *)
(* checker would know of it: the function it was made in, whether it holds *)
(* the arguments of a call, and the variables declared in it so far.       *)
(***************************************************************************)
EXTENDS Interp, LumisTyping

Desc == [fun : Node, args : BOOLEAN, types : VarTypes]

Callers == {"args", "bind", "body"}

(* The function the activation at k of the stack s belongs to.             *)
FunctionAt(s, k) ==
    LET calls == {c \in 1 .. k - 1 : s[c].k = "body"}
    IN  IF calls = {} THEN MainFunction
        ELSE Callee(s[CHOOSE c \in calls : \A d \in calls : d <= c].n)

(* The expression whose value an activation waits for.                     *)
AwaitedIndex(t) == IF Kind(t.n) = "FOR" THEN 2 ELSE t.i
AwaitedOf(t) == IF t.k = "bind" THEN Ast[t.n].args[t.i]
                ELSE IF Kind(t.n) = "CALL" THEN t.n ELSE Child(t.n, AwaitedIndex(t))

(* A value of a judged type is waited for, or that of a call whose value   *)
(* is dropped.                                                             *)
AwaitsTyped(t) == t.k = "bind" \/ (t.k = "after" /\ Kind(t.n) # "CALL")

(* The program is well typed, keeps clear of the known gaps, and no void   *)
(* value is used in it.                                                    *)
Agreed(notes, seen) ==
    /\ root \in Roots
    /\ WellTyped(root, notes, seen)
    /\ \A n \in DOMAIN notes : notes[n] \in DataType \ {"VOID"}
    /\ MainTakesNothing(root)
    /\ \A f \in FunctionsOf(root) :
          /\ AlwaysReturns(f) /\ LooseAreInts(f)
          /\ \A n \in CallStatements(f) : SoundCall(n, Callee(n))

-----------------------------------------------------------------------------
(* One activation t of the function f.                                     *)

Typable(notes, seen, f, n) ==
    /\ Kind(n) \in ExprKind
    /\ ExprTyped(root, f, notes, seen, n) \/ n \in CallStatements(f)

(* Where it can be in the tree.                                            *)
Stands(notes, seen, f, t) ==
    /\ IF t.k = "main" THEN t.n = f ELSE t.n \in Subtree(f)
    /\ t.k \in {"eval", "exec", "update"} => t.i = 1
    /\ Yields(t) => Typable(notes, seen, f, t.n)
    /\ RunsAsStmt(t) /\ Kind(t.n) = "CALL" => t.n \in CallStatements(f)
    /\ t.k = "after" =>
          \/ Operator(t) /\ t.i \in 1 .. Children(t.n)
          \/ Kind(t.n) = "CALL"
          \/ Kind(t.n) \in StmtKind /\ t.i = 1 /\ AwaitedIndex(t) \in ExprChildren(t.n)
    /\ t.k = "after" /\ Kind(t.n) = "BINARY_OP" /\ t.i = 2 =>
          Conforms(t.v.type, TypeIn(notes, Child(t.n, 1)))
    /\ t.k = "loop" => \/ Kind(t.n) = "BLOCK"
                       \/ Kind(t.n) \in {"WHILE", "FOR"} /\ t.i = 1
    /\ t.k = "update" => Kind(t.n) = "FOR"
    /\ t.k \in Callers => Kind(t.n) = "CALL"
    /\ t.k = "bind" => t.i <= Len(Ast[t.n].args) /\ t.i <= Len(ParamsOf(Callee(t.n)))
    /\ t.k = "args" => t.i <= Len(ParamsOf(Callee(t.n))) + 1

(* The first m parameters of g have been declared.                         *)
FirstParams(g, types, m) ==
    /\ \A j \in 1 .. m : types[ParamsOf(g)[j].name] = ParamsOf(g)[j].type
    /\ \A x \in VarName : x \notin {ParamsOf(g)[j].name : j \in 1 .. m} => types[x] = NoType

NothingIn(types) == \A x \in VarName : types[x] = NoType

(* What is declared in the Env it owns.                                    *)
Knows(S, t) ==
    /\ t.k \in Callers =>
          /\ S[t.f].fun = Callee(t.n) /\ S[t.f].args
          /\ FirstParams(Callee(t.n), S[t.f].types,
                         IF t.k = "body" THEN Len(ParamsOf(Callee(t.n))) ELSE t.i - 1)
    /\ t.k = "loop" /\ Kind(t.n) = "BLOCK" =>
          \A x \in VarName : S[t.e].types[x] # NoType =>
             \E m \in Nodes(t.n, {"VAR_DECL"}) : /\ Ast[m].name = x
                                                 /\ Ast[m].type = S[t.e].types[x]
    /\ (t.k = "main" \/ (t.k \in {"loop", "after", "update"} /\ Kind(t.n) = "FOR"))
          => NothingIn(S[t.e].types)

(* Its Env and those around it are of its function; the arguments of a     *)
(* call are where the callee's block is entered, and not yet where they    *)
(* are evaluated.                                                          *)
Surrounded(S, h, f, t) ==
    /\ \A c \in 1 .. Len(h[t.e].chain) : S[h[t.e].chain[c]].fun = f
    /\ S[t.e].args => t.k = "exec" /\ Kind(t.n) = "BLOCK"
    /\ t.k \in {"args", "bind"} => \A c \in 1 .. Len(h[t.e].chain) : h[t.e].chain[c] # t.f

InPlace(notes, seen, S, h, f, t) ==
    /\ f \in FunctionsOf(root)
    /\ Stands(notes, seen, f, t) /\ Knows(S, t) /\ Surrounded(S, h, f, t)

(* The innermost Env of the chain that declares x has it as a `type'.      *)
TypeSeen(S, chain, x, type) ==
    IF type = NoType THEN \A c \in 1 .. Len(chain) : S[chain[c]].types[x] = NoType
    ELSE \E c \in 1 .. Len(chain) : /\ S[chain[c]].types[x] = type
                                    /\ \A d \in 1 .. c - 1 : S[chain[d]].types[x] = NoType

Models(S, chain, f, types) ==
    \A x \in VarName \ LooseNames(f) : TypeSeen(S, chain, x, types[x])

(* What the checker saw where the activation is.                           *)
SeenBy(seen, f, t) ==
    IF t.k = "main" THEN seen[Child(t.n, 1)]
    ELSE IF t.k = "loop" /\ Kind(t.n) = "BLOCK" /\ t.i > 1
    THEN SeenAfter(f, seen, Child(t.n, t.i - 1))
    ELSE seen[t.n]

Sees(seen, S, h, f, t) ==
    Kind(t.n) # "LITERAL" => Models(S, h[t.e].chain, f, SeenBy(seen, f, t))

-----------------------------------------------------------------------------
(* Two activations, u of the function f on top of t.                       *)

DeclaresIn(f, u) == /\ u.k \in {"exec", "after"} /\ Kind(u.n) = "VAR_DECL"
                    /\ Ast[u.n].name \notin LooseNames(f)

Linked(notes, seen, f, t, u) ==
    /\ t.k \in {"after", "bind"} => u.n = AwaitedOf(t)
    /\ AwaitsTyped(t) => ExprTyped(root, f, notes, seen, u.n)
    /\ DeclaresIn(f, u) =>
          /\ t.k = "loop" /\ Kind(t.n) = "BLOCK"
          /\ t.i - 1 \in 1 .. Children(t.n) /\ u.n = Child(t.n, t.i - 1)
          /\ u.e = t.e

-----------------------------------------------------------------------------
(* The stack s.                                                            *)

(* It will not be left without a return.                                   *)
MustEnd(t) == \/ t.k \in {"exec", "after"} /\ Stops(t.n)
              \/ /\ t.k = "loop" /\ Kind(t.n) = "BLOCK"
                 /\ \E j \in t.i .. Children(t.n) : Stops(Child(t.n, j))

Owes(s, k) == \E m \in k + 1 .. Len(s) :
                 /\ MustEnd(s[m])
                 /\ \A j \in k + 1 .. m - 1 : s[j].k = "loop" /\ Kind(s[j].n) = "BLOCK"

WillReturn(s, k, now) ==
    s[k].k = "body" /\ Ast[Callee(s[k].n)].type # "VOID" =>
       \/ s[k].i = 1 \/ Owes(s, k)
       \/ now /\ \A j \in k + 1 .. Len(s) : s[j].k # "body"

Declaring(s, k) == k < Len(s) /\ DeclaresIn(FunctionAt(s, k + 1), s[k + 1])

StackTyped(notes, seen, S, s, h) ==
    /\ \A k \in 1 .. Len(s) : InPlace(notes, seen, S, h, FunctionAt(s, k), s[k])
    /\ \A k \in 1 .. Len(s) : ~Declaring(s, k) => Sees(seen, S, h, FunctionAt(s, k), s[k])
    /\ \A k \in 1 .. Len(s) - 1 : Linked(notes, seen, FunctionAt(s, k + 1), s[k], s[k + 1])

-----------------------------------------------------------------------------
(* The values.                                                             *)

SlotFits(d, slots) ==
    \A x \in VarName :
       LET loose == x \in LooseNames(d.fun)
       IN  /\ d.types[x] # NoType => /\ slots[x] # Unset
                                     /\ Conforms(slots[x].type, d.types[x])
                                     /\ loose => d.types[x] = "INT"
           /\ d.types[x] = NoType => \/ slots[x] = Unset
                                     \/ (loose /\ ~d.args /\ slots[x].type = "INT")

SlotsFit(S, h) == \A e \in EnvId : h[e].chain # <<>> => SlotFits(S[e], h[e].vars)

Arrived(notes, t, v) ==
    AwaitsTyped(t) => Conforms(v.type, TypeIn(notes, AwaitedOf(t)))

ReturnFits(f, v) == Ast[f].type = "VOID" \/ Conforms(v.type, Ast[f].type)

RunTyped(notes, seen, S) ==
    /\ StackTyped(notes, seen, S, ctl, envs)
    /\ \A k \in 1 .. Len(ctl) : WillReturn(ctl, k, returning)
    /\ SlotsFit(S, envs)
    /\ Arrived(notes, Top, val)
    /\ returning => ReturnFits(FunctionAt(ctl, Len(ctl) + 1), return_val)
=============================================================================
