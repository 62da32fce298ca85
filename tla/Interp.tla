------------------------------- MODULE Interp -------------------------------
(***************************************************************************)
(* The tree-walking interpreter, interp.c, in small steps.                 *)
(*                                                                         *)
(* `ctl' is the C call stack, the running activation last.  An element is  *)
(* one activation of eval_expr or exec_stmt (or the loop of                *)
(* interp_execute) together with the place it will continue from:          *)
(*                                                                         *)
(*   eval    eval_expr(n, e) has been called                               *)
(*   exec    exec_stmt(n, e) has been called                               *)
(*   after   eval_expr or exec_stmt on n waits for an operand's value      *)
(*           (i = 1, 2: which operand of a binary operator; v: the left)   *)
(*   loop    a block (next child i), while or for at the head of its loop  *)
(*   update  a for loop whose body has returned                            *)
(*   args    a call about to evaluate argument i; f is the callee's Env    *)
(*   bind    a call waiting for the value of argument i                    *)
(*   body    a call running statement i - 1 of its callee; v and r are     *)
(*           prev_val and prev_ret                                         *)
(*   main    interp_execute running statement i - 1 of main                *)
(*                                                                         *)
(* `val' is the value the activation that just returned has returned.      *)
(***************************************************************************)
EXTENDS LumisValues

CONSTANTS
    EnvId,    \* the Env structs calloc can provide
    NoEnv     \* NULL

ASSUME EnvAssumption == EnvId # {} /\ NoEnv \notin EnvId

VARIABLES
    root,         \* the program being run
    status,       \* "start", "running", "done", "crashed"
    exit_code,
    ctl, val,     \* the C call stack and the value just returned
    envs,         \* the heap of Env structs
    returning, return_val,   \* struct InterpState
    out           \* what print has written

vars == <<root, status, exit_code, ctl, val, envs, returning, return_val, out>>

-----------------------------------------------------------------------------
(* Activations.                                                            *)

FrameKind == {"eval", "exec", "after", "loop", "update", "args", "bind",
              "body", "main"}
Frame == [k : FrameKind, n : Node, e : EnvId, i : Nat \ {0}, v : Value,
          f : EnvId \cup {NoEnv}, r : BOOLEAN]

NewFrame(k, n, e) == [k |-> k, n |-> n, e |-> e, i |-> 1, v |-> IntZero,
                      f |-> NoEnv, r |-> FALSE]
Eval(n, e) == NewFrame("eval", n, e)
Exec(n, e) == NewFrame("exec", n, e)

Top       == ctl[Len(ctl)]
At(k)     == status = "running" /\ Top.k = k
On(kinds) == Kind(Top.n) \in kinds
As(k)     == [Top EXCEPT !.k = k]

Pop         == SubSeq(ctl, 1, Len(ctl) - 1)
Become(f)   == [ctl EXCEPT ![Len(ctl)] = f]
Call(f, g)  == Append(Become(f), g)     \* f waits for the activation g

-----------------------------------------------------------------------------
(* Environments.  vars is the list of VarSymbols: only the latest symbol   *)
(* of a name is ever found, so the list is a function.  chain is what      *)
(* env_lookup_sym walks: the Env, its parent, its parent's parent...       *)

Unset == [type |-> "UNSET", num |-> 0]
Env   == [vars : [VarName -> Value \cup {Unset}], chain : Seq(EnvId)]
Freed == [vars |-> [x \in VarName |-> Unset], chain |-> <<>>]

Live(e)  == envs[e].chain # <<>>
FreshEnv == CHOOSE e \in EnvId : ~Live(e)
HeapFull == \A e \in EnvId : Live(e)

env_create(parent) ==
    [envs EXCEPT ![FreshEnv] =
        [vars  |-> [x \in VarName |-> Unset],
         chain |-> <<FreshEnv>> \o IF parent = NoEnv THEN <<>>
                                   ELSE envs[parent].chain]]

env_free(e) == [envs EXCEPT ![e] = Freed]

env_define(e, name, value) == [envs EXCEPT ![e].vars[name] = value]

(* The Env of the chain that env_lookup_sym finds the name in, or NoEnv.   *)
Holder(e, name) ==
    LET chain == envs[e].chain
        hits  == {i \in 1 .. Len(chain) : envs[chain[i]].vars[name] # Unset}
        First(i) == i \in hits /\ \A j \in hits : i <= j
    IN  IF \E i \in hits : First(i)
        THEN chain[CHOOSE i \in hits : First(i)] ELSE NoEnv

env_get(e, name) == LET h == Holder(e, name)
                    IN  IF h = NoEnv THEN IntZero ELSE envs[h].vars[name]

env_set(e, name, value) ==
    LET h == Holder(e, name)
    IN  env_define(IF h = NoEnv THEN e ELSE h, name, value)

-----------------------------------------------------------------------------
(* interp_execute.                                                         *)

MainFunction == FindFunction(root, "main")
Callee(n)    == FindFunction(root, Ast[n].name)

Init ==
    /\ root \in Roots
    /\ status = "start" /\ exit_code = 0
    /\ ctl = <<>> /\ val = IntZero
    /\ envs = [e \in EnvId |-> Freed]
    /\ returning = FALSE /\ return_val = IntZero
    /\ out = <<>>

NoMain ==
    /\ status = "start" /\ MainFunction = NoNode
    /\ status' = "done" /\ exit_code' = 1
    /\ UNCHANGED <<root, ctl, val, envs, returning, return_val, out>>

StartMain ==
    /\ status = "start" /\ MainFunction # NoNode
    /\ status' = "running"
    /\ ctl' = <<NewFrame("main", MainFunction, FreshEnv)>>
    /\ envs' = env_create(NoEnv)
    /\ UNCHANGED <<root, exit_code, val, returning, return_val, out>>

MainStatement ==
    /\ At("main") /\ ~returning /\ Top.i <= Children(Top.n)
    /\ ctl' = Call([Top EXCEPT !.i = @ + 1], Exec(Child(Top.n, Top.i), Top.e))
    /\ UNCHANGED <<root, status, exit_code, val, envs, returning, return_val,
                   out>>

MainDone ==
    /\ At("main") /\ (returning \/ Top.i > Children(Top.n))
    /\ status' = "done"
    /\ exit_code' = IF return_val.type = "INT" THEN return_val.num ELSE 0
    /\ ctl' = Pop /\ envs' = env_free(Top.e)
    /\ UNCHANGED <<root, val, returning, return_val, out>>

(* The process dies; nothing it holds matters any more.                    *)
Crash ==
    /\ status' = "crashed"
    /\ UNCHANGED <<root, exit_code, ctl, val, envs, returning, return_val, out>>

(* env_create dereferences calloc's NULL.                                  *)
OutOfMemory ==
    /\ HeapFull
    /\ \/ At("exec") /\ On({"BLOCK", "FOR"})
       \/ At("eval") /\ On({"CALL"}) /\ Callee(Top.n) # NoNode
    /\ Crash

-----------------------------------------------------------------------------
(* eval_expr.                                                              *)

Deliver(v) ==
    /\ val' = v /\ ctl' = Pop
    /\ UNCHANGED <<root, status, exit_code, returning, return_val, out>>

(* Continue or start another activation, with no other effect.             *)
Continue(stack) ==
    /\ ctl' = stack
    /\ UNCHANGED <<root, status, exit_code, val, envs, returning, return_val,
                   out>>

EvalLiteral ==
    /\ At("eval") /\ On({"LITERAL"})
    /\ Deliver(Typed(Ast[Top.n].type, Ast[Top.n].num)) /\ UNCHANGED envs

EvalVarRef ==
    /\ At("eval") /\ On({"VAR_REF"})
    /\ Deliver(env_get(Top.e, Ast[Top.n].name)) /\ UNCHANGED envs

EvalOperand ==
    /\ At("eval") /\ On({"UNARY_OP", "BINARY_OP"})
    /\ Continue(Call(As("after"), Eval(Child(Top.n, 1), Top.e)))

AfterUnary ==
    /\ At("after") /\ On({"UNARY_OP"})
    /\ \E res \in UnaryResults(Ast[Top.n].op, val) :
          IF res = Fault THEN Crash ELSE Deliver(res) /\ UNCHANGED envs

AfterLeft ==
    /\ At("after") /\ On({"BINARY_OP"}) /\ Top.i = 1
    /\ Continue(Call([Top EXCEPT !.i = 2, !.v = val],
                     Eval(Child(Top.n, 2), Top.e)))

AfterRight ==
    /\ At("after") /\ On({"BINARY_OP"}) /\ Top.i = 2
    /\ \E res \in BinaryResults(Ast[Top.n].op, Top.v, val) :
          IF res = Fault THEN Crash ELSE Deliver(res) /\ UNCHANGED envs

(* A call of a function the program does not have is the value 0.          *)
EvalUnknownCall ==
    /\ At("eval") /\ On({"CALL"}) /\ Callee(Top.n) = NoNode
    /\ Deliver(IntZero) /\ UNCHANGED envs

(* Mutant: the callee's Env has the caller's for its parent.               *)
EvalCall_Dynamic ==
    /\ At("eval") /\ On({"CALL"}) /\ Callee(Top.n) # NoNode /\ ~HeapFull
    /\ ctl' = Become([As("args") EXCEPT !.f = FreshEnv])
    /\ envs' = env_create(Top.e)
    /\ UNCHANGED <<root, status, exit_code, val, returning, return_val, out>>

EvalCall ==
    /\ At("eval") /\ On({"CALL"}) /\ Callee(Top.n) # NoNode /\ ~HeapFull
    /\ ctl' = Become([As("args") EXCEPT !.f = FreshEnv])
    /\ envs' = env_create(NoEnv)
    /\ UNCHANGED <<root, status, exit_code, val, returning, return_val, out>>

MoreArguments == Top.i <= Len(Ast[Top.n].args)
                 /\ Top.i <= Len(Ast[Callee(Top.n)].params)

EvalArgument ==
    /\ At("args") /\ MoreArguments
    /\ Continue(Call(As("bind"), Eval(Ast[Top.n].args[Top.i], Top.e)))

BindArgument ==
    /\ At("bind")
    /\ envs' = env_define(Top.f, Ast[Callee(Top.n)].params[Top.i].name, val)
    /\ ctl' = Become([As("args") EXCEPT !.i = @ + 1])
    /\ UNCHANGED <<root, status, exit_code, val, returning, return_val, out>>

EnterBody ==
    /\ At("args") /\ ~MoreArguments
    /\ ctl' = Become([As("body") EXCEPT !.i = 1, !.v = return_val,
                                        !.r = returning])
    /\ returning' = FALSE
    /\ UNCHANGED <<root, status, exit_code, val, envs, return_val, out>>

BodyStatement ==
    /\ At("body") /\ ~returning /\ Top.i <= Children(Callee(Top.n))
    /\ Continue(Call([Top EXCEPT !.i = @ + 1],
                     Exec(Child(Callee(Top.n), Top.i), Top.f)))

(* Mutant: the call does not restore prev_val.                             *)
LeaveBody_KeepsResult ==
    /\ At("body") /\ (returning \/ Top.i > Children(Callee(Top.n)))
    /\ val' = return_val /\ ctl' = Pop /\ envs' = env_free(Top.f)
    /\ returning' = Top.r
    /\ UNCHANGED <<root, status, exit_code, return_val, out>>

LeaveBody ==
    /\ At("body") /\ (returning \/ Top.i > Children(Callee(Top.n)))
    /\ val' = return_val /\ ctl' = Pop /\ envs' = env_free(Top.f)
    /\ returning' = Top.r /\ return_val' = Top.v
    /\ UNCHANGED <<root, status, exit_code, out>>

-----------------------------------------------------------------------------
(* exec_stmt.  Its test of `returning' on entry never succeeds, see        *)
(* ReturningUnwinds, and is not repeated in every action.                  *)

(* The statements that begin by evaluating their first child.              *)
ExecOperand ==
    /\ At("exec")
    /\ \/ On({"ASSIGN", "IF", "PRINT"})
       \/ On({"VAR_DECL", "RETURN"}) /\ Children(Top.n) > 0
    /\ Continue(Call(As("after"), Eval(Child(Top.n, 1), Top.e)))

Finish ==       \* exec_stmt returns
    /\ ctl' = Pop
    /\ UNCHANGED <<root, status, exit_code, val>>

ExecVarDecl ==
    /\ At("exec") /\ On({"VAR_DECL"}) /\ Children(Top.n) = 0
    /\ envs' = env_define(Top.e, Ast[Top.n].name, Typed(Ast[Top.n].type, 0))
    /\ Finish /\ UNCHANGED <<returning, return_val, out>>

(* Mutant: a declaration assigns an outer variable of the same name.       *)
AfterVarDecl_Assigns ==
    /\ At("after") /\ On({"VAR_DECL"})
    /\ envs' = env_set(Top.e, Ast[Top.n].name, val)
    /\ Finish /\ UNCHANGED <<returning, return_val, out>>

AfterVarDecl ==
    /\ At("after") /\ On({"VAR_DECL"})
    /\ envs' = env_define(Top.e, Ast[Top.n].name, val)
    /\ Finish /\ UNCHANGED <<returning, return_val, out>>

AfterAssign ==
    /\ At("after") /\ On({"ASSIGN"})
    /\ envs' = env_set(Top.e, Ast[Top.n].name, val)
    /\ Finish /\ UNCHANGED <<returning, return_val, out>>

(* Mutant: the if runs its branch and then continues as if it had not.     *)
AfterIf_Continues ==
    /\ At("after") /\ On({"IF"})
    /\ \E taken \in Truths(val) :
          IF taken \/ Children(Top.n) > 2
          THEN Continue(Call(Top, Exec(Child(Top.n, IF taken THEN 2 ELSE 3),
                                       Top.e)))
          ELSE Finish /\ UNCHANGED <<envs, returning, return_val, out>>

AfterIf ==
    /\ At("after") /\ On({"IF"})
    /\ \E taken \in Truths(val) :
          IF taken \/ Children(Top.n) > 2
          THEN Continue(Become(Exec(Child(Top.n, IF taken THEN 2 ELSE 3),
                                    Top.e)))
          ELSE Finish /\ UNCHANGED <<envs, returning, return_val, out>>

AfterPrint ==
    /\ At("after") /\ On({"PRINT"})
    /\ out' = Append(out, val)
    /\ Finish /\ UNCHANGED <<envs, returning, return_val>>

ExecReturn ==
    /\ At("exec") /\ On({"RETURN"}) /\ Children(Top.n) = 0
    /\ returning' = TRUE /\ return_val' = IntZero
    /\ Finish /\ UNCHANGED <<envs, out>>

AfterReturn ==
    /\ At("after") /\ On({"RETURN"})
    /\ returning' = TRUE /\ return_val' = val
    /\ Finish /\ UNCHANGED <<envs, out>>

(* A call as a statement: its value is dropped.                            *)
ExecCall ==
    /\ At("exec") /\ On({"CALL"})
    /\ Continue(Call(As("after"), Eval(Top.n, Top.e)))

AfterCall ==
    /\ At("after") /\ On({"CALL"})
    /\ Finish /\ UNCHANGED <<envs, returning, return_val, out>>

(* Any other expression statement does nothing.                            *)
ExecIgnored ==
    /\ At("exec") /\ On(ExprKind \ {"CALL"})
    /\ Finish /\ UNCHANGED <<envs, returning, return_val, out>>

ExecWhile ==
    /\ At("exec") /\ On({"WHILE"})
    /\ Continue(Become(As("loop")))

(* Mutant: a block's Env has no parent.                                    *)
ExecBlock_Isolated ==
    /\ At("exec") /\ On({"BLOCK"}) /\ ~HeapFull
    /\ ctl' = Become([As("loop") EXCEPT !.e = FreshEnv])
    /\ envs' = env_create(NoEnv)
    /\ UNCHANGED <<root, status, exit_code, val, returning, return_val, out>>

ExecBlock ==
    /\ At("exec") /\ On({"BLOCK"}) /\ ~HeapFull
    /\ ctl' = Become([As("loop") EXCEPT !.e = FreshEnv])
    /\ envs' = env_create(Top.e)
    /\ UNCHANGED <<root, status, exit_code, val, returning, return_val, out>>

ExecFor ==
    /\ At("exec") /\ On({"FOR"}) /\ ~HeapFull
    /\ ctl' = Call([As("loop") EXCEPT !.e = FreshEnv],
                   Exec(Child(Top.n, 1), FreshEnv))
    /\ envs' = env_create(Top.e)
    /\ UNCHANGED <<root, status, exit_code, val, returning, return_val, out>>

(* Mutant: a block goes on after a return.                                 *)
BlockStatement_GoesOn ==
    /\ At("loop") /\ On({"BLOCK"}) /\ Top.i <= Children(Top.n)
    /\ Continue(Call([Top EXCEPT !.i = @ + 1],
                     Exec(Child(Top.n, Top.i), Top.e)))

BlockStatement ==
    /\ At("loop") /\ On({"BLOCK"}) /\ ~returning /\ Top.i <= Children(Top.n)
    /\ Continue(Call([Top EXCEPT !.i = @ + 1],
                     Exec(Child(Top.n, Top.i), Top.e)))

LeaveBlock ==
    /\ At("loop") /\ On({"BLOCK"}) /\ (returning \/ Top.i > Children(Top.n))
    /\ envs' = env_free(Top.e)
    /\ Finish /\ UNCHANGED <<returning, return_val, out>>

Condition(n) == Child(n, IF Kind(n) = "FOR" THEN 2 ELSE 1)
LoopBody(n)  == Child(n, IF Kind(n) = "FOR" THEN 4 ELSE 2)

(* Mutant: a loop tests its condition again after a return.                *)
LoopTest_Always ==
    /\ At("loop") /\ On({"WHILE", "FOR"})
    /\ Continue(Call(As("after"), Eval(Condition(Top.n), Top.e)))

LoopTest ==
    /\ At("loop") /\ On({"WHILE", "FOR"}) /\ ~returning
    /\ Continue(Call(As("after"), Eval(Condition(Top.n), Top.e)))

EnterLoopBody ==
    /\ At("after") /\ On({"WHILE", "FOR"}) /\ TRUE \in Truths(val)
    /\ Continue(Call(As(IF On({"FOR"}) THEN "update" ELSE "loop"),
                     Exec(LoopBody(Top.n), Top.e)))

(* Mutant: every loop frees the Env it runs in.                            *)
LeaveLoop_AlwaysFrees ==
    /\ envs' = env_free(Top.e)
    /\ Finish /\ UNCHANGED <<returning, return_val, out>>

(* Leaving the loop frees for_env, which a while loop does not have.       *)
LeaveLoop ==
    /\ envs' = IF On({"FOR"}) THEN env_free(Top.e) ELSE envs
    /\ Finish /\ UNCHANGED <<returning, return_val, out>>

LoopFails == At("after") /\ On({"WHILE", "FOR"}) /\ FALSE \in Truths(val)
             /\ LeaveLoop

(* Mutant: a return out of a for loop leaks for_env.                       *)
LoopReturns_Leaks ==
    /\ \/ At("loop") /\ On({"WHILE", "FOR"})
       \/ At("update")
    /\ returning
    /\ Finish /\ UNCHANGED <<envs, returning, return_val, out>>

LoopReturns ==
    /\ \/ At("loop") /\ On({"WHILE", "FOR"})
       \/ At("update")
    /\ returning
    /\ LeaveLoop

(* Mutant: the update runs whatever the body did.                          *)
ForUpdate_Always ==
    /\ At("update") /\ On({"FOR"})
    /\ Continue(Call(As("loop"), Exec(Child(Top.n, 3), Top.e)))

ForUpdate ==
    /\ At("update") /\ On({"FOR"}) /\ ~returning
    /\ Continue(Call(As("loop"), Exec(Child(Top.n, 3), Top.e)))

-----------------------------------------------------------------------------
Evaluate == \/ EvalLiteral \/ EvalVarRef \/ EvalOperand \/ AfterUnary
            \/ AfterLeft \/ AfterRight \/ EvalUnknownCall \/ EvalCall
            \/ EvalArgument \/ BindArgument \/ EnterBody \/ BodyStatement
            \/ LeaveBody

Execute == \/ ExecOperand \/ ExecVarDecl \/ AfterVarDecl \/ AfterAssign
           \/ AfterIf \/ AfterPrint \/ ExecReturn \/ AfterReturn \/ ExecCall
           \/ AfterCall \/ ExecIgnored \/ ExecWhile \/ ExecBlock \/ ExecFor
           \/ BlockStatement \/ LeaveBlock \/ LoopTest \/ EnterLoopBody
           \/ LoopFails \/ LoopReturns \/ ForUpdate

Step == \/ NoMain \/ StartMain \/ MainStatement \/ MainDone \/ OutOfMemory
        \/ Evaluate \/ Execute

(* The process has exited.                                                 *)
Terminated == status \in {"done", "crashed"} /\ UNCHANGED vars

Next == Step \/ Terminated

Spec     == Init /\ [][Next]_vars
FairSpec == Spec /\ WF_vars(Step)

-----------------------------------------------------------------------------
(* Properties.                                                             *)

Running == status = "running"

(* Types of the interpreter's state.                                       *)
TypeOK ==
    /\ root \in Roots
    /\ status \in {"start", "running", "done", "crashed"}
    /\ exit_code \in IntMin .. IntMax
    /\ ctl \in Seq(Frame)
    /\ val \in Value
    /\ envs \in [EnvId -> Env]
    /\ returning \in BOOLEAN
    /\ return_val \in Value
    /\ out \in Seq(Value)

(* The C call stack is well nested: an activation that will return a value *)
(* runs on top of one that waits for a value, a statement on top of one    *)
(* that runs statements, and interp_execute is at the bottom only.         *)
Unwinds       == {"loop", "update", "body", "main"}
Operator(t)   == Kind(t.n) \in {"UNARY_OP", "BINARY_OP"}
Yields(t)     == \/ t.k \in {"eval", "args", "bind", "body"}
                 \/ t.k = "after" /\ Operator(t)
RunsAsStmt(t) == \/ t.k \in {"exec", "loop", "update"}
                 \/ t.k = "after" /\ ~Operator(t)
OnTopOf(t, u) == \/ Yields(t) /\ u.k \in {"after", "bind"}
                 \/ RunsAsStmt(t) /\ u.k \in Unwinds

WellNested(stack) ==
    /\ stack # <<>>
    /\ stack[1].k = "main"
    /\ \A i \in 2 .. Len(stack) : OnTopOf(stack[i], stack[i - 1])

StackWellNested == Running => WellNested(ctl)

(* While a return unwinds, the running activation is one that tests        *)
(* `returning' itself: a block, a loop, a callee's body or main.  No       *)
(* expression is ever evaluated and no statement started, so the test at   *)
(* the head of exec_stmt (line 280) never fires.                           *)
ReturningUnwinds == Running /\ returning => Top.k \in Unwinds

(* st->return_val is never reset by a call, yet no returned value leaks    *)
(* from one call into another: outside an unwinding it is INT 0, and so is *)
(* every copy a suspended call will restore.  This is why a function that  *)
(* falls off its end always yields INT 0 and never an older call's result. *)
NoStaleReturn ==
    Running =>
       /\ ~returning => return_val = IntZero
       /\ \A i \in 1 .. Len(ctl) :
             ctl[i].k = "body" => ctl[i].v = IntZero /\ ~ctl[i].r

(* The Env an activation will free: main's, a call's callee Env, a block's *)
(* or a for loop's.                                                        *)
Owned(t) ==
    IF t.k \in {"args", "bind", "body"} THEN t.f
    ELSE IF \/ t.k \in {"main", "update"}
            \/ t.k = "loop" /\ Kind(t.n) \in {"BLOCK", "FOR"}
            \/ t.k = "after" /\ Kind(t.n) = "FOR" THEN t.e
    ELSE NoEnv

(* No Env is leaked and none is freed twice: each allocated Env has one    *)
(* activation that will free it, on every path out of that activation,     *)
(* early returns through nested blocks and loops included.                 *)
EnvOwnership ==
    /\ Running =>
          /\ \A e \in EnvId : Live(e) => \E i \in 1 .. Len(ctl) : Owned(ctl[i]) = e
          /\ \A i \in 1 .. Len(ctl) :
                Owned(ctl[i]) # NoEnv =>
                   /\ Live(Owned(ctl[i]))
                   /\ \A j \in 1 .. i - 1 : Owned(ctl[j]) # Owned(ctl[i])
    /\ status = "done" => \A e \in EnvId : ~Live(e)

(* No freed Env is ever reached: neither through the `env' of a suspended  *)
(* activation nor along the parent pointers of a live Env.  What an        *)
(* activation uses is owned by itself or by an older activation.           *)
NoDanglingEnv ==
    Running => \A i \in 1 .. Len(ctl) :
       /\ Live(ctl[i].e)
       /\ \A c \in 1 .. Len(envs[ctl[i].e].chain) :
             \E j \in 1 .. i : Owned(ctl[j]) = envs[ctl[i].e].chain[c]

(* Static scoping: while the body of a call runs, no step changes an Env   *)
(* that existed before the call, i.e. one owned by an activation below it; *)
(* only the callee's own Envs are written.                                 *)
CallerEnvStep ==
    \A i \in 1 .. Len(ctl) :
       ctl[i].k = "body" /\ Running =>
          \A j \in 1 .. i - 1 : Owned(ctl[j]) # NoEnv =>
             envs'[Owned(ctl[j])] = envs[Owned(ctl[j])]

CallerEnvIntact == [][CallerEnvStep]_vars

(* A return has no effect on its way out: until its caller (or the exit of *)
(* main) takes the value, activations only end, their Envs are freed, and  *)
(* nothing is printed, bound or assigned, nor the returned value replaced. *)
UnwindStep ==
    Running /\ returning =>
       /\ Len(ctl') < Len(ctl)
       /\ out' = out
       /\ \A e \in EnvId : envs'[e] \in {envs[e], Freed}
       /\ returning' => return_val' = return_val

UnwindQuiet == [][UnwindStep]_vars

(* A return statement reaches its caller, or ends main, whatever loops and *)
(* blocks it is nested in, loops that would never end included.            *)
ReturnReachesCaller == returning ~> (~returning \/ status = "done")
=============================================================================
