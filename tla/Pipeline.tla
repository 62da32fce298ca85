------------------------------ MODULE Pipeline ------------------------------
(***************************************************************************)
(* `lumis -r' after parsing, main.c: the checker traverses the tree and,   *)
(* if it counts no error, the interpreter runs the same tree.  What the    *)
(* checker promises and what the interpreter relies on meet here: the two  *)
(* have scope rules and type rules of their own.                           *)
(***************************************************************************)
EXTENDS LumisValues, LumisTyping

CONSTANTS EnvId, NoEnv, MaxParams

(* What Semantic and Interp assume of their constants.                     *)
ASSUME PipelineAssumption ==
    MaxParams \in Nat /\ EnvId # {} /\ NoEnv \notin EnvId

VARIABLES
    root,
    phase, todo, tab, ret_type, error_count, ann,           \* the checker's
    status, exit_code, ctl, val, envs, returning, return_val, out, \* the
                                                            \* interpreter's
    exited                \* the exit status the shell sees, or Alive

Check == INSTANCE Semantic
Run   == INSTANCE Interp

checkVars == <<phase, todo, tab, ret_type, error_count, ann>>
runVars   == <<status, exit_code, ctl, val, envs, returning, return_val, out>>
vars      == <<root, checkVars, runVars, exited>>

Alive  == -1
Killed == 256             \* by a signal

-----------------------------------------------------------------------------
Init == Check!Init /\ Run!Init /\ exited = Alive

Checking ==
    /\ phase # "checked" /\ Check!Step
    /\ UNCHANGED <<runVars, exited>>

(* Any error at all: nothing is run.                                       *)
Reject ==
    /\ phase = "checked" /\ error_count > 0 /\ exited = Alive
    /\ exited' = 1
    /\ UNCHANGED <<root, checkVars, runVars>>

(* Mutant: the program is run whatever the checker found.                  *)
Running_Unchecked ==
    /\ phase = "checked" /\ Run!Step
    /\ UNCHANGED <<checkVars, exited>>

Running ==
    /\ phase = "checked" /\ error_count = 0 /\ Run!Step
    /\ UNCHANGED <<checkVars, exited>>

(* The kernel keeps the low eight bits of what main returns.               *)
Exit ==
    /\ exited = Alive
    /\ \/ status = "done" /\ exited' = exit_code % 256
       \/ status = "crashed" /\ exited' = Killed
    /\ UNCHANGED <<root, checkVars, runVars>>

Step == Checking \/ Reject \/ Running \/ Exit
Done == exited # Alive /\ UNCHANGED vars
Next == Step \/ Done
Spec == Init /\ [][Next]_vars

-----------------------------------------------------------------------------
(* The activation the interpreter is in.                                   *)
Live  == status = "running"
Here  == ctl[Len(ctl)]
At(k) == Live /\ Here.k = k

(* The function activation j belongs to.                                   *)
FunctionOf(j) ==
    LET calls == {c \in 1 .. j - 1 : ctl[c].k = "body"}
    IN  IF calls = {} THEN FindFunction(root, "main")
        ELSE LET c == CHOOSE c \in calls : \A d \in calls : d <= c
             IN  FindFunction(root, Ast[ctl[c].n].name)

FunctionNamed(n) == FindFunction(root, Ast[n].name)

(* The type the checker has given an expression.                           *)
Judged(n) == HasType(ann, n)
TypeOf(n) == TypeIn(ann, n)

-----------------------------------------------------------------------------
(* Programs outside the known gaps between the checker and the             *)
(* interpreter (LumisTyping) in which no void call or void parameter is    *)
(* used as a value.  A gap that is not named would show as a violation of  *)
(* the properties below.                                                   *)
Disciplined == KeepsClear(root, MaxParams) /\ \A n \in DOMAIN ann : ann[n] # "VOID"

-----------------------------------------------------------------------------
(* Properties.                                                             *)

(* Types of the process's state; what is checked is what is run, and only  *)
(* once all of it is checked.                                              *)
TypeOK ==
    /\ Check!TypeOK /\ Run!TypeOK
    /\ exited \in {Alive, Killed} \cup (0 .. 255)
    /\ status # "start" => Check!Accepted

(* The variables of an accepted program are in the environments where the  *)
(* checker found them in its scopes: one that is read or assigned has a    *)
(* slot there, unless a for head or an unbraced branch of the same         *)
(* function declares it.                                                   *)
Bound(name) == Run!Holder(Here.e, name) # NoEnv
Uses(name)  == \/ At("eval") /\ Kind(Here.n) = "VAR_REF" /\ Ast[Here.n].name = name
               \/ At("after") /\ Kind(Here.n) = "ASSIGN" /\ Ast[Here.n].name = name

OnlyLooseUnbound ==
    \/ ~Live
    \/ \A name \in VarName :
          Uses(name) /\ ~Bound(name) => name \in LooseNames(FunctionOf(Len(ctl)))
    \/ ~Disciplined

(* Type soundness: whenever a value arrives where the checker has judged   *)
(* an expression, or for a parameter, it is of the type judged or          *)
(* declared, or an int that was to become a float.                         *)
Awaited == Child(Here.n, IF Kind(Here.n) = "FOR" THEN 2 ELSE Here.i)

AsJudged ==
    /\ At("after") /\ Kind(Here.n) # "CALL" /\ Judged(Awaited)
          => Conforms(val.type, TypeOf(Awaited))
    /\ At("bind") => Conforms(val.type, ParamsOf(FunctionNamed(Here.n))[Here.i].type)

TypesKept == AsJudged \/ ~Disciplined

(* Whenever control is in the activation that owns an environment, every   *)
(* slot there holds a value of the type some declaration in the block,     *)
(* head or parameter list gives the name, or an int in a float's: no       *)
(* assignment from a block or call in between has changed that.            *)
DeclaredTypes(t, name) ==
    IF t.k \in {"args", "bind", "body"}
    THEN LET params == ParamsOf(FunctionNamed(t.n))
         IN  {params[j].type : j \in {j \in 1 .. Len(params) : params[j].name = name}}
    ELSE {Ast[m].type : m \in {m \in Nodes(t.n, {"VAR_DECL"}) : Ast[m].name = name}}

SlotAsDeclared(name) ==
    LET slot == envs[Run!Owned(Here)].vars[name]
    IN  \/ slot = Run!Unset
        \/ \E type \in DeclaredTypes(Here, name) : Conforms(slot.type, type)
        \/ name \in LooseNames(FunctionOf(Len(ctl)))

SlotsKept ==
    \/ ~Live \/ Run!Owned(Here) = NoEnv
    \/ \A name \in VarName : SlotAsDeclared(name)
    \/ ~Disciplined

(* A call the checker has judged finds its function and, unless the list   *)
(* is longer than a signature has room for, binds all its parameters.      *)
CallsKept ==
    Live /\ At("eval") /\ Kind(Here.n) = "CALL" /\ Judged(Here.n) =>
       LET g == FunctionNamed(Here.n)
       IN  /\ g # NoNode
           /\ Len(ParamsOf(g)) <= MaxParams => Len(Ast[Here.n].args) = Len(ParamsOf(g))

(* GRAMMAR.md, section 5: a variable must be declared before it is used;   *)
(* so a running program finds every variable it uses.                      *)
AllBound == Live => \A name \in VarName : Uses(name) => Bound(name)

(* GRAMMAR.md, section 4: int is promoted to float, so a value that        *)
(* arrives where a float was judged is one.                                *)
FloatsAreFloats ==
    Live /\ At("after") /\ Kind(Here.n) # "CALL" /\ Judged(Awaited) =>
       (TypeOf(Awaited) = "FLOAT" => val.type = "FLOAT")
=============================================================================
