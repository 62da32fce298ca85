------------------------------- MODULE TacRun -------------------------------
(***************************************************************************)
(* Does the three-address code of a program mean what the interpreter      *)
(* makes of the program?  Nothing in the repository executes the code, so  *)
(* the machine here gives its instructions their usual meaning: a function *)
(* has one name space for its variables and temporaries, PARAM pushes,     *)
(* CALL f, n takes the last n pushed as f's parameters (FUNC does not name *)
(* them, the program does), END FUNC returns 0.  The interpreter runs the  *)
(* program first, then the machine runs its code.                          *)
(***************************************************************************)
EXTENDS Codegen

CONSTANTS EnvId, NoEnv

ASSUME TacAssumption == EnvId # {} /\ NoEnv \notin EnvId

VARIABLES
    status, exit_code, ctl, val, envs, returning, return_val, out,
    comparable,   \* no step so far has left the ground common to both
    tac,          \* "none", "running", "done", "crashed" or "undefined"
    frames,       \* the machine's calls: [pc, vars, dst]
    pushed,       \* the parameters pushed: [depth, value]
    printed, tac_exit

Run == INSTANCE Interp WITH root <- program

runVars == <<status, exit_code, ctl, val, envs, returning, return_val, out>>
tacVars == <<tac, frames, pushed, printed, tac_exit>>
vars    == <<genVars, runVars, comparable, tacVars>>

-----------------------------------------------------------------------------
(* The interpreter uses a variable it finds no slot for.                   *)
LosesVariable ==
    /\ status = "running"
    /\ LET top == ctl[Len(ctl)]
       IN  /\ \/ top.k = "eval" /\ Kind(top.n) = "VAR_REF"
              \/ top.k = "after" /\ Kind(top.n) = "ASSIGN"
           /\ Run!Holder(top.e, Ast[top.n].name) = NoEnv

Generate == GenStep /\ UNCHANGED <<runVars, comparable, tacVars>>

Interpret ==
    /\ todo = <<>> /\ tac = "none" /\ Run!Step
    /\ comparable' = (comparable /\ ~LosesVariable)
    /\ UNCHANGED <<genVars, tacVars>>

(* Programs whose code can be expected to agree: no name is declared twice *)
(* in a function, or without a value, or looks like a temporary of the     *)
(* code; calls find a function with as many parameters; and no value is    *)
(* one whose payload is abstracted.                                        *)
Declarations(f) == {n \in Subtree(f) : Kind(n) = "VAR_DECL"}
ParamNames(f)   == {p.name : p \in Range(Ast[f].params)}

NamesOnce(f) ==
    /\ Cardinality(ParamNames(f)) = Len(Ast[f].params)
    /\ \A n \in Declarations(f) :
          /\ Children(n) = 1 /\ Ast[n].name \notin ParamNames(f)
          /\ \A m \in Declarations(f) : Ast[m].name = Ast[n].name => m = n

(* A variable has the name of one of the code's temporaries.               *)
NameClash ==
    \E k \in DOMAIN code : code[k].op \in Computes /\
       \E n \in Subtree(program) : /\ Kind(n) \in {"VAR_DECL", "VAR_REF", "ASSIGN"}
                                 /\ Ast[n].name = code[k].dst

Common ==
    /\ \A f \in Range(Ast[program].children) : NamesOnce(f)
    /\ \A n \in Subtree(program) :
          /\ Kind(n) = "CALL" =>
                LET f == FindFunction(program, Ast[n].name)
                IN  f # NoNode /\ Len(Ast[f].params) = Len(Ast[n].args)
          /\ ~Abstracted(Ast[n])
    /\ ~NameClash

-----------------------------------------------------------------------------
(* The machine.                                                            *)

NoVars == [x \in {} |-> IntZero]
LineOf(op, sym, num) ==
    SelectInSeq(code, LAMBDA i : i.op = op /\ i.sym = sym /\ i.num = num)
Frame(f, vs, dst) == [pc |-> LineOf("FUNC", f, 0) + 1, vars |-> vs, dst |-> dst]

Start ==
    /\ tac = "none" /\ status = "done" /\ Run!MainFunction # NoNode
    /\ tac' = "running" /\ comparable' = (comparable /\ Common)
    /\ frames' = <<Frame("main", NoVars, "")>>
    /\ UNCHANGED <<genVars, runVars, pushed, printed, tac_exit>>

Here == frames[Len(frames)]
Line == code[Here.pc]
At(op) == tac = "running" /\ Line.op = op

Known(a)  == a.name = "" \/ a.name \in DOMAIN Here.vars
Read(a)   == IF a.name = "" THEN a.lit ELSE Here.vars[a.name]
Operand   == Read(Line.args[1])
Operands  == \A k \in DOMAIN Line.args : Known(Line.args[k])

Ends(how) == tac' = how /\ UNCHANGED <<frames, pushed, printed, tac_exit>>
Frames(fs) == frames' = fs /\ UNCHANGED <<tac, tac_exit>>
Goes(pc)  == Frames([frames EXCEPT ![Len(frames)].pc = pc])
Bound(vs, x, v) == [y \in DOMAIN vs \cup {x} |-> IF y = x THEN v ELSE vs[y]]
Sets(fs, x, v)  == [fs EXCEPT ![Len(fs)].pc = @ + 1,
                              ![Len(fs)].vars = Bound(@, x, v)]

Undefined == tac = "running" /\ ~Operands /\ Ends("undefined")

Results == CASE Line.op = "COPY"   -> {Operand}
             [] Line.op = "UNARY"  -> UnaryResults(Line.sym, Operand)
             [] Line.op = "BINARY" -> BinaryResults(Line.sym, Operand, Read(Line.args[2]))

Operate ==
    /\ At("COPY") \/ At("UNARY") \/ At("BINARY")
    /\ Operands
    /\ \E v \in Results : IF v = Fault THEN Ends("crashed")
                          ELSE Frames(Sets(frames, Line.dst, v))
                               /\ UNCHANGED <<pushed, printed>>

TacPrint == /\ At("PRINT") /\ Operands
            /\ printed' = Append(printed, Operand)
            /\ Goes(Here.pc + 1) /\ UNCHANGED pushed

Push == /\ At("PARAM") /\ Operands
        /\ pushed' = Append(pushed, [depth |-> Len(frames), value |-> Operand])
        /\ Goes(Here.pc + 1) /\ UNCHANGED printed

Branch ==
    /\ \/ At("LABEL") /\ Goes(Here.pc + 1)
       \/ At("GOTO") /\ Goes(LineOf("LABEL", "", Line.num))
       \/ At("IF_FALSE") /\ Operands
          /\ \E taken \in Truths(Operand) :
                Goes(IF taken THEN Here.pc + 1 ELSE LineOf("LABEL", "", Line.num))
    /\ UNCHANGED <<pushed, printed>>

(* The parameters of a call that are there, by name: of two with the same  *)
(* name the later one.                                                     *)
Bindings(params, n) ==
    LET first == Len(pushed) - n
        given == 1 .. IF n < Len(params) THEN n ELSE Len(params)
        Latest(x, k) == params[k].name = x
                        /\ \A j \in given : params[j].name = x => j <= k
    IN  [x \in {params[k].name : k \in given} |->
            pushed[first + CHOOSE k \in given : Latest(x, k)].value]

TacCall ==
    /\ At("CALL")
    /\ LET f == FindFunction(program, Line.sym)
       IN  Frames(IF f = NoNode THEN Sets(frames, Line.dst, IntZero)
                  ELSE Append(frames,
                              Frame(Line.sym, Bindings(Ast[f].params, Line.num),
                                    Line.dst)))
    /\ pushed' = SubSeq(pushed, 1, Len(pushed) - Line.num)
    /\ UNCHANGED printed

Answer == IF Line.args = <<>> THEN IntZero ELSE Operand

TacReturn ==
    /\ At("RETURN") \/ At("END")
    /\ Operands
    /\ IF Len(frames) > 1
       THEN Frames(Sets(Front(frames), Here.dst, Answer))
       ELSE /\ tac' = "done" /\ frames' = <<>>
            /\ tac_exit' = IF Answer.type = "INT" THEN Answer.num ELSE 0
    /\ UNCHANGED <<pushed, printed>>

Machine == /\ \/ Undefined \/ Operate \/ TacPrint \/ Push \/ Branch \/ TacCall
              \/ TacReturn
           /\ UNCHANGED <<genVars, runVars, comparable>>

-----------------------------------------------------------------------------
Init == /\ GenInit /\ Run!Init /\ comparable = TRUE
        /\ tac = "none" /\ frames = <<>> /\ pushed = <<>>
        /\ printed = <<>> /\ tac_exit = 0

Step  == Generate \/ Interpret \/ Start \/ Machine
Ended == /\ \/ status = "crashed"
            \/ status = "done" /\ (tac \in {"done", "crashed", "undefined"}
                                   \/ Run!MainFunction = NoNode)
         /\ UNCHANGED vars
Next  == Step \/ Ended
Spec  == Init /\ [][Next]_vars /\ WF_vars(Step)

-----------------------------------------------------------------------------
(* Properties.                                                             *)

(* Types of the machine's state.                                           *)
TypeOK ==
    /\ Run!TypeOK
    /\ tac \in {"none", "running", "done", "crashed", "undefined"}
    /\ \A k \in DOMAIN frames :
          /\ frames[k].pc \in DOMAIN code
          /\ Range(frames[k].vars) \subseteq Value
    /\ \A k \in DOMAIN pushed : pushed[k].value \in Value
    /\ Range(printed) \subseteq Value /\ tac_exit \in IntMin .. IntMax

Generated == todo = <<>> /\ status = "start"

Labels(k) == {j \in DOMAIN code : code[j].op = "LABEL" /\ code[j].num = code[k].num}

(* Every label is written once in the whole text, and every jump goes to   *)
(* one of its own function, however ifs and loops nest and whichever of an *)
(* if's two labels are needed (codegen.c:153-178).                         *)
JumpsResolve ==
    Generated =>
       \A k \in DOMAIN code : code[k].op \in {"GOTO", "IF_FALSE", "LABEL"} =>
          \E l \in DOMAIN code :
             /\ Labels(k) = {l}
             /\ \A j \in 1 .. Len(code) :
                   code[j].op = "END" => (j < k <=> j < l)

(* A temporary is written by one instruction and read by at most one, that *)
(* comes after it with no jump, label or end in between: so whatever path  *)
(* is taken, what is read was written on that path, and two expressions    *)
(* never share one.  (Names that variables have too are left aside.)       *)
Reads(k) == {code[k].args[j].name : j \in DOMAIN code[k].args}

TempsStraight ==
    Generated /\ ~NameClash =>
       \A k \in DOMAIN code : code[k].op \in Computes =>
          LET t == code[k].dst
              uses == {j \in DOMAIN code : t \in Reads(j)}
          IN  /\ \A j \in DOMAIN code : code[j].dst = t => j = k
              /\ Cardinality(uses) <= 1
              /\ \A u \in uses :
                    /\ k < u
                    /\ \A j \in k .. u - 1 :
                          code[j].op \in Computes \cup {"PARAM"}

(* The PARAMs of nested calls interleave, yet a CALL takes exactly those   *)
(* its own arguments pushed: it finds as many as it takes, pushed by its   *)
(* own activation, and an activation that ends has left none.              *)
ParamsPaired ==
    /\ At("CALL") =>
          /\ Line.num <= Len(pushed)
          /\ \A k \in Len(pushed) - Line.num + 1 .. Len(pushed) :
                pushed[k].depth = Len(frames)
    /\ At("RETURN") \/ At("END") =>
          \A k \in DOMAIN pushed : pushed[k].depth < Len(frames)

(* The code does what the program does: where the interpreter ends a       *)
(* program of the common ground, the machine ends with the same output and *)
(* exit code.                                                              *)
SameOutcome ==
    tac = "running" /\ comparable
        ~> tac = "done" /\ printed = out /\ tac_exit = exit_code
=============================================================================
