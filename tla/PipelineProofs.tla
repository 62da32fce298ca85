--------------------------- MODULE PipelineProofs ---------------------------
(***************************************************************************)
(* `lumis -r' for every program: what the checker establishes when it is   *)
(* alone, and the interpreter when it is, both still establish when one is *)
(* run after the other; and what the one hands over to the other.          *)
(*                                                                         *)
(* Checker and Runner are the modules Check and Run are, together with     *)
(* what is proved of them.  A definition of such a copy is expanded to the *)
(* same formula as that of the original, which is all the lemmas named     *)
(* Same... and the two about steps say.                                    *)
(***************************************************************************)
EXTENDS Pipeline, TLAPS

Checker == INSTANCE SemanticTypedProofs
Runner  == INSTANCE InterpTypedProofs

-----------------------------------------------------------------------------
(* The copies assume what Pipeline assumes.                                *)

LEMMA SameTree ==
  /\ Checker!NoNode = NoNode /\ Checker!Node = Node /\ Checker!AstNode = AstNode
  /\ \A n : Checker!Kind(n) = Kind(n)
  /\ \A n : Checker!WellShaped(n) = WellShaped(n)
<1>1. Checker!NoNode = NoNode /\ Checker!Node = Node
  BY DEF Checker!NoNode, NoNode, Checker!Node, Node
<1>2. Checker!AstNode = AstNode
  BY DEF Checker!AstNode, AstNode, Checker!Node, Node,
         Checker!NodeKind, NodeKind, Checker!StmtKind, StmtKind,
         Checker!ExprKind, ExprKind, Checker!DataType, DataType,
         Checker!BinOp, BinOp, Checker!RelOp, RelOp, Checker!UnaryOp, UnaryOp,
         Checker!NoOp, NoOp, Checker!Param, Param
<1>3. \A n : Checker!Kind(n) = Kind(n)
  BY DEF Kind, Checker!Kind
<1>4. \A n : Checker!WellShaped(n) = WellShaped(n)
  BY DEF Checker!Kind, Kind, Checker!WellShaped, WellShaped,
         Checker!WellCounted, WellCounted, Checker!Children, Children,
         Checker!Child, Child, Checker!ExprChildren, ExprChildren,
         Checker!StmtKind, StmtKind, Checker!ExprKind, ExprKind
<1>. QED  BY <1>1, <1>2, <1>3, <1>4

LEMMA SameSubtree ==
  /\ \A n : Checker!Subtree(n) = Subtree(n) /\ Checker!Parts(n) = Parts(n)
  /\ \A n : Checker!Children(n) = Children(n)
  /\ \A n, i : Checker!Child(n, i) = Child(n, i)
<1>1. \A n : Checker!Subtree(n) = Subtree(n) /\ Checker!Parts(n) = Parts(n)
  BY DEF Subtree, Checker!Subtree, Checker!Parts, Parts, Checker!Children, Children,
         Checker!Child, Child, Checker!Node, Node
<1>2. /\ \A n : Checker!Children(n) = Children(n)
      /\ \A n, i : Checker!Child(n, i) = Child(n, i)
  BY DEF Checker!Children, Children, Checker!Child, Child
<1>. QED  BY <1>1, <1>2

LEMMA SameFinite == \A S : Checker!IsFiniteSet(S) = IsFiniteSet(S)
BY DEF IsFiniteSet, Checker!IsFiniteSet

LEMMA CheckerAssumes ==
  Checker!AstAssumption /\ Checker!TreeAssumption /\ Checker!MaxParamsAssumption
<1>1. Checker!AstAssumption
  BY AstAssumption, SameTree
<1>2. Checker!TreeAssumption
  BY TreeAssumption, SameTree, SameSubtree, SameFinite
<1>3. Checker!MaxParamsAssumption
  BY PipelineAssumption
<1>. QED  BY <1>1, <1>2, <1>3

LEMMA RunSameTree ==
  /\ Runner!NoNode = NoNode /\ Runner!Node = Node /\ Runner!AstNode = AstNode
  /\ \A n : Runner!Kind(n) = Kind(n)
  /\ \A n : Runner!WellShaped(n) = WellShaped(n)
<1>1. Runner!NoNode = NoNode /\ Runner!Node = Node
  BY DEF Runner!NoNode, NoNode, Runner!Node, Node
<1>2. Runner!AstNode = AstNode
  BY DEF Runner!AstNode, AstNode, Runner!Node, Node,
         Runner!NodeKind, NodeKind, Runner!StmtKind, StmtKind,
         Runner!ExprKind, ExprKind, Runner!DataType, DataType,
         Runner!BinOp, BinOp, Runner!RelOp, RelOp, Runner!UnaryOp, UnaryOp,
         Runner!NoOp, NoOp, Runner!Param, Param
<1>3. \A n : Runner!Kind(n) = Kind(n)
  BY DEF Kind, Runner!Kind
<1>4. \A n : Runner!WellShaped(n) = WellShaped(n)
  BY DEF Runner!Kind, Kind, Runner!WellShaped, WellShaped,
         Runner!WellCounted, WellCounted, Runner!Children, Children,
         Runner!Child, Child, Runner!ExprChildren, ExprChildren,
         Runner!StmtKind, StmtKind, Runner!ExprKind, ExprKind
<1>. QED  BY <1>1, <1>2, <1>3, <1>4

LEMMA RunSameSubtree ==
  /\ \A n : Runner!Subtree(n) = Subtree(n) /\ Runner!Parts(n) = Parts(n)
  /\ \A n : Runner!Children(n) = Children(n)
  /\ \A n, i : Runner!Child(n, i) = Child(n, i)
<1>1. \A n : Runner!Subtree(n) = Subtree(n) /\ Runner!Parts(n) = Parts(n)
  BY DEF Subtree, Runner!Subtree, Runner!Parts, Parts, Runner!Children, Children,
         Runner!Child, Child, Runner!Node, Node
<1>2. /\ \A n : Runner!Children(n) = Children(n)
      /\ \A n, i : Runner!Child(n, i) = Child(n, i)
  BY DEF Runner!Children, Children, Runner!Child, Child
<1>. QED  BY <1>1, <1>2

LEMMA RunSameFinite == \A S : Runner!IsFiniteSet(S) = IsFiniteSet(S)
BY DEF IsFiniteSet, Runner!IsFiniteSet

LEMMA RunnerAssumes ==
  /\ Runner!AstAssumption /\ Runner!TreeAssumption
  /\ Runner!ValuesAssumption /\ Runner!EnvAssumption
<1>1. Runner!AstAssumption
  BY AstAssumption, RunSameTree
<1>2. Runner!TreeAssumption
  BY TreeAssumption, RunSameTree, RunSameSubtree, RunSameFinite
<1>3. Runner!ValuesAssumption
  BY ValuesAssumption, RunSameTree DEF IntMin, Runner!IntMin
<1>4. Runner!EnvAssumption
  BY PipelineAssumption
<1>. QED  BY <1>1, <1>2, <1>3, <1>4

-----------------------------------------------------------------------------
(* The two judge every expression alike, and take the same steps.           *)
LEMMA SameJudgement ==
  \A symtab, e : Check!check_expression(symtab, e) = Checker!check_expression(symtab, e)
BY DEF Check!Accepts, Checker!Accepts, Check!AllNotes, Checker!AllNotes,
   Check!Arith, Checker!Arith, Check!BinaryType, Checker!BinaryType,
   Check!CallErrors, Checker!CallErrors,
   Check!Cardinality, Checker!Cardinality, Check!Composed, Checker!Composed,
   Check!Count, Checker!Count, Check!ExprKind, Checker!ExprKind,
   Check!Expression, Checker!Expression,
   Check!FoldFunctionOnSet, Checker!FoldFunctionOnSet,
   Check!JudgeNode, Checker!JudgeNode, Check!Judged, Checker!Judged,
   Check!Kind, Checker!Kind, Check!MapThenFoldSet, Checker!MapThenFoldSet,
   Check!NoSymbol, Checker!NoSymbol, Check!Node, Checker!Node,
   Check!OperandNodes, Checker!OperandNodes, Check!Ordered, Checker!Ordered,
   Check!Over, Checker!Over, Check!Promoted, Checker!Promoted,
   Check!SumFunction, Checker!SumFunction,
   Check!SumFunctionOnSet, Checker!SumFunctionOnSet,
   Check!UnaryType, Checker!UnaryType,
   Check!check_expression, Checker!check_expression,
   Check!symtab_lookup, Checker!symtab_lookup

LEMMA CheckSteps == Check!Step => Checker!Step
<1>. USE DEF Check!Accepts, Checker!Accepts, Check!Advanced, Checker!Advanced,
             Check!Below, Checker!Below,
             Check!Cardinality, Checker!Cardinality,
             Check!Child, Checker!Child, Check!Children, Checker!Children,
             Check!Count, Checker!Count, Check!Current, Checker!Current,
             Check!DeclaredHere, Checker!DeclaredHere,
             Check!EmptyScope, Checker!EmptyScope,
             Check!ExprChildren, Checker!ExprChildren,
             Check!ExprKind, Checker!ExprKind,
             Check!FindFunction, Checker!FindFunction,
             Check!Judge, Checker!Judge, Check!Kind, Checker!Kind,
             Check!NoNode, Checker!NoNode, Check!NoSymbol, Checker!NoSymbol,
             Check!On, Checker!On, Check!Over, Checker!Over,
             Check!ParamNames, Checker!ParamNames,
             Check!ParamScope, Checker!ParamScope,
             Check!ParamTypes, Checker!ParamTypes,
             Check!Parameter, Checker!Parameter,
             Check!Signature, Checker!Signature, Check!Top, Checker!Top,
             Check!Variable, Checker!Variable, Check!Visit, Checker!Visit,
             Check!symtab_enter_scope, Checker!symtab_enter_scope,
             Check!symtab_insert, Checker!symtab_insert,
             Check!symtab_leave_scope, Checker!symtab_leave_scope,
             Check!symtab_lookup, Checker!symtab_lookup
<1>1. Check!Begin => Checker!Begin
  BY DEF Check!Begin, Checker!Begin
<1>2. Check!Finish => Checker!Finish
  BY DEF Check!Finish, Checker!Finish
<1>3. Check!RegisterFunctions => Checker!RegisterFunctions
  BY DEF Check!RegisterFunctions, Checker!RegisterFunctions
<1>4. Check!EnterFunction => Checker!EnterFunction
  BY DEF Check!EnterFunction, Checker!EnterFunction
<1>5. Check!EnterBlock => Checker!EnterBlock
  BY DEF Check!EnterBlock, Checker!EnterBlock
<1>6. Check!TraverseChild => Checker!TraverseChild
  BY DEF Check!TraverseChild, Checker!TraverseChild
<1>7. Check!LeaveScope => Checker!LeaveScope
  BY DEF Check!LeaveScope, Checker!LeaveScope
<1>8. Check!LeaveNode => Checker!LeaveNode
  BY DEF Check!LeaveNode, Checker!LeaveNode
<1>9. Check!CheckCondition => Checker!CheckCondition
  BY SameJudgement DEF Check!CheckCondition, Checker!CheckCondition
<1>10. Check!CheckVarDecl => Checker!CheckVarDecl
  BY SameJudgement DEF Check!CheckVarDecl, Checker!CheckVarDecl
<1>11. Check!CheckAssign => Checker!CheckAssign
  BY SameJudgement DEF Check!CheckAssign, Checker!CheckAssign
<1>12. Check!CheckReturn => Checker!CheckReturn
  BY SameJudgement DEF Check!CheckReturn, Checker!CheckReturn
<1>13. Check!CheckPrint => Checker!CheckPrint
  BY SameJudgement DEF Check!CheckPrint, Checker!CheckPrint
<1>14. Check!SkipExpression => Checker!SkipExpression
  BY DEF Check!SkipExpression, Checker!SkipExpression
<1>. QED
  BY <1>1, <1>2, <1>3, <1>4, <1>5, <1>6, <1>7, <1>8, <1>9, <1>10, <1>11, <1>12, <1>13, <1>14
     DEF Check!Step, Checker!Step

LEMMA SameResults ==
  \A op, l, r : Run!BinaryResults(op, l, r) = Runner!BinaryResults(op, l, r)
<1>1. \A op, isFloat, a, b : Run!Numeric(op, isFloat, a, b) = Runner!Numeric(op, isFloat, a, b)
  BY DEF Run!Abs, Runner!Abs, Run!Bool, Runner!Bool,
   Run!Compare, Runner!Compare, Run!Divided, Runner!Divided,
   Run!Fault, Runner!Fault, Run!IntMin, Runner!IntMin,
   Run!IntZero, Runner!IntZero, Run!Numeric, Runner!Numeric,
   Run!Quot, Runner!Quot, Run!Rem, Runner!Rem, Run!Typed, Runner!Typed,
   Run!Wrap, Runner!Wrap
<1>. QED
  BY <1>1 DEF Run!Abstracted, Runner!Abstracted,
     Run!BinaryResults, Runner!BinaryResults, Run!Bool, Runner!Bool,
     Run!NumericResults, Runner!NumericResults, Run!Nums, Runner!Nums,
     Run!RelOp, Runner!RelOp, Run!Typed, Runner!Typed

LEMMA RunSteps == Run!Step => Runner!Step
<1>. USE DEF Run!Abstracted, Runner!Abstracted, Run!As, Runner!As,
             Run!At, Runner!At, Run!Become, Runner!Become,
             Run!Bool, Runner!Bool, Run!Call, Runner!Call,
             Run!Callee, Runner!Callee, Run!Child, Runner!Child,
             Run!Children, Runner!Children, Run!Condition, Runner!Condition,
             Run!Continue, Runner!Continue, Run!Crash, Runner!Crash,
             Run!Deliver, Runner!Deliver, Run!Eval, Runner!Eval,
             Run!Exec, Runner!Exec, Run!ExprKind, Runner!ExprKind,
             Run!Fault, Runner!Fault, Run!FindFunction, Runner!FindFunction,
             Run!Finish, Runner!Finish, Run!Freed, Runner!Freed,
             Run!FreshEnv, Runner!FreshEnv, Run!HeapFull, Runner!HeapFull,
             Run!Holder, Runner!Holder, Run!IntMin, Runner!IntMin,
             Run!IntZero, Runner!IntZero, Run!Kind, Runner!Kind,
             Run!LeaveLoop, Runner!LeaveLoop, Run!Live, Runner!Live,
             Run!LoopBody, Runner!LoopBody,
             Run!MainFunction, Runner!MainFunction,
             Run!MoreArguments, Runner!MoreArguments,
             Run!NewFrame, Runner!NewFrame, Run!NoNode, Runner!NoNode,
             Run!Nums, Runner!Nums, Run!On, Runner!On, Run!Pop, Runner!Pop,
             Run!Top, Runner!Top, Run!Truths, Runner!Truths,
             Run!Typed, Runner!Typed, Run!UnaryResults, Runner!UnaryResults,
             Run!Unset, Runner!Unset, Run!Wrap, Runner!Wrap,
             Run!env_create, Runner!env_create,
             Run!env_define, Runner!env_define, Run!env_free, Runner!env_free,
             Run!env_get, Runner!env_get, Run!env_set, Runner!env_set,
             Run!vars, Runner!vars
<1>1. Run!NoMain => Runner!NoMain
  BY DEF Run!NoMain, Runner!NoMain
<1>2. Run!StartMain => Runner!StartMain
  BY DEF Run!StartMain, Runner!StartMain
<1>3. Run!MainStatement => Runner!MainStatement
  BY DEF Run!MainStatement, Runner!MainStatement
<1>4. Run!MainDone => Runner!MainDone
  BY DEF Run!MainDone, Runner!MainDone
<1>5. Run!OutOfMemory => Runner!OutOfMemory
  BY DEF Run!OutOfMemory, Runner!OutOfMemory
<1>6. Run!EvalLiteral => Runner!EvalLiteral
  BY DEF Run!EvalLiteral, Runner!EvalLiteral
<1>7. Run!EvalVarRef => Runner!EvalVarRef
  BY DEF Run!EvalVarRef, Runner!EvalVarRef
<1>8. Run!EvalOperand => Runner!EvalOperand
  BY DEF Run!EvalOperand, Runner!EvalOperand
<1>9. Run!AfterUnary => Runner!AfterUnary
  BY DEF Run!AfterUnary, Runner!AfterUnary
<1>10. Run!AfterLeft => Runner!AfterLeft
  BY DEF Run!AfterLeft, Runner!AfterLeft
<1>11. Run!AfterRight => Runner!AfterRight
  BY SameResults DEF Run!AfterRight, Runner!AfterRight
<1>12. Run!EvalUnknownCall => Runner!EvalUnknownCall
  BY DEF Run!EvalUnknownCall, Runner!EvalUnknownCall
<1>13. Run!EvalCall => Runner!EvalCall
  BY DEF Run!EvalCall, Runner!EvalCall
<1>14. Run!EvalArgument => Runner!EvalArgument
  BY DEF Run!EvalArgument, Runner!EvalArgument
<1>15. Run!BindArgument => Runner!BindArgument
  BY DEF Run!BindArgument, Runner!BindArgument
<1>16. Run!EnterBody => Runner!EnterBody
  BY DEF Run!EnterBody, Runner!EnterBody
<1>17. Run!BodyStatement => Runner!BodyStatement
  BY DEF Run!BodyStatement, Runner!BodyStatement
<1>18. Run!LeaveBody => Runner!LeaveBody
  BY DEF Run!LeaveBody, Runner!LeaveBody
<1>19. Run!ExecOperand => Runner!ExecOperand
  BY DEF Run!ExecOperand, Runner!ExecOperand
<1>20. Run!ExecVarDecl => Runner!ExecVarDecl
  BY DEF Run!ExecVarDecl, Runner!ExecVarDecl
<1>21. Run!AfterVarDecl => Runner!AfterVarDecl
  BY DEF Run!AfterVarDecl, Runner!AfterVarDecl
<1>22. Run!AfterAssign => Runner!AfterAssign
  BY DEF Run!AfterAssign, Runner!AfterAssign
<1>23. Run!AfterIf => Runner!AfterIf
  BY DEF Run!AfterIf, Runner!AfterIf
<1>24. Run!AfterPrint => Runner!AfterPrint
  BY DEF Run!AfterPrint, Runner!AfterPrint
<1>25. Run!ExecReturn => Runner!ExecReturn
  BY DEF Run!ExecReturn, Runner!ExecReturn
<1>26. Run!AfterReturn => Runner!AfterReturn
  BY DEF Run!AfterReturn, Runner!AfterReturn
<1>27. Run!ExecCall => Runner!ExecCall
  BY DEF Run!ExecCall, Runner!ExecCall
<1>28. Run!AfterCall => Runner!AfterCall
  BY DEF Run!AfterCall, Runner!AfterCall
<1>29. Run!ExecIgnored => Runner!ExecIgnored
  BY DEF Run!ExecIgnored, Runner!ExecIgnored
<1>30. Run!ExecWhile => Runner!ExecWhile
  BY DEF Run!ExecWhile, Runner!ExecWhile
<1>31. Run!ExecBlock => Runner!ExecBlock
  BY DEF Run!ExecBlock, Runner!ExecBlock
<1>32. Run!ExecFor => Runner!ExecFor
  BY DEF Run!ExecFor, Runner!ExecFor
<1>33. Run!BlockStatement => Runner!BlockStatement
  BY DEF Run!BlockStatement, Runner!BlockStatement
<1>34. Run!LeaveBlock => Runner!LeaveBlock
  BY DEF Run!LeaveBlock, Runner!LeaveBlock
<1>35. Run!LoopTest => Runner!LoopTest
  BY DEF Run!LoopTest, Runner!LoopTest
<1>36. Run!EnterLoopBody => Runner!EnterLoopBody
  BY DEF Run!EnterLoopBody, Runner!EnterLoopBody
<1>37. Run!LoopFails => Runner!LoopFails
  BY DEF Run!LoopFails, Runner!LoopFails
<1>38. Run!LoopReturns => Runner!LoopReturns
  BY DEF Run!LoopReturns, Runner!LoopReturns
<1>39. Run!ForUpdate => Runner!ForUpdate
  BY DEF Run!ForUpdate, Runner!ForUpdate
<1>. QED
  BY <1>1, <1>2, <1>3, <1>4, <1>5, <1>6, <1>7, <1>8, <1>9, <1>10, <1>11, <1>12, <1>13, <1>14, <1>15, <1>16, <1>17, <1>18, <1>19, <1>20, <1>21, <1>22, <1>23, <1>24, <1>25, <1>26, <1>27, <1>28, <1>29, <1>30, <1>31, <1>32, <1>33, <1>34, <1>35, <1>36, <1>37, <1>38, <1>39
     DEF Run!Step, Runner!Step, Run!Evaluate, Runner!Evaluate, Run!Execute, Runner!Execute

-----------------------------------------------------------------------------
(* The copies are what Check and Run are, in what is shared by the two.    *)

LEMMA CheckInit == Check!Init => Checker!Init
BY DEF Check!Init, Checker!Init, Check!symtab_init, Checker!symtab_init,
       Check!EmptyScope, Checker!EmptyScope

LEMMA RunInit == Run!Init => Runner!Init
BY DEF Run!Init, Runner!Init, Run!IntZero, Runner!IntZero, Run!Typed, Runner!Typed,
       Run!Freed, Runner!Freed, Run!Unset, Runner!Unset

LEMMA RunKeepsRoot == Run!Step => root' = root
<1>1. Run!Evaluate => root' = root
  BY DEF Run!Evaluate, Run!EvalLiteral, Run!EvalVarRef, Run!EvalOperand,
     Run!AfterUnary, Run!AfterLeft, Run!AfterRight, Run!EvalUnknownCall,
     Run!EvalCall, Run!EvalArgument, Run!BindArgument, Run!EnterBody,
     Run!BodyStatement, Run!LeaveBody, Run!Crash, Run!Deliver, Run!Continue
<1>2. Run!Execute => root' = root
  BY DEF Run!Execute, Run!ExecOperand, Run!ExecVarDecl, Run!AfterVarDecl,
     Run!AfterAssign, Run!AfterIf, Run!AfterPrint, Run!ExecReturn,
     Run!AfterReturn, Run!ExecCall, Run!AfterCall, Run!ExecIgnored,
     Run!ExecWhile, Run!ExecBlock, Run!ExecFor, Run!BlockStatement,
     Run!LeaveBlock, Run!LoopTest, Run!EnterLoopBody, Run!LoopFails,
     Run!LoopReturns, Run!ForUpdate, Run!Continue, Run!Finish, Run!LeaveLoop
<1>. QED
  BY <1>1, <1>2 DEF Run!Step, Run!NoMain, Run!StartMain, Run!MainStatement,
     Run!MainDone, Run!OutOfMemory, Run!Crash, Run!Continue

(* A step of the process is a step of the checker or leaves its state as   *)
(* it is, and the same for the interpreter.                                *)
LEMMA StepOfEach ==
  ASSUME [Next]_vars
  PROVE  [Checker!Next]_(Checker!vars) /\ [Runner!Next]_(Runner!vars)
<1>1. CASE Checking
  <2>1. Checker!Next
    BY <1>1, CheckSteps DEF Checking, Checker!Next
  <2>2. root' = root
    BY <1>1 DEF Checking, Check!Step, Check!Begin, Check!Finish,
       Check!RegisterFunctions, Check!EnterFunction, Check!EnterBlock,
       Check!TraverseChild, Check!LeaveScope, Check!LeaveNode, Check!CheckCondition,
       Check!CheckVarDecl, Check!CheckAssign, Check!CheckReturn, Check!CheckPrint,
       Check!SkipExpression, Check!Judge
  <2>. QED  BY <1>1, <2>1, <2>2 DEF Checking, runVars, Runner!vars
<1>2. CASE Running
  <2>1. Runner!Next
    BY <1>2, RunSteps DEF Running, Runner!Next
  <2>2. root' = root
    BY <1>2, RunKeepsRoot DEF Running
  <2>. QED  BY <1>2, <2>1, <2>2 DEF Running, checkVars, Checker!vars
<1>3. CASE Reject \/ Exit \/ Done \/ UNCHANGED vars
  BY <1>3 DEF Reject, Exit, Done, vars, checkVars, runVars, Checker!vars, Runner!vars
<1>. QED  BY <1>1, <1>2, <1>3 DEF Next, Step

(* Seen from the checker, the process is the checker; seen from the        *)
(* interpreter, the interpreter.                                           *)
THEOREM RefinesBoth == Spec => Checker!Spec /\ Runner!Spec
<1>1. Init => Checker!Init /\ Runner!Init
  BY CheckInit, RunInit DEF Init
<1>2. [Next]_vars => [Checker!Next]_(Checker!vars) /\ [Runner!Next]_(Runner!vars)
  BY StepOfEach
<1>. QED  BY <1>1, <1>2, PTL DEF Spec, Checker!Spec, Runner!Spec

(* So what is proved of each holds of the process.                         *)
LEMMA BothInvariants ==
  Spec => [](Checker!JudgeInv /\ Runner!TypeInv /\ Runner!EnvInv)
<1>1. Checker!Spec => []Checker!JudgeInv
  BY Checker!JudgeInvariant, CheckerAssumes
<1>2. Runner!Spec => []Runner!TypeInv
  BY Runner!TypeInvariant, RunnerAssumes
<1>3. Runner!Spec => []Runner!EnvInv
  BY Runner!EnvInvariant, RunnerAssumes
<1>. QED  BY <1>1, <1>2, <1>3, RefinesBoth, PTL

-----------------------------------------------------------------------------
(* What is of the process alone: nothing runs before all is checked.       *)
CheckedFirst ==
    /\ exited \in {Alive, Killed} \cup (0 .. 255)
    /\ status # "start" => phase = "checked" /\ error_count = 0

LEMMA StepKeepsCheckedFirst ==
  ASSUME CheckedFirst, Runner!TypeInv, [Next]_vars
  PROVE  CheckedFirst'
<1>1. CASE Checking
  BY <1>1 DEF Checking, CheckedFirst, runVars
<1>2. CASE Running
  BY <1>2 DEF Running, CheckedFirst, checkVars
<1>3. CASE Reject \/ Done \/ UNCHANGED vars
  BY <1>3 DEF Reject, Done, vars, checkVars, runVars, CheckedFirst
<1>4. CASE Exit
  <2>1. exit_code \in Int
    BY RunnerAssumes DEF Runner!TypeInv, Runner!TypeOK, Runner!IntMin, Runner!ValuesAssumption
  <2>2. exit_code % 256 \in 0 .. 255
    BY <2>1
  <2>. QED  BY <1>4, <2>2 DEF Exit, CheckedFirst, checkVars, runVars
<1>. QED  BY <1>1, <1>2, <1>3, <1>4 DEF Next, Step

LEMMA FoundIsNode ==
  ASSUME root \in Roots, NEW name, FindFunction(root, name) # NoNode
  PROVE  FindFunction(root, name) \in Node
<1>. DEFINE hits == {i \in 1 .. Children(root) :
                        /\ Kind(Child(root, i)) = "FUNC_DECL"
                        /\ Ast[Child(root, i)].name = name}
            First(i) == i \in hits /\ \A j \in hits : i <= j
            least == CHOOSE i \in hits : First(i)
<1>1. \E i \in hits : First(i)
  BY DEF FindFunction
<1>2. FindFunction(root, name) = Child(root, least)
  BY <1>1 DEF FindFunction
<1>3. least \in 1 .. Children(root)
  BY <1>1
<1>4. root \in Node /\ Ast[root].children \in Seq(Node)
  BY AstAssumption DEF AstNode
<1>. HIDE DEF least
<1>5. Ast[root].children[least] \in Node
  BY <1>3, <1>4 DEF Children
<1>. QED  BY <1>2, <1>5 DEF Child

LEMMA CheckedFirstInvariant == Spec => []CheckedFirst
<1>1. Init => CheckedFirst
  BY DEF Init, CheckedFirst, Alive, Run!Init
<1>2. CheckedFirst /\ Runner!TypeInv /\ [Next]_vars => CheckedFirst'
  BY StepKeepsCheckedFirst
<1>. QED  BY <1>1, <1>2, BothInvariants, PTL DEF Spec

(* The types of both are kept whatever the other does, the status the      *)
(* shell sees is one, and what runs has been checked to the end and found  *)
(* free of errors (main.c:130-140).                                        *)
THEOREM ProcessTypeCorrect == Spec => []TypeOK
<1>1. Check!TypeOK <=> Checker!TypeOK
  BY DEF Check!DataType, Checker!DataType,
     Check!IsSymbolTable, Checker!IsSymbolTable, Check!Node, Checker!Node,
     Check!SymKind, Checker!SymKind, Check!Symbol, Checker!Symbol,
     Check!TypeOK, Checker!TypeOK
<1>2. Run!TypeOK <=> Runner!TypeOK
  BY DEF Run!DataType, Runner!DataType, Run!Env, Runner!Env,
     Run!Frame, Runner!Frame, Run!FrameKind, Runner!FrameKind,
     Run!IntMin, Runner!IntMin, Run!Node, Runner!Node,
     Run!TypeOK, Runner!TypeOK, Run!Unset, Runner!Unset,
     Run!Value, Runner!Value, Run!vars, Runner!vars
<1>3. CheckedFirst /\ Checker!TypeOK /\ Runner!TypeOK => TypeOK
  BY <1>1, <1>2 DEF TypeOK, CheckedFirst, Check!Accepted
<1>4. Runner!TypeInv => Runner!TypeOK
  BY DEF Runner!TypeInv
<1>5. Checker!Spec => []Checker!TypeOK
  BY Checker!CheckerTypeCorrect, CheckerAssumes
<1>. QED  BY <1>3, <1>4, <1>5, RefinesBoth, BothInvariants, CheckedFirstInvariant, PTL

(* A call the checker has judged finds its function when the interpreter   *)
(* comes to it, and all its parameters are bound, as far as a signature    *)
(* has room for them (semantic.c:103-127, interp.c:229-263).               *)
THEOREM JudgedCallsKept == Spec => []CallsKept
<1>1. Checker!JudgeInv /\ CheckedFirst => CallsKept
  <2>. SUFFICES ASSUME Checker!JudgeInv, CheckedFirst, Live, At("eval"),
                       Kind(Here.n) = "CALL", Judged(Here.n)
                PROVE  LET g == FunctionNamed(Here.n)
                       IN  /\ g # NoNode
                           /\ Len(ParamsOf(g)) <= MaxParams =>
                                 Len(Ast[Here.n].args) = Len(ParamsOf(g))
    BY DEF CallsKept
  <2>. DEFINE g == FunctionNamed(Here.n)
  <2>1. Here.n \in DOMAIN ann /\ error_count = 0
    BY DEF Judged, HasType, Live, CheckedFirst
  <2>2. Checker!CallFits(Here.n)
    BY <2>1 DEF Checker!JudgeInv, Checker!FoundInv, Checker!NotesAreKnown, Checker!Kind, Kind
  <2>3. g = Checker!FindFunction(root, Ast[Here.n].name)
    BY DEF FunctionNamed, Child, Checker!Child, Children, Checker!Children,
       FindFunction, Checker!FindFunction, Kind, Checker!Kind,
       NoNode, Checker!NoNode
  <2>4. g # NoNode /\ Len(Ast[Here.n].args) = Len(Checker!ParamTypes(g))
    BY <2>2, <2>3, SameTree DEF Checker!CallFits
  <2>5. g \in Node
    BY <2>4, FoundIsNode DEF Checker!JudgeInv, Checker!CheckInv, FunctionNamed
  <2>6. ASSUME Len(ParamsOf(g)) <= MaxParams
        PROVE  Len(Checker!ParamTypes(g)) = Len(ParamsOf(g))
    <3>1. Ast[g].params \in Seq(Param)
      BY <2>5, AstAssumption DEF AstNode
    <3>2. Len(Ast[g].params) \in Nat /\ MaxParams \in Nat
      BY <3>1, PipelineAssumption
    <3>. QED  BY <2>6, <3>1, <3>2 DEF Checker!ParamTypes, ParamsOf
  <2>. QED  BY <2>4, <2>6
<1>. QED  BY <1>1, BothInvariants, CheckedFirstInvariant, PTL


-----------------------------------------------------------------------------
(* The typing the checker establishes is the one the interpreter keeps.    *)

LEMMA SameTyping ==
  \A r, notes, seen : Checker!WellTyped(r, notes, seen) <=> Runner!WellTyped(r, notes, seen)
BY DEF Checker!Children, Runner!Children, Checker!Child, Runner!Child,
       Checker!Kind, Runner!Kind, Checker!Node, Runner!Node,
       Checker!Parts, Runner!Parts, Checker!Subtree, Runner!Subtree,
       Checker!ExprChildren, Runner!ExprChildren,
       Checker!FindFunction, Runner!FindFunction, Checker!NoNode, Runner!NoNode,
       Checker!StmtKind, Runner!StmtKind, Checker!RelOp, Runner!RelOp,
       Checker!DataType, Runner!DataType, Checker!ParamsOf, Runner!ParamsOf,
       Checker!Nodes, Runner!Nodes, Checker!FunctionsOf, Runner!FunctionsOf,
       Checker!LooseNames, Runner!LooseNames, Checker!Conforms, Runner!Conforms,
       Checker!HasType, Runner!HasType, Checker!TypeIn, Runner!TypeIn,
       Checker!NoType, Runner!NoType, Checker!VarTypes, Runner!VarTypes,
       Checker!Takes, Runner!Takes, Checker!TypeOfVariable, Runner!TypeOfVariable,
       Checker!SeenAfter, Runner!SeenAfter, Checker!CallTyped, Runner!CallTyped,
       Checker!BinaryTyped, Runner!BinaryTyped, Checker!UnaryTyped, Runner!UnaryTyped,
       Checker!WellTyped, Runner!WellTyped, Checker!FunctionTyped, Runner!FunctionTyped,
       Checker!ParamsSeen, Runner!ParamsSeen, Checker!StmtRule, Runner!StmtRule,
       Checker!ExprTyped, Runner!ExprTyped, Checker!ExprRule, Runner!ExprRule

LEMMA SameGaps ==
  /\ \A r, room : Checker!KeepsClear(r, room) <=> KeepsClear(r, room)
  /\ \A r : Runner!MainTakesNothing(r) <=> MainTakesNothing(r)
  /\ \A r : Runner!FunctionsOf(r) = FunctionsOf(r)
  /\ \A f : Runner!AlwaysReturns(f) <=> AlwaysReturns(f)
  /\ \A f : Runner!LooseAreInts(f) <=> LooseAreInts(f)
  /\ \A f : Runner!LooseNames(f) = LooseNames(f)
  /\ \A f : Runner!CallStatements(f) = CallStatements(f)
  /\ \A n : Runner!SoundCall(n, Runner!Callee(n)) <=>
               SoundCall(n, FindFunction(root, Ast[n].name))
<1>1. \A r, room : Checker!KeepsClear(r, room) <=> KeepsClear(r, room)
  BY DEF Checker!KeepsClear, KeepsClear, Checker!MainTakesNothing, MainTakesNothing,
         Checker!FunctionsOf, FunctionsOf, Checker!AlwaysReturns, AlwaysReturns,
         Checker!Stops, Stops, Checker!LooseAreInts, LooseAreInts,
         Checker!LooseNames, LooseNames, Checker!NoSelfInit, NoSelfInit,
         Checker!AssignsVariables, AssignsVariables,
         Checker!CallStatements, CallStatements, Checker!SoundCall, SoundCall,
         Checker!Nodes, Nodes, Checker!ParamsOf, ParamsOf,
         Checker!FindFunction, FindFunction, Checker!NoNode, NoNode,
         Checker!Children, Children, Checker!Child, Child, Checker!Kind, Kind,
         Checker!Node, Node, Checker!Parts, Parts, Checker!Subtree, Subtree,
         Checker!ExprChildren, ExprChildren, Checker!StmtKind, StmtKind
<1>. USE DEF Runner!ParamsOf, ParamsOf, Runner!Nodes, Nodes,
             Runner!FindFunction, FindFunction, Runner!NoNode, NoNode,
             Runner!Children, Children, Runner!Child, Child, Runner!Kind, Kind,
             Runner!Node, Node, Runner!Parts, Parts, Runner!Subtree, Subtree,
             Runner!ExprChildren, ExprChildren, Runner!StmtKind, StmtKind,
             Runner!LooseNames, LooseNames
<1>2. /\ \A r : Runner!MainTakesNothing(r) <=> MainTakesNothing(r)
      /\ \A r : Runner!FunctionsOf(r) = FunctionsOf(r)
  BY DEF Runner!MainTakesNothing, MainTakesNothing, Runner!FunctionsOf, FunctionsOf
<1>3. \A f : Runner!AlwaysReturns(f) <=> AlwaysReturns(f)
  BY DEF Runner!AlwaysReturns, AlwaysReturns, Runner!Stops, Stops
<1>4. \A f : Runner!LooseAreInts(f) <=> LooseAreInts(f)
  BY DEF Runner!LooseAreInts, LooseAreInts
<1>5. \A f : Runner!LooseNames(f) = LooseNames(f)
  OBVIOUS
<1>6. \A f : Runner!CallStatements(f) = CallStatements(f)
  BY DEF Runner!CallStatements, CallStatements
<1>7. \A n : Runner!SoundCall(n, Runner!Callee(n)) <=>
                SoundCall(n, FindFunction(root, Ast[n].name))
  BY DEF Runner!SoundCall, SoundCall, Runner!Callee
<1>. QED  BY <1>1, <1>2, <1>3, <1>4, <1>5, <1>6, <1>7

(* Whatever notes and seen are, a run that begins with them fitting the    *)
(* program keeps to them.                                                  *)
AllTyped == \A notes, seen : Runner!TypedRun(notes, seen)

LEMMA StepKeepsTyped ==
  ASSUME Runner!TypeInv, Runner!RetInv, Runner!EnvInv, AllTyped, [Runner!Next]_(Runner!vars)
  PROVE  AllTyped'
<1>1. ASSUME NEW notes, NEW seen PROVE Runner!TypedRun(notes, seen)'
  <2>1. Runner!TypedRun(notes, seen)
    BY DEF AllTyped
  <2>. QED  BY <2>1, Runner!TypedSteps, RunnerAssumes
<1>. QED  BY <1>1 DEF AllTyped

LEMMA AllTypedInvariant == Spec => []AllTyped
<1>1. Init => AllTyped
  BY DEF Init, Run!Init, AllTyped, Runner!TypedRun, Runner!Running
<1>2. Runner!TypeInv /\ Runner!RetInv /\ Runner!EnvInv /\ AllTyped
      /\ [Runner!Next]_(Runner!vars) => AllTyped'
  BY StepKeepsTyped
<1>3. [Next]_vars => [Runner!Next]_(Runner!vars)
  BY StepOfEach
<1>4. Runner!Spec => [](Runner!TypeInv /\ Runner!RetInv)
  BY Runner!ReturnsInvariant, RunnerAssumes
<1>. QED  BY <1>1, <1>2, <1>3, <1>4, RefinesBoth, BothInvariants, PTL DEF Spec

(* What is run is what the checker has accepted: in a disciplined program  *)
(* its notes are a typing of the run.                                      *)
Settled ==
    Live /\ Disciplined => \E seen, S : Runner!Setting(ann, seen, S)

LEMMA AcceptedIsSettled ==
  ASSUME Checker!JudgeInv, Checker!AcceptedIsTyped, CheckedFirst, AllTyped,
         Runner!TypeInv, Runner!RetInv, Runner!EnvInv
  PROVE  Settled
<1>. SUFFICES ASSUME Live, Disciplined
              PROVE  \E seen, S : Runner!Setting(ann, seen, S)
  BY DEF Settled
<1>1. /\ phase = "checked" /\ error_count = 0 /\ KeepsClear(root, MaxParams)
      /\ root \in Roots
  BY DEF Live, CheckedFirst, Disciplined, Checker!JudgeInv, Checker!CheckInv
<1>2. PICK seen : Checker!WellTyped(root, ann, seen)
  BY <1>1, SameGaps DEF Checker!AcceptedIsTyped, Checker!Accepted
<1>3. Runner!WellTyped(root, ann, seen)
  BY <1>2, SameTyping
<1>4. \A n \in DOMAIN ann : ann[n] \in Runner!DataType \ {"VOID"}
  <2>1. \A n \in DOMAIN ann : ann[n] \in Checker!DataType
    BY DEF Checker!JudgeInv, Checker!FoundInv, Checker!Notes
  <2>2. Checker!DataType = Runner!DataType
    BY DEF Checker!DataType, Runner!DataType
  <2>. QED  BY <2>1, <2>2 DEF Disciplined
<1>5. /\ MainTakesNothing(root)
      /\ \A f \in FunctionsOf(root) :
            /\ AlwaysReturns(f) /\ LooseAreInts(f)
            /\ \A n \in CallStatements(f) : SoundCall(n, FindFunction(root, Ast[n].name))
  BY <1>1 DEF KeepsClear
<1>6. Runner!Agreed(ann, seen)
  BY <1>1, <1>3, <1>4, <1>5, SameGaps DEF Runner!Agreed
<1>7. Runner!Running
  BY DEF Live, Runner!Running
<1>8. PICK S \in [EnvId -> Runner!Desc] : Runner!RunTyped(ann, seen, S)
  BY <1>6, <1>7 DEF AllTyped, Runner!TypedRun
<1>9. Runner!Setting(ann, seen, S)
  BY <1>6, <1>7, <1>8 DEF Runner!Setting
<1>. QED  BY <1>9

LEMMA SettledInvariant == Spec => []Settled
<1>1. Checker!JudgeInv /\ Checker!AcceptedIsTyped /\ CheckedFirst /\ AllTyped
      /\ Runner!TypeInv /\ Runner!RetInv /\ Runner!EnvInv => Settled
  BY AcceptedIsSettled
<1>2. Checker!Spec => []Checker!AcceptedIsTyped
  BY Checker!AcceptedAreTyped, CheckerAssumes
<1>3. Runner!Spec => [](Runner!TypeInv /\ Runner!RetInv)
  BY Runner!ReturnsInvariant, RunnerAssumes
<1>. QED  BY <1>1, <1>2, <1>3, RefinesBoth, BothInvariants, CheckedFirstInvariant,
             AllTypedInvariant, PTL

-----------------------------------------------------------------------------
(* What the properties say of the process, the copy says of the run.       *)
LEMMA SameRun ==
  /\ Here = Runner!Top
  /\ Runner!Here = FunctionOf(Len(ctl))
  /\ \A f : Runner!LooseNames(f) = LooseNames(f)
  /\ \A e, x : Run!Holder(e, x) = Runner!Holder(e, x)
  /\ \A t : Run!Owned(t) = Runner!Owned(t)
  /\ \A n : FunctionNamed(n) = Runner!Callee(n) /\ Runner!ParamsOf(n) = ParamsOf(n)
  /\ \A a, b : Runner!Conforms(a, b) <=> Conforms(a, b)
  /\ \A n : Runner!Kind(n) = Kind(n) /\ Runner!TypeIn(ann, n) = TypeOf(n)
  /\ Awaited = Runner!Child(Runner!Top.n, Runner!AwaitedIndex(Runner!Top))
  /\ \A f, kinds : Runner!Nodes(f, kinds) = Nodes(f, kinds)
<1>1. Here = Runner!Top
  BY DEF Here, Runner!Top
<1>2. Runner!Here = FunctionOf(Len(ctl))
  BY DEF Runner!Here, Runner!FunctionAt, FunctionOf, Runner!MainFunction, Runner!Callee,
         Runner!FindFunction, FindFunction, Runner!Children, Children, Runner!Child, Child,
         Runner!Kind, Kind, Runner!NoNode, NoNode
<1>3. \A f : Runner!LooseNames(f) = LooseNames(f)
  BY SameGaps
<1>4. /\ \A e, x : Run!Holder(e, x) = Runner!Holder(e, x)
      /\ \A t : Run!Owned(t) = Runner!Owned(t)
  BY DEF Run!Holder, Runner!Holder, Run!Unset, Runner!Unset, Run!Owned, Runner!Owned,
         Run!Kind, Runner!Kind
<1>5. \A n : FunctionNamed(n) = Runner!Callee(n) /\ Runner!ParamsOf(n) = ParamsOf(n)
  BY DEF FunctionNamed, Runner!Callee, Runner!ParamsOf, ParamsOf,
         Runner!FindFunction, FindFunction, Runner!Children, Children, Runner!Child, Child,
         Runner!Kind, Kind, Runner!NoNode, NoNode
<1>6. /\ \A a, b : Runner!Conforms(a, b) <=> Conforms(a, b)
      /\ \A n : Runner!Kind(n) = Kind(n) /\ Runner!TypeIn(ann, n) = TypeOf(n)
  BY DEF Runner!Conforms, Conforms, Runner!Kind, Kind, Runner!TypeIn, TypeOf, TypeIn
<1>7. Awaited = Runner!Child(Runner!Top.n, Runner!AwaitedIndex(Runner!Top))
  BY DEF Awaited, Here, Runner!Top, Runner!AwaitedIndex, Child, Runner!Child, Kind, Runner!Kind
<1>8. \A f, kinds : Runner!Nodes(f, kinds) = Nodes(f, kinds)
  BY DEF Runner!Nodes, Nodes, Runner!Subtree, Subtree, Runner!Parts, Parts,
         Runner!Children, Children, Runner!Child, Child, Runner!Node, Node,
         Runner!Kind, Kind
<1>. QED  BY <1>1, <1>2, <1>3, <1>4, <1>5, <1>6, <1>7, <1>8

(* A variable an accepted program reads or assigns has a slot, unless a    *)
(* for head or an unbraced branch declares it: the interpreter finds it    *)
(* where the checker did (symtab.c:85-105, interp.c:76-94).                *)
THEOREM VariablesAreBound == Spec => []OnlyLooseUnbound
<1>1. Settled => OnlyLooseUnbound
  <2>. SUFFICES ASSUME Settled, Live, Disciplined, NEW name \in VarName, Uses(name), ~Bound(name)
                PROVE  name \in LooseNames(FunctionOf(Len(ctl)))
    BY DEF OnlyLooseUnbound
  <2>1. PICK seen, S : Runner!Setting(ann, seen, S)
    BY DEF Settled
  <2>2. /\ \/ Runner!Top.k = "eval" /\ Runner!Kind(Runner!Top.n) = "VAR_REF"
           \/ Runner!Top.k = "after" /\ Runner!Kind(Runner!Top.n) = "ASSIGN"
        /\ Ast[Runner!Top.n].name = name
    BY SameRun DEF Uses, At
  <2>3. Runner!Holder(Runner!Top.e, name) = NoEnv
    BY SameRun DEF Bound
  <2>4. name \in Runner!LooseNames(Runner!Here)
    BY <2>1, <2>2, <2>3, Runner!UseBound, RunnerAssumes
  <2>. QED  BY <2>4, SameRun
<1>. QED  BY <1>1, SettledInvariant, PTL

(* A value that arrives where the checker has judged an expression, or for *)
(* a parameter, is of the type judged or declared, or an int for a float   *)
(* (semantic.c:30-60, interp.c:118-215).                                   *)
THEOREM TypesAreKept == Spec => []TypesKept
<1>1. Settled => TypesKept
  <2>. SUFFICES ASSUME Settled, Disciplined PROVE AsJudged
    BY DEF TypesKept
  <2>1. ASSUME Live PROVE \E seen, S : Runner!Setting(ann, seen, S)
    BY <2>1 DEF Settled
  <2>2. ASSUME At("after"), Kind(Here.n) # "CALL"
        PROVE  Conforms(val.type, TypeOf(Awaited))
    <3>1. PICK seen, S : Runner!Setting(ann, seen, S)
      BY <2>1, <2>2 DEF At
    <3>2. Runner!Top.k = "after" /\ Runner!Kind(Runner!Top.n) # "CALL"
      BY <2>2, SameRun DEF At
    <3>3. Runner!Conforms(val.type, Runner!TypeIn(ann,
             Runner!Child(Runner!Top.n, Runner!AwaitedIndex(Runner!Top))))
      BY <3>1, <3>2, Runner!ArrivesTyped, RunnerAssumes
    <3>. QED  BY <3>3, SameRun
  <2>3. ASSUME At("bind")
        PROVE  Conforms(val.type, ParamsOf(FunctionNamed(Here.n))[Here.i].type)
    <3>1. PICK seen, S : Runner!Setting(ann, seen, S)
      BY <2>1, <2>3 DEF At
    <3>2. Runner!Top.k = "bind"
      BY <2>3, SameRun DEF At
    <3>3. Runner!Conforms(val.type,
             Runner!ParamsOf(Runner!Callee(Runner!Top.n))[Runner!Top.i].type)
      BY <3>1, <3>2, Runner!ArrivesTyped, RunnerAssumes
    <3>. QED  BY <3>3, SameRun
  <2>. QED  BY <2>2, <2>3 DEF AsJudged
<1>. QED  BY <1>1, SettledInvariant, PTL

(* Whenever control is in the activation that owns an environment, every   *)
(* slot there holds a value of a type declared for it, or an int in a      *)
(* float's (interp.c:50-94).                                               *)
THEOREM SlotsAreKept == Spec => []SlotsKept
<1>1. Settled => SlotsKept
  <2>. SUFFICES ASSUME Settled, Live, Disciplined, Run!Owned(Here) # NoEnv,
                       NEW name \in VarName
                PROVE  SlotAsDeclared(name)
    BY DEF SlotsKept
  <2>. DEFINE slot == envs[Run!Owned(Here)].vars[name]
  <2>. SUFFICES ASSUME slot # Run!Unset, name \notin LooseNames(FunctionOf(Len(ctl)))
                PROVE  \E type \in DeclaredTypes(Here, name) : Conforms(slot.type, type)
    BY DEF SlotAsDeclared
  <2>1. PICK seen, S : Runner!Setting(ann, seen, S)
    BY DEF Settled
  <2>2. /\ Runner!Owned(Runner!Top) # NoEnv
        /\ name \in VarName \ Runner!LooseNames(Runner!Here)
        /\ envs[Runner!Owned(Runner!Top)].vars[name] = slot
        /\ slot # Runner!Unset
    BY SameRun DEF Run!Unset, Runner!Unset
  <2>3. LET type == envs[Runner!Owned(Runner!Top)].vars[name].type
        IN  IF Runner!Top.k \in Runner!Callers
            THEN \E j \in 1 .. Len(Runner!ParamsOf(Runner!Callee(Runner!Top.n))) :
                    /\ Runner!ParamsOf(Runner!Callee(Runner!Top.n))[j].name = name
                    /\ Runner!Conforms(type, Runner!ParamsOf(Runner!Callee(Runner!Top.n))[j].type)
            ELSE \E m \in Runner!Nodes(Runner!Top.n, {"VAR_DECL"}) :
                    Ast[m].name = name /\ Runner!Conforms(type, Ast[m].type)
    BY <2>1, <2>2, Runner!SlotsTyped, RunnerAssumes
  <2>. HIDE DEF slot
  <2>4. IF Here.k \in {"args", "bind", "body"}
        THEN \E j \in 1 .. Len(ParamsOf(FunctionNamed(Here.n))) :
                /\ ParamsOf(FunctionNamed(Here.n))[j].name = name
                /\ Conforms(slot.type, ParamsOf(FunctionNamed(Here.n))[j].type)
        ELSE \E m \in Nodes(Here.n, {"VAR_DECL"}) :
                Ast[m].name = name /\ Conforms(slot.type, Ast[m].type)
    BY <2>2, <2>3, SameRun DEF Runner!Callers
  <2>. QED  BY <2>4 DEF DeclaredTypes
<1>. QED  BY <1>1, SettledInvariant, PTL
====
