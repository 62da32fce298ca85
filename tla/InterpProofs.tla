---------------------------- MODULE InterpProofs ----------------------------
(***************************************************************************)
(* What holds of the interpreter for every program and every heap of       *)
(* environments: its types, the nesting of the C call stack, the           *)
(* discipline of returning and return_val, and the life of environments;   *)
(* and that it implements LumisCalls: each step of it is a step of         *)
(* LumisCalls or changes nothing LumisCalls sees.                          *)
(***************************************************************************)
EXTENDS InterpCalls, SequenceTheorems, TLAPS

(* An activation that calls a function knows the function and its Env.     *)
CallFrame(t) == t.k \in {"args", "bind", "body"} =>
                   t.f \in EnvId /\ Callee(t.n) # NoNode

StackOK(stack) ==
    /\ stack \in Seq(Frame)
    /\ WellNested(stack)
    /\ \A i \in 1 .. Len(stack) : CallFrame(stack[i])

(* Before main starts nothing is allocated and nothing returned.           *)
CleanStart == status = "start" =>
    /\ \A e \in EnvId : ~Live(e)
    /\ ~returning /\ return_val = IntZero

(* The inductive strengthening of TypeOK and StackWellNested.              *)
TypeInv == TypeOK /\ CleanStart /\ (Running => StackOK(ctl))

-----------------------------------------------------------------------------
(* Values.                                                                 *)

LEMMA WrapInRange == \A i \in Int : Wrap(i) \in IntMin .. IntMax
<1>. SUFFICES ASSUME NEW i \in Int PROVE Wrap(i) \in IntMin .. IntMax
  OBVIOUS
<1>. DEFINE m == IntMax - IntMin + 1
            r == (i - IntMin) % m
<1>1. IntMax \in Nat /\ IntMin \in Int /\ m \in Nat \ {0}
  BY ValuesAssumption DEF IntMin
<1>2. r \in 0 .. m - 1
  BY <1>1, SMT
<1>3. IntMin + r \in IntMin .. IntMax
  BY <1>1, <1>2, SMT
<1>. QED  BY <1>3 DEF Wrap

LEMMA IntZeroIsValue == IntZero \in Value
BY ValuesAssumption DEF IntZero, Typed, Value, DataType, IntMin

LEMMA BoolIsValue == \A b \in BOOLEAN : Bool(b) \in Value
BY ValuesAssumption DEF Bool, Typed, Value, DataType, IntMin

LEMMA NumsInRange == \A v \in Value : Nums(v) \subseteq IntMin .. IntMax
BY ValuesAssumption DEF Nums, Value

LEMMA QuotIsInt ==
  \A i, j \in Int : j # 0 => Quot(i, j) \in Int /\ Rem(i, j) \in Int
<1>. SUFFICES ASSUME NEW i \in Int, NEW j \in Int, j # 0
              PROVE  Quot(i, j) \in Int /\ Rem(i, j) \in Int
  OBVIOUS
<1>1. Abs(i) \in Int /\ Abs(j) \in Nat \ {0}
  BY DEF Abs
<1>2. Abs(i) \div Abs(j) \in Int
  BY <1>1, SMT
<1>3. Quot(i, j) \in Int
  BY <1>2 DEF Quot
<1>. QED  BY <1>3 DEF Rem

LEMMA NumericIsValue ==
  \A op, fl : \A i, j \in IntMin .. IntMax :
     Numeric(op, fl, i, j) \in Value \cup {Fault}
<1>. SUFFICES ASSUME NEW op, NEW fl, NEW i \in IntMin .. IntMax,
                     NEW j \in IntMin .. IntMax
              PROVE  Numeric(op, fl, i, j) \in Value \cup {Fault}
  OBVIOUS
<1>1. i \in Int /\ j \in Int
  BY ValuesAssumption DEF IntMin
<1>2. \A w \in Int : Typed("INT", Wrap(w)) \in Value
  BY WrapInRange DEF Typed, Value, DataType
<1>3. Typed("FLOAT", 0) \in Value
  BY ValuesAssumption DEF Typed, Value, DataType, IntMin
<1>4. ASSUME NEW q, j # 0 => q \in Int
      PROVE  Divided(i, j, q) \in Value \cup {Fault}
  BY <1>1, <1>2, <1>4, IntZeroIsValue DEF Divided
<1>5. /\ Divided(i, j, Quot(i, j)) \in Value \cup {Fault}
      /\ Divided(i, j, Rem(i, j)) \in Value \cup {Fault}
  BY <1>1, <1>4, QuotIsInt
<1>6. Bool(Compare(op, i, j)) \in Value
  <2>1. Compare(op, i, j) \in BOOLEAN
    BY <1>1 DEF Compare
  <2>. QED  BY <2>1, BoolIsValue
<1>7. i + j \in Int /\ i - j \in Int /\ i * j \in Int
  BY <1>1
<1>. QED  BY <1>2, <1>3, <1>5, <1>6, <1>7 DEF Numeric

LEMMA BinaryIsValue ==
  ASSUME NEW op, NEW l \in Value, NEW r \in Value, NEW res \in BinaryResults(op, l, r)
  PROVE  res \in Value \cup {Fault}
<1>1. Typed("STRING", 0) \in Value
  BY ValuesAssumption DEF Typed, Value, DataType, IntMin
<1>2. Bool(TRUE) \in Value /\ Bool(FALSE) \in Value
  BY BoolIsValue
<1>3. \A fl : \A i \in Nums(l), j \in Nums(r) :
         Numeric(op, fl, i, j) \in Value \cup {Fault}
  BY NumericIsValue, NumsInRange
<1>. DEFINE hasString == "STRING" \in {l.type, r.type}
<1>4. CASE hasString /\ op = "ADD"
  BY <1>1, <1>4 DEF BinaryResults
<1>5. CASE hasString /\ op # "ADD" /\ op \in RelOp
  <2>1. BinaryResults(op, l, r) = {Bool(TRUE), Bool(FALSE)}
    BY <1>5 DEF BinaryResults
  <2>. QED  BY <2>1, <1>2
<1>6. CASE ~hasString \/ (op # "ADD" /\ op \notin RelOp)
  <2>1. BinaryResults(op, l, r) = NumericResults(op, l, r)
    BY <1>6 DEF BinaryResults
  <2>2. \A w \in NumericResults(op, l, r) : w \in Value \cup {Fault}
    BY <1>3 DEF NumericResults
  <2>. QED  BY <2>1, <2>2
<1>. QED  BY <1>4, <1>5, <1>6

LEMMA UnaryIsValue ==
  ASSUME NEW op, NEW v \in Value, NEW res \in UnaryResults(op, v)
  PROVE  res \in Value \cup {Fault}
<1>1. \A i : Bool(i = 0) \in Value
  BY BoolIsValue
<1>2. Typed(v.type, Wrap(-v.num)) \in Value
  <2>1. v.num \in Int /\ v.type \in DataType
    BY ValuesAssumption DEF Value, IntMin
  <2>2. Wrap(-v.num) \in IntMin .. IntMax
    BY <2>1, WrapInRange
  <2>. QED  BY <2>1, <2>2 DEF Typed, Value
<1>. QED  BY <1>1, <1>2 DEF UnaryResults

LEMMA LiteralIsValue ==
  ASSUME NEW n \in Node
  PROVE  Typed(Ast[n].type, Ast[n].num) \in Value /\ Typed(Ast[n].type, 0) \in Value
<1>1. Ast[n].type \in DataType
  BY AstAssumption DEF AstNode
<1>2. Ast[n].num \in IntMin .. IntMax /\ 0 \in IntMin .. IntMax
  BY ValuesAssumption DEF IntMin
<1>. QED  BY <1>1, <1>2 DEF Typed, Value

-----------------------------------------------------------------------------
(* The tree.                                                               *)

LEMMA ChildIsNode ==
  ASSUME NEW n \in Node, NEW i \in 1 .. Children(n)
  PROVE  Child(n, i) \in Node
BY AstAssumption DEF AstNode, Child, Children

LEMMA ArgumentIsNode ==
  ASSUME NEW n \in Node, NEW i \in 1 .. Len(Ast[n].args)
  PROVE  Ast[n].args[i] \in Node
BY AstAssumption DEF AstNode

LEMMA ChildCount ==
  ASSUME NEW n \in Node
  PROVE  /\ Children(n) \in Nat
         /\ Kind(n) \in {"UNARY_OP", "BINARY_OP", "ASSIGN", "IF", "PRINT",
                         "WHILE", "FOR"} => Children(n) >= 1
         /\ Kind(n) \in {"BINARY_OP", "IF", "WHILE", "FOR"} => Children(n) >= 2
         /\ Kind(n) = "IF" /\ Children(n) > 2 => Children(n) = 3
         /\ Kind(n) = "FOR" => Children(n) = 4
<1>1. Ast[n].children \in Seq(Node) /\ WellCounted(Kind(n), Children(n))
  BY AstAssumption DEF AstNode, WellShaped
<1>2. Children(n) \in Nat
  BY <1>1 DEF Children
<1>. QED  BY <1>1, <1>2 DEF WellCounted

LEMMA FunctionIsNode ==
  ASSUME NEW r \in Node, NEW name, FindFunction(r, name) # NoNode
  PROVE  FindFunction(r, name) \in Node
<1>. DEFINE hits == {i \in 1 .. Children(r) :
                       /\ Kind(Child(r, i)) = "FUNC_DECL"
                       /\ Ast[Child(r, i)].name = name}
            First(i) == i \in hits /\ \A j \in hits : i <= j
            least == CHOOSE i \in hits : First(i)
<1>1. FindFunction(r, name) = IF \E i \in hits : First(i)
                              THEN Child(r, least) ELSE NoNode
  BY DEF FindFunction
<1>2. (\E i \in hits : First(i)) => least \in hits
  OBVIOUS
<1>3. least \in hits => Child(r, least) \in Node
  BY ChildIsNode
<1>. QED  BY <1>1, <1>2, <1>3

-----------------------------------------------------------------------------
(* The three things a step does to the stack.                              *)

LEMMA TopIsFrame ==
  ASSUME ctl \in Seq(Frame), ctl # <<>>
  PROVE  /\ Len(ctl) \in Nat \ {0}
         /\ Top = ctl[Len(ctl)] /\ Top \in Frame
BY DEF Top

LEMMA PopStack ==
  ASSUME ctl \in Seq(Frame), ctl # <<>>
  PROVE  /\ Pop \in Seq(Frame)
         /\ Len(Pop) = Len(ctl) - 1
         /\ \A i \in 1 .. Len(ctl) - 1 : Pop[i] = ctl[i]
<1>1. Len(ctl) \in Nat \ {0}
  OBVIOUS
<1>2. /\ Pop \in Seq(Frame)
      /\ Len(Pop) = Len(ctl) - 1
      /\ \A i \in 1 .. (Len(ctl) - 1) - 1 + 1 : Pop[i] = ctl[1 + i - 1]
  <2>1. \A i \in 1 .. Len(ctl) - 1 : ctl[i] \in Frame
    BY <1>1, ElementOfSeq
  <2>2. 1 \in Int /\ Len(ctl) - 1 \in Int
    BY <1>1
  <2>3. /\ Pop \in Seq(Frame)
        /\ Len(Pop) = IF 1 <= Len(ctl) - 1 THEN (Len(ctl) - 1) - 1 + 1 ELSE 0
        /\ \A i \in 1 .. (Len(ctl) - 1) - 1 + 1 : Pop[i] = ctl[1 + i - 1]
    BY ONLY <2>1, <2>2, SubSeqProperties DEF Pop
  <2>4. \A m \in Nat \ {0} : (IF 1 <= m - 1 THEN (m - 1) - 1 + 1 ELSE 0) = m - 1
    OBVIOUS
  <2>5. Len(Pop) = Len(ctl) - 1
    BY <1>1, <2>3, <2>4, Zenon
  <2>. QED  BY <2>3, <2>5
<1>3. \A i \in 1 .. Len(ctl) - 1 : 1 + i - 1 = i /\ i \in 1 .. (Len(ctl) - 1) - 1 + 1
  BY <1>1
<1>. QED  BY <1>1, <1>2, <1>3

LEMMA BecomeStack ==
  ASSUME ctl \in Seq(Frame), ctl # <<>>, NEW f \in Frame
  PROVE  /\ Become(f) \in Seq(Frame)
         /\ Len(Become(f)) = Len(ctl) /\ Become(f) # <<>>
         /\ Become(f)[Len(ctl)] = f
         /\ \A i \in 1 .. Len(ctl) - 1 : Become(f)[i] = ctl[i]
<1>1. Len(ctl) \in Nat \ {0}
  OBVIOUS
<1>2. /\ Become(f) \in Seq(Frame) /\ Len(Become(f)) = Len(ctl)
      /\ \A j \in 1 .. Len(ctl) :
            Become(f)[j] = IF j = Len(ctl) THEN f ELSE ctl[j]
  <2>1. Len(ctl) \in 1 .. Len(ctl)
    BY <1>1
  <2>. QED  BY ONLY ctl \in Seq(Frame), f \in Frame, <2>1, ExceptSeq DEF Become
<1>3. \A i \in 1 .. Len(ctl) - 1 : i \in 1 .. Len(ctl) /\ i # Len(ctl)
  BY <1>1
<1>4. Become(f) # <<>>
  BY <1>1, <1>2
<1>. QED  BY <1>1, <1>2, <1>3, <1>4

LEMMA CallStack ==
  ASSUME ctl \in Seq(Frame), ctl # <<>>, NEW f \in Frame, NEW g \in Frame
  PROVE  /\ Call(f, g) \in Seq(Frame)
         /\ Len(Call(f, g)) = Len(ctl) + 1 /\ Call(f, g) # <<>>
         /\ Call(f, g)[Len(ctl) + 1] = g
         /\ Call(f, g)[Len(ctl)] = f
         /\ \A i \in 1 .. Len(ctl) - 1 : Call(f, g)[i] = ctl[i]
<1>1. /\ Become(f) \in Seq(Frame) /\ Len(Become(f)) = Len(ctl)
      /\ Len(ctl) \in Nat \ {0}
      /\ Become(f)[Len(ctl)] = f
      /\ \A i \in 1 .. Len(ctl) - 1 : Become(f)[i] = ctl[i]
  BY BecomeStack
<1>. QED  BY <1>1, AppendProperties DEF Call

LEMMA NewFrameIsFrame ==
  ASSUME NEW k \in FrameKind, NEW n \in Node, NEW e \in EnvId
  PROVE  NewFrame(k, n, e) \in Frame
BY IntZeroIsValue DEF NewFrame, Frame

-----------------------------------------------------------------------------
(* Environments.                                                           *)

LEMMA FreedIsEnv == Freed \in Env
BY DEF Freed, Env

LEMMA FreshIsFree ==
  ASSUME ~HeapFull
  PROVE  FreshEnv \in EnvId /\ ~Live(FreshEnv)
BY DEF HeapFull, FreshEnv

LEMMA CreateIsEnv ==
  ASSUME envs \in [EnvId -> Env], ~HeapFull, NEW p \in EnvId \cup {NoEnv}
  PROVE  env_create(p) \in [EnvId -> Env]
<1>. DEFINE up == IF p = NoEnv THEN <<>> ELSE envs[p].chain
            new == [vars |-> [x \in VarName |-> Unset],
                    chain |-> <<FreshEnv>> \o up]
<1>1. FreshEnv \in EnvId
  BY FreshIsFree
<1>2. up \in Seq(EnvId)
  BY DEF Env
<1>3. <<FreshEnv>> \o up \in Seq(EnvId)
  BY <1>1, <1>2, ConcatProperties
<1>4. new \in Env
  BY <1>3 DEF Env
<1>5. env_create(p) = [envs EXCEPT ![FreshEnv] = new]
  BY DEF env_create
<1>. QED  BY <1>4, <1>5

LEMMA FreeIsEnv ==
  ASSUME envs \in [EnvId -> Env], NEW e
  PROVE  env_free(e) \in [EnvId -> Env]
BY FreedIsEnv DEF env_free

LEMMA DefineIsEnv ==
  ASSUME envs \in [EnvId -> Env], NEW e, NEW name, NEW v \in Value
  PROVE  env_define(e, name, v) \in [EnvId -> Env]
<1>1. CASE e \in EnvId
  <2>1. [envs[e] EXCEPT !.vars[name] = v] \in Env
    <3>1. envs[e] \in Env
      BY <1>1
    <3>2. [envs[e].vars EXCEPT ![name] = v] \in [VarName -> Value \cup {Unset}]
      BY <3>1 DEF Env
    <3>. QED  BY <3>1, <3>2 DEF Env
  <2>. QED  BY <1>1, <2>1 DEF env_define
<1>2. CASE e \notin EnvId
  BY <1>2 DEF env_define
<1>. QED  BY <1>1, <1>2

LEMMA HolderHasIt ==
  ASSUME envs \in [EnvId -> Env], NEW e \in EnvId, NEW name \in VarName
  PROVE  \/ Holder(e, name) = NoEnv
         \/ /\ Holder(e, name) \in EnvId
            /\ envs[Holder(e, name)].vars[name] \in Value
<1>. DEFINE chain == envs[e].chain
            hits  == {i \in 1 .. Len(chain) : envs[chain[i]].vars[name] # Unset}
            First(i) == i \in hits /\ \A j \in hits : i <= j
            least == CHOOSE i \in hits : First(i)
<1>1. Holder(e, name) = IF \E i \in hits : First(i) THEN chain[least] ELSE NoEnv
  BY DEF Holder
<1>2. (\E i \in hits : First(i)) => least \in hits
  OBVIOUS
<1>3. chain \in Seq(EnvId)
  BY DEF Env
<1>4. ASSUME least \in hits
      PROVE  chain[least] \in EnvId /\ envs[chain[least]].vars[name] # Unset
  <2>1. least \in 1 .. Len(chain) /\ envs[chain[least]].vars[name] # Unset
    BY <1>4
  <2>. HIDE DEF chain, least
  <2>. QED  BY <1>3, <2>1, ElementOfSeq
<1>5. ASSUME NEW d \in EnvId, envs[d].vars[name] # Unset
      PROVE  envs[d].vars[name] \in Value
  BY <1>5 DEF Env
<1>. QED  BY <1>1, <1>2, <1>4, <1>5

LEMMA GetIsValue ==
  ASSUME envs \in [EnvId -> Env], NEW e \in EnvId, NEW name \in VarName
  PROVE  env_get(e, name) \in Value
BY HolderHasIt, IntZeroIsValue DEF env_get

-----------------------------------------------------------------------------
(* What keeps the stack in order.  A frame that replaces the top one must  *)
(* be of the same sort, and a frame on top of it of a sort it waits for.   *)

Fits(f) == IF Top.k = "main" THEN f.k = "main"
           ELSE (Yields(Top) => Yields(f)) /\ (RunsAsStmt(Top) => RunsAsStmt(f))

LEMMA TopKinds ==
  ASSUME StackOK(ctl)
  PROVE  /\ ctl # <<>> /\ Len(ctl) \in Nat \ {0}
         /\ Top = ctl[Len(ctl)] /\ Top \in Frame /\ CallFrame(Top)
         /\ Top.k = "main" => Len(ctl) = 1
         /\ Top.k # "main" => Len(ctl) >= 2 /\ OnTopOf(Top, ctl[Len(ctl) - 1])
<1>1. ctl # <<>> /\ Len(ctl) \in Nat \ {0} /\ Top = ctl[Len(ctl)] /\ Top \in Frame
  BY TopIsFrame DEF StackOK, WellNested
<1>2. CallFrame(Top)
  BY <1>1 DEF StackOK
<1>3. ctl[1].k = "main"
  BY DEF StackOK, WellNested
<1>4. ASSUME Len(ctl) >= 2
      PROVE  OnTopOf(Top, ctl[Len(ctl) - 1])
  BY <1>1, <1>4 DEF StackOK, WellNested
<1>5. ASSUME Len(ctl) >= 2
      PROVE  Top.k # "main"
  BY <1>4, <1>5 DEF OnTopOf, Yields, RunsAsStmt
<1>6. \A m \in Nat \ {0} : m = 1 \/ m >= 2
  OBVIOUS
<1>7. Len(ctl) = 1 \/ Len(ctl) >= 2
  BY <1>1, <1>6, Zenon
<1>8. Len(ctl) = 1 => Top.k = "main"
  BY <1>1, <1>3, Zenon
<1>. QED  BY <1>1, <1>2, <1>4, <1>5, <1>7, <1>8, Zenon

LEMMA PopOK ==
  ASSUME StackOK(ctl), Top.k # "main"
  PROVE  StackOK(Pop) /\ OnTopOf(Top, Pop[Len(Pop)])
<1>1. /\ ctl \in Seq(Frame) /\ ctl # <<>> /\ Len(ctl) \in Nat /\ Len(ctl) >= 2
      /\ OnTopOf(Top, ctl[Len(ctl) - 1])
  BY TopKinds DEF StackOK
<1>2. /\ Pop \in Seq(Frame) /\ Len(Pop) = Len(ctl) - 1
      /\ \A i \in 1 .. Len(ctl) - 1 : Pop[i] = ctl[i]
  BY <1>1, PopStack
<1>3. Pop # <<>>
  BY <1>1, <1>2
<1>4. WellNested(Pop)
  BY <1>1, <1>2, <1>3 DEF StackOK, WellNested
<1>5. \A i \in 1 .. Len(Pop) : CallFrame(Pop[i])
  BY <1>1, <1>2 DEF StackOK
<1>. QED  BY <1>1, <1>2, <1>4, <1>5 DEF StackOK

LEMMA BecomeOK ==
  ASSUME StackOK(ctl), NEW f \in Frame, Fits(f), CallFrame(f)
  PROVE  StackOK(Become(f))
<1>1. /\ ctl \in Seq(Frame) /\ ctl # <<>> /\ Len(ctl) \in Nat \ {0}
      /\ Top.k = "main" => Len(ctl) = 1
      /\ Top.k # "main" => Len(ctl) >= 2 /\ OnTopOf(Top, ctl[Len(ctl) - 1])
  BY TopKinds DEF StackOK
<1>2. /\ Become(f) \in Seq(Frame) /\ Len(Become(f)) = Len(ctl) /\ Become(f) # <<>>
      /\ Become(f)[Len(ctl)] = f
      /\ \A i \in 1 .. Len(ctl) - 1 : Become(f)[i] = ctl[i]
  BY <1>1, BecomeStack
<1>3. Top.k # "main" => OnTopOf(f, ctl[Len(ctl) - 1])
  BY <1>1 DEF Fits, OnTopOf
<1>4. Become(f)[1].k = "main"
  BY <1>1, <1>2 DEF Fits, StackOK, WellNested
<1>5. ASSUME NEW i \in 2 .. Len(ctl)
      PROVE  OnTopOf(Become(f)[i], Become(f)[i - 1])
  <2>1. i - 1 \in 1 .. Len(ctl) - 1 /\ Become(f)[i - 1] = ctl[i - 1]
    BY <1>1, <1>2, <1>5
  <2>2. CASE i = Len(ctl)
    BY <1>1, <1>2, <1>3, <2>1, <2>2
  <2>3. CASE i # Len(ctl)
    BY <1>1, <1>2, <2>1, <2>3 DEF StackOK, WellNested
  <2>. QED  BY <2>2, <2>3
<1>6. WellNested(Become(f))
  BY <1>2, <1>4, <1>5 DEF WellNested
<1>7. \A i \in 1 .. Len(Become(f)) : CallFrame(Become(f)[i])
  BY <1>1, <1>2 DEF StackOK
<1>. QED  BY <1>2, <1>6, <1>7 DEF StackOK

LEMMA CallOK ==
  ASSUME StackOK(ctl), NEW f \in Frame, NEW g \in Frame,
         Fits(f), CallFrame(f), CallFrame(g), OnTopOf(g, f)
  PROVE  StackOK(Call(f, g))
<1>1. StackOK(Become(f))
  BY BecomeOK
<1>2. /\ ctl \in Seq(Frame) /\ ctl # <<>> /\ Len(ctl) \in Nat \ {0}
      /\ Len(Become(f)) = Len(ctl) /\ Become(f)[Len(ctl)] = f
  BY TopKinds, BecomeStack DEF StackOK
<1>3. /\ Call(f, g) \in Seq(Frame) /\ Len(Call(f, g)) = Len(ctl) + 1
      /\ Call(f, g) # <<>>
      /\ Call(f, g)[Len(ctl) + 1] = g
      /\ \A i \in 1 .. Len(ctl) : Call(f, g)[i] = Become(f)[i]
  BY <1>1, <1>2, AppendProperties DEF Call, StackOK
<1>4. ASSUME NEW i \in 2 .. Len(ctl) + 1
      PROVE  OnTopOf(Call(f, g)[i], Call(f, g)[i - 1])
  <2>1. CASE i = Len(ctl) + 1
    BY <1>2, <1>3, <2>1
  <2>2. CASE i # Len(ctl) + 1
    BY <1>1, <1>2, <1>3, <2>2 DEF StackOK, WellNested
  <2>. QED  BY <2>1, <2>2
<1>5. Call(f, g)[1].k = "main"
  BY <1>1, <1>2, <1>3 DEF StackOK, WellNested
<1>6. \A i \in 1 .. Len(ctl) + 1 : CallFrame(Call(f, g)[i])
  BY <1>1, <1>2, <1>3 DEF StackOK
<1>. QED  BY <1>3, <1>4, <1>5, <1>6 DEF StackOK, WellNested

(* The invariant speaks of the next state's root, which is the same.       *)
LEMMA StackOKNext ==
  ASSUME root' = root, StackOK(ctl')
  PROVE  StackOK(ctl)'
BY DEF StackOK, CallFrame, Callee, WellNested, OnTopOf, Yields, RunsAsStmt, Operator
-----------------------------------------------------------------------------
(* Types and nesting, action by action.                                    *)

(* What every step leaves well typed besides the stack.                    *)
Changes == /\ root' = root
           /\ exit_code' \in IntMin .. IntMax
           /\ val' \in Value
           /\ envs' \in [EnvId -> Env]
           /\ returning' \in BOOLEAN
           /\ return_val' \in Value
           /\ out' \in Seq(Value)

LEMMA RunsOn ==
  ASSUME TypeInv, Changes, status' = "running", StackOK(ctl')
  PROVE  TypeInv'
<1>1. StackOK(ctl)'
  BY StackOKNext DEF Changes
<1>2. ctl' \in Seq(Frame)
  BY DEF StackOK
<1>3. TypeOK'
  BY <1>2 DEF TypeInv, TypeOK, Changes
<1>. QED  BY <1>1, <1>3 DEF TypeInv, CleanStart

LEMMA Ends ==
  ASSUME TypeInv, Changes, status' \in {"done", "crashed"}, ctl' \in Seq(Frame)
  PROVE  TypeInv'
<1>1. TypeOK'
  BY DEF TypeInv, TypeOK, Changes
<1>. QED  BY <1>1 DEF TypeInv, CleanStart, Running

LEMMA Same ==
  ASSUME TypeInv
  PROVE  /\ exit_code \in IntMin .. IntMax /\ val \in Value
         /\ envs \in [EnvId -> Env] /\ returning \in BOOLEAN
         /\ return_val \in Value /\ out \in Seq(Value)
         /\ ctl \in Seq(Frame) /\ root \in Node
BY AstAssumption DEF TypeInv, TypeOK

LEMMA Activation ==
  ASSUME TypeInv, Running
  PROVE  /\ StackOK(ctl)
         /\ Top \in Frame /\ CallFrame(Top)
         /\ Top.n \in Node /\ Top.e \in EnvId /\ Top.i \in Nat \ {0}
         /\ Top.v \in Value /\ Top.r \in BOOLEAN
<1>1. StackOK(ctl)
  BY DEF TypeInv
<1>. QED  BY <1>1, TopKinds DEF Frame

(* What replacing the top of the stack and pushing do, whatever the frames.*)
LEMMA BecomeShape ==
  ASSUME TypeInv, Running, NEW f
  PROVE  /\ Len(Become(f)) = Len(ctl)
         /\ \A j \in 1 .. Len(ctl) :
               Become(f)[j] = IF j = Len(ctl) THEN f ELSE ctl[j]
<1>. DEFINE S == Frame \cup {f}
<1>1. ctl \in Seq(S) /\ Len(ctl) \in 1 .. Len(ctl) /\ f \in S
  BY Activation, TopKinds DEF StackOK
<1>. QED  BY ONLY <1>1, ExceptSeq DEF Become

LEMMA CallShape ==
  ASSUME TypeInv, Running, NEW f, NEW g
  PROVE  /\ Len(Call(f, g)) = Len(ctl) + 1
         /\ Call(f, g)[Len(ctl) + 1] = g
         /\ \A j \in 1 .. Len(ctl) :
               Call(f, g)[j] = IF j = Len(ctl) THEN f ELSE ctl[j]
<1>. DEFINE S == Frame \cup {f, g}
<1>1. ctl \in Seq(S) /\ Len(ctl) \in 1 .. Len(ctl) /\ f \in S /\ g \in S
  BY Activation, TopKinds DEF StackOK
<1>2. Become(f) \in Seq(S) /\ Len(Become(f)) = Len(ctl)
  BY ONLY <1>1, ExceptSeq DEF Become
<1>. HIDE DEF S
<1>3. /\ Len(Call(f, g)) = Len(ctl) + 1
      /\ Call(f, g)[Len(ctl) + 1] = g
      /\ \A j \in 1 .. Len(ctl) : Call(f, g)[j] = Become(f)[j]
  BY <1>1, <1>2, AppendProperties DEF Call
<1>. QED  BY <1>3, BecomeShape

(* The frames a step builds from the running one.                          *)
LEMMA WithKind ==
  ASSUME NEW t \in Frame, NEW w \in FrameKind
  PROVE  /\ [t EXCEPT !.k = w] \in Frame /\ [t EXCEPT !.k = w].k = w
         /\ [t EXCEPT !.k = w].n = t.n /\ [t EXCEPT !.k = w].e = t.e
         /\ [t EXCEPT !.k = w].i = t.i /\ [t EXCEPT !.k = w].v = t.v
         /\ [t EXCEPT !.k = w].f = t.f /\ [t EXCEPT !.k = w].r = t.r
BY DEF Frame

LEMMA WithEnv ==
  ASSUME NEW t \in Frame, NEW w \in EnvId
  PROVE  /\ [t EXCEPT !.e = w] \in Frame /\ [t EXCEPT !.e = w].e = w
         /\ [t EXCEPT !.e = w].k = t.k /\ [t EXCEPT !.e = w].n = t.n
         /\ [t EXCEPT !.e = w].i = t.i /\ [t EXCEPT !.e = w].v = t.v
         /\ [t EXCEPT !.e = w].f = t.f /\ [t EXCEPT !.e = w].r = t.r
BY DEF Frame

LEMMA WithIndex ==
  ASSUME NEW t \in Frame, NEW w \in Nat \ {0}
  PROVE  /\ [t EXCEPT !.i = w] \in Frame /\ [t EXCEPT !.i = w].i = w
         /\ [t EXCEPT !.i = w].k = t.k /\ [t EXCEPT !.i = w].n = t.n
         /\ [t EXCEPT !.i = w].e = t.e /\ [t EXCEPT !.i = w].v = t.v
         /\ [t EXCEPT !.i = w].f = t.f /\ [t EXCEPT !.i = w].r = t.r
BY DEF Frame

LEMMA WithValue ==
  ASSUME NEW t \in Frame, NEW w \in Value
  PROVE  /\ [t EXCEPT !.v = w] \in Frame /\ [t EXCEPT !.v = w].v = w
         /\ [t EXCEPT !.v = w].k = t.k /\ [t EXCEPT !.v = w].n = t.n
         /\ [t EXCEPT !.v = w].e = t.e /\ [t EXCEPT !.v = w].i = t.i
         /\ [t EXCEPT !.v = w].f = t.f /\ [t EXCEPT !.v = w].r = t.r
BY DEF Frame

LEMMA WithCallee ==
  ASSUME NEW t \in Frame, NEW w \in EnvId \cup {NoEnv}
  PROVE  /\ [t EXCEPT !.f = w] \in Frame /\ [t EXCEPT !.f = w].f = w
         /\ [t EXCEPT !.f = w].k = t.k /\ [t EXCEPT !.f = w].n = t.n
         /\ [t EXCEPT !.f = w].e = t.e /\ [t EXCEPT !.f = w].i = t.i
         /\ [t EXCEPT !.f = w].v = t.v /\ [t EXCEPT !.f = w].r = t.r
BY DEF Frame

LEMMA WithReturning ==
  ASSUME NEW t \in Frame, NEW w \in BOOLEAN
  PROVE  /\ [t EXCEPT !.r = w] \in Frame /\ [t EXCEPT !.r = w].r = w
         /\ [t EXCEPT !.r = w].k = t.k /\ [t EXCEPT !.r = w].n = t.n
         /\ [t EXCEPT !.r = w].e = t.e /\ [t EXCEPT !.r = w].i = t.i
         /\ [t EXCEPT !.r = w].v = t.v /\ [t EXCEPT !.r = w].f = t.f
BY DEF Frame

LEMMA CrashTypes ==
  ASSUME TypeInv, Crash
  PROVE  TypeInv'
<1>1. Changes
  BY Same DEF Crash, Changes
<1>. QED  BY <1>1, Same, Ends DEF Crash

LEMMA DeliverTypes ==
  ASSUME TypeInv, Running, NEW v \in Value, Deliver(v), Top.k # "main",
         envs' \in [EnvId -> Env]
  PROVE  TypeInv'
<1>1. Changes /\ status' = "running"
  BY Same DEF Deliver, Changes, Running
<1>2. StackOK(ctl')
  BY Activation, PopOK DEF Deliver
<1>. QED  BY <1>1, <1>2, RunsOn

LEMMA ContinueTypes ==
  ASSUME TypeInv, Running, NEW stack, Continue(stack), StackOK(stack)
  PROVE  TypeInv'
<1>1. Changes /\ status' = "running" /\ ctl' = stack
  BY Same DEF Continue, Changes, Running
<1>. QED  BY <1>1, RunsOn

LEMMA FinishTypes ==
  ASSUME TypeInv, Running, Finish, Top.k # "main",
         envs' \in [EnvId -> Env], returning' \in BOOLEAN, return_val' \in Value,
         out' \in Seq(Value)
  PROVE  TypeInv'
<1>1. Changes /\ status' = "running"
  BY Same DEF Finish, Changes, Running
<1>2. StackOK(ctl')
  BY Activation, PopOK DEF Finish
<1>. QED  BY <1>1, <1>2, RunsOn

(* The running activation continues as f, by itself or waiting for eval_expr *)
(* or exec_stmt.                                                           *)
Resumes(f) == f \in Frame /\ Fits(f) /\ CallFrame(f)

LEMMA BecomeTypes ==
  ASSUME TypeInv, Running, NEW f, Resumes(f), Continue(Become(f))
  PROVE  TypeInv'
<1>1. StackOK(Become(f))
  BY Activation, BecomeOK DEF Resumes
<1>. QED  BY <1>1, ContinueTypes

LEMMA EvalTypes ==
  ASSUME TypeInv, Running, NEW f, Resumes(f), f.k \in {"after", "bind"},
         NEW n \in Node, Continue(Call(f, Eval(n, Top.e)))
  PROVE  TypeInv'
<1>1. Eval(n, Top.e) \in Frame
  BY Activation, NewFrameIsFrame DEF Eval, FrameKind
<1>2. CallFrame(Eval(n, Top.e)) /\ OnTopOf(Eval(n, Top.e), f)
  BY DEF Eval, NewFrame, CallFrame, OnTopOf, Yields
<1>3. StackOK(Call(f, Eval(n, Top.e)))
  BY <1>1, <1>2, Activation, CallOK DEF Resumes
<1>. QED  BY <1>3, ContinueTypes

LEMMA ExecTypes ==
  ASSUME TypeInv, Running, NEW f, Resumes(f), f.k \in Unwinds,
         NEW n \in Node, NEW e \in EnvId
  PROVE  /\ StackOK(Call(f, Exec(n, e)))
         /\ Continue(Call(f, Exec(n, e))) => TypeInv'
<1>1. Exec(n, e) \in Frame
  BY NewFrameIsFrame DEF Exec, FrameKind
<1>2. CallFrame(Exec(n, e)) /\ OnTopOf(Exec(n, e), f)
  BY DEF Exec, NewFrame, CallFrame, OnTopOf, RunsAsStmt
<1>3. StackOK(Call(f, Exec(n, e)))
  BY <1>1, <1>2, Activation, CallOK DEF Resumes
<1>. QED  BY <1>3, ContinueTypes

LEMMA EvaluateTypes ==
  ASSUME TypeInv, Evaluate
  PROVE  TypeInv'
<1>1. CASE EvalLiteral
  <2>1. Running /\ Top.k # "main" /\ Deliver(Typed(Ast[Top.n].type, Ast[Top.n].num))
    BY <1>1 DEF EvalLiteral, At, Running
  <2>2. Typed(Ast[Top.n].type, Ast[Top.n].num) \in Value
    BY <2>1, Activation, LiteralIsValue
  <2>. QED  BY <1>1, <2>1, <2>2, Same, DeliverTypes DEF EvalLiteral
<1>2. CASE EvalVarRef
  <2>1. Running /\ Top.k # "main" /\ Deliver(env_get(Top.e, Ast[Top.n].name))
    BY <1>2 DEF EvalVarRef, At, Running
  <2>2. Ast[Top.n].name \in VarName
    BY <1>2, <2>1, Activation, AstAssumption DEF EvalVarRef, On
  <2>3. env_get(Top.e, Ast[Top.n].name) \in Value
    BY <2>1, <2>2, Same, Activation, GetIsValue
  <2>. QED  BY <1>2, <2>1, <2>3, Same, DeliverTypes DEF EvalVarRef
<1>3. CASE EvalOperand
  <2>1. /\ Running /\ Top.k = "eval" /\ Kind(Top.n) \in {"UNARY_OP", "BINARY_OP"}
        /\ Continue(Call(As("after"), Eval(Child(Top.n, 1), Top.e)))
    BY <1>3 DEF EvalOperand, At, Running, On
  <2>2. Child(Top.n, 1) \in Node
    BY <2>1, Activation, ChildIsNode, ChildCount
  <2>3. As("after") \in Frame /\ As("after").k = "after" /\ As("after").n = Top.n
    BY <2>1, Activation, WithKind DEF As, FrameKind
  <2>4. Resumes(As("after"))
    BY <2>1, <2>3 DEF Resumes, Fits, CallFrame, Yields, RunsAsStmt, Operator
  <2>. QED  BY <2>1, <2>2, <2>3, <2>4, EvalTypes
<1>4. CASE AfterUnary
  <2>1. Running /\ Top.k # "main"
    BY <1>4 DEF AfterUnary, At, Running
  <2>2. PICK res \in UnaryResults(Ast[Top.n].op, val) :
           IF res = Fault THEN Crash ELSE Deliver(res) /\ UNCHANGED envs
    BY <1>4 DEF AfterUnary
  <2>3. res \in Value \cup {Fault}
    BY <2>1, Same, UnaryIsValue
  <2>4. CASE res = Fault
    BY <2>2, <2>4, CrashTypes
  <2>5. CASE res # Fault
    BY <2>1, <2>2, <2>3, <2>5, Same, DeliverTypes
  <2>. QED  BY <2>4, <2>5
<1>5. CASE AfterLeft
  <2>. DEFINE f == [Top EXCEPT !.i = 2, !.v = val]
  <2>1. /\ Running /\ Top.k = "after" /\ Kind(Top.n) = "BINARY_OP"
        /\ Continue(Call(f, Eval(Child(Top.n, 2), Top.e)))
    BY <1>5 DEF AfterLeft, At, Running, On
  <2>2. Child(Top.n, 2) \in Node
    BY <2>1, Activation, ChildIsNode, ChildCount
  <2>3. f \in Frame /\ f.k = "after" /\ f.n = Top.n
    <3>. DEFINE g == [Top EXCEPT !.i = 2]
    <3>1. g \in Frame /\ g.k = "after" /\ g.n = Top.n
      BY <2>1, 2 \in Nat \ {0}, Activation, WithIndex
    <3>2. f = [g EXCEPT !.v = val]
      OBVIOUS
    <3>. HIDE DEF g, f
    <3>. QED  BY <3>1, <3>2, Same, WithValue
  <2>4. Resumes(f)
    BY <2>1, <2>3 DEF Resumes, Fits, CallFrame, Yields, RunsAsStmt, Operator
  <2>. QED  BY <2>1, <2>2, <2>3, <2>4, EvalTypes
<1>6. CASE AfterRight
  <2>1. Running /\ Top.k # "main"
    BY <1>6 DEF AfterRight, At, Running
  <2>2. PICK res \in BinaryResults(Ast[Top.n].op, Top.v, val) :
           IF res = Fault THEN Crash ELSE Deliver(res) /\ UNCHANGED envs
    BY <1>6 DEF AfterRight
  <2>3. res \in Value \cup {Fault}
    BY <2>1, Same, Activation, BinaryIsValue
  <2>4. CASE res = Fault
    BY <2>2, <2>4, CrashTypes
  <2>5. CASE res # Fault
    BY <2>1, <2>2, <2>3, <2>5, Same, DeliverTypes
  <2>. QED  BY <2>4, <2>5
<1>7. CASE EvalUnknownCall
  <2>1. Running /\ Top.k # "main" /\ Deliver(IntZero) /\ envs' \in [EnvId -> Env]
    BY <1>7, Same DEF EvalUnknownCall, At, Running
  <2>2. IntZero \in Value
    BY IntZeroIsValue
  <2>. QED  BY ONLY TypeInv, <2>1, <2>2, DeliverTypes
<1>8. CASE EvalCall
  <2>. DEFINE f == [As("args") EXCEPT !.f = FreshEnv]
  <2>1. Running /\ Top.k = "eval" /\ Callee(Top.n) # NoNode /\ ~HeapFull
    BY <1>8 DEF EvalCall, At, Running
  <2>2. f \in Frame /\ f.k = "args" /\ f.n = Top.n /\ f.f \in EnvId
    <3>. DEFINE g == As("args")
    <3>1. g \in Frame /\ g.k = "args" /\ g.n = Top.n
      BY <2>1, Activation, WithKind DEF As, FrameKind
    <3>2. f = [g EXCEPT !.f = FreshEnv]
      OBVIOUS
    <3>. HIDE DEF g, f
    <3>. QED  BY <2>1, <3>1, <3>2, FreshIsFree, WithCallee
  <2>3. Fits(f) /\ CallFrame(f)
    BY <2>1, <2>2 DEF Fits, CallFrame, Yields, RunsAsStmt
  <2>4. StackOK(Become(f))
    BY <2>1, <2>2, <2>3, Activation, BecomeOK
  <2>5. env_create(NoEnv) \in [EnvId -> Env]
    BY <2>1, Same, CreateIsEnv
  <2>6. Changes /\ status' = "running" /\ ctl' = Become(f)
    BY <1>8, <2>1, <2>5, Same DEF EvalCall, Changes, Running
  <2>. QED  BY <2>4, <2>6, RunsOn
<1>9. CASE EvalArgument
  <2>1. /\ Running /\ Top.k = "args" /\ MoreArguments
        /\ Continue(Call(As("bind"), Eval(Ast[Top.n].args[Top.i], Top.e)))
    BY <1>9 DEF EvalArgument, At, Running
  <2>2. Ast[Top.n].args[Top.i] \in Node
    <3>1. Ast[Top.n].args \in Seq(Node)
      BY <2>1, Activation, AstAssumption DEF AstNode
    <3>2. Top.i \in 1 .. Len(Ast[Top.n].args)
      BY <2>1, <3>1, Activation DEF MoreArguments
    <3>. QED  BY <2>1, <3>2, Activation, ArgumentIsNode
  <2>3. As("bind") \in Frame /\ As("bind").k = "bind" /\ As("bind").n = Top.n
        /\ As("bind").f = Top.f
    BY <2>1, Activation, WithKind DEF As, FrameKind
  <2>4. Resumes(As("bind"))
    BY <2>1, <2>3, Activation DEF Resumes, Fits, CallFrame, Yields, RunsAsStmt
  <2>. QED  BY <2>1, <2>2, <2>3, <2>4, EvalTypes
<1>10. CASE BindArgument
  <2>. DEFINE f == [As("args") EXCEPT !.i = @ + 1]
  <2>1. Running /\ Top.k = "bind"
    BY <1>10 DEF BindArgument, At, Running
  <2>2. f \in Frame /\ f.k = "args" /\ f.n = Top.n /\ f.f = Top.f
    <3>1. Top.i + 1 \in Nat \ {0}
      BY <2>1, Activation
    <3>2. As("args") \in Frame /\ As("args").i = Top.i
          /\ As("args").k = "args" /\ As("args").n = Top.n /\ As("args").f = Top.f
      BY <2>1, Activation, WithKind DEF As, FrameKind
    <3>. QED  BY <3>1, <3>2, WithIndex
  <2>3. Fits(f) /\ CallFrame(f)
    BY <2>1, <2>2, Activation DEF Fits, CallFrame, Yields, RunsAsStmt
  <2>4. StackOK(Become(f))
    BY <2>1, <2>2, <2>3, Activation, BecomeOK
  <2>5. \A e, name : env_define(e, name, val) \in [EnvId -> Env]
    BY Same, DefineIsEnv
  <2>6. Changes /\ status' = "running" /\ ctl' = Become(f)
    BY <1>10, <2>1, <2>5, Same DEF BindArgument, Changes, Running
  <2>. QED  BY <2>4, <2>6, RunsOn
<1>11. CASE EnterBody
  <2>. DEFINE f == [As("body") EXCEPT !.i = 1, !.v = return_val, !.r = returning]
  <2>1. Running /\ Top.k = "args"
    BY <1>11 DEF EnterBody, At, Running
  <2>2. f \in Frame /\ f.k = "body" /\ f.n = Top.n /\ f.f = Top.f
    <3>. DEFINE g == As("body")
            h == [g EXCEPT !.i = 1]
            j == [h EXCEPT !.v = return_val]
    <3>1. g \in Frame /\ g.k = "body" /\ g.n = Top.n /\ g.f = Top.f
      BY <2>1, Activation, WithKind DEF As, FrameKind
    <3>2. f = [j EXCEPT !.r = returning]
      OBVIOUS
    <3>. HIDE DEF g, f
    <3>3. h \in Frame /\ h.k = "body" /\ h.n = Top.n /\ h.f = Top.f
      BY <3>1, 1 \in Nat \ {0}, WithIndex
    <3>. HIDE DEF h
    <3>4. j \in Frame /\ j.k = "body" /\ j.n = Top.n /\ j.f = Top.f
      BY <3>3, Same, WithValue
    <3>. HIDE DEF j
    <3>. QED  BY <3>2, <3>4, Same, WithReturning
  <2>3. Fits(f) /\ CallFrame(f)
    BY <2>1, <2>2, Activation DEF Fits, CallFrame, Yields, RunsAsStmt
  <2>4. StackOK(Become(f))
    BY <2>1, <2>2, <2>3, Activation, BecomeOK
  <2>5. Changes /\ status' = "running" /\ ctl' = Become(f)
    BY <1>11, <2>1, Same DEF EnterBody, Changes, Running
  <2>. QED  BY <2>4, <2>5, RunsOn
<1>12. CASE BodyStatement
  <2>. DEFINE f == [Top EXCEPT !.i = @ + 1]
            callee == Callee(Top.n)
  <2>1. /\ Running /\ Top.k = "body" /\ Top.i <= Children(callee)
        /\ Continue(Call(f, Exec(Child(callee, Top.i), Top.f)))
    BY <1>12 DEF BodyStatement, At, Running
  <2>2. callee \in Node /\ Top.f \in EnvId
    BY <2>1, Activation, Same, FunctionIsNode DEF CallFrame, Callee
  <2>3. Child(callee, Top.i) \in Node
    BY <2>1, <2>2, Activation, ChildIsNode, ChildCount
  <2>4. f \in Frame /\ f.k = "body" /\ f.n = Top.n /\ f.f = Top.f
    BY <2>1, Activation DEF Frame
  <2>5. Resumes(f)
    BY <2>1, <2>4, Activation DEF Resumes, Fits, CallFrame, Yields, RunsAsStmt
  <2>. QED  BY <2>1, <2>2, <2>3, <2>4, <2>5, ExecTypes DEF Unwinds
<1>13. CASE LeaveBody
  <2>1. Running /\ Top.k = "body"
    BY <1>13 DEF LeaveBody, At, Running
  <2>2. StackOK(Pop)
    BY <2>1, Activation, PopOK
  <2>3. Changes /\ status' = "running" /\ ctl' = Pop
    BY <1>13, <2>1, Same, Activation, FreeIsEnv DEF LeaveBody, Changes, Running
  <2>. QED  BY <2>2, <2>3, RunsOn
<1>. QED  BY <1>1, <1>2, <1>3, <1>4, <1>5, <1>6, <1>7, <1>8, <1>9, <1>10, <1>11,
             <1>12, <1>13 DEF Evaluate

(* The running statement's frame under another kind still runs a statement. *)
LEMMA AsStatement ==
  ASSUME TypeInv, Running, RunsAsStmt(Top), NEW k \in {"loop", "update", "after"},
         ~Operator(Top)
  PROVE  Resumes(As(k)) /\ As(k).k = k /\ As(k).n = Top.n /\ As(k).e = Top.e
<1>1. k \in FrameKind
  BY DEF FrameKind
<1>2. As(k) \in Frame /\ As(k).k = k /\ As(k).n = Top.n /\ As(k).e = Top.e
  BY <1>1, Activation, WithKind DEF As
<1>3. ~Yields(Top) /\ Top.k # "main"
  BY DEF Yields, RunsAsStmt
<1>4. RunsAsStmt(As(k)) /\ CallFrame(As(k))
  BY <1>2 DEF RunsAsStmt, Operator, CallFrame
<1>. QED  BY <1>2, <1>3, <1>4 DEF Resumes, Fits

LEMMA ExecuteTypes ==
  ASSUME TypeInv, Execute
  PROVE  TypeInv'
<1>1. CASE ExecOperand
  <2>1. /\ Running /\ Top.k = "exec" /\ ~Operator(Top)
        /\ Continue(Call(As("after"), Eval(Child(Top.n, 1), Top.e)))
    BY <1>1 DEF ExecOperand, At, Running, On, Operator
  <2>2. Top.n \in Node /\ Children(Top.n) >= 1 /\ Children(Top.n) \in Nat
    <3>1. Top.n \in Node /\ Children(Top.n) \in Nat
      BY <2>1, Activation, ChildCount
    <3>. QED  BY <1>1, <3>1, ChildCount DEF ExecOperand, On
  <2>3. Child(Top.n, 1) \in Node
    BY <2>2, ChildIsNode
  <2>4. Resumes(As("after")) /\ As("after").k = "after"
    BY <2>1, AsStatement DEF RunsAsStmt
  <2>. QED  BY <2>1, <2>3, <2>4, EvalTypes
<1>2. CASE ExecVarDecl
  <2>1. Running /\ Top.k # "main" /\ Finish
    BY <1>2 DEF ExecVarDecl, At, Running
  <2>2. Typed(Ast[Top.n].type, 0) \in Value
    BY <2>1, Activation, LiteralIsValue
  <2>3. envs' \in [EnvId -> Env]
    BY <1>2, <2>2, Same, DefineIsEnv DEF ExecVarDecl
  <2>. QED  BY <1>2, <2>1, <2>3, Same, FinishTypes DEF ExecVarDecl
<1>3. CASE AfterVarDecl
  <2>1. Running /\ Top.k # "main" /\ Finish
    BY <1>3 DEF AfterVarDecl, At, Running
  <2>2. envs' \in [EnvId -> Env]
    BY <1>3, Same, DefineIsEnv DEF AfterVarDecl
  <2>. QED  BY <1>3, <2>1, <2>2, Same, FinishTypes DEF AfterVarDecl
<1>4. CASE AfterAssign
  <2>1. Running /\ Top.k # "main" /\ Finish
    BY <1>4 DEF AfterAssign, At, Running
  <2>2. envs' \in [EnvId -> Env]
    BY <1>4, Same, DefineIsEnv DEF AfterAssign, env_set
  <2>. QED  BY <1>4, <2>1, <2>2, Same, FinishTypes DEF AfterAssign
<1>5. CASE AfterIf
  <2>1. Running /\ Top.k = "after" /\ Kind(Top.n) = "IF"
    BY <1>5 DEF AfterIf, At, Running, On
  <2>2. PICK taken \in Truths(val) :
          IF taken \/ Children(Top.n) > 2
          THEN Continue(Become(Exec(Child(Top.n, IF taken THEN 2 ELSE 3), Top.e)))
          ELSE Finish /\ UNCHANGED <<envs, returning, return_val, out>>
    BY <1>5 DEF AfterIf
  <2>. DEFINE arm == Exec(Child(Top.n, IF taken THEN 2 ELSE 3), Top.e)
  <2>3. CASE taken \/ Children(Top.n) > 2
    <3>1. Child(Top.n, IF taken THEN 2 ELSE 3) \in Node
      BY <2>1, <2>3, Activation, ChildIsNode, ChildCount
    <3>2. arm \in Frame /\ arm.k = "exec"
      BY <2>1, <3>1, Activation, NewFrameIsFrame DEF Exec, FrameKind, NewFrame
    <3>3. Resumes(arm)
      BY <2>1, <3>2 DEF Resumes, Fits, CallFrame, Yields, RunsAsStmt, Operator
    <3>. QED  BY <2>1, <2>2, <2>3, <3>3, BecomeTypes
  <2>4. CASE ~(taken \/ Children(Top.n) > 2)
    BY <2>1, <2>2, <2>4, Same, FinishTypes
  <2>. QED  BY <2>3, <2>4
<1>6. CASE AfterPrint
  <2>1. Running /\ Top.k # "main" /\ Finish
    BY <1>6 DEF AfterPrint, At, Running
  <2>2. out' \in Seq(Value)
    BY <1>6, Same, AppendProperties DEF AfterPrint
  <2>. QED  BY <1>6, <2>1, <2>2, Same, FinishTypes DEF AfterPrint
<1>7. CASE ExecReturn
  <2>1. Running /\ Top.k # "main" /\ Finish
    BY <1>7 DEF ExecReturn, At, Running
  <2>. QED  BY <1>7, <2>1, Same, FinishTypes, IntZeroIsValue DEF ExecReturn
<1>8. CASE AfterReturn
  <2>1. Running /\ Top.k # "main" /\ Finish
    BY <1>8 DEF AfterReturn, At, Running
  <2>. QED  BY <1>8, <2>1, Same, FinishTypes DEF AfterReturn
<1>9. CASE ExecCall
  <2>1. /\ Running /\ Top.k = "exec" /\ ~Operator(Top)
        /\ Continue(Call(As("after"), Eval(Top.n, Top.e)))
    BY <1>9 DEF ExecCall, At, Running, On, Operator
  <2>2. Resumes(As("after")) /\ As("after").k = "after"
    BY <2>1, AsStatement DEF RunsAsStmt
  <2>. QED  BY <2>1, <2>2, Activation, EvalTypes
<1>10. CASE AfterCall
  <2>1. Running /\ Top.k # "main" /\ Finish
    BY <1>10 DEF AfterCall, At, Running
  <2>. QED  BY <1>10, <2>1, Same, FinishTypes DEF AfterCall
<1>11. CASE ExecIgnored
  <2>1. Running /\ Top.k # "main" /\ Finish
    BY <1>11 DEF ExecIgnored, At, Running
  <2>. QED  BY <1>11, <2>1, Same, FinishTypes DEF ExecIgnored
<1>12. CASE ExecWhile
  <2>1. Running /\ Top.k = "exec" /\ ~Operator(Top) /\ Continue(Become(As("loop")))
    BY <1>12 DEF ExecWhile, At, Running, On, Operator
  <2>2. Resumes(As("loop"))
    BY <2>1, AsStatement DEF RunsAsStmt
  <2>. QED  BY <2>1, <2>2, BecomeTypes
<1>13. CASE ExecBlock \/ ExecFor
  <2>. DEFINE f == [As("loop") EXCEPT !.e = FreshEnv]
  <2>1. Running /\ Top.k = "exec" /\ ~Operator(Top) /\ ~HeapFull
    BY <1>13 DEF ExecBlock, ExecFor, At, Running, On, Operator
  <2>2. FreshEnv \in EnvId
    BY <2>1, FreshIsFree
  <2>3. Resumes(f) /\ f.k = "loop"
    <3>. DEFINE g == As("loop")
    <3>1. Resumes(g) /\ g.k = "loop" /\ g.n = Top.n
      BY <2>1, AsStatement DEF RunsAsStmt
    <3>2. f = [g EXCEPT !.e = FreshEnv]
      OBVIOUS
    <3>. HIDE DEF g, f
    <3>3. f \in Frame /\ f.k = "loop" /\ f.n = Top.n
      BY <2>2, <3>1, <3>2, WithEnv DEF Resumes
    <3>. QED  BY <2>1, <3>3 DEF Resumes, Fits, CallFrame, Yields, RunsAsStmt
  <2>4. env_create(Top.e) \in [EnvId -> Env]
    BY <2>1, Same, Activation, CreateIsEnv
  <2>5. Changes /\ status' = "running"
    BY <1>13, <2>1, <2>4, Same DEF ExecBlock, ExecFor, Changes, Running
  <2>6. CASE ExecBlock
    <3>1. StackOK(Become(f))
      BY <2>1, <2>3, Activation, BecomeOK DEF Resumes
    <3>. QED  BY <2>5, <2>6, <3>1, RunsOn DEF ExecBlock
  <2>7. CASE ExecFor
    <3>1. Child(Top.n, 1) \in Node
      BY <2>1, <2>7, Activation, ChildIsNode, ChildCount DEF ExecFor, On
    <3>2. StackOK(Call(f, Exec(Child(Top.n, 1), FreshEnv)))
      BY <2>1, <2>2, <2>3, <3>1, ExecTypes DEF Unwinds
    <3>. QED  BY <2>5, <2>7, <3>2, RunsOn DEF ExecFor
  <2>. QED  BY <1>13, <2>6, <2>7
<1>14. CASE BlockStatement
  <2>. DEFINE f == [Top EXCEPT !.i = @ + 1]
  <2>1. /\ Running /\ Top.k = "loop" /\ Top.i <= Children(Top.n)
        /\ Continue(Call(f, Exec(Child(Top.n, Top.i), Top.e)))
    BY <1>14 DEF BlockStatement, At, Running
  <2>2. Child(Top.n, Top.i) \in Node
    BY <2>1, Activation, ChildIsNode, ChildCount
  <2>3. f \in Frame /\ f.k = "loop" /\ f.n = Top.n
    BY <2>1, Activation DEF Frame
  <2>4. Resumes(f)
    BY <2>1, <2>3 DEF Resumes, Fits, CallFrame, Yields, RunsAsStmt
  <2>. QED  BY <2>1, <2>2, <2>3, <2>4, Activation, ExecTypes DEF Unwinds
<1>15. CASE LeaveBlock
  <2>1. Running /\ Top.k # "main" /\ Finish
    BY <1>15 DEF LeaveBlock, At, Running
  <2>. QED  BY <1>15, <2>1, Same, FinishTypes, FreeIsEnv DEF LeaveBlock
<1>16. CASE LoopTest
  <2>1. /\ Running /\ Top.k = "loop" /\ Kind(Top.n) \in {"WHILE", "FOR"}
        /\ Continue(Call(As("after"), Eval(Condition(Top.n), Top.e)))
    BY <1>16 DEF LoopTest, At, Running, On
  <2>2. Condition(Top.n) \in Node
    BY <2>1, Activation, ChildIsNode, ChildCount DEF Condition
  <2>3. Resumes(As("after")) /\ As("after").k = "after"
    BY <2>1, AsStatement DEF RunsAsStmt, Operator
  <2>. QED  BY <2>1, <2>2, <2>3, EvalTypes
<1>17. CASE EnterLoopBody
  <2>. DEFINE f == As(IF On({"FOR"}) THEN "update" ELSE "loop")
  <2>1. /\ Running /\ Top.k = "after" /\ Kind(Top.n) \in {"WHILE", "FOR"}
        /\ Continue(Call(f, Exec(LoopBody(Top.n), Top.e)))
    BY <1>17 DEF EnterLoopBody, At, Running, On
  <2>2. LoopBody(Top.n) \in Node
    BY <2>1, Activation, ChildIsNode, ChildCount DEF LoopBody
  <2>3. Resumes(f) /\ f.k \in Unwinds
    BY <2>1, AsStatement DEF RunsAsStmt, Operator, Unwinds
  <2>. QED  BY <2>1, <2>2, <2>3, Activation, ExecTypes
<1>18. CASE LoopFails \/ LoopReturns
  <2>1. Running /\ Top.k # "main" /\ LeaveLoop
    BY <1>18 DEF LoopFails, LoopReturns, At, Running
  <2>. QED  BY <2>1, Same, FreeIsEnv, FinishTypes DEF LeaveLoop
<1>19. CASE ForUpdate
  <2>1. /\ Running /\ Top.k = "update" /\ Kind(Top.n) = "FOR"
        /\ Continue(Call(As("loop"), Exec(Child(Top.n, 3), Top.e)))
    BY <1>19 DEF ForUpdate, At, Running, On
  <2>2. Child(Top.n, 3) \in Node
    BY <2>1, Activation, ChildIsNode, ChildCount
  <2>3. Resumes(As("loop")) /\ As("loop").k \in Unwinds
    BY <2>1, AsStatement DEF RunsAsStmt, Operator, Unwinds
  <2>. QED  BY <2>1, <2>2, <2>3, Activation, ExecTypes
<1>. QED  BY <1>1, <1>2, <1>3, <1>4, <1>5, <1>6, <1>7, <1>8, <1>9, <1>10, <1>11,
             <1>12, <1>13, <1>14, <1>15, <1>16, <1>17, <1>18, <1>19 DEF Execute

LEMMA MainTypes ==
  ASSUME TypeInv, NoMain \/ StartMain \/ MainStatement \/ MainDone \/ OutOfMemory
  PROVE  TypeInv'
<1>1. CASE NoMain
  <2>1. 1 \in IntMin .. IntMax
    BY ValuesAssumption DEF IntMin
  <2>2. Changes
    BY <1>1, <2>1, Same DEF NoMain, Changes
  <2>. QED  BY <1>1, <2>2, Same, Ends DEF NoMain
<1>2. CASE StartMain
  <2>. DEFINE f == NewFrame("main", MainFunction, FreshEnv)
  <2>1. ~HeapFull
    BY <1>2, EnvAssumption DEF StartMain, TypeInv, CleanStart, HeapFull
  <2>2. MainFunction \in Node
    BY <1>2, Same, FunctionIsNode DEF StartMain, MainFunction
  <2>3. f \in Frame /\ f.k = "main" /\ CallFrame(f)
    BY <2>1, <2>2, FreshIsFree, NewFrameIsFrame DEF FrameKind, NewFrame, CallFrame
  <2>4. StackOK(<<f>>)
    <3>. HIDE DEF f
    <3>. QED  BY <2>3 DEF StackOK, WellNested
  <2>5. env_create(NoEnv) \in [EnvId -> Env]
    BY <2>1, Same, CreateIsEnv
  <2>6. Changes /\ status' = "running" /\ ctl' = <<f>>
    BY <1>2, <2>5, Same DEF StartMain, Changes
  <2>. QED  BY <2>4, <2>6, RunsOn
<1>3. CASE MainStatement
  <2>. DEFINE f == [Top EXCEPT !.i = @ + 1]
            g == Exec(Child(Top.n, Top.i), Top.e)
  <2>1. Running /\ Top.k = "main" /\ Top.i <= Children(Top.n)
    BY <1>3 DEF MainStatement, At, Running
  <2>2. Child(Top.n, Top.i) \in Node
    BY <2>1, Activation, ChildIsNode, ChildCount
  <2>3. f \in Frame /\ f.k = "main"
    BY <2>1, Activation DEF Frame
  <2>4. Resumes(f)
    BY <2>1, <2>3 DEF Resumes, Fits, CallFrame
  <2>5. StackOK(Call(f, g))
    BY <2>1, <2>2, <2>3, <2>4, Activation, ExecTypes DEF Unwinds
  <2>6. Changes /\ status' = "running" /\ ctl' = Call(f, g)
    BY <1>3, <2>1, Same DEF MainStatement, Changes, Running
  <2>. QED  BY <2>5, <2>6, RunsOn
<1>4. CASE MainDone
  <2>1. Running /\ status' = "done"
    BY <1>4 DEF MainDone, At, Running
  <2>2. ctl' \in Seq(Frame)
    BY <1>4, <2>1, Activation, PopStack DEF MainDone, StackOK, WellNested
  <2>3. exit_code' \in IntMin .. IntMax
    <3>1. 0 \in IntMin .. IntMax /\ return_val.num \in IntMin .. IntMax
      BY ValuesAssumption, Same DEF IntMin, Value
    <3>. QED  BY <1>4, <3>1 DEF MainDone
  <2>4. Changes
    BY <1>4, <2>3, Same, FreeIsEnv DEF MainDone, Changes
  <2>. QED  BY <2>1, <2>2, <2>4, Ends
<1>5. CASE OutOfMemory
  BY <1>5, CrashTypes DEF OutOfMemory
<1>. QED  BY <1>1, <1>2, <1>3, <1>4, <1>5

LEMMA InitTypes == Init => TypeInv
<1>. SUFFICES ASSUME Init PROVE TypeInv
  OBVIOUS
<1>1. 0 \in IntMin .. IntMax /\ IntZero \in Value
  BY ValuesAssumption, IntZeroIsValue DEF IntMin
<1>2. envs \in [EnvId -> Env]
  BY FreedIsEnv DEF Init
<1>3. \A e \in EnvId : ~Live(e)
  BY DEF Init, Live, Freed
<1>4. ~Running /\ ctl \in Seq(Frame) /\ out \in Seq(Value)
  BY DEF Init, Running
<1>. QED  BY <1>1, <1>2, <1>3, <1>4 DEF Init, TypeInv, TypeOK, CleanStart

LEMMA NextTypes == TypeInv /\ [Next]_vars => TypeInv'
<1>. SUFFICES ASSUME TypeInv, [Next]_vars PROVE TypeInv'
  OBVIOUS
<1>1. CASE UNCHANGED vars
  BY <1>1 DEF vars, TypeInv, TypeOK, CleanStart, Live, Running, StackOK, CallFrame,
     Callee
<1>2. CASE Step
  BY <1>2, EvaluateTypes, ExecuteTypes, MainTypes DEF Step
<1>. QED  BY <1>1, <1>2 DEF Next, Terminated

(* In every program every value, frame and environment the interpreter     *)
(* builds has its type.                                                    *)
THEOREM TypeCorrect == Spec => []TypeOK
<1>1. TypeInv => TypeOK
  BY DEF TypeInv
<1>. QED  BY <1>1, InitTypes, NextTypes, PTL DEF Spec

LEMMA TypeInvariant == Spec => []TypeInv
BY InitTypes, NextTypes, PTL DEF Spec

(* In every program and at any depth of recursion the C call stack is well *)
(* nested: a value is returned only to an activation that waits for one.   *)
THEOREM StackNested == Spec => []StackWellNested
<1>1. TypeInv => StackWellNested
  BY DEF TypeInv, StackOK, StackWellNested
<1>. QED  BY <1>1, TypeInvariant, PTL

-----------------------------------------------------------------------------
(* The discipline of `returning' and `return_val': what a return statement *)
(* sets is seen by blocks, loops, bodies and main only, and never leaks    *)
(* into another call.                                                      *)

RetInv == ReturningUnwinds /\ NoStaleReturn

(* What a suspended call has saved is the state of no return at all.       *)
Quiet(t) == t.k = "body" => t.v = IntZero /\ ~t.r

LEMMA StackIsQuiet ==
  ASSUME RetInv, Running
  PROVE  \A i \in 1 .. Len(ctl) : Quiet(ctl[i])
BY DEF RetInv, NoStaleReturn, Quiet

(* A stack of quiet frames keeps the invariant, if a return that is under  *)
(* way has reached an activation that tests for it.                        *)
LEMMA RetKept ==
  ASSUME NEW m \in Nat \ {0}, ctl' \in Seq(Frame), Len(ctl') = m,
         \A i \in 1 .. m : Quiet(ctl'[i]),
         returning' => ctl'[m].k \in Unwinds,
         ~returning' => return_val' = IntZero
  PROVE  RetInv'
<1>1. Top' = ctl'[m]
  BY DEF Top
<1>2. ReturningUnwinds'
  BY <1>1 DEF ReturningUnwinds
<1>3. NoStaleReturn'
  BY DEF NoStaleReturn, Quiet
<1>. QED  BY <1>2, <1>3 DEF RetInv

LEMMA RetPop ==
  ASSUME TypeInv, RetInv, Running, Top.k # "main", ctl' = Pop,
         returning' => RunsAsStmt(Top), ~returning' => return_val' = IntZero
  PROVE  RetInv'
<1>1. /\ ctl \in Seq(Frame) /\ ctl # <<>> /\ Len(ctl) \in Nat /\ Len(ctl) >= 2
      /\ OnTopOf(Top, Pop[Len(Pop)])
  BY Activation, TopKinds, PopOK DEF StackOK
<1>2. /\ Pop \in Seq(Frame) /\ Len(Pop) = Len(ctl) - 1
      /\ \A i \in 1 .. Len(ctl) - 1 : Pop[i] = ctl[i]
  BY <1>1, PopStack
<1>3. Len(ctl) - 1 \in Nat \ {0}
  <2>1. \A m \in Nat : m >= 2 => m - 1 \in Nat \ {0}
    OBVIOUS
  <2>. QED  BY <1>1, <2>1, Zenon
<1>4. \A i \in 1 .. Len(ctl) - 1 : Quiet(Pop[i])
  BY <1>1, <1>2, StackIsQuiet
<1>5. RunsAsStmt(Top) => Pop[Len(ctl) - 1].k \in Unwinds
  BY <1>1, <1>2 DEF OnTopOf, RunsAsStmt, Yields
<1>. QED  BY <1>2, <1>3, <1>4, <1>5, RetKept

LEMMA RetBecome ==
  ASSUME TypeInv, TypeInv', RetInv, Running, NEW f, Quiet(f), ctl' = Become(f),
         ~returning', return_val' = IntZero
  PROVE  RetInv'
<1>1. ctl \in Seq(Frame) /\ ctl # <<>> /\ Len(ctl) \in Nat \ {0}
  BY Activation, TopKinds DEF StackOK
<1>2. ctl' \in Seq(Frame)
  BY DEF TypeInv, TypeOK
<1>3. \A i \in 1 .. Len(ctl) : Quiet(Become(f)[i])
  BY <1>1, BecomeShape, StackIsQuiet
<1>. QED  BY <1>1, <1>2, <1>3, BecomeShape, RetKept

LEMMA RetCall ==
  ASSUME TypeInv, TypeInv', RetInv, Running, NEW f, NEW g,
         Quiet(f), Quiet(g), ctl' = Call(f, g), ~returning', return_val' = IntZero
  PROVE  RetInv'
<1>1. ctl' \in Seq(Frame) /\ Len(ctl) \in Nat \ {0}
  BY Activation, TopKinds DEF StackOK, TypeInv, TypeOK
<1>2. Len(ctl) + 1 \in Nat \ {0}
  BY <1>1
<1>3. \A i \in 1 .. Len(ctl) + 1 : Quiet(Call(f, g)[i])
  BY <1>1, CallShape, StackIsQuiet
<1>. QED  BY <1>1, <1>2, <1>3, CallShape, RetKept

(* Outside an unwinding nothing is returning, and return_val is INT 0.     *)
LEMMA Working ==
  ASSUME RetInv, Running, Top.k \notin Unwinds \/ ~returning
  PROVE  ~returning /\ return_val = IntZero
BY DEF RetInv, ReturningUnwinds, NoStaleReturn

LEMMA TopIsQuiet ==
  ASSUME TypeInv, RetInv, Running
  PROVE  Quiet(Top)
BY Activation, TopKinds, StackIsQuiet

(* Frames that are built from the running one, or are new, save nothing.   *)
LEMMA BuiltIsQuiet ==
  ASSUME TypeInv, RetInv, Running
  PROVE  /\ \A i \in Nat \ {0} : Quiet([Top EXCEPT !.i = i])
         /\ \A k \in FrameKind \ {"body"} : Quiet(As(k))
         /\ \A k \in FrameKind \ {"body"} : \A n, e : Quiet(NewFrame(k, n, e))
<1>1. ASSUME NEW i \in Nat \ {0} PROVE Quiet([Top EXCEPT !.i = i])
  BY Activation, TopIsQuiet, WithIndex DEF Quiet
<1>2. ASSUME NEW k \in FrameKind \ {"body"} PROVE Quiet(As(k))
  BY Activation, WithKind DEF Quiet, As
<1>. QED  BY <1>1, <1>2 DEF Quiet, NewFrame

-----------------------------------------------------------------------------
LEMMA EvaluateReturns ==
  ASSUME TypeInv, TypeInv', RetInv, Evaluate
  PROVE  RetInv'
<1>. USE DEF Running
<1>1. ASSUME NEW v, Deliver(v), Running, Top.k \in {"eval", "after"}
      PROVE  RetInv'
  BY <1>1, Working, RetPop DEF Deliver, Unwinds
<1>2. ASSUME Crash PROVE RetInv'
  BY <1>2 DEF Crash, RetInv, ReturningUnwinds, NoStaleReturn
<1>3. CASE EvalLiteral \/ EvalVarRef \/ EvalUnknownCall
  BY <1>1, <1>3 DEF EvalLiteral, EvalVarRef, EvalUnknownCall, At
<1>4. CASE AfterUnary \/ AfterRight
  <2>1. Running /\ Top.k = "after"
    BY <1>4 DEF AfterUnary, AfterRight, At
  <2>2. Crash \/ \E res : Deliver(res)
    BY <1>4 DEF AfterUnary, AfterRight
  <2>. QED  BY <1>1, <1>2, <2>1, <2>2
<1>5. ASSUME NEW f, NEW g, Quiet(f), Quiet(g), Continue(Call(f, g)), Running,
             Top.k \notin Unwinds \/ ~returning
      PROVE  RetInv'
  BY <1>5, Working, RetCall DEF Continue
<1>6. CASE EvalOperand
  <2>1. /\ Running /\ Top.k = "eval"
        /\ Continue(Call(As("after"), Eval(Child(Top.n, 1), Top.e)))
    BY <1>6 DEF EvalOperand, At
  <2>2. Quiet(As("after")) /\ Quiet(Eval(Child(Top.n, 1), Top.e))
    BY <2>1, BuiltIsQuiet DEF FrameKind, Eval
  <2>. QED  BY <1>5, <2>1, <2>2 DEF Unwinds
<1>7. CASE AfterLeft
  <2>. DEFINE f == [Top EXCEPT !.i = 2, !.v = val]
  <2>1. /\ Running /\ Top.k = "after"
        /\ Continue(Call(f, Eval(Child(Top.n, 2), Top.e)))
    BY <1>7 DEF AfterLeft, At
  <2>2. Quiet(f)
    <3>1. Top \in Frame
      BY <2>1, Activation
    <3>2. f.k = Top.k
      BY <3>1 DEF Frame
    <3>. QED  BY <2>1, <3>2 DEF Quiet
  <2>3. Quiet(Eval(Child(Top.n, 2), Top.e))
    BY <2>1, BuiltIsQuiet DEF FrameKind, Eval
  <2>. QED  BY <1>5, <2>1, <2>2, <2>3 DEF Unwinds
<1>8. CASE EvalCall
  <2>. DEFINE f == [As("args") EXCEPT !.f = FreshEnv]
  <2>1. /\ Running /\ Top.k = "eval" /\ ctl' = Become(f)
        /\ returning' = returning /\ return_val' = return_val
    BY <1>8 DEF EvalCall, At
  <2>2. As("args") \in Frame /\ As("args").k = "args"
    BY <2>1, Activation, WithKind DEF As, FrameKind
  <2>3. f.k = "args"
    BY <2>2 DEF Frame
  <2>. QED  BY <2>1, <2>3, Working, RetBecome DEF Unwinds, Quiet
<1>9. CASE EvalArgument
  <2>1. /\ Running /\ Top.k = "args"
        /\ Continue(Call(As("bind"), Eval(Ast[Top.n].args[Top.i], Top.e)))
    BY <1>9 DEF EvalArgument, At
  <2>2. Quiet(As("bind")) /\ Quiet(Eval(Ast[Top.n].args[Top.i], Top.e))
    BY <2>1, BuiltIsQuiet DEF FrameKind, Eval
  <2>. QED  BY <1>5, <2>1, <2>2 DEF Unwinds
<1>10. CASE BindArgument
  <2>. DEFINE f == [As("args") EXCEPT !.i = @ + 1]
  <2>1. /\ Running /\ Top.k = "bind" /\ ctl' = Become(f)
        /\ returning' = returning /\ return_val' = return_val
    BY <1>10 DEF BindArgument, At
  <2>2. As("args") \in Frame /\ As("args").k = "args"
    BY <2>1, Activation, WithKind DEF As, FrameKind
  <2>3. f.k = "args"
    BY <2>2 DEF Frame
  <2>. QED  BY <2>1, <2>3, Working, RetBecome DEF Unwinds, Quiet
<1>11. CASE EnterBody
  <2>. DEFINE f == [As("body") EXCEPT !.i = 1, !.v = return_val, !.r = returning]
  <2>1. /\ Running /\ Top.k = "args" /\ ctl' = Become(f)
        /\ returning' = FALSE /\ return_val' = return_val
    BY <1>11 DEF EnterBody, At
  <2>2. ~returning /\ return_val = IntZero
    BY <2>1, Working DEF Unwinds
  <2>3. As("body") \in Frame
    BY <2>1, Activation, WithKind DEF As, FrameKind
  <2>4. f.v = return_val /\ f.r = returning
    BY <2>3 DEF Frame
  <2>. QED  BY <2>1, <2>2, <2>4, RetBecome DEF Quiet
<1>12. CASE BodyStatement
  <2>. DEFINE f == [Top EXCEPT !.i = @ + 1]
            g == Exec(Child(Callee(Top.n), Top.i), Top.f)
  <2>1. Running /\ Top.k = "body" /\ ~returning /\ Continue(Call(f, g))
    BY <1>12 DEF BodyStatement, At
  <2>2. Top.i + 1 \in Nat \ {0}
    BY <2>1, Activation
  <2>3. Quiet(f) /\ Quiet(g)
    BY <2>1, <2>2, BuiltIsQuiet DEF FrameKind, Exec
  <2>. QED  BY <1>5, <2>1, <2>3
<1>13. CASE LeaveBody
  <2>1. /\ Running /\ Top.k = "body" /\ ctl' = Pop
        /\ returning' = Top.r /\ return_val' = Top.v
    BY <1>13 DEF LeaveBody, At
  <2>2. ~returning' /\ return_val' = IntZero
    BY <2>1, TopIsQuiet DEF Quiet
  <2>. QED  BY <2>1, <2>2, RetPop
<1>. QED  BY <1>3, <1>4, <1>6, <1>7, <1>8, <1>9, <1>10, <1>11, <1>12, <1>13
             DEF Evaluate

LEMMA ExecuteReturns ==
  ASSUME TypeInv, TypeInv', RetInv, Execute
  PROVE  RetInv'
<1>. USE DEF Running
(* Most actions start an activation or end one.                            *)
<1>1. ASSUME NEW f, NEW g, Quiet(f), Quiet(g), Continue(Call(f, g)), Running,
             Top.k \notin Unwinds \/ ~returning
      PROVE  RetInv'
  BY <1>1, Working, RetCall DEF Continue
<1>2. ASSUME Finish, UNCHANGED <<returning, return_val>>, Running, RunsAsStmt(Top)
      PROVE  RetInv'
  <2>1. ~returning => return_val = IntZero
    BY <1>2 DEF RetInv, NoStaleReturn
  <2>2. Top.k # "main"
    BY <1>2 DEF RunsAsStmt
  <2>. QED  BY <1>2, <2>1, <2>2, RetPop DEF Finish
<1>3. ASSUME NEW f, Quiet(f), ctl' = Become(f), UNCHANGED <<returning, return_val>>,
             Running, Top.k \notin Unwinds \/ ~returning
      PROVE  RetInv'
  BY <1>3, Working, RetBecome
<1>4. \A n, e : Quiet(Eval(n, e)) /\ Quiet(Exec(n, e))
  BY DEF Eval, Exec, NewFrame, Quiet
<1>5. ASSUME Running, NEW k \in {"after", "loop", "update"} PROVE Quiet(As(k))
  BY <1>5, BuiltIsQuiet DEF FrameKind
<1>6. CASE ExecOperand \/ ExecCall
  <2>1. Running /\ Top.k = "exec" /\ \E n : Continue(Call(As("after"), Eval(n, Top.e)))
    BY <1>6 DEF ExecOperand, ExecCall, At
  <2>2. PICK n : Continue(Call(As("after"), Eval(n, Top.e)))
    BY <2>1
  <2>3. Quiet(As("after")) /\ Quiet(Eval(n, Top.e)) /\ Top.k \notin Unwinds
    BY <1>4, <1>5, <2>1 DEF Unwinds
  <2>. QED  BY <1>1, <2>1, <2>2, <2>3
<1>7. CASE ExecVarDecl \/ AfterVarDecl \/ AfterAssign \/ AfterPrint \/ AfterCall
           \/ ExecIgnored
  <2>1. Running /\ Top.k \in {"exec", "after"} /\ Finish
        /\ UNCHANGED <<returning, return_val>>
    BY <1>7 DEF ExecVarDecl, AfterVarDecl, AfterAssign, AfterPrint, AfterCall,
                ExecIgnored, At
  <2>2. Top.k = "after" => ~Operator(Top)
    BY <1>7 DEF ExecVarDecl, AfterVarDecl, AfterAssign, AfterPrint, AfterCall,
                ExecIgnored, At, On, Operator
  <2>3. RunsAsStmt(Top)
    BY <2>1, <2>2 DEF RunsAsStmt
  <2>. QED  BY <1>2, <2>1, <2>3
<1>8. CASE AfterIf
  <2>1. Running /\ Top.k = "after" /\ Kind(Top.n) = "IF"
    BY <1>8 DEF AfterIf, At, On
  <2>2. \/ \E n : Continue(Become(Exec(n, Top.e)))
        \/ Finish /\ UNCHANGED <<returning, return_val>>
    BY <1>8 DEF AfterIf
  <2>3. CASE \E n : Continue(Become(Exec(n, Top.e)))
    <3>1. PICK n : Continue(Become(Exec(n, Top.e)))
      BY <2>3
    <3>. QED  BY <1>3, <1>4, <2>1, <3>1 DEF Continue, Unwinds
  <2>4. CASE Finish /\ UNCHANGED <<returning, return_val>>
    <3>1. RunsAsStmt(Top)
      BY <2>1 DEF RunsAsStmt, Operator
    <3>. QED  BY <1>2, <2>1, <2>4, <3>1
  <2>. QED  BY <2>2, <2>3, <2>4
<1>9. CASE ExecReturn \/ AfterReturn
  <2>1. Running /\ Top.k \in {"exec", "after"} /\ Kind(Top.n) = "RETURN"
        /\ returning' = TRUE /\ ctl' = Pop
    BY <1>9 DEF ExecReturn, AfterReturn, At, On, Finish
  <2>2. RunsAsStmt(Top) /\ Top.k # "main"
    BY <2>1 DEF RunsAsStmt, Operator
  <2>. QED  BY <2>1, <2>2, RetPop
<1>10. CASE ExecWhile
  <2>1. Running /\ Top.k = "exec" /\ Continue(Become(As("loop")))
    BY <1>10 DEF ExecWhile, At
  <2>. QED  BY <1>3, <1>5, <2>1 DEF Continue, Unwinds
<1>11. CASE ExecBlock \/ ExecFor
  <2>. DEFINE f == [As("loop") EXCEPT !.e = FreshEnv]
  <2>1. Running /\ Top.k = "exec" /\ UNCHANGED <<returning, return_val>>
    BY <1>11 DEF ExecBlock, ExecFor, At
  <2>2. Quiet(f)
    <3>1. As("loop") \in Frame /\ As("loop").k = "loop"
      BY <2>1, Activation, WithKind DEF As, FrameKind
    <3>2. f.k = "loop"
      BY <3>1 DEF Frame
    <3>. QED  BY <3>2 DEF Quiet
  <2>3. CASE ExecBlock
    BY <1>3, <2>1, <2>2, <2>3 DEF ExecBlock, Unwinds
  <2>4. CASE ExecFor
    <3>1. ctl' = Call(f, Exec(Child(Top.n, 1), FreshEnv))
      BY <2>4 DEF ExecFor
    <3>2. ~returning' /\ return_val' = IntZero
      BY <2>1, Working DEF Unwinds
    <3>. QED  BY <1>4, <2>1, <2>2, <3>1, <3>2, RetCall
  <2>. QED  BY <1>11, <2>3, <2>4
<1>12. CASE BlockStatement
  <2>. DEFINE f == [Top EXCEPT !.i = @ + 1]
  <2>1. Running /\ Top.k = "loop" /\ ~returning
        /\ Continue(Call(f, Exec(Child(Top.n, Top.i), Top.e)))
    BY <1>12 DEF BlockStatement, At
  <2>2. Top.i + 1 \in Nat \ {0}
    BY <2>1, Activation
  <2>3. Quiet(f)
    BY <2>1, <2>2, BuiltIsQuiet
  <2>. QED  BY <1>1, <1>4, <2>1, <2>3
<1>13. CASE LeaveBlock \/ LoopFails \/ LoopReturns
  <2>1. /\ Running /\ Finish /\ UNCHANGED <<returning, return_val>>
        /\ \/ Top.k \in {"loop", "update"}
           \/ Top.k = "after" /\ Kind(Top.n) \in {"WHILE", "FOR"}
    BY <1>13 DEF LeaveBlock, LoopFails, LoopReturns, LeaveLoop, At, On
  <2>2. RunsAsStmt(Top)
    BY <2>1 DEF RunsAsStmt, Operator
  <2>. QED  BY <1>2, <2>1, <2>2
<1>14. CASE LoopTest
  <2>1. Running /\ Top.k = "loop" /\ ~returning
        /\ Continue(Call(As("after"), Eval(Condition(Top.n), Top.e)))
    BY <1>14 DEF LoopTest, At
  <2>. QED  BY <1>1, <1>4, <1>5, <2>1
<1>15. CASE EnterLoopBody
  <2>1. Running /\ Top.k = "after"
    BY <1>15 DEF EnterLoopBody, At
  <2>2. PICK k \in {"loop", "update"} :
           Continue(Call(As(k), Exec(LoopBody(Top.n), Top.e)))
    BY <1>15 DEF EnterLoopBody
  <2>3. Quiet(As(k)) /\ Top.k \notin Unwinds
    BY <1>5, <2>1 DEF Unwinds
  <2>. QED  BY <1>1, <1>4, <2>1, <2>2, <2>3
<1>16. CASE ForUpdate
  <2>1. Running /\ Top.k = "update" /\ ~returning
        /\ Continue(Call(As("loop"), Exec(Child(Top.n, 3), Top.e)))
    BY <1>16 DEF ForUpdate, At
  <2>. QED  BY <1>1, <1>4, <1>5, <2>1
<1>. QED  BY <1>6, <1>7, <1>8, <1>9, <1>10, <1>11, <1>12, <1>13, <1>14, <1>15, <1>16
             DEF Execute

LEMMA MainReturns ==
  ASSUME TypeInv, TypeInv', RetInv,
         NoMain \/ StartMain \/ MainStatement \/ MainDone \/ OutOfMemory
  PROVE  RetInv'
<1>. USE DEF Running
<1>1. CASE NoMain \/ MainDone \/ OutOfMemory
  <2>1. status' \in {"done", "crashed"}
    BY <1>1 DEF NoMain, MainDone, OutOfMemory, Crash
  <2>. QED  BY <2>1 DEF RetInv, ReturningUnwinds, NoStaleReturn
<1>2. CASE StartMain
  <2>. DEFINE f == NewFrame("main", MainFunction, FreshEnv)
  <2>1. ctl' = <<f>> /\ ~returning' /\ return_val' = IntZero
    BY <1>2 DEF StartMain, TypeInv, CleanStart
  <2>2. Quiet(f)
    BY DEF NewFrame, Quiet
  <2>. HIDE DEF f
  <2>3. Len(ctl') = 1 /\ ctl'[1] = f /\ ctl' \in Seq(Frame)
    BY <2>1 DEF TypeInv, TypeOK
  <2>4. \A i \in 1 .. 1 : Quiet(ctl'[i])
    BY <2>2, <2>3
  <2>. QED  BY <2>1, <2>3, <2>4, 1 \in Nat \ {0}, RetKept
<1>3. CASE MainStatement
  <2>. DEFINE f == [Top EXCEPT !.i = @ + 1]
            g == Exec(Child(Top.n, Top.i), Top.e)
  <2>1. Running /\ ~returning /\ ctl' = Call(f, g)
        /\ UNCHANGED <<returning, return_val>>
    BY <1>3 DEF MainStatement, At
  <2>2. Top.i + 1 \in Nat \ {0}
    BY <2>1, Activation
  <2>3. Quiet(f) /\ Quiet(g)
    BY <2>1, <2>2, BuiltIsQuiet DEF FrameKind, Exec
  <2>. QED  BY <2>1, <2>3, Working, RetCall
<1>. QED  BY <1>1, <1>2, <1>3

LEMMA ReturnsInvariant == Spec => [](TypeInv /\ RetInv)
<1>1. Init => RetInv
  BY DEF Init, RetInv, ReturningUnwinds, NoStaleReturn, Running
<1>2. TypeInv /\ TypeInv' /\ RetInv /\ [Next]_vars => RetInv'
  <2>. SUFFICES ASSUME TypeInv, TypeInv', RetInv, [Next]_vars PROVE RetInv'
    OBVIOUS
  <2>1. CASE UNCHANGED vars
    BY <2>1 DEF vars, RetInv, ReturningUnwinds, NoStaleReturn, Running, Top
  <2>2. CASE Step
    BY <2>2, EvaluateReturns, ExecuteReturns, MainReturns DEF Step
  <2>. QED  BY <2>1, <2>2 DEF Next, Terminated
<1>. QED  BY <1>1, <1>2, TypeInvariant, PTL DEF Spec

(* In every program, while a return unwinds only a block, a loop, a call's *)
(* body or main runs: exec_stmt is never entered (line 280 is dead code).  *)
THEOREM ReturnsUnwind == Spec => []ReturningUnwinds
<1>1. RetInv => ReturningUnwinds
  BY DEF RetInv
<1>. QED  BY <1>1, ReturnsInvariant, PTL

(* In every program, at any depth of recursion, no call sees the value     *)
(* another call returned, although return_val is never reset.              *)
THEOREM NoReturnIsStale == Spec => []NoStaleReturn
<1>1. RetInv => NoStaleReturn
  BY DEF RetInv
<1>. QED  BY <1>1, ReturnsInvariant, PTL

LEMMA FreeIsQuiet ==
  ASSUME TypeInv, NEW x
  PROVE  \A e \in EnvId : env_free(x)[e] \in {envs[e], Freed}
BY Same DEF env_free

LEMMA UnwindSteps == TypeInv /\ RetInv /\ [Next]_vars => [UnwindStep]_vars
<1>. SUFFICES ASSUME TypeInv, RetInv, Step, Running, returning
              PROVE  UnwindStep
  BY DEF Next, Terminated, UnwindStep
<1>. USE DEF Running
<1>1. Top.k \in Unwinds
  BY DEF RetInv, ReturningUnwinds
<1>2. Len(Pop) < Len(ctl)
  BY Activation, TopKinds, PopStack DEF StackOK
<1>3. CASE Evaluate
  <2>1. LeaveBody
    BY <1>1, <1>3 DEF Evaluate, EvalLiteral, EvalVarRef, EvalOperand, AfterUnary,
       AfterLeft, AfterRight, EvalUnknownCall, EvalCall, EvalArgument, BindArgument,
       EnterBody, BodyStatement, At, Unwinds
  <2>2. ~Top.r
    BY <2>1, TopIsQuiet DEF LeaveBody, At, Quiet
  <2>. QED  BY <1>2, <2>1, <2>2, FreeIsQuiet DEF LeaveBody, UnwindStep
<1>4. CASE Execute
  <2>1. LeaveBlock \/ LoopReturns
    BY <1>1, <1>4 DEF Execute, ExecOperand, ExecVarDecl, AfterVarDecl, AfterAssign,
       AfterIf, AfterPrint, ExecReturn, AfterReturn, ExecCall, AfterCall, ExecIgnored,
       ExecWhile, ExecBlock, ExecFor, BlockStatement, LoopTest, EnterLoopBody,
       LoopFails, ForUpdate, At, Unwinds
  <2>2. ctl' = Pop /\ out' = out /\ return_val' = return_val
        /\ (envs' = envs \/ envs' = env_free(Top.e))
    BY <2>1 DEF LeaveBlock, LoopReturns, LeaveLoop, Finish
  <2>. QED  BY <1>2, <2>2, FreeIsQuiet DEF UnwindStep
<1>5. CASE NoMain \/ StartMain \/ MainStatement \/ MainDone \/ OutOfMemory
  <2>1. MainDone
    BY <1>1, <1>5 DEF NoMain, StartMain, MainStatement, OutOfMemory, At, Unwinds
  <2>. QED  BY <1>2, <2>1, FreeIsQuiet DEF MainDone, UnwindStep
<1>. QED  BY <1>3, <1>4, <1>5 DEF Step

(* In every program a return that unwinds only ends activations and frees  *)
(* their environments: no statement of the abandoned blocks takes effect.  *)
THEOREM UnwindIsQuiet == Spec => UnwindQuiet
BY ReturnsInvariant, UnwindSteps, PTL DEF Spec, UnwindQuiet

-----------------------------------------------------------------------------
(* The life of environments: each allocated Env has one activation that    *)
(* will free it, what an activation reaches is owned by itself or an older *)
(* one, and a call's body reaches no Env older than the call.              *)

(* What an activation needs of the heap by itself.                         *)
FrameOK(t, h) ==
    /\ t.e \in EnvId /\ h[t.e].chain # <<>>
    /\ Owned(t) # NoEnv => Owned(t) \in EnvId /\ h[Owned(t)].chain # <<>>
    /\ t.k \in {"args", "bind", "body"} => h[t.f].chain = <<t.f>>
    /\ t.k = "update" => Kind(t.n) = "FOR"

(* x is owned by one of the frames 1 .. i, with no body between the owner  *)
(* and i.                                                                  *)
Reached(s, i, x) ==
    \E j \in 1 .. i : /\ Owned(s[j]) = x
                      /\ \A b \in j + 1 .. i - 1 : s[b].k # "body"

OwnersDiffer(s) ==
    \A i \in 1 .. Len(s) : \A j \in 1 .. i - 1 :
       Owned(s[i]) # NoEnv => Owned(s[j]) # Owned(s[i])

LiveOwned(s, h) ==
    \A e \in EnvId : h[e].chain # <<>> =>
       /\ h[e].chain[1] = e
       /\ \E i \in 1 .. Len(s) : Owned(s[i]) = e

ChainsReached(s, h) ==
    \A i \in 1 .. Len(s) : \A c \in 1 .. Len(h[s[i].e].chain) :
       Reached(s, i, h[s[i].e].chain[c])

(* The inductive invariant: EnvOwnership and NoDanglingEnv, with the       *)
(* chains' first elements, callees' Envs and bodies added.                 *)
EnvOK(s, h) ==
    /\ LiveOwned(s, h)
    /\ \A i \in 1 .. Len(s) : FrameOK(s[i], h)
    /\ OwnersDiffer(s)
    /\ ChainsReached(s, h)

AllFreed == \A e \in EnvId : ~Live(e)

EnvInv == /\ Running => EnvOK(ctl, envs)
          /\ status \in {"start", "done"} => AllFreed

-----------------------------------------------------------------------------
(* What an action may do to the stack and the heap.                        *)

LEMMA ReachedKept ==
  ASSUME NEW s, NEW u, NEW i \in Nat, NEW x,
         \A j \in 1 .. i : Owned(u[j]) = Owned(s[j]),
         \A j \in 1 .. i - 1 : u[j].k = s[j].k,
         Reached(s, i, x)
  PROVE  Reached(u, i, x)
BY DEF Reached

(* Only the contents of Envs change.                                       *)
LEMMA ChainsSame ==
  ASSUME NEW s, NEW h, NEW g, EnvOK(s, h), \A i \in 1 .. Len(s) : s[i].f \in EnvId \cup {NoEnv},
         \A i \in 1 .. Len(s) : s[i].k \in {"args", "bind", "body"} => s[i].f \in EnvId,
         \A e \in EnvId : g[e].chain = h[e].chain
  PROVE  EnvOK(s, g)
<1>1. LiveOwned(s, g)
  BY DEF EnvOK, LiveOwned
<1>2. \A i \in 1 .. Len(s) : FrameOK(s[i], g)
  BY DEF EnvOK, FrameOK
<1>3. ChainsReached(s, g)
  BY DEF EnvOK, FrameOK, ChainsReached
<1>. QED  BY <1>1, <1>2, <1>3 DEF EnvOK

(* The top frame becomes another one with the same Envs.                   *)
LEMMA TopSame ==
  ASSUME NEW s, NEW u, NEW h, EnvOK(s, h), Len(s) \in Nat \ {0}, Len(u) = Len(s),
         \A j \in 1 .. Len(s) : j # Len(s) => u[j] = s[j],
         u[Len(s)].e = s[Len(s)].e, Owned(u[Len(s)]) = Owned(s[Len(s)]),
         FrameOK(u[Len(s)], h)
  PROVE  EnvOK(u, h)
<1>1. \A j \in 1 .. Len(s) : Owned(u[j]) = Owned(s[j]) /\ u[j].e = s[j].e
  BY DEF EnvOK
<1>2. LiveOwned(u, h)
  BY <1>1 DEF EnvOK, LiveOwned
<1>3. \A i \in 1 .. Len(s) : FrameOK(u[i], h)
  BY DEF EnvOK
<1>4. OwnersDiffer(u)
  <2>. SUFFICES ASSUME NEW i \in 1 .. Len(s), NEW j \in 1 .. i - 1, Owned(u[i]) # NoEnv
                PROVE  Owned(u[j]) # Owned(u[i])
    BY DEF OwnersDiffer
  <2>1. j \in 1 .. Len(s)
    OBVIOUS
  <2>. QED  BY <1>1, <2>1 DEF EnvOK, OwnersDiffer
<1>5. ChainsReached(u, h)
  <2>. SUFFICES ASSUME NEW i \in 1 .. Len(s), NEW c \in 1 .. Len(h[s[i].e].chain)
                PROVE  Reached(u, i, h[s[i].e].chain[c])
    BY <1>1 DEF ChainsReached
  <2>1. Reached(s, i, h[s[i].e].chain[c])
    BY DEF EnvOK, ChainsReached
  <2>2. \A j \in 1 .. i - 1 : u[j].k = s[j].k
    OBVIOUS
  <2>3. \A j \in 1 .. i : Owned(u[j]) = Owned(s[j])
    BY <1>1
  <2>. QED  BY <2>1, <2>2, <2>3, ReachedKept
<1>. QED  BY <1>2, <1>3, <1>4, <1>5 DEF EnvOK

(* A frame that owns nothing is pushed; it uses the Env of the frame that  *)
(* pushes it, or of the callee if that is a body.                          *)
LEMMA PushOK ==
  ASSUME NEW s, NEW u, NEW h, EnvOK(s, h), Len(s) \in Nat \ {0},
         Len(u) = Len(s) + 1, \A j \in 1 .. Len(s) : u[j] = s[j],
         Owned(u[Len(s) + 1]) = NoEnv, FrameOK(u[Len(s) + 1], h),
         \/ s[Len(s)].k # "body" /\ u[Len(s) + 1].e = s[Len(s)].e
         \/ s[Len(s)].k = "body" /\ u[Len(s) + 1].e = s[Len(s)].f
  PROVE  EnvOK(u, h)
<1>. DEFINE N == Len(s)
            top == s[N]
            new == u[N + 1]
<1>1. LiveOwned(u, h)
  BY DEF EnvOK, LiveOwned
<1>2. \A i \in 1 .. Len(u) : FrameOK(u[i], h)
  <2>1. \A i \in 1 .. Len(u) : i \in 1 .. N \/ i = N + 1
    OBVIOUS
  <2>. QED  BY <2>1 DEF EnvOK
<1>3. OwnersDiffer(u)
  <2>. SUFFICES ASSUME NEW i \in 1 .. N, NEW j \in 1 .. i - 1, Owned(u[i]) # NoEnv
                PROVE  Owned(u[j]) # Owned(u[i])
    BY DEF OwnersDiffer
  <2>1. j \in 1 .. N
    OBVIOUS
  <2>. QED  BY <2>1 DEF EnvOK, OwnersDiffer
<1>4. ChainsReached(u, h)
  <2>. SUFFICES ASSUME NEW i \in 1 .. N + 1, NEW c \in 1 .. Len(h[u[i].e].chain)
                PROVE  Reached(u, i, h[u[i].e].chain[c])
    BY DEF ChainsReached
  <2>1. CASE i \in 1 .. N
    <3>1. Reached(s, i, h[s[i].e].chain[c])
      BY <2>1 DEF EnvOK, ChainsReached
    <3>2. \A j \in 1 .. i : u[j] = s[j]
      BY <2>1
    <3>. QED  BY <2>1, <3>1, <3>2, ReachedKept
  <2>2. CASE i = N + 1 /\ top.k # "body"
    <3>1. Reached(s, N, h[u[i].e].chain[c])
      BY <2>2 DEF EnvOK, ChainsReached
    <3>2. PICK j \in 1 .. N : /\ Owned(s[j]) = h[u[i].e].chain[c]
                              /\ \A b \in j + 1 .. N - 1 : s[b].k # "body"
      BY <3>1 DEF Reached
    <3>3. j \in 1 .. i /\ Owned(u[j]) = h[u[i].e].chain[c]
      BY <2>2, <3>2
    <3>4. \A b \in j + 1 .. i - 1 : u[b].k # "body"
      BY <2>2, <3>2
    <3>. QED  BY <3>3, <3>4 DEF Reached
  <2>3. CASE i = N + 1 /\ top.k = "body"
    <3>1. h[top.f].chain = <<top.f>>
      BY <2>3 DEF EnvOK, FrameOK
    <3>2. h[u[i].e].chain[c] = top.f
      BY <2>3, <3>1
    <3>3. Owned(u[N]) = top.f
      BY <2>3 DEF Owned
    <3>4. N \in 1 .. i /\ N + 1 .. i - 1 = {}
      BY <2>3
    <3>. QED  BY <3>2, <3>3, <3>4 DEF Reached
  <2>. QED  BY <2>1, <2>2, <2>3
<1>. QED  BY <1>1, <1>2, <1>3, <1>4 DEF EnvOK

(* The top frame ends, and with it the Env it owns.                        *)
LEMMA PopFrees ==
  ASSUME NEW s, NEW u, NEW h, NEW g, EnvOK(s, h), Len(s) \in Nat \ {0},
         \A i \in 1 .. Len(s) : s[i].k \in {"args", "bind", "body"} => s[i].f \in EnvId,
         \A e \in EnvId : h[e].chain \in Seq(EnvId),
         Len(u) = Len(s) - 1, \A j \in 1 .. Len(s) - 1 : u[j] = s[j],
         \A e \in EnvId : g[e] = IF e = Owned(s[Len(s)]) THEN Freed ELSE h[e]
  PROVE  EnvOK(u, g)
<1>. DEFINE N == Len(s)
            gone == Owned(s[N])
<1>1. \A i \in 1 .. N - 1 : Owned(s[i]) # NoEnv => Owned(s[i]) # gone
  <2>. SUFFICES ASSUME NEW i \in 1 .. N - 1, Owned(s[i]) # NoEnv, Owned(s[i]) = gone
                PROVE  FALSE
    OBVIOUS
  <2>1. N \in 1 .. N /\ i \in 1 .. N - 1
    OBVIOUS
  <2>. QED  BY <2>1 DEF EnvOK, OwnersDiffer
(* No chain of an older frame goes through the freed Env.                  *)
<1>2. ASSUME NEW i \in 1 .. N - 1, NEW c \in 1 .. Len(h[s[i].e].chain)
      PROVE  /\ h[s[i].e].chain[c] \in EnvId /\ h[s[i].e].chain[c] # gone
             /\ Reached(u, i, h[s[i].e].chain[c])
  <2>1. s[i].e \in EnvId /\ i \in 1 .. N
    BY DEF EnvOK, FrameOK
  <2>2. h[s[i].e].chain[c] \in EnvId
    BY <2>1
  <2>3. Reached(s, i, h[s[i].e].chain[c])
    BY <2>1 DEF EnvOK, ChainsReached
  <2>4. PICK j \in 1 .. i : Owned(s[j]) = h[s[i].e].chain[c]
    BY <2>3 DEF Reached
  <2>5. j \in 1 .. N - 1 /\ Owned(s[j]) # NoEnv
    BY <2>2, <2>4, EnvAssumption
  <2>6. \A k \in 1 .. i : u[k] = s[k]
    OBVIOUS
  <2>. QED  BY <1>1, <2>2, <2>3, <2>4, <2>5, <2>6, ReachedKept
<1>3. ASSUME NEW i \in 1 .. N - 1
      PROVE  s[i].e \in EnvId /\ s[i].e # gone /\ g[s[i].e] = h[s[i].e]
  <2>1. s[i].e \in EnvId /\ h[s[i].e].chain # <<>> /\ i \in 1 .. N
    BY DEF EnvOK, FrameOK
  <2>2. h[s[i].e].chain[1] = s[i].e /\ h[s[i].e].chain \in Seq(EnvId)
    BY <2>1 DEF EnvOK, LiveOwned
  <2>3. 1 \in 1 .. Len(h[s[i].e].chain)
    BY <2>1, <2>2
  <2>4. s[i].e # gone
    BY <1>2, <2>2, <2>3
  <2>. QED  BY <2>1, <2>4
<1>4. LiveOwned(u, g)
  <2>. SUFFICES ASSUME NEW e \in EnvId, g[e].chain # <<>>
                PROVE  g[e].chain[1] = e /\ \E i \in 1 .. N - 1 : Owned(u[i]) = e
    BY DEF LiveOwned
  <2>1. e # gone /\ g[e] = h[e]
    BY DEF Freed
  <2>2. PICK i \in 1 .. N : Owned(s[i]) = e
    BY <2>1 DEF EnvOK, LiveOwned
  <2>3. i \in 1 .. N - 1
    BY <2>1, <2>2
  <2>. QED  BY <2>1, <2>2, <2>3 DEF EnvOK, LiveOwned
<1>5. \A i \in 1 .. N - 1 : FrameOK(u[i], g)
  <2>. SUFFICES ASSUME NEW i \in 1 .. N - 1 PROVE FrameOK(s[i], g)
    OBVIOUS
  <2>1. FrameOK(s[i], h) /\ i \in 1 .. N
    BY DEF EnvOK
  <2>2. Owned(s[i]) # NoEnv => g[Owned(s[i])] = h[Owned(s[i])]
    BY <1>1, <2>1 DEF FrameOK
  <2>3. s[i].k \in {"args", "bind", "body"} => g[s[i].f] = h[s[i].f]
    BY <2>1, <2>2, EnvAssumption DEF Owned
  <2>. QED  BY <1>3, <2>1, <2>2, <2>3 DEF FrameOK
<1>6. OwnersDiffer(u)
  <2>1. ASSUME NEW i \in 1 .. N - 1, NEW j \in 1 .. i - 1, Owned(u[i]) # NoEnv
        PROVE  Owned(u[j]) # Owned(u[i])
    <3>1. i \in 1 .. N /\ u[i] = s[i] /\ u[j] = s[j]
      OBVIOUS
    <3>. QED  BY <2>1, <3>1 DEF EnvOK, OwnersDiffer
  <2>2. Len(u) = N - 1
    OBVIOUS
  <2>. QED  BY ONLY <2>1, <2>2 DEF OwnersDiffer
<1>7. ChainsReached(u, g)
  BY <1>2, <1>3 DEF ChainsReached
<1>. QED  BY <1>4, <1>5, <1>6, <1>7 DEF EnvOK

(* The top frame comes to own a new Env, a child of the one it uses or of  *)
(* none.                                                                   *)
LEMMA CreateOK ==
  ASSUME NEW s, NEW u, NEW h, NEW g, EnvOK(s, h), Len(s) \in Nat \ {0},
         \A i \in 1 .. Len(s) : s[i].k \in {"args", "bind", "body"} => s[i].f \in EnvId,
         \A e \in EnvId : h[e].chain \in Seq(EnvId),
         Len(u) = Len(s), \A j \in 1 .. Len(s) : j # Len(s) => u[j] = s[j],
         Owned(s[Len(s)]) = NoEnv,
         NEW new \in EnvId, h[new].chain = <<>>, Owned(u[Len(s)]) = new,
         \A e \in EnvId : e # new => g[e] = h[e],
         \/ g[new].chain = <<new>> /\ u[Len(s)].e = s[Len(s)].e
         \/ g[new].chain = <<new>> \o h[s[Len(s)].e].chain /\ u[Len(s)].e = new,
         u[Len(s)].k \in {"args", "bind", "body"} =>
            u[Len(s)].f = new /\ g[new].chain = <<new>>,
         u[Len(s)].k # "update"
  PROVE  EnvOK(u, g)
<1>. DEFINE N == Len(s)
            up == h[s[N].e].chain
<1>1. \A i \in 1 .. N : s[i].e \in EnvId /\ s[i].e # new /\ g[s[i].e] = h[s[i].e]
  BY DEF EnvOK, FrameOK
<1>2. \A i \in 1 .. N : Owned(s[i]) # new
  BY EnvAssumption DEF EnvOK, FrameOK
<1>3. up \in Seq(EnvId) /\ N \in 1 .. N
  BY <1>1
<1>4. /\ g[new].chain # <<>> /\ g[new].chain[1] = new
      /\ \A c \in 1 .. Len(g[new].chain) :
            g[new].chain[c] = new
            \/ /\ u[N].e = new
               /\ \E d \in 1 .. Len(up) : g[new].chain[c] = up[d]
  <2>1. CASE g[new].chain = <<new>>
    BY <2>1
  <2>2. CASE g[new].chain = <<new>> \o up /\ u[N].e = new
    <3>1. <<new>> \in Seq(EnvId) /\ Len(<<new>>) = 1
      OBVIOUS
    <3>2. /\ Len(g[new].chain) = 1 + Len(up)
          /\ g[new].chain[1] = new
          /\ \A c \in 2 .. 1 + Len(up) : g[new].chain[c] = up[c - 1]
      BY <1>3, <2>2, <3>1
    <3>3. \A c \in 2 .. 1 + Len(up) : c - 1 \in 1 .. Len(up)
      BY <1>3
    <3>4. Len(up) \in Nat /\ g[new].chain # <<>>
      BY <1>3, <3>2
    <3>. QED  BY <2>2, <3>2, <3>3, <3>4
  <2>. QED  BY <2>1, <2>2
<1>5. LiveOwned(u, g)
  <2>. SUFFICES ASSUME NEW e \in EnvId, g[e].chain # <<>>
                PROVE  g[e].chain[1] = e /\ \E i \in 1 .. N : Owned(u[i]) = e
    BY DEF LiveOwned
  <2>1. CASE e = new
    BY <1>3, <1>4, <2>1
  <2>2. CASE e # new
    <3>1. PICK i \in 1 .. N : Owned(s[i]) = e
      BY <2>2 DEF EnvOK, LiveOwned
    <3>2. i # N
      BY <3>1, EnvAssumption
    <3>. QED  BY <2>2, <3>1, <3>2 DEF EnvOK, LiveOwned
  <2>. QED  BY <2>1, <2>2
<1>6. \A i \in 1 .. N : FrameOK(u[i], g)
  <2>. SUFFICES ASSUME NEW i \in 1 .. N PROVE FrameOK(u[i], g)
    OBVIOUS
  <2>1. CASE i = N
    <3>1. u[N].e \in EnvId /\ g[u[N].e].chain # <<>>
      BY <1>1, <1>3, <1>4 DEF EnvOK, FrameOK
    <3>. QED  BY <2>1, <3>1, <1>4 DEF FrameOK
  <2>2. CASE i # N
    <3>1. FrameOK(s[i], h) /\ u[i] = s[i]
      BY <2>2 DEF EnvOK
    <3>2. Owned(s[i]) # NoEnv => g[Owned(s[i])] = h[Owned(s[i])]
      BY <1>2, <3>1 DEF FrameOK
    <3>3. s[i].k \in {"args", "bind", "body"} => g[s[i].f] = h[s[i].f]
      BY <3>1, <3>2, EnvAssumption DEF Owned
    <3>. QED  BY <1>1, <3>1, <3>2, <3>3 DEF FrameOK
  <2>. QED  BY <2>1, <2>2
<1>7. OwnersDiffer(u)
  <2>. SUFFICES ASSUME NEW i \in 1 .. N, NEW j \in 1 .. i - 1, Owned(u[i]) # NoEnv
                PROVE  Owned(u[j]) # Owned(u[i])
    BY DEF OwnersDiffer
  <2>1. j \in 1 .. N /\ j # N
    OBVIOUS
  <2>. QED  BY <1>2, <2>1 DEF EnvOK, OwnersDiffer
<1>8. ChainsReached(u, g)
  <2>1. ASSUME NEW i \in 1 .. N, NEW x, Reached(s, i, x), x # NoEnv
        PROVE  Reached(u, i, x)
    <3>1. PICK j \in 1 .. i : /\ Owned(s[j]) = x
                              /\ \A b \in j + 1 .. i - 1 : s[b].k # "body"
      BY <2>1 DEF Reached
    <3>2. Owned(u[j]) = x
      <4>1. j # N /\ j \in 1 .. N
        BY <2>1, <3>1
      <4>. QED  BY <3>1, <4>1
    <3>3. \A b \in j + 1 .. i - 1 : u[b] = s[b]
      OBVIOUS
    <3>. QED  BY <3>1, <3>2, <3>3 DEF Reached
  <2>2. ASSUME NEW i \in 1 .. N, NEW c \in 1 .. Len(h[s[i].e].chain)
        PROVE  Reached(u, i, h[s[i].e].chain[c])
    <3>1. Reached(s, i, h[s[i].e].chain[c])
      BY DEF EnvOK, ChainsReached
    <3>2. h[s[i].e].chain[c] \in EnvId
      BY <1>1
    <3>. QED  BY <2>1, <3>1, <3>2, EnvAssumption
  <2>3. Reached(u, N, new)
    BY <1>3 DEF Reached
  <2>. SUFFICES ASSUME NEW i \in 1 .. N, NEW c \in 1 .. Len(g[u[i].e].chain)
                PROVE  Reached(u, i, g[u[i].e].chain[c])
    BY DEF ChainsReached
  <2>4. CASE i # N \/ u[i].e = s[i].e
    <3>1. u[i].e = s[i].e
      BY <2>4
    <3>. QED  BY <1>1, <2>2, <3>1
  <2>5. CASE i = N /\ u[i].e # s[i].e
    <3>1. u[i].e = new
      BY <2>5
    <3>2. CASE g[new].chain[c] = new
      BY <2>3, <2>5, <3>1, <3>2
    <3>3. CASE \E d \in 1 .. Len(up) : g[new].chain[c] = up[d]
      BY <1>3, <2>2, <2>5, <3>1, <3>3
    <3>. QED  BY <1>4, <3>1, <3>2, <3>3
  <2>. QED  BY <2>4, <2>5
<1>. QED  BY <1>5, <1>6, <1>7, <1>8 DEF EnvOK

-----------------------------------------------------------------------------
(* The four kinds of steps.                                                *)

LEMMA HeapFacts ==
  ASSUME TypeInv, Running, EnvInv
  PROVE  /\ EnvOK(ctl, envs) /\ FrameOK(Top, envs)
         /\ Len(ctl) \in Nat \ {0} /\ Top = ctl[Len(ctl)] /\ Top \in Frame
         /\ \A i \in 1 .. Len(ctl) :
               /\ ctl[i].f \in EnvId \cup {NoEnv}
               /\ ctl[i].k \in {"args", "bind", "body"} => ctl[i].f \in EnvId
         /\ \A e \in EnvId : envs[e].chain \in Seq(EnvId)
         /\ envs \in [EnvId -> Env]
<1>1. EnvOK(ctl, envs)
  BY DEF EnvInv
<1>2. Len(ctl) \in Nat \ {0} /\ Top = ctl[Len(ctl)] /\ Top \in Frame
  BY Activation, TopKinds
<1>3. ctl \in Seq(Frame) /\ \A i \in 1 .. Len(ctl) : CallFrame(ctl[i])
  BY Activation DEF StackOK
<1>4. FrameOK(Top, envs)
  BY <1>1, <1>2 DEF EnvOK
<1>5. \A i \in 1 .. Len(ctl) : ctl[i].f \in EnvId \cup {NoEnv}
  <2>1. \A i \in 1 .. Len(ctl) : ctl[i] \in Frame
    BY <1>3
  <2>. QED  BY <2>1 DEF Frame
<1>6. envs \in [EnvId -> Env]
  BY Same
<1>7. \A e \in EnvId : envs[e].chain \in Seq(EnvId)
  BY <1>6 DEF Env
<1>. QED  BY <1>1, <1>2, <1>3, <1>4, <1>5, <1>6, <1>7 DEF CallFrame

SameChains == \A e \in EnvId : envs'[e].chain = envs[e].chain

(* f has the Envs of the running frame.                                    *)
Succeeds(f) == /\ f.e = Top.e /\ Owned(f) = Owned(Top)
               /\ f.k \in {"args", "bind", "body"} =>
                     Top.k \in {"args", "bind", "body"} /\ f.f = Top.f
               /\ f.k = "update" => Kind(f.n) = "FOR"

LEMMA BecomeKeeps ==
  ASSUME TypeInv, Running, EnvInv, NEW f, Succeeds(f)
  PROVE  EnvOK(Become(f), envs) /\ FrameOK(f, envs)
<1>1. FrameOK(f, envs)
  BY HeapFacts DEF FrameOK, Succeeds
<1>2. Become(f)[Len(ctl)] = f
  BY HeapFacts, BecomeShape
<1>3. EnvOK(Become(f), envs)
  BY <1>1, <1>2, HeapFacts, BecomeShape, TopSame DEF Succeeds
<1>. QED  BY <1>1, <1>3

LEMMA BecomeEnv ==
  ASSUME TypeInv, TypeInv', Running, EnvInv, NEW f, Succeeds(f), ctl' = Become(f),
         status' = status, SameChains
  PROVE  EnvInv'
<1>1. EnvOK(ctl', envs)
  BY BecomeKeeps
<1>2. /\ \A i \in 1 .. Len(ctl') : ctl'[i].f \in EnvId \cup {NoEnv}
      /\ \A i \in 1 .. Len(ctl') :
            ctl'[i].k \in {"args", "bind", "body"} => ctl'[i].f \in EnvId
  <2>1. StackOK(ctl)'
    BY DEF TypeInv, Running
  <2>2. \A i \in 1 .. Len(ctl') : ctl'[i] \in Frame
    BY <2>1 DEF StackOK
  <2>3. \A i \in 1 .. Len(ctl') :
           ctl'[i].k \in {"args", "bind", "body"} => ctl'[i].f \in EnvId
    BY <2>1 DEF StackOK, CallFrame
  <2>. QED  BY <2>2, <2>3 DEF Frame
<1>3. EnvOK(ctl', envs')
  BY <1>1, <1>2, ChainsSame DEF SameChains
<1>. QED  BY <1>3 DEF EnvInv, Running

LEMMA CallKeeps ==
  ASSUME TypeInv, Running, EnvInv, NEW f, NEW h, EnvOK(Become(f), h),
         NEW n, NEW e \in EnvId, NEW g \in {Eval(n, e), Exec(n, e)}, h[e].chain # <<>>,
         \/ f.k # "body" /\ e = f.e
         \/ f.k = "body" /\ e = f.f
  PROVE  EnvOK(Call(f, g), h)
<1>1. Owned(g) = NoEnv /\ g.k \in {"eval", "exec"} /\ g.e = e
  BY DEF Eval, Exec, NewFrame, Owned
<1>2. FrameOK(g, h)
  BY <1>1 DEF FrameOK
<1>3. \/ f.k # "body" /\ g.e = f.e
      \/ f.k = "body" /\ g.e = f.f
  BY <1>1
<1>. DEFINE s == Become(f)
            u == Call(f, g)
<1>4. /\ Len(s) = Len(ctl) /\ Len(ctl) \in Nat \ {0} /\ s[Len(s)] = f
      /\ Len(u) = Len(s) + 1 /\ \A j \in 1 .. Len(s) : u[j] = s[j]
      /\ u[Len(s) + 1] = g
  BY HeapFacts, BecomeShape, CallShape
<1>5. EnvOK(s, h)
  OBVIOUS
<1>. HIDE DEF s, u
<1>6. EnvOK(u, h)
  BY <1>1, <1>2, <1>3, <1>4, <1>5, PushOK
<1>. QED  BY <1>6 DEF u

LEMMA CallEnv ==
  ASSUME TypeInv, Running, EnvInv, NEW f, Succeeds(f),
         NEW n, NEW e, NEW g \in {Eval(n, e), Exec(n, e)}, ctl' = Call(f, g),
         \/ f.k # "body" /\ e = Top.e
         \/ f.k = "body" /\ e = Top.f,
         status' = status, envs' = envs
  PROVE  EnvInv'
<1>1. EnvOK(Become(f), envs) /\ FrameOK(f, envs)
  BY BecomeKeeps
<1>2. e \in EnvId /\ envs[e].chain # <<>>
  <2>1. CASE f.k # "body"
    BY <2>1, HeapFacts DEF FrameOK
  <2>2. CASE f.k = "body"
    <3>1. Top.k \in {"args", "bind", "body"} /\ Top.f = f.f /\ envs[f.f].chain = <<f.f>>
      BY <1>1, <2>2 DEF FrameOK, Succeeds
    <3>2. Top.f \in EnvId
      BY <3>1, HeapFacts
    <3>3. e = Top.f
      BY <2>2
    <3>4. envs[e].chain = <<e>>
      BY <3>1, <3>3
    <3>5. <<e>> # <<>>
      OBVIOUS
    <3>. QED  BY ONLY <3>2, <3>3, <3>4, <3>5
  <2>. QED  BY <2>1, <2>2
<1>3. \/ f.k # "body" /\ e = f.e
      \/ f.k = "body" /\ e = f.f
  BY DEF Succeeds
<1>4. EnvOK(Call(f, g), envs)
  BY <1>1, <1>2, <1>3, CallKeeps
<1>. QED  BY <1>4 DEF EnvInv, Running

LEMMA PopKeeps ==
  ASSUME TypeInv, Running, EnvInv,
         \/ Owned(Top) = NoEnv /\ SameChains
         \/ envs' = env_free(Owned(Top))
  PROVE  EnvOK(Pop, envs')
<1>1. /\ Len(ctl) \in Nat \ {0} /\ Len(Pop) = Len(ctl) - 1
      /\ \A j \in 1 .. Len(ctl) - 1 : Pop[j] = ctl[j]
  BY HeapFacts, PopStack, Activation, TopKinds DEF StackOK
<1>2. CASE Owned(Top) = NoEnv /\ SameChains
  <2>1. EnvOK(ctl, envs')
    BY <1>2, HeapFacts, ChainsSame DEF SameChains
  <2>2. \A e \in EnvId : envs'[e].chain \in Seq(EnvId)
    BY <1>2, HeapFacts DEF SameChains
  <2>3. \A e \in EnvId : envs'[e] = IF e = Owned(Top) THEN Freed ELSE envs'[e]
    BY <1>2, EnvAssumption
  <2>. QED  BY <1>1, <2>1, <2>2, <2>3, HeapFacts, PopFrees
<1>3. CASE envs' = env_free(Owned(Top))
  <2>1. \A e \in EnvId : envs'[e] = IF e = Owned(Top) THEN Freed ELSE envs[e]
    BY <1>3, HeapFacts DEF env_free
  <2>. QED  BY <1>1, <2>1, HeapFacts, PopFrees
<1>. QED  BY <1>2, <1>3

LEMMA PopEnv ==
  ASSUME TypeInv, Running, EnvInv, ctl' = Pop, status' = status,
         \/ Owned(Top) = NoEnv /\ SameChains
         \/ envs' = env_free(Owned(Top))
  PROVE  EnvInv'
BY PopKeeps DEF EnvInv, Running

LEMMA CreateKeeps ==
  ASSUME TypeInv, Running, EnvInv, ~HeapFull, NEW f, Owned(Top) = NoEnv,
         Owned(f) = FreshEnv, f.k # "update",
         \/ f.e = Top.e /\ f.f = FreshEnv /\ envs' = env_create(NoEnv)
         \/ /\ f.e = FreshEnv /\ envs' = env_create(Top.e)
            /\ f.k \notin {"args", "bind", "body"}
  PROVE  EnvOK(Become(f), envs')
<1>. DEFINE new == FreshEnv
<1>1. new \in EnvId /\ envs[new].chain = <<>>
  BY FreshIsFree DEF Live
<1>2. Top.e \in EnvId /\ Top.e # NoEnv
  BY HeapFacts, EnvAssumption DEF FrameOK
<1>3. \A e \in EnvId : e # new => envs'[e] = envs[e]
  BY HeapFacts DEF env_create
<1>4. /\ f.e = Top.e => envs'[new].chain = <<new>>
      /\ f.e = new => envs'[new].chain = <<new>> \o envs[Top.e].chain
  <2>1. Top.e # new
    BY <1>1, HeapFacts DEF FrameOK
  <2>2. CASE f.e = Top.e
    <3>1. envs'[new].chain = <<new>> \o <<>>
      BY <1>1, <2>1, <2>2, HeapFacts DEF env_create
    <3>. QED  BY <2>1, <2>2, <3>1
  <2>3. CASE f.e = new
    BY <1>1, <1>2, <2>1, <2>3, HeapFacts DEF env_create
  <2>. QED  BY <2>1, <2>2, <2>3
<1>. HIDE DEF new
<1>5. f.k \in {"args", "bind", "body"} => f.f = new /\ envs'[new].chain = <<new>>
  BY <1>4 DEF new
<1>6. \/ envs'[new].chain = <<new>> /\ f.e = Top.e
      \/ envs'[new].chain = <<new>> \o envs[Top.e].chain /\ f.e = new
  BY <1>4 DEF new
<1>7. Owned(f) = new
  BY DEF new
<1>. DEFINE u == Become(f)
<1>8. /\ Len(u) = Len(ctl) /\ u[Len(ctl)] = f
      /\ \A j \in 1 .. Len(ctl) : j # Len(ctl) => u[j] = ctl[j]
  BY HeapFacts, BecomeShape
<1>9. /\ EnvOK(ctl, envs) /\ Len(ctl) \in Nat \ {0} /\ Owned(ctl[Len(ctl)]) = NoEnv
      /\ \A i \in 1 .. Len(ctl) :
            ctl[i].k \in {"args", "bind", "body"} => ctl[i].f \in EnvId
      /\ \A e \in EnvId : envs[e].chain \in Seq(EnvId)
  BY HeapFacts
<1>10. \/ envs'[new].chain = <<new>> /\ u[Len(ctl)].e = ctl[Len(ctl)].e
       \/ /\ envs'[new].chain = <<new>> \o envs[ctl[Len(ctl)].e].chain
          /\ u[Len(ctl)].e = new
  BY <1>6, <1>8, HeapFacts
<1>11. /\ Owned(u[Len(ctl)]) = new /\ u[Len(ctl)].k # "update"
       /\ u[Len(ctl)].k \in {"args", "bind", "body"} =>
             u[Len(ctl)].f = new /\ envs'[new].chain = <<new>>
  BY <1>5, <1>7, <1>8
<1>. HIDE DEF u
<1>12. EnvOK(u, envs')
  BY <1>1, <1>3, <1>8, <1>9, <1>10, <1>11, CreateOK, SMTT(60)
<1>. QED  BY <1>12 DEF u

-----------------------------------------------------------------------------
(* Frames made of the running one.                                         *)

LEMMA MadeOf ==
  ASSUME TypeInv, Running
  PROVE  /\ \A k \in FrameKind : /\ As(k) \in Frame /\ As(k).k = k /\ As(k).n = Top.n
                                 /\ As(k).e = Top.e /\ As(k).f = Top.f
         /\ \A i \in Nat \ {0} :
               LET f == [Top EXCEPT !.i = i]
               IN  f.k = Top.k /\ f.n = Top.n /\ f.e = Top.e /\ f.f = Top.f
         /\ Top \in Frame /\ Top.i + 1 \in Nat \ {0}
BY Activation, WithKind, WithIndex DEF As

LEMMA NextIndex ==
  ASSUME TypeInv, Running, EnvInv
  PROVE  /\ Succeeds([Top EXCEPT !.i = @ + 1])
         /\ [Top EXCEPT !.i = @ + 1].k = Top.k
<1>. DEFINE f == [Top EXCEPT !.i = @ + 1]
<1>1. f.k = Top.k /\ f.n = Top.n /\ f.e = Top.e /\ f.f = Top.f
  BY MadeOf
<1>2. Owned(f) = Owned(Top)
  BY <1>1 DEF Owned
<1>3. Top.k = "update" => Kind(Top.n) = "FOR"
  BY HeapFacts DEF FrameOK
<1>. QED  BY <1>1, <1>2, <1>3 DEF Succeeds

(* Another kind of frame with the same Env.                                *)
LEMMA KindSucceeds ==
  ASSUME TypeInv, Running, NEW k \in {"after", "loop", "update"},
         k = "update" => Kind(Top.n) = "FOR",
         \/ Top.k = "exec" /\ Kind(Top.n) \notin {"BLOCK", "FOR"}
         \/ Top.k = "eval" /\ Kind(Top.n) \notin {"BLOCK", "FOR"}
         \/ Top.k \in {"after", "loop", "update"} /\ Kind(Top.n) = "FOR"
         \/ Top.k \in {"after", "loop"} /\ Kind(Top.n) = "WHILE"
  PROVE  Succeeds(As(k)) /\ As(k).k = k
<1>1. As(k).k = k /\ As(k).n = Top.n /\ As(k).e = Top.e
  BY MadeOf DEF FrameKind
<1>2. Owned(As(k)) = Owned(Top)
  BY <1>1 DEF Owned
<1>. QED  BY <1>1, <1>2 DEF Succeeds

LEMMA DefineKeepsChains ==
  ASSUME TypeInv, NEW e, NEW name, NEW v
  PROVE  \A x \in EnvId : env_define(e, name, v)[x].chain = envs[x].chain
<1>1. envs \in [EnvId -> Env] /\ \A x \in EnvId : envs[x] \in Env
  BY Same
<1>. QED  BY <1>1 DEF env_define, Env

-----------------------------------------------------------------------------
LEMMA CrashEnv ==
  ASSUME Crash
  PROVE  EnvInv'
BY DEF Crash, EnvInv, Running

LEMMA EvaluateEnv ==
  ASSUME TypeInv, TypeInv', EnvInv, Evaluate
  PROVE  EnvInv'
<1>. USE DEF Running
<1>1. ASSUME Running, Top.k = "eval" \/ (Top.k = "after" /\ Kind(Top.n) # "FOR"),
             NEW v, Deliver(v), envs' = envs
      PROVE  EnvInv'
  <2>1. Owned(Top) = NoEnv
    BY <1>1 DEF Owned
  <2>. QED  BY <1>1, <2>1, PopEnv DEF Deliver, SameChains
<1>2. CASE EvalLiteral \/ EvalVarRef \/ EvalUnknownCall
  <2>1. Running /\ Top.k = "eval" /\ envs' = envs /\ \E v : Deliver(v)
    BY <1>2 DEF EvalLiteral, EvalVarRef, EvalUnknownCall, At
  <2>. QED  BY <1>1, <2>1
<1>3. CASE AfterUnary \/ AfterRight
  <2>1. Running /\ Top.k = "after" /\ Kind(Top.n) # "FOR"
    BY <1>3 DEF AfterUnary, AfterRight, At, On
  <2>2. Crash \/ \E v : Deliver(v) /\ envs' = envs
    BY <1>3 DEF AfterUnary, AfterRight
  <2>. QED  BY <1>1, <2>1, <2>2, CrashEnv
<1>4. CASE EvalOperand
  <2>1. /\ Running /\ Top.k = "eval" /\ Kind(Top.n) \in {"UNARY_OP", "BINARY_OP"}
        /\ Continue(Call(As("after"), Eval(Child(Top.n, 1), Top.e)))
    BY <1>4 DEF EvalOperand, At, On
  <2>2. Succeeds(As("after")) /\ As("after").k = "after"
    BY <2>1, KindSucceeds
  <2>. QED  BY <2>1, <2>2, CallEnv DEF Continue
<1>5. CASE AfterLeft
  <2>. DEFINE f == [Top EXCEPT !.i = 2, !.v = val]
  <2>1. /\ Running /\ Top.k = "after" /\ Kind(Top.n) = "BINARY_OP"
        /\ Continue(Call(f, Eval(Child(Top.n, 2), Top.e)))
    BY <1>5 DEF AfterLeft, At, On
  <2>2. f.k = "after" /\ f.n = Top.n /\ f.e = Top.e
    BY <2>1, MadeOf DEF Frame
  <2>3. Succeeds(f)
    BY <2>1, <2>2 DEF Succeeds, Owned
  <2>. QED  BY <2>1, <2>2, <2>3, CallEnv DEF Continue
<1>6. CASE EvalCall
  <2>. DEFINE f == [As("args") EXCEPT !.f = FreshEnv]
  <2>1. Running /\ Top.k = "eval" /\ ~HeapFull /\ ctl' = Become(f)
        /\ envs' = env_create(NoEnv) /\ status' = status
    BY <1>6 DEF EvalCall, At
  <2>2. As("args") \in Frame /\ As("args").k = "args" /\ As("args").e = Top.e
    BY <2>1, MadeOf DEF FrameKind
  <2>3. f.k = "args" /\ f.e = Top.e /\ f.f = FreshEnv
    BY <2>2 DEF Frame
  <2>4. Owned(Top) = NoEnv /\ Owned(f) = FreshEnv
    BY <2>1, <2>3 DEF Owned
  <2>5. EnvOK(Become(f), envs')
    BY <2>1, <2>3, <2>4, CreateKeeps
  <2>. QED  BY <2>1, <2>5 DEF EnvInv
<1>7. CASE EvalArgument
  <2>1. /\ Running /\ Top.k = "args"
        /\ Continue(Call(As("bind"), Eval(Ast[Top.n].args[Top.i], Top.e)))
    BY <1>7 DEF EvalArgument, At
  <2>2. /\ As("bind").k = "bind" /\ As("bind").e = Top.e /\ As("bind").f = Top.f
    BY <2>1, MadeOf DEF FrameKind
  <2>3. Succeeds(As("bind"))
    BY <2>1, <2>2 DEF Succeeds, Owned
  <2>. QED  BY <2>1, <2>2, <2>3, CallEnv DEF Continue
<1>8. CASE BindArgument
  <2>. DEFINE f == [As("args") EXCEPT !.i = @ + 1]
  <2>1. Running /\ Top.k = "bind" /\ ctl' = Become(f) /\ status' = status
        /\ envs' = env_define(Top.f, Ast[Callee(Top.n)].params[Top.i].name, val)
    BY <1>8 DEF BindArgument, At
  <2>2. As("args") \in Frame /\ As("args").k = "args" /\ As("args").e = Top.e
        /\ As("args").f = Top.f
    BY <2>1, MadeOf DEF FrameKind
  <2>3. f.k = "args" /\ f.e = Top.e /\ f.f = Top.f
    BY <2>2 DEF Frame
  <2>4. Succeeds(f)
    BY <2>1, <2>3 DEF Succeeds, Owned
  <2>5. SameChains
    BY <2>1, DefineKeepsChains DEF SameChains
  <2>. QED  BY <2>1, <2>4, <2>5, BecomeEnv
<1>9. CASE EnterBody
  <2>. DEFINE f == [As("body") EXCEPT !.i = 1, !.v = return_val, !.r = returning]
  <2>1. Running /\ Top.k = "args" /\ ctl' = Become(f) /\ status' = status /\ envs' = envs
    BY <1>9 DEF EnterBody, At
  <2>2. As("body") \in Frame /\ As("body").k = "body" /\ As("body").e = Top.e
        /\ As("body").f = Top.f
    BY <2>1, MadeOf DEF FrameKind
  <2>3. f.k = "body" /\ f.e = Top.e /\ f.f = Top.f
    BY <2>2 DEF Frame
  <2>4. Succeeds(f)
    BY <2>1, <2>3 DEF Succeeds, Owned
  <2>. QED  BY <2>1, <2>4, BecomeEnv DEF SameChains
<1>10. CASE BodyStatement
  <2>. DEFINE f == [Top EXCEPT !.i = @ + 1]
  <2>1. Running /\ Top.k = "body"
        /\ Continue(Call(f, Exec(Child(Callee(Top.n), Top.i), Top.f)))
    BY <1>10 DEF BodyStatement, At
  <2>2. Succeeds(f) /\ f.k = "body"
    BY <2>1, NextIndex
  <2>. QED  BY <2>1, <2>2, CallEnv DEF Continue
<1>11. CASE LeaveBody
  <2>1. Running /\ Top.k = "body" /\ ctl' = Pop /\ envs' = env_free(Top.f)
        /\ status' = status
    BY <1>11 DEF LeaveBody, At
  <2>2. Owned(Top) = Top.f
    BY <2>1 DEF Owned
  <2>. QED  BY <2>1, <2>2, PopEnv
<1>. QED  BY <1>2, <1>3, <1>4, <1>5, <1>6, <1>7, <1>8, <1>9, <1>10, <1>11 DEF Evaluate

LEMMA ExecuteEnv ==
  ASSUME TypeInv, TypeInv', EnvInv, Execute
  PROVE  EnvInv'
<1>. USE DEF Running
(* A statement that owns nothing ends, after a change to a variable or not.*)
<1>1. ASSUME Running, Finish, SameChains, Owned(Top) = NoEnv
      PROVE  EnvInv'
  BY <1>1, PopEnv DEF Finish
<1>2. ASSUME Running, Top.k \in {"exec", "after"}, Kind(Top.n) # "FOR"
      PROVE  Owned(Top) = NoEnv
  BY <1>2 DEF Owned
<1>3. ASSUME Running, NEW k \in {"after", "loop", "update"}, Succeeds(As(k)), As(k).k = k,
             NEW n, NEW g \in {Eval(n, Top.e), Exec(n, Top.e)}, Continue(Call(As(k), g))
      PROVE  EnvInv'
  BY <1>3, CallEnv DEF Continue
<1>4. CASE ExecOperand \/ ExecCall
  <2>1. /\ Running /\ Top.k = "exec" /\ Kind(Top.n) \notin {"BLOCK", "FOR"}
        /\ \E n : Continue(Call(As("after"), Eval(n, Top.e)))
    BY <1>4 DEF ExecOperand, ExecCall, At, On
  <2>. QED  BY <1>3, <2>1, KindSucceeds
<1>5. CASE ExecVarDecl \/ AfterVarDecl \/ AfterAssign \/ AfterPrint \/ ExecReturn
           \/ AfterReturn \/ AfterCall \/ ExecIgnored
  <2>1. Running /\ Top.k \in {"exec", "after"} /\ Finish /\ Kind(Top.n) # "FOR"
    BY <1>5 DEF ExecVarDecl, AfterVarDecl, AfterAssign, AfterPrint, ExecReturn,
                AfterReturn, AfterCall, ExecIgnored, At, On, ExprKind
  <2>2. envs' = envs \/ \E e, name, v : envs' = env_define(e, name, v)
    BY <1>5 DEF ExecVarDecl, AfterVarDecl, AfterAssign, AfterPrint, ExecReturn,
                AfterReturn, AfterCall, ExecIgnored, env_set
  <2>3. SameChains
    BY <2>2, DefineKeepsChains DEF SameChains
  <2>. QED  BY <1>1, <1>2, <2>1, <2>3
<1>6. CASE AfterIf
  <2>1. Running /\ Top.k = "after" /\ Kind(Top.n) = "IF"
    BY <1>6 DEF AfterIf, At, On
  <2>2. \/ \E n : Continue(Become(Exec(n, Top.e)))
        \/ Finish /\ envs' = envs
    BY <1>6 DEF AfterIf
  <2>3. ASSUME NEW n, Continue(Become(Exec(n, Top.e))) PROVE EnvInv'
    <3>1. Succeeds(Exec(n, Top.e))
      BY <1>2, <2>1 DEF Succeeds, Exec, NewFrame, Owned
    <3>. QED  BY <2>1, <2>3, <3>1, BecomeEnv DEF Continue, SameChains
  <2>. QED  BY <1>1, <1>2, <2>1, <2>2, <2>3 DEF SameChains
<1>7. CASE ExecWhile
  <2>1. Running /\ Top.k = "exec" /\ Kind(Top.n) = "WHILE" /\ Continue(Become(As("loop")))
    BY <1>7 DEF ExecWhile, At, On
  <2>2. Succeeds(As("loop"))
    BY <2>1, KindSucceeds
  <2>. QED  BY <2>1, <2>2, BecomeEnv DEF Continue, SameChains
<1>8. CASE ExecBlock \/ ExecFor
  <2>. DEFINE f == [As("loop") EXCEPT !.e = FreshEnv]
  <2>1. /\ Running /\ Top.k = "exec" /\ Kind(Top.n) \in {"BLOCK", "FOR"} /\ ~HeapFull
        /\ status' = status /\ envs' = env_create(Top.e)
    BY <1>8 DEF ExecBlock, ExecFor, At, On
  <2>2. As("loop") \in Frame /\ As("loop").k = "loop" /\ As("loop").n = Top.n
    BY <2>1, MadeOf DEF FrameKind
  <2>3. f.k = "loop" /\ f.e = FreshEnv /\ f.n = Top.n
    BY <2>2 DEF Frame
  <2>4. Owned(Top) = NoEnv /\ Owned(f) = FreshEnv
    BY <2>1, <2>3 DEF Owned
  <2>5. EnvOK(Become(f), envs')
    BY <2>1, <2>3, <2>4, CreateKeeps
  <2>6. CASE ExecBlock
    BY <2>1, <2>5, <2>6 DEF EnvInv, ExecBlock
  <2>7. CASE ExecFor
    <3>1. ctl' = Call(f, Exec(Child(Top.n, 1), FreshEnv))
      BY <2>7 DEF ExecFor
    <3>2. FreshEnv \in EnvId /\ envs'[FreshEnv].chain # <<>>
      <4>1. FreshEnv \in EnvId
        BY <2>1, FreshIsFree
      <4>2. FrameOK(f, envs')
        BY <2>5, HeapFacts, BecomeShape, <2>1 DEF EnvOK
      <4>. QED  BY <2>3, <4>1, <4>2 DEF FrameOK
    <3>3. f.k # "body" /\ f.e = FreshEnv
      BY <2>3
    <3>. HIDE DEF f
    <3>4. EnvOK(ctl', envs')
      BY <2>1, <2>5, <3>1, <3>2, <3>3, CallKeeps
    <3>. QED  BY <2>1, <3>4 DEF EnvInv
  <2>. QED  BY <1>8, <2>6, <2>7
<1>9. CASE BlockStatement
  <2>. DEFINE f == [Top EXCEPT !.i = @ + 1]
  <2>1. Running /\ Top.k = "loop"
        /\ Continue(Call(f, Exec(Child(Top.n, Top.i), Top.e)))
    BY <1>9 DEF BlockStatement, At
  <2>2. Succeeds(f) /\ f.k = "loop"
    BY <2>1, NextIndex
  <2>. QED  BY <2>1, <2>2, CallEnv DEF Continue
<1>10. CASE LeaveBlock \/ LoopFails \/ LoopReturns
  <2>1. Running /\ Finish
    BY <1>10 DEF LeaveBlock, LoopFails, LoopReturns, LeaveLoop, At
  <2>2. \/ Owned(Top) = NoEnv /\ envs' = envs
        \/ envs' = env_free(Owned(Top))
    <3>1. CASE LeaveBlock
      BY <3>1 DEF LeaveBlock, At, On, Owned
    <3>2. CASE LoopFails
      BY <3>2 DEF LoopFails, LeaveLoop, At, On, Owned
    <3>3. CASE LoopReturns
      <4>1. Top.k = "update" => Kind(Top.n) = "FOR"
        BY <2>1, HeapFacts DEF FrameOK
      <4>. QED  BY <3>3, <4>1 DEF LoopReturns, LeaveLoop, At, On, Owned
    <3>. QED  BY <1>10, <3>1, <3>2, <3>3
  <2>. QED  BY <2>1, <2>2, PopEnv DEF Finish, SameChains
<1>11. CASE LoopTest
  <2>1. /\ Running /\ Top.k = "loop" /\ Kind(Top.n) \in {"WHILE", "FOR"}
        /\ \E n : Continue(Call(As("after"), Eval(n, Top.e)))
    BY <1>11 DEF LoopTest, At, On
  <2>. QED  BY <1>3, <2>1, KindSucceeds
<1>12. CASE EnterLoopBody
  <2>1. /\ Running /\ Top.k = "after" /\ Kind(Top.n) \in {"WHILE", "FOR"}
        /\ \E n : Continue(Call(As(IF Kind(Top.n) = "FOR" THEN "update" ELSE "loop"),
                                Exec(n, Top.e)))
    BY <1>12 DEF EnterLoopBody, At, On
  <2>. QED  BY <1>3, <2>1, KindSucceeds
<1>13. CASE ForUpdate
  <2>1. /\ Running /\ Top.k = "update" /\ Kind(Top.n) = "FOR"
        /\ \E n : Continue(Call(As("loop"), Exec(n, Top.e)))
    BY <1>13 DEF ForUpdate, At, On
  <2>. QED  BY <1>3, <2>1, KindSucceeds
<1>. QED  BY <1>4, <1>5, <1>6, <1>7, <1>8, <1>9, <1>10, <1>11, <1>12, <1>13 DEF Execute

LEMMA MainEnv ==
  ASSUME TypeInv, TypeInv', EnvInv,
         NoMain \/ StartMain \/ MainStatement \/ MainDone \/ OutOfMemory
  PROVE  EnvInv'
<1>. USE DEF Running
<1>1. CASE NoMain
  BY <1>1 DEF NoMain, EnvInv, AllFreed, Live
<1>2. CASE StartMain
  <2>. DEFINE f == NewFrame("main", MainFunction, FreshEnv)
  <2>1. status = "start" /\ status' = "running" /\ ctl' = <<f>> /\ envs' = env_create(NoEnv)
    BY <1>2 DEF StartMain
  <2>2. f.k = "main" /\ f.e = FreshEnv
    BY DEF NewFrame
  <2>. HIDE DEF f
  <2>3. Len(ctl') = 1 /\ ctl'[1] = f
    BY <2>1
  <2>4. FreshEnv \in EnvId
    BY <2>1, FreshIsFree, EnvAssumption DEF TypeInv, CleanStart, HeapFull
  <2>5. /\ envs'[FreshEnv].chain = <<FreshEnv>>
        /\ \A e \in EnvId : e # FreshEnv => envs'[e].chain = <<>>
    <3>1. envs'[FreshEnv].chain = <<FreshEnv>> \o <<>>
      BY <2>1, <2>4, Same DEF env_create
    <3>2. \A e \in EnvId : e # FreshEnv => envs'[e] = envs[e]
      BY <2>1, Same DEF env_create
    <3>3. \A e \in EnvId : envs[e].chain = <<>>
      BY <2>1 DEF TypeInv, CleanStart, Live
    <3>. QED  BY <3>1, <3>2, <3>3
  <2>6. Owned(f) = FreshEnv
    BY <2>2 DEF Owned
  <2>7. LiveOwned(ctl', envs')
    BY <2>3, <2>4, <2>5, <2>6, 1 \in 1 .. 1 DEF LiveOwned
  <2>8. \A i \in 1 .. Len(ctl') : FrameOK(ctl'[i], envs')
    <3>1. <<FreshEnv>> # <<>> /\ Head(<<FreshEnv>>) = FreshEnv
      OBVIOUS
    <3>2. FrameOK(f, envs')
      BY <2>2, <2>4, <2>5, <2>6, <3>1 DEF FrameOK
    <3>. QED  BY <2>3, <3>2
  <2>9. OwnersDiffer(ctl')
    BY <2>3 DEF OwnersDiffer
  <2>10. ChainsReached(ctl', envs')
    BY <2>2, <2>3, <2>5, <2>6 DEF ChainsReached, Reached
  <2>. QED  BY <2>1, <2>7, <2>8, <2>9, <2>10 DEF EnvInv, EnvOK
<1>3. CASE MainStatement
  <2>. DEFINE f == [Top EXCEPT !.i = @ + 1]
  <2>1. /\ Running /\ Top.k = "main" /\ status' = status /\ envs' = envs
        /\ ctl' = Call(f, Exec(Child(Top.n, Top.i), Top.e))
    BY <1>3 DEF MainStatement, At
  <2>2. Succeeds(f) /\ f.k = "main"
    BY <2>1, NextIndex
  <2>. QED  BY <2>1, <2>2, CallEnv
<1>4. CASE MainDone
  <2>1. Running /\ Top.k = "main" /\ status' = "done" /\ envs' = env_free(Top.e)
    BY <1>4 DEF MainDone, At
  <2>2. EnvOK(Pop, envs')
    BY <2>1, PopKeeps DEF Owned
  <2>3. Len(Pop) = 0
    <3>1. Len(ctl) = 1
      BY <2>1, Activation, TopKinds
    <3>2. ctl \in Seq(Frame) /\ ctl # <<>>
      BY <2>1, Activation, TopKinds DEF StackOK
    <3>3. Len(Pop) = Len(ctl) - 1
      BY <3>2, PopStack
    <3>. QED  BY <3>1, <3>3
  <2>4. AllFreed'
    BY <2>2, <2>3 DEF EnvOK, LiveOwned, AllFreed, Live
  <2>. QED  BY <2>1, <2>4 DEF EnvInv
<1>5. CASE OutOfMemory
  BY <1>5, CrashEnv DEF OutOfMemory
<1>. QED  BY <1>1, <1>2, <1>3, <1>4, <1>5

LEMMA EnvInvariant == Spec => [](TypeInv /\ EnvInv)
<1>1. Init => EnvInv
  BY DEF Init, EnvInv, AllFreed, Live, Freed, Running
<1>2. TypeInv /\ TypeInv' /\ EnvInv /\ [Next]_vars => EnvInv'
  <2>. SUFFICES ASSUME TypeInv, TypeInv', EnvInv, [Next]_vars PROVE EnvInv'
    OBVIOUS
  <2>1. CASE UNCHANGED vars
    BY <2>1 DEF vars, EnvInv, AllFreed, Live, Running
  <2>2. CASE Step
    BY <2>2, EvaluateEnv, ExecuteEnv, MainEnv DEF Step
  <2>. QED  BY <2>1, <2>2 DEF Next, Terminated
<1>. QED  BY <1>1, <1>2, TypeInvariant, PTL DEF Spec

(* In every program no Env is leaked and none is freed twice: on every way *)
(* out of a block, a for loop and a call, early returns included, the one  *)
(* activation that owns an Env frees it.                                   *)
THEOREM EnvsOwned == Spec => []EnvOwnership
<1>1. TypeInv /\ EnvInv => EnvOwnership
  <2>. SUFFICES ASSUME TypeInv, EnvInv PROVE EnvOwnership
    OBVIOUS
  <2>1. status = "done" => \A e \in EnvId : ~Live(e)
    BY DEF EnvInv, AllFreed
  <2>2. CASE ~Running
    BY <2>1, <2>2 DEF EnvOwnership
  <2>3. CASE Running
    <3>1. EnvOK(ctl, envs)
      BY <2>3 DEF EnvInv
    <3>. QED  BY <2>1, <3>1 DEF EnvOwnership, EnvOK, LiveOwned, FrameOK, OwnersDiffer,
                                Live
  <2>. QED  BY <2>2, <2>3
<1>. QED  BY <1>1, EnvInvariant, PTL

(* In every program no freed Env is ever reached, neither by an activation *)
(* nor along the parent pointers (interp.c:54-100 walk only live ones).    *)
THEOREM NoEnvDangles == Spec => []NoDanglingEnv
<1>1. EnvInv => NoDanglingEnv
  <2>. SUFFICES ASSUME EnvInv, Running, NEW i \in 1 .. Len(ctl)
                PROVE  /\ Live(ctl[i].e)
                       /\ \A c \in 1 .. Len(envs[ctl[i].e].chain) :
                             \E j \in 1 .. i : Owned(ctl[j]) = envs[ctl[i].e].chain[c]
    BY DEF NoDanglingEnv
  <2>1. EnvOK(ctl, envs)
    BY DEF EnvInv
  <2>. QED  BY <2>1 DEF EnvOK, FrameOK, Live, ChainsReached, Reached
<1>. QED  BY <1>1, EnvInvariant, PTL

-----------------------------------------------------------------------------
(* What a step writes: an Env that is new, the one the running activation  *)
(* owns, or one in the chain it uses.                                      *)
Touches(e) == \/ ~Live(e)
              \/ e = Owned(Top)
              \/ /\ Top.k \notin {"args", "bind", "body", "main"}
                 /\ \E c \in 1 .. Len(envs[Top.e].chain) : envs[Top.e].chain[c] = e

LEMMA CallerUntouched ==
  ASSUME TypeInv, EnvInv, Running,
         \A e \in EnvId : envs'[e] # envs[e] => Touches(e)
  PROVE  CallerEnvStep
<1>. SUFFICES ASSUME NEW i \in 1 .. Len(ctl), ctl[i].k = "body",
                     NEW j \in 1 .. i - 1, Owned(ctl[j]) # NoEnv,
                     Touches(Owned(ctl[j]))
              PROVE  FALSE
  <2>1. \A j \in 1 .. Len(ctl) : Owned(ctl[j]) # NoEnv => Owned(ctl[j]) \in EnvId
    BY HeapFacts DEF EnvOK, FrameOK
  <2>2. \A i \in 1 .. Len(ctl) : \A j \in 1 .. i - 1 : j \in 1 .. Len(ctl)
    BY HeapFacts
  <2>. QED  BY <2>1, <2>2 DEF CallerEnvStep
<1>. DEFINE N == Len(ctl)
            e == Owned(ctl[j])
<1>1. j \in 1 .. N /\ N \in 1 .. N /\ Top = ctl[N] /\ EnvOK(ctl, envs) /\ N \in Nat
  BY HeapFacts
<1>2. Live(e)
  BY <1>1 DEF EnvOK, FrameOK, Live
<1>3. e # Owned(Top)
  <2>1. j \in 1 .. N - 1
    BY <1>1
  <2>. QED  BY <1>1, <2>1 DEF EnvOK, OwnersDiffer
<1>4. /\ Top.k # "body"
      /\ \E c \in 1 .. Len(envs[Top.e].chain) : envs[Top.e].chain[c] = e
  BY <1>2, <1>3 DEF Touches
<1>5. Reached(ctl, N, e)
  BY <1>1, <1>4 DEF EnvOK, ChainsReached
<1>6. PICK m \in 1 .. N : /\ Owned(ctl[m]) = e
                          /\ \A b \in m + 1 .. N - 1 : ctl[b].k # "body"
  BY <1>5 DEF Reached
<1>7. i # N /\ i \in 1 .. N - 1
  BY <1>1, <1>4
<1>8. m >= i
  BY <1>6, <1>7
<1>9. j \in 1 .. m - 1 /\ m \in 1 .. N
  BY <1>8
<1>. QED  BY <1>1, <1>6, <1>9 DEF EnvOK, OwnersDiffer

LEMMA WritesTouch ==
  ASSUME TypeInv, EnvInv, Running, Top.k \notin {"args", "bind", "body", "main"},
         NEW name, NEW v
  PROVE  /\ \A e \in EnvId : env_define(Top.e, name, v)[e] # envs[e] => Touches(e)
         /\ \A e \in EnvId : env_set(Top.e, name, v)[e] # envs[e] => Touches(e)
<1>1. /\ Top.e \in EnvId /\ envs[Top.e].chain # <<>> /\ envs[Top.e].chain \in Seq(EnvId)
      /\ envs[Top.e].chain[1] = Top.e
  BY HeapFacts DEF FrameOK, EnvOK, LiveOwned
<1>2. 1 \in 1 .. Len(envs[Top.e].chain)
  BY <1>1
<1>3. Touches(Top.e)
  BY <1>1, <1>2 DEF Touches
<1>4. Holder(Top.e, name) # NoEnv => Touches(Holder(Top.e, name))
  BY <1>1 DEF Holder, Touches
<1>5. \A x, e \in EnvId : env_define(x, name, v)[e] # envs[e] => e = x
  BY HeapFacts DEF env_define
<1>6. \A x : \A e \in EnvId : env_define(x, name, v)[e] # envs[e] => e = x
  BY HeapFacts DEF env_define
<1>. QED  BY <1>3, <1>4, <1>6 DEF env_set

LEMMA StepTouches ==
  ASSUME TypeInv, EnvInv, Step, Running
  PROVE  \A e \in EnvId : envs'[e] # envs[e] => Touches(e)
<1>. USE DEF Running
<1>1. envs \in [EnvId -> Env] /\ FrameOK(Top, envs)
  BY HeapFacts
<1>2. ASSUME NEW x \in EnvId \cup {NoEnv}, ~HeapFull, envs' = env_create(x), NEW e \in EnvId,
             envs'[e] # envs[e]
      PROVE  Touches(e)
  BY <1>1, <1>2, FreshIsFree DEF env_create, Touches
<1>3. ASSUME NEW x, envs' = env_free(x), x = Owned(Top), NEW e \in EnvId,
             envs'[e] # envs[e]
      PROVE  Touches(e)
  BY <1>1, <1>3 DEF env_free, Touches
<1>4. CASE Evaluate
  <2>1. CASE EvalCall
    BY <1>2, <2>1 DEF EvalCall
  <2>2. CASE BindArgument
    BY <1>1, <2>2 DEF BindArgument, env_define, Touches, Owned, At
  <2>3. CASE LeaveBody
    BY <1>3, <2>3 DEF LeaveBody, At, Owned
  <2>4. CASE ~EvalCall /\ ~BindArgument /\ ~LeaveBody
    <3>1. envs' = envs
      BY <1>4, <2>4 DEF Evaluate, EvalLiteral, EvalVarRef, EvalOperand, AfterUnary,
         AfterLeft, AfterRight, EvalUnknownCall, EvalArgument, EnterBody, BodyStatement,
         Continue, Crash
    <3>. QED  BY <3>1
  <2>. QED  BY <2>1, <2>2, <2>3, <2>4
<1>5. CASE Execute
  <2>1. CASE ExecBlock \/ ExecFor
    BY <1>1, <1>2, <2>1 DEF ExecBlock, ExecFor, FrameOK
  <2>2. CASE ExecVarDecl \/ AfterVarDecl \/ AfterAssign
    <3>1. Top.k \in {"exec", "after"}
      BY <2>2 DEF ExecVarDecl, AfterVarDecl, AfterAssign, At
    <3>. QED  BY <2>2, <3>1, WritesTouch DEF ExecVarDecl, AfterVarDecl, AfterAssign
  <2>3. CASE LeaveBlock
    BY <1>3, <2>3 DEF LeaveBlock, At, On, Owned
  <2>4. CASE LoopFails
    BY <1>3, <2>4 DEF LoopFails, LeaveLoop, At, On, Owned
  <2>5. CASE LoopReturns
    <3>1. Top.k = "update" => Kind(Top.n) = "FOR"
      BY <1>1 DEF FrameOK
    <3>. QED  BY <1>3, <2>5, <3>1 DEF LoopReturns, LeaveLoop, At, On, Owned
  <2>6. CASE ~LeaveBlock /\ ~LoopFails /\ ~LoopReturns /\ ~ExecBlock /\ ~ExecFor
             /\ ~ExecVarDecl /\ ~AfterVarDecl /\ ~AfterAssign
    <3>1. envs' = envs
      BY <1>5, <2>6 DEF Execute, ExecOperand, AfterIf, AfterPrint, ExecReturn,
         AfterReturn, ExecCall, AfterCall, ExecIgnored, ExecWhile, BlockStatement,
         LoopTest, EnterLoopBody, ForUpdate, Continue
    <3>. QED  BY <3>1
  <2>. QED  BY <2>1, <2>2, <2>3, <2>4, <2>5, <2>6
<1>6. CASE NoMain \/ StartMain \/ MainStatement \/ MainDone \/ OutOfMemory
  <2>1. CASE MainDone
    BY <1>3, <2>1 DEF MainDone, At, Owned
  <2>2. CASE MainStatement \/ OutOfMemory
    BY <2>2 DEF MainStatement, OutOfMemory, Crash
  <2>. QED  BY <1>6, <2>1, <2>2 DEF NoMain, StartMain
<1>. QED  BY <1>4, <1>5, <1>6 DEF Step

(* In every program, while a call's body runs, the variables of its caller *)
(* and of everything below it stay as they are, however deep the recursion.*)
THEOREM CallersUntouched == Spec => CallerEnvIntact
<1>1. TypeInv /\ EnvInv /\ [Next]_vars => [CallerEnvStep]_vars
  <2>. SUFFICES ASSUME TypeInv, EnvInv, Step PROVE CallerEnvStep
    BY DEF Next, Terminated
  <2>1. CASE ~Running
    BY <2>1 DEF CallerEnvStep
  <2>2. CASE Running
    BY <2>2, StepTouches, CallerUntouched
  <2>. QED  BY <2>1, <2>2
<1>. QED  BY <1>1, EnvInvariant, PTL DEF Spec, CallerEnvIntact

-----------------------------------------------------------------------------
(* The refinement of LumisCalls.                                           *)


Active(t) == t.k \in {"body", "main"}

(* What LumisCalls sees, apart from the activations.                       *)
Unseen == UNCHANGED <<status, exit_code, val, returning, return_val, out>>

-----------------------------------------------------------------------------
(* The stack and the activations.                                          *)

(* The first frame is main's and no other.                                 *)
LEMMA MainIsFirst ==
  ASSUME TypeInv, Running
  PROVE  /\ Len(ctl) \in Nat \ {0} /\ Top = ctl[Len(ctl)]
         /\ ctl[1].k = "main"
         /\ \A i \in 2 .. Len(ctl) : ctl[i].k # "main"
<1>1. StackOK(ctl) /\ Len(ctl) \in Nat \ {0} /\ Top = ctl[Len(ctl)]
  BY Activation, TopKinds
<1>2. ctl[1].k = "main" /\ \A i \in 2 .. Len(ctl) : OnTopOf(ctl[i], ctl[i - 1])
  BY <1>1 DEF StackOK, WellNested
<1>3. \A i \in 2 .. Len(ctl) : ctl[i].k # "main"
  BY <1>2 DEF OnTopOf, Yields, RunsAsStmt
<1>. QED  BY <1>1, <1>2, <1>3

LEMMA ActivationsAre ==
  ASSUME TypeInv, Running
  PROVE  /\ Activations = {i \in 1 .. Len(ctl) : Active(ctl[i])}
         /\ 1 \in Activations
         /\ \A i \in Activations : i \in Nat /\ i <= Len(ctl)
<1>1. Activations = {i \in 1 .. Len(ctl) : Active(ctl[i])}
  BY DEF Activations, Running, Active
<1>2. Len(ctl) \in Nat \ {0} /\ ctl[1].k = "main"
  BY MainIsFirst
<1>3. 1 \in 1 .. Len(ctl) /\ \A i \in 1 .. Len(ctl) : i \in Nat /\ i <= Len(ctl)
  BY <1>2
<1>4. Active(ctl[1])
  BY <1>2 DEF Active
<1>. QED  BY <1>1, <1>3, <1>4

(* The three things an action does to the stack.                           *)
LEMMA PopActive ==
  ASSUME TypeInv, Running, status' # "done", ctl' = Pop
  PROVE  Activations' = Activations \ {Len(ctl)}
<1>1. Len(ctl) \in Nat \ {0} /\ ctl \in Seq(Frame) /\ ctl # <<>>
  BY Activation, TopKinds DEF StackOK
<1>2. Len(Pop) = Len(ctl) - 1 /\ \A i \in 1 .. Len(ctl) - 1 : Pop[i] = ctl[i]
  BY <1>1, PopStack
<1>3. Activations' = {i \in 1 .. Len(ctl) - 1 : Active(Pop[i])}
  BY <1>2 DEF Activations, Active
<1>4. 1 .. Len(ctl) - 1 = (1 .. Len(ctl)) \ {Len(ctl)}
  BY <1>1
<1>. QED  BY <1>2, <1>3, <1>4, ActivationsAre

LEMMA BecomeActive ==
  ASSUME TypeInv, Running, status' # "done", NEW f, ctl' = Become(f)
  PROVE  Activations' = IF Active(f) THEN Activations \cup {Len(ctl)}
                        ELSE Activations \ {Len(ctl)}
<1>1. Len(ctl) \in 1 .. Len(ctl)
  BY MainIsFirst
<1>2. Activations' = {i \in 1 .. Len(ctl) : Active(Become(f)[i])}
  BY BecomeShape DEF Activations, Active
<1>. QED  BY <1>1, <1>2, BecomeShape, ActivationsAre

LEMMA CallActive ==
  ASSUME TypeInv, Running, status' # "done", NEW f, NEW g, ~Active(g),
         ctl' = Call(f, g)
  PROVE  Activations' = IF Active(f) THEN Activations \cup {Len(ctl)}
                        ELSE Activations \ {Len(ctl)}
<1>1. Len(ctl) \in 1 .. Len(ctl)
  BY MainIsFirst
<1>2. Activations' = {i \in 1 .. Len(ctl) + 1 : Active(Call(f, g)[i])}
  BY CallShape DEF Activations, Active
<1>3. 1 .. Len(ctl) + 1 = (1 .. Len(ctl)) \cup {Len(ctl) + 1}
  BY <1>1
<1>. QED  BY <1>1, <1>2, <1>3, CallShape, ActivationsAre

(* Whether the running frame is an activation's.                           *)
LEMMA TopActive ==
  ASSUME TypeInv, Running
  PROVE  Len(ctl) \in Activations <=> Active(Top)
<1>1. Len(ctl) \in 1 .. Len(ctl) /\ Top = ctl[Len(ctl)]
  BY MainIsFirst
<1>. QED  BY <1>1, ActivationsAre

-----------------------------------------------------------------------------
(* What has been returned.                                                 *)

LEMMA ReturnedIs ==
  ASSUME return_val \in Value
  PROVE  /\ Running /\ returning => Returned = return_val /\ Returned # NoReturn
         /\ ~Running \/ ~returning => Returned = NoReturn
<1>1. NoReturn \notin Value
  BY DEF NoReturn, Value, DataType
<1>. QED  BY <1>1 DEF Returned, Running

LEMMA ReturnedNext ==
  ASSUME return_val' \in Value
  PROVE  /\ Running' /\ returning' => Returned' = return_val'
         /\ ~Running' \/ ~returning' => Returned' = NoReturn
BY DEF Returned, Running, NoReturn

(* Nothing LumisCalls sees has changed.                                    *)
LEMMA Stutters ==
  ASSUME Unseen, Activations' = Activations
  PROVE  UNCHANGED Calls!callVars
BY DEF Unseen, Returned, NoReturn, Calls!callVars

-----------------------------------------------------------------------------
(* The kinds of steps.                                                     *)

CallStep == [Calls!Next]_(Calls!callVars)

(* An activation that has not returned is at work.                         *)
LEMMA AtWork ==
  ASSUME TypeInv, RetInv, Running, Top.k \notin Unwinds \/ ~returning
  PROVE  Returned = NoReturn /\ ~returning /\ return_val = IntZero
BY Working, ReturnedIs, Same

LEMMA DeliverImplements ==
  ASSUME TypeInv, TypeInv', RetInv, Running, Top.k \in {"eval", "after"},
         NEW v, Deliver(v)
  PROVE  CallStep
<1>1. Activations' = Activations
  <2>1. ctl' = Pop /\ status' # "done" /\ ~Active(Top)
    BY DEF Deliver, Running, Active
  <2>. QED  BY <2>1, PopActive, TopActive
<1>2. Returned = NoReturn /\ Returned' = NoReturn
  BY AtWork, Same, ReturnedNext DEF Deliver, Unwinds
<1>3. Calls!Compute
  BY <1>1, <1>2 DEF Calls!Compute, Calls!Working, Deliver, Running, TypeInv, TypeOK
<1>. QED  BY <1>3 DEF CallStep, Calls!Next

LEMMA CrashImplements ==
  ASSUME TypeInv, RetInv, Running, Top.k \notin Unwinds, Crash
  PROVE  CallStep
<1>1. Returned = NoReturn /\ Returned' = NoReturn
  BY AtWork, ReturnedNext, Same DEF Crash, Running
<1>2. Activations' = Activations
  BY DEF Crash, Activations, Running
<1>3. Calls!Crash
  BY <1>1, <1>2 DEF Calls!Crash, Crash, Running
<1>. QED  BY <1>3 DEF CallStep, Calls!Next

(* An activation of eval_expr or exec_stmt starts, ends or changes, that   *)
(* runs no function's statements.                                          *)
LEMMA BecomeStutters ==
  ASSUME TypeInv, Running, Unseen, NEW f, ctl' = Become(f), Active(f) <=> Active(Top)
  PROVE  CallStep
<1>1. Activations' = Activations
  <2>1. status' # "done"
    BY DEF Unseen, Running
  <2>. QED  BY <2>1, BecomeActive, TopActive
<1>. QED  BY <1>1, Stutters DEF CallStep

LEMMA CallStutters ==
  ASSUME TypeInv, Running, Unseen, NEW f, NEW g, ctl' = Call(f, g),
         Active(f) <=> Active(Top), ~Active(g)
  PROVE  CallStep
<1>1. Activations' = Activations
  <2>1. status' # "done"
    BY DEF Unseen, Running
  <2>. QED  BY <2>1, CallActive, TopActive
<1>. QED  BY <1>1, Stutters DEF CallStep

LEMMA PopStutters ==
  ASSUME TypeInv, Running, Unseen, ctl' = Pop, ~Active(Top)
  PROVE  CallStep
<1>1. Activations' = Activations
  <2>1. status' # "done"
    BY DEF Unseen, Running
  <2>. QED  BY <2>1, PopActive, TopActive
<1>. QED  BY <1>1, Stutters DEF CallStep

(* Frames made of the running one.                                         *)
LEMMA MadeOfTop ==
  ASSUME TypeInv, Running
  PROVE  /\ \A i \in Nat \ {0} : [Top EXCEPT !.i = i].k = Top.k
         /\ \A k \in FrameKind : As(k).k = k /\ As(k) \in Frame
         /\ Top.i + 1 \in Nat \ {0}
BY Activation, WithIndex, WithKind DEF As

-----------------------------------------------------------------------------
LEMMA EnterBodyImplements ==
  ASSUME TypeInv, TypeInv', RetInv, EnterBody
  PROVE  CallStep
<1>. DEFINE f == [As("body") EXCEPT !.i = 1, !.v = return_val, !.r = returning]
<1>1. Running /\ Top.k = "args" /\ ctl' = Become(f) /\ status' # "done" /\ ~returning'
  BY DEF EnterBody, At, Running
<1>2. Active(f)
  <2>1. As("body") \in Frame /\ As("body").k = "body"
    BY <1>1, MadeOfTop DEF FrameKind
  <2>2. f.k = "body"
    BY <2>1 DEF Frame
  <2>. QED  BY <2>2 DEF Active
<1>3. Activations' = Activations \cup {Len(ctl)}
  BY <1>1, <1>2, BecomeActive
<1>4. \A a \in Activations : a < Len(ctl)
  <2>1. Len(ctl) \notin Activations /\ Len(ctl) \in Nat
    BY <1>1, TopActive, MainIsFirst DEF Active
  <2>2. ASSUME NEW a \in Activations PROVE a < Len(ctl)
    <3>1. a \in Nat /\ a <= Len(ctl) /\ a # Len(ctl)
      BY <1>1, <2>1, ActivationsAre
    <3>. QED  BY <2>1, <3>1
  <2>. QED  BY <2>2
<1>5. Returned = NoReturn /\ Returned' = NoReturn
  BY <1>1, AtWork, ReturnedNext DEF Unwinds, TypeInv, TypeOK
<1>6. Calls!Invoke
  BY <1>3, <1>4, <1>5 DEF Calls!Invoke, Calls!Working, EnterBody, At
<1>. QED  BY <1>6 DEF CallStep, Calls!Next

LEMMA LeaveBodyImplements ==
  ASSUME TypeInv, TypeInv', RetInv, LeaveBody
  PROVE  CallStep
<1>1. Running /\ Top.k = "body" /\ ctl' = Pop /\ status' # "done"
  BY DEF LeaveBody, At, Running
<1>2. Activations' = Activations \ {Len(ctl)}
  BY <1>1, PopActive
<1>3. Len(ctl) \in Activations /\ \A a \in Activations : a <= Len(ctl)
  BY <1>1, TopActive, ActivationsAre DEF Active
<1>4. 1 \in Activations'
  <2>1. Len(ctl) # 1
    BY <1>1, MainIsFirst
  <2>. QED  BY <1>1, <1>2, <2>1, ActivationsAre
<1>5. val' = Calls!Outcome
  <2>1. CASE returning
    BY <1>1, <2>1, ReturnedIs, Same DEF Calls!Outcome, LeaveBody
  <2>2. CASE ~returning
    BY <1>1, <2>2, AtWork DEF Calls!Outcome, LeaveBody
  <2>. QED  BY <2>1, <2>2
<1>6. Returned' = NoReturn
  <2>1. ~returning'
    BY <1>1, TopIsQuiet DEF LeaveBody, Quiet
  <2>. QED  BY <2>1, ReturnedNext DEF TypeInv, TypeOK
<1>7. Calls!Resume
  BY <1>1, <1>2, <1>3, <1>4, <1>5, <1>6 DEF Calls!Resume, LeaveBody, At
<1>. QED  BY <1>7 DEF CallStep, Calls!Next

LEMMA ReturnImplements ==
  ASSUME TypeInv, TypeInv', RetInv, ExecReturn \/ AfterReturn
  PROVE  CallStep
<1>1. Running /\ Top.k \in {"exec", "after"} /\ Finish /\ returning' = TRUE
      /\ return_val' \in {val, IntZero} /\ out' = out
  BY DEF ExecReturn, AfterReturn, At, Running
<1>2. Activations' = Activations
  <2>1. ctl' = Pop /\ status' # "done" /\ ~Active(Top)
    BY <1>1 DEF Finish, Running, Active
  <2>. QED  BY <1>1, <2>1, PopActive, TopActive
<1>3. Returned = NoReturn /\ Returned' = return_val'
  BY <1>1, AtWork, ReturnedNext DEF Unwinds, Finish, Running, TypeInv, TypeOK
<1>4. Calls!ReturnValue
  BY <1>1, <1>2, <1>3 DEF Calls!ReturnValue, Calls!Working, Finish, Running
<1>. QED  BY <1>4 DEF CallStep, Calls!Next

LEMMA PrintImplements ==
  ASSUME TypeInv, TypeInv', RetInv, AfterPrint
  PROVE  CallStep
<1>1. Running /\ Top.k = "after" /\ Finish /\ UNCHANGED <<returning, return_val>>
      /\ out' = Append(out, val)
  BY DEF AfterPrint, At, Running
<1>2. Activations' = Activations
  <2>1. ctl' = Pop /\ status' # "done" /\ ~Active(Top)
    BY <1>1 DEF Finish, Running, Active
  <2>. QED  BY <1>1, <2>1, PopActive, TopActive
<1>3. Returned = NoReturn /\ Returned' = NoReturn
  BY <1>1, AtWork, ReturnedNext DEF Unwinds, TypeInv, TypeOK
<1>4. Calls!Write
  BY <1>1, <1>2, <1>3 DEF Calls!Write, Calls!Working, Finish, Running
<1>. QED  BY <1>4 DEF CallStep, Calls!Next

-----------------------------------------------------------------------------
LEMMA EvaluateImplements ==
  ASSUME TypeInv, TypeInv', RetInv, Evaluate
  PROVE  CallStep
<1>1. CASE EvalLiteral \/ EvalVarRef \/ EvalUnknownCall
  <2>1. Running /\ Top.k = "eval" /\ \E v : Deliver(v)
    BY <1>1 DEF EvalLiteral, EvalVarRef, EvalUnknownCall, At, Running
  <2>. QED  BY <2>1, DeliverImplements
<1>2. CASE AfterUnary \/ AfterRight
  <2>1. Running /\ Top.k = "after"
    BY <1>2 DEF AfterUnary, AfterRight, At, Running
  <2>2. Crash \/ \E v : Deliver(v)
    BY <1>2 DEF AfterUnary, AfterRight
  <2>. QED  BY <2>1, <2>2, DeliverImplements, CrashImplements DEF Unwinds
<1>3. CASE EvalOperand \/ EvalArgument
  <2>1. PICK n : Continue(Call(As("after"), Eval(n, Top.e)))
                 \/ Continue(Call(As("bind"), Eval(n, Top.e)))
    BY <1>3 DEF EvalOperand, EvalArgument
  <2>2. Running /\ Top.k \in {"eval", "args"}
    BY <1>3 DEF EvalOperand, EvalArgument, At, Running
  <2>3. ~Active(As("after")) /\ ~Active(As("bind")) /\ ~Active(Top)
    BY <2>2, MadeOfTop DEF Active, FrameKind
  <2>4. ~Active(Eval(n, Top.e))
    BY DEF Active, Eval, NewFrame
  <2>5. CASE Continue(Call(As("after"), Eval(n, Top.e)))
    BY <2>2, <2>3, <2>4, <2>5, CallStutters DEF Continue, Unseen
  <2>6. CASE Continue(Call(As("bind"), Eval(n, Top.e)))
    BY <2>2, <2>3, <2>4, <2>6, CallStutters DEF Continue, Unseen
  <2>. QED  BY <2>1, <2>5, <2>6
<1>4. CASE AfterLeft
  <2>. DEFINE f == [Top EXCEPT !.i = 2, !.v = val]
  <2>1. /\ Running /\ Top.k = "after"
        /\ Continue(Call(f, Eval(Child(Top.n, 2), Top.e)))
    BY <1>4 DEF AfterLeft, At, Running
  <2>2. f.k = Top.k
    BY <2>1, Activation DEF Frame
  <2>3. ~Active(f) /\ ~Active(Top) /\ ~Active(Eval(Child(Top.n, 2), Top.e))
    BY <2>1, <2>2 DEF Active, Eval, NewFrame
  <2>. QED  BY <2>1, <2>3, CallStutters DEF Continue, Unseen
<1>5. CASE EvalCall
  <2>. DEFINE f == [As("args") EXCEPT !.f = FreshEnv]
  <2>1. Running /\ Top.k = "eval" /\ Unseen /\ ctl' = Become(f)
    BY <1>5 DEF EvalCall, At, Running, Unseen
  <2>2. f.k = "args"
    BY <2>1, MadeOfTop DEF Frame, FrameKind
  <2>. QED  BY <2>1, <2>2, BecomeStutters DEF Active
<1>6. CASE BindArgument
  <2>. DEFINE f == [As("args") EXCEPT !.i = @ + 1]
  <2>1. Running /\ Top.k = "bind" /\ Unseen /\ ctl' = Become(f)
    BY <1>6 DEF BindArgument, At, Running, Unseen
  <2>2. f.k = "args"
    BY <2>1, MadeOfTop DEF Frame, FrameKind
  <2>. QED  BY <2>1, <2>2, BecomeStutters DEF Active
<1>7. CASE BodyStatement
  <2>. DEFINE f == [Top EXCEPT !.i = @ + 1]
            g == Exec(Child(Callee(Top.n), Top.i), Top.f)
  <2>1. Running /\ Continue(Call(f, g))
    BY <1>7 DEF BodyStatement, At, Running
  <2>2. f.k = Top.k /\ ~Active(g)
    BY <2>1, MadeOfTop DEF Active, Exec, NewFrame
  <2>. QED  BY <2>1, <2>2, CallStutters DEF Continue, Unseen, Active
<1>. QED  BY <1>1, <1>2, <1>3, <1>4, <1>5, <1>6, <1>7, EnterBodyImplements,
             LeaveBodyImplements DEF Evaluate

LEMMA ExecuteImplements ==
  ASSUME TypeInv, TypeInv', RetInv, Execute
  PROVE  CallStep
<1>1. ASSUME Running, NEW f, NEW g, Continue(Call(f, g)), ~Active(f), ~Active(Top),
             ~Active(g)
      PROVE  CallStep
  BY <1>1, CallStutters DEF Continue, Unseen
<1>2. ASSUME Running, NEW f, Continue(Become(f)), ~Active(f), ~Active(Top)
      PROVE  CallStep
  BY <1>2, BecomeStutters DEF Continue, Unseen
<1>3. ASSUME Running, Finish, UNCHANGED <<returning, return_val, out>>, ~Active(Top)
      PROVE  CallStep
  BY <1>3, PopStutters DEF Finish, Unseen
<1>4. \A n, e : ~Active(Eval(n, e)) /\ ~Active(Exec(n, e))
  BY DEF Active, Eval, Exec, NewFrame
<1>5. Running => \A k \in {"after", "loop", "update"} : ~Active(As(k))
  BY MadeOfTop DEF Active, FrameKind
<1>6. CASE ExecOperand \/ ExecCall
  <2>1. Running /\ Top.k = "exec" /\ \E n : Continue(Call(As("after"), Eval(n, Top.e)))
    BY <1>6 DEF ExecOperand, ExecCall, At, Running
  <2>. QED  BY <1>1, <1>4, <1>5, <2>1 DEF Active
<1>7. CASE ExecVarDecl \/ AfterVarDecl \/ AfterAssign \/ AfterCall \/ ExecIgnored
           \/ LeaveBlock \/ LoopFails \/ LoopReturns
  <2>1. Running /\ Top.k \in {"exec", "after", "loop", "update"}
    BY <1>7 DEF ExecVarDecl, AfterVarDecl, AfterAssign, AfterCall, ExecIgnored,
                LeaveBlock, LoopFails, LoopReturns, At, Running
  <2>2. Finish /\ UNCHANGED <<returning, return_val, out>>
    BY <1>7 DEF ExecVarDecl, AfterVarDecl, AfterAssign, AfterCall, ExecIgnored,
                LeaveBlock, LoopFails, LoopReturns, LeaveLoop
  <2>. QED  BY <1>3, <2>1, <2>2 DEF Active
<1>8. CASE AfterIf
  <2>1. Running /\ Top.k = "after"
    BY <1>8 DEF AfterIf, At, Running
  <2>2. \/ \E n : Continue(Become(Exec(n, Top.e)))
        \/ Finish /\ UNCHANGED <<returning, return_val, out>>
    BY <1>8 DEF AfterIf
  <2>. QED  BY <1>2, <1>3, <1>4, <2>1, <2>2 DEF Active
<1>9. CASE ExecWhile
  <2>1. Running /\ Top.k = "exec" /\ Continue(Become(As("loop")))
    BY <1>9 DEF ExecWhile, At, Running
  <2>. QED  BY <1>2, <1>5, <2>1 DEF Active
<1>10. CASE ExecBlock \/ ExecFor
  <2>. DEFINE f == [As("loop") EXCEPT !.e = FreshEnv]
  <2>1. Running /\ Top.k = "exec" /\ Unseen
    BY <1>10 DEF ExecBlock, ExecFor, At, Running, Unseen
  <2>2. f.k = "loop"
    BY <2>1, MadeOfTop DEF Frame, FrameKind
  <2>3. ctl' = Become(f) \/ ctl' = Call(f, Exec(Child(Top.n, 1), FreshEnv))
    BY <1>10 DEF ExecBlock, ExecFor
  <2>4. ~Active(f) /\ ~Active(Top)
    BY <2>1, <2>2 DEF Active
  <2>. QED  BY <1>4, <2>1, <2>3, <2>4, BecomeStutters, CallStutters
<1>11. CASE BlockStatement
  <2>. DEFINE f == [Top EXCEPT !.i = @ + 1]
  <2>1. Running /\ Top.k = "loop"
        /\ Continue(Call(f, Exec(Child(Top.n, Top.i), Top.e)))
    BY <1>11 DEF BlockStatement, At, Running
  <2>2. f.k = Top.k
    BY <2>1, MadeOfTop
  <2>. QED  BY <1>1, <1>4, <2>1, <2>2 DEF Active
<1>12. CASE LoopTest
  <2>1. Running /\ Top.k = "loop" /\ \E n : Continue(Call(As("after"), Eval(n, Top.e)))
    BY <1>12 DEF LoopTest, At, Running
  <2>. QED  BY <1>1, <1>4, <1>5, <2>1 DEF Active
<1>13. CASE EnterLoopBody \/ ForUpdate
  <2>1. Running /\ Top.k \in {"after", "update"}
        /\ \E n : \E k \in {"loop", "update"} : Continue(Call(As(k), Exec(n, Top.e)))
    BY <1>13 DEF EnterLoopBody, ForUpdate, At, Running
  <2>. QED  BY <1>1, <1>4, <1>5, <2>1 DEF Active
<1>. QED  BY <1>6, <1>7, <1>8, <1>9, <1>10, <1>11, <1>12, <1>13, ReturnImplements,
             PrintImplements DEF Execute

(* Before main starts there is no activation.                              *)
NotStarted == status = "start" => ctl = <<>>

LEMMA EmptyStart == Spec => []NotStarted
<1>1. Init => NotStarted
  BY DEF Init, NotStarted
<1>2. NotStarted /\ [Next]_vars => NotStarted'
  <2>. SUFFICES ASSUME NotStarted, [Next]_vars, status' = "start"
                PROVE  ctl' = <<>>
    BY DEF NotStarted
  <2>1. UNCHANGED vars
    BY DEF Next, Terminated, Step, NoMain, StartMain, MainStatement, MainDone,
       OutOfMemory, Crash, Evaluate, EvalLiteral, EvalVarRef, EvalOperand, AfterUnary,
       AfterLeft, AfterRight, EvalUnknownCall, EvalCall, EvalArgument, BindArgument,
       EnterBody, BodyStatement, LeaveBody, Execute, ExecOperand, ExecVarDecl,
       AfterVarDecl, AfterAssign, AfterIf, AfterPrint, ExecReturn, AfterReturn,
       ExecCall, AfterCall, ExecIgnored, ExecWhile, ExecBlock, ExecFor,
       BlockStatement, LeaveBlock, LoopTest, EnterLoopBody, LoopFails, LoopReturns,
       LeaveLoop, ForUpdate, At, Deliver, Continue, Finish, vars
  <2>. QED  BY <2>1 DEF NotStarted, vars
<1>. QED  BY <1>1, <1>2, PTL DEF Spec

LEMMA MainImplements ==
  ASSUME TypeInv, TypeInv', RetInv, NotStarted,
         NoMain \/ StartMain \/ MainStatement \/ MainDone \/ OutOfMemory
  PROVE  CallStep
<1>1. CASE NoMain
  <2>1. Returned = NoReturn /\ Returned' = NoReturn
    BY <1>1 DEF NoMain, Returned
  <2>2. Activations = {} /\ Activations' = {}
    BY <1>1 DEF NoMain, Activations, NotStarted
  <2>. QED  BY <1>1, <2>1, <2>2 DEF NoMain, CallStep, Calls!Next, Calls!NoProgram
<1>2. CASE StartMain
  <2>. DEFINE f == NewFrame("main", MainFunction, FreshEnv)
  <2>1. Returned = NoReturn /\ Returned' = NoReturn
    BY <1>2 DEF StartMain, Returned, TypeInv, CleanStart
  <2>2. Activations' = {1}
    <3>1. ctl' = <<f>> /\ f.k = "main" /\ status' = "running"
      BY <1>2 DEF StartMain, NewFrame
    <3>. HIDE DEF f
    <3>2. Len(ctl') = 1 /\ ctl'[1] = f
      BY <3>1
    <3>. QED  BY <3>1, <3>2 DEF Activations
  <2>. QED  BY <1>2, <2>1, <2>2 DEF StartMain, CallStep, Calls!Next, Calls!Start
<1>3. CASE MainStatement
  <2>. DEFINE f == [Top EXCEPT !.i = @ + 1]
            g == Exec(Child(Top.n, Top.i), Top.e)
  <2>1. Running /\ Unseen /\ ctl' = Call(f, g)
    BY <1>3 DEF MainStatement, At, Running, Unseen
  <2>2. f.k = Top.k /\ ~Active(g)
    BY <2>1, MadeOfTop DEF Active, Exec, NewFrame
  <2>. QED  BY <2>1, <2>2, CallStutters DEF Active
<1>4. CASE MainDone
  <2>1. Running /\ Top.k = "main" /\ status' = "done"
    BY <1>4 DEF MainDone, At, Running
  <2>2. Activations = {1}
    <3>1. Len(ctl) = 1
      BY <2>1, Activation, TopKinds
    <3>. QED  BY <2>1, <3>1, ActivationsAre
  <2>3. Activations' = {} /\ Returned' = NoReturn
    BY <2>1 DEF Activations, Returned
  <2>4. Calls!Outcome = return_val
    <3>1. CASE returning
      BY <2>1, <3>1, ReturnedIs, Same DEF Calls!Outcome
    <3>2. CASE ~returning
      BY <2>1, <3>2, AtWork DEF Calls!Outcome
    <3>. QED  BY <3>1, <3>2
  <2>5. Calls!Exit
    BY <1>4, <2>1, <2>2, <2>3, <2>4 DEF Calls!Exit, MainDone, ExitCode, Running
  <2>. QED  BY <2>5 DEF CallStep, Calls!Next
<1>5. CASE OutOfMemory
  <2>1. Running /\ Top.k \in {"exec", "eval"} /\ Crash
    BY <1>5 DEF OutOfMemory, At, Running
  <2>. QED  BY <2>1, CrashImplements DEF Unwinds
<1>. QED  BY <1>1, <1>2, <1>3, <1>4, <1>5

LEMMA InitImplements == Init => Calls!Init
BY DEF Init, Calls!Init, Activations, Returned

LEMMA NextImplements ==
  TypeInv /\ TypeInv' /\ RetInv /\ NotStarted /\ [Next]_vars
     => [Calls!Next]_(Calls!callVars)
<1>. SUFFICES ASSUME TypeInv, TypeInv', RetInv, NotStarted, [Next]_vars
              PROVE  CallStep
  BY DEF CallStep
<1>1. CASE UNCHANGED vars
  BY <1>1 DEF vars, CallStep, Calls!callVars, Activations, Returned, NoReturn
<1>2. CASE Step
  BY <1>2, EvaluateImplements, ExecuteImplements, MainImplements DEF Step
<1>. QED  BY <1>1, <1>2 DEF Next, Terminated

(* In every program and at any depth of recursion the interpreter keeps    *)
(* the promise of LumisCalls: a call's caller is handed the value of the   *)
(* call's own return statement, or INT 0 if there was none.                *)
THEOREM InterpImplementsCalls == Spec => CallsAsPromised
BY InitImplements, NextImplements, ReturnsInvariant, EmptyStart, PTL
   DEF Spec, CallsAsPromised, Calls!Spec
=============================================================================
