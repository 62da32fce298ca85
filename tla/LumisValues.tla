---------------------------- MODULE LumisValues ----------------------------
(***************************************************************************)
(* The interpreter's Value (interp.c) and what eval_expr computes from its *)
(* operands.  int, char and bool payloads are exact, int with the width    *)
(* IntMin .. IntMax; the payload of a float and the text of a string are   *)
(* abstracted to 0, and wherever the code inspects one the result may be   *)
(* that of any number in Sample.  A read of int_val through a string Value *)
(* (the union's pointer bits) is such an inspection too.                   *)
(***************************************************************************)
EXTENDS LumisAst

CONSTANTS
    IntMax,    \* the largest C int
    Sample     \* numbers that stand for an abstracted payload

IntMin == -IntMax - 1

ASSUME ValuesAssumption ==
    /\ IntMax \in Nat \ {0}
    /\ Sample \subseteq IntMin .. IntMax
    /\ Sample # {}
    /\ \A n \in Node : Ast[n].num \in IntMin .. IntMax

Value == [type : DataType, num : IntMin .. IntMax]

Typed(t, i) == [type |-> t, num |-> i]
IntZero     == Typed("INT", 0)
Bool(b)     == Typed("BOOL", IF b THEN 1 ELSE 0)

(* The process is killed by the operation (SIGFPE, SIGSEGV).               *)
Fault == [type |-> "FAULT", num |-> 0]

Abstracted(v) == v.type \in {"FLOAT", "STRING"}

(* The numbers the code may read out of v.                                 *)
Nums(v) == IF Abstracted(v) THEN Sample ELSE {v.num}

(* Mutant: an addition, subtraction or product that does not wrap.         *)
Wrap_Unbounded(i) == i

(* Two's-complement wrap-around of an int result.                          *)
Wrap(i) == IntMin + ((i - IntMin) % (IntMax - IntMin + 1))

-----------------------------------------------------------------------------
Abs(i) == IF i < 0 THEN -i ELSE i

(* C's division truncates towards zero; `%' has the dividend's sign.       *)
Quot(a, b) == LET q == Abs(a) \div Abs(b)
              IN  IF (a < 0) = (b < 0) THEN q ELSE -q
Rem(a, b)  == a - b * Quot(a, b)

(* Both divisions answer 0 for a zero divisor and trap on IntMin by -1.    *)
Divided(a, b, q) == IF b = 0 THEN IntZero
                    ELSE IF a = IntMin /\ b = -1 THEN Fault
                    ELSE Typed("INT", Wrap(q))

Compare(op, a, b) == \/ op = "EQ"  /\ a = b
                     \/ op = "NEQ" /\ a # b
                     \/ op = "LT"  /\ a < b
                     \/ op = "GT"  /\ a > b
                     \/ op = "LE"  /\ a <= b
                     \/ op = "GE"  /\ a >= b
                     \/ op = "AND" /\ a # 0 /\ b # 0
                     \/ op = "OR"  /\ (a # 0 \/ b # 0)

(* What a binary operator yields for operands read as the numbers a and b. *)
Numeric(op, isFloat, a, b) ==
    IF isFloat /\ op \in {"ADD", "SUB", "MUL", "DIV"} THEN Typed("FLOAT", 0)
    ELSE CASE op = "ADD" -> Typed("INT", Wrap(a + b))
           [] op = "SUB" -> Typed("INT", Wrap(a - b))
           [] op = "MUL" -> Typed("INT", Wrap(a * b))
           [] op = "DIV" -> Divided(a, b, Quot(a, b))
           [] op = "MOD" -> Divided(a, b, Rem(a, b))
           [] OTHER      -> Bool(Compare(op, a, b))

NumericResults(op, l, r) ==
    {Numeric(op, "FLOAT" \in {l.type, r.type}, a, b) :
        a \in Nums(l), b \in Nums(r)}

(* NODE_BINARY_OP once both operands are values.  Only `+' and the         *)
(* relational operators look at strings; every other operator falls        *)
(* through to the numeric code.                                            *)
BinaryResults(op, l, r) ==
    LET hasString == "STRING" \in {l.type, r.type}
    IN  IF hasString /\ op = "ADD"        THEN {Typed("STRING", 0)}
        ELSE IF hasString /\ op \in RelOp THEN {Bool(TRUE), Bool(FALSE)}
        ELSE NumericResults(op, l, r)

(* NODE_UNARY_OP.  Negating a string Value overwrites half of its pointer: *)
(* the next use of the string may fault.                                   *)
UnaryResults(op, v) ==
    IF op = "NOT"              THEN {Bool(a = 0) : a \in Nums(v)}
    ELSE IF v.type = "FLOAT"   THEN {v}
    ELSE IF v.type = "STRING"  THEN {v, Fault}
    ELSE {Typed(v.type, Wrap(-v.num))}

(* What a condition may be taken for.                                      *)
Truths(v) == {a # 0 : a \in Nums(v)}
=============================================================================
