------------------------------ MODULE TacProofs ------------------------------
(***************************************************************************)
(* What holds for every program of the code that is generated for it: each *)
(* jump finds the one label of its number, in its own function; each       *)
(* temporary is written once, and read in straight line from there;        *)
(* whatever path the machine takes, a call takes the parameters that were  *)
(* pushed for it; and the machine never leaves the code.                   *)
(***************************************************************************)
EXTENDS TacRun, TreeProofs, TLAPS

Jumps == {"GOTO", "IF_FALSE", "LABEL"}

(* The text, written and yet to be written, as a sequence of marks: what   *)
(* will be written by a statement or expression not begun is blank, but a  *)
(* function not begun stands for the END FUNC it will become.              *)
Mark(op, num) == [op |-> op, num |-> num]
Blank         == Mark("", 0)

MarkOf(item) ==
    IF item.do = "write" THEN Mark(item.ins.op, item.ins.num)
    ELSE IF item.do = "stmt" /\ Kind(item.n) \in {"PROGRAM", "FUNC_DECL"}
    THEN Mark("END", 0) ELSE Blank

Marks ==
    [i \in 1 .. Len(code) + Len(todo) |->
        IF i <= Len(code) THEN Mark(code[i].op, code[i].num)
                          ELSE MarkOf(todo[i - Len(code)])]

(* The numbers of labels are in from .. to - 1, each label is there once,  *)
(* and a jump has its label, with no end of a function in between.         *)
Linked(s, len, from, to) ==
    /\ \A k \in 1 .. len : s[k].op \in Jumps => s[k].num \in from .. to - 1
    /\ \A k, l \in 1 .. len :
          s[k].op = "LABEL" /\ s[l].op = "LABEL" /\ s[k].num = s[l].num => k = l
    /\ \A k \in 1 .. len : s[k].op \in Jumps =>
          \E l \in 1 .. len :
             /\ s[l].op = "LABEL" /\ s[l].num = s[k].num
             /\ \A j \in 1 .. len : s[j].op = "END" => (j < k <=> j < l)

IsInstruction(ins) == \E op, dst, sym, num : ins = Ins(op, dst, sym, num)

JobOK(item) ==
    \/ item.do = "expr" /\ item.n \in Node /\ Kind(item.n) \in ExprKind
    \/ item.do = "stmt" /\ item.n \in Node
    \/ item.do = "write" /\ IsInstruction(item.ins)
    \/ item.do = "free"

IsSequence(s) == \E S : s \in Seq(S)

GenInv ==
    /\ program \in Roots
    /\ IsSequence(code) /\ IsSequence(todo)
    /\ \A i \in 1 .. Len(todo) : JobOK(todo[i])
    /\ label_counter \in Nat \ {0}
    /\ Linked(Marks, Len(code) + Len(todo), 1, label_counter)

-----------------------------------------------------------------------------
(* One mark is replaced by what is written for it.                         *)

(* t is s with its element p replaced by the m elements of e.              *)
Replaces(t, s, len, p, e, m) ==
    /\ \A i \in 1 .. p - 1 : t[i] = s[i]
    /\ \A i \in 1 .. m : t[p + i - 1] = e[i]
    /\ \A i \in p + 1 .. len : t[i + m - 1] = s[i]

LEMMA ReplacedIsLinked ==
  ASSUME NEW s, NEW t, NEW e, NEW len \in Nat, NEW m \in Nat, NEW p \in 1 .. len,
         NEW from \in Nat \ {0}, NEW to \in Nat, from <= to,
         Replaces(t, s, len, p, e, m),
         s[p].op \notin Jumps,
         Linked(s, len, 1, from), Linked(e, m, from, to),
         \A i \in 1 .. m : e[i].op = "END" => s[p].op = "END" /\ \A k \in 1 .. m : e[k].op \notin Jumps
  PROVE  Linked(t, len + m - 1, 1, to)
<1>. DEFINE N == len + m - 1
            At1(i) == IF i < p THEN i ELSE i + m - 1
            In(i) == p + i - 1
            Old == {i \in 1 .. len : i # p}
<1>1. N \in Nat
  OBVIOUS
<1>2. \A i \in Old : At1(i) \in 1 .. N /\ t[At1(i)] = s[i]
  BY DEF Replaces
<1>3. \A i \in 1 .. m : In(i) \in 1 .. N /\ t[In(i)] = e[i]
  BY DEF Replaces
<1>4. \A k \in 1 .. N : (\E i \in Old : k = At1(i)) \/ (\E i \in 1 .. m : k = In(i))
  <2>. SUFFICES ASSUME NEW k \in 1 .. N
                PROVE  (\E i \in Old : k = At1(i)) \/ (\E i \in 1 .. m : k = In(i))
    OBVIOUS
  <2>1. CASE k < p
    <3>1. k \in Old /\ k = At1(k)
      BY <2>1
    <3>. QED  BY <3>1
  <2>2. CASE p <= k /\ k < p + m
    <3>1. k - p + 1 \in 1 .. m /\ k = In(k - p + 1)
      BY <2>2
    <3>. QED  BY <3>1
  <2>3. CASE p + m <= k
    <3>1. k - m + 1 \in Old /\ k = At1(k - m + 1)
      BY <2>3
    <3>. QED  BY <3>1
  <2>. QED  BY <2>1, <2>2, <2>3
<1>5. \A i, j \in Old : (At1(i) < At1(j) <=> i < j)
  OBVIOUS
<1>6. \A i \in Old : \A j \in 1 .. m : (At1(i) < In(j) <=> i < p) /\ (In(j) < At1(i) <=> p < i)
  OBVIOUS
<1>7. \A i, j \in 1 .. m : In(i) < In(j) <=> i < j
  OBVIOUS
<1>. HIDE DEF At1, In, N
<1>. USE DEF Linked
<1>8. ASSUME NEW k \in 1 .. N, t[k].op \in Jumps
      PROVE  t[k].num \in 1 .. to - 1
  <2>1. CASE \E i \in Old : k = At1(i)
    <3>1. PICK i \in Old : k = At1(i)
      BY <2>1
    <3>2. s[i].num \in 1 .. from - 1 /\ t[k].num = s[i].num
      BY <1>2, <1>8, <3>1
    <3>. QED  BY <3>2
  <2>2. CASE \E i \in 1 .. m : k = In(i)
    <3>1. PICK i \in 1 .. m : k = In(i)
      BY <2>2
    <3>2. e[i].num \in from .. to - 1 /\ t[k].num = e[i].num
      BY <1>3, <1>8, <3>1
    <3>. QED  BY <3>2
  <2>. QED  BY <1>4, <2>1, <2>2
<1>9. ASSUME NEW k \in 1 .. N, NEW l \in 1 .. N,
             t[k].op = "LABEL", t[l].op = "LABEL", t[k].num = t[l].num
      PROVE  k = l
  <2>1. CASE \E i, j \in Old : k = At1(i) /\ l = At1(j)
    BY <1>2, <1>9, <2>1
  <2>2. CASE \E i, j \in 1 .. m : k = In(i) /\ l = In(j)
    BY <1>3, <1>9, <2>2
  <2>3. CASE \E i \in Old : \E j \in 1 .. m : {k, l} = {At1(i), In(j)}
    <3>1. PICK i \in Old : \E j \in 1 .. m : {k, l} = {At1(i), In(j)}
      BY <2>3
    <3>2. PICK j \in 1 .. m : {k, l} = {At1(i), In(j)}
      BY <3>1
    <3>3. t[At1(i)] = s[i] /\ t[In(j)] = e[j]
      BY <1>2, <1>3
    <3>4. s[i].op = "LABEL" /\ e[j].op = "LABEL" /\ s[i].num = e[j].num
      BY <1>9, <3>2, <3>3
    <3>5. s[i].num \in 1 .. from - 1 /\ e[j].num \in from .. to - 1
      BY <3>4 DEF Jumps
    <3>. QED  BY <3>4, <3>5
  <2>. QED  BY <1>4, <2>1, <2>2, <2>3
<1>10. ASSUME NEW k \in 1 .. N, t[k].op \in Jumps
       PROVE  \E l \in 1 .. N :
                 /\ t[l].op = "LABEL" /\ t[l].num = t[k].num
                 /\ \A j \in 1 .. N : t[j].op = "END" => (j < k <=> j < l)
  <2>1. CASE \E i \in Old : k = At1(i)
    <3>1. PICK i \in Old : k = At1(i)
      BY <2>1
    <3>2. PICK l \in 1 .. len : /\ s[l].op = "LABEL" /\ s[l].num = s[i].num
                                /\ \A j \in 1 .. len : s[j].op = "END" => (j < i <=> j < l)
      BY <1>2, <1>10, <3>1
    <3>3. l \in Old
      BY <3>2 DEF Jumps
    <3>4. ASSUME NEW j \in 1 .. N, t[j].op = "END"
          PROVE  j < k <=> j < At1(l)
      <4>1. CASE \E x \in Old : j = At1(x)
        BY <1>2, <1>5, <3>1, <3>2, <3>3, <3>4, <4>1
      <4>2. CASE \E x \in 1 .. m : j = In(x)
        <5>1. s[p].op = "END"
          BY <1>3, <3>4, <4>2
        <5>2. p < i <=> p < l
          BY <3>2, <5>1
        <5>. QED  BY <1>6, <3>1, <3>3, <4>2, <5>2
      <4>. QED  BY <1>4, <4>1, <4>2
    <3>. QED  BY <1>2, <3>1, <3>2, <3>3, <3>4
  <2>2. CASE \E i \in 1 .. m : k = In(i)
    <3>1. PICK i \in 1 .. m : k = In(i)
      BY <2>2
    <3>2. e[i].op \in Jumps
      BY <1>3, <1>10, <3>1
    <3>3. PICK l \in 1 .. m : /\ e[l].op = "LABEL" /\ e[l].num = e[i].num
                              /\ \A j \in 1 .. m : e[j].op = "END" => (j < i <=> j < l)
      BY <3>2
    <3>4. ASSUME NEW j \in 1 .. N, t[j].op = "END"
          PROVE  j < k <=> j < In(l)
      <4>1. CASE \E x \in Old : j = At1(x)
        BY <1>6, <3>1, <4>1
      <4>2. CASE \E x \in 1 .. m : j = In(x)
        BY <1>3, <1>7, <3>1, <3>3, <3>4, <4>2
      <4>. QED  BY <1>4, <4>1, <4>2
    <3>. QED  BY <1>3, <3>1, <3>3, <3>4
  <2>. QED  BY <1>4, <2>1, <2>2
<1>. QED  BY <1>8, <1>9, <1>10 DEF N

-----------------------------------------------------------------------------
(* What a node is given to do.                                             *)

(* Nothing is numbered where there are no labels and jumps.                *)
LEMMA NoJumps ==
  ASSUME NEW e, NEW m \in Nat, NEW from \in Nat,
         \A i \in 1 .. m : e[i].op \notin Jumps
  PROVE  Linked(e, m, from, from)
BY DEF Linked, Jumps

(* What is written instead of the job p.                                   *)
Expands(p, items, from, to) ==
    LET e == [i \in 1 .. Len(items) |-> MarkOf(items[i])]
    IN  /\ IsSequence(items)
        /\ \A i \in 1 .. Len(items) : JobOK(items[i])
        /\ Linked(e, Len(items), from, to)
        /\ \A i \in 1 .. Len(items) : e[i].op = "END" =>
              MarkOf(p).op = "END" /\ \A k \in 1 .. Len(items) : e[k].op \notin Jumps

LEMMA NodeIs ==
  ASSUME NEW n \in Node
  PROVE  /\ Ast[n] \in AstNode /\ WellShaped(n)
         /\ Children(n) \in Nat
         /\ Ast[n].children \in Seq(Node) /\ Ast[n].args \in Seq(Node)
         /\ \A i \in 1 .. Children(n) : Child(n, i) \in Node
<1>1. Ast[n] \in AstNode /\ WellShaped(n)
  BY AstAssumption
<1>. QED  BY <1>1 DEF AstNode, Children, Child

LEMMA MarkIs ==
  /\ \A op, num : Mark(op, num).op = op /\ Mark(op, num).num = num
  /\ Blank.op = ""
BY DEF Mark, Blank

LEMMA WriteIs ==
  ASSUME NEW takes, NEW op, NEW dst, NEW sym, NEW num
  PROVE  /\ JobOK(Write(takes, op, dst, sym, num))
         /\ MarkOf(Write(takes, op, dst, sym, num)) = Mark(op, num)
<1>1. Ins(op, dst, sym, num).op = op /\ Ins(op, dst, sym, num).num = num
  BY DEF Ins
<1>. DEFINE w == Write(takes, op, dst, sym, num)
<1>2. w.do = "write" /\ w.ins = Ins(op, dst, sym, num)
  BY DEF Write, Item
<1>3. MarkOf(w) = Mark(op, num)
  BY <1>1, <1>2 DEF MarkOf
<1>4. JobOK(w)
  BY <1>2 DEF JobOK, IsInstruction
<1>. QED  BY <1>3, <1>4

LEMMA PlainWrite ==
  ASSUME NEW takes, NEW op, NEW dst, NEW sym, NEW num, op \notin Jumps \cup {"END"}
  PROVE  /\ JobOK(Write(takes, op, dst, sym, num))
         /\ MarkOf(Write(takes, op, dst, sym, num)).op \notin Jumps \cup {"END"}
<1>. DEFINE w == Write(takes, op, dst, sym, num)
<1>1. JobOK(w) /\ MarkOf(w) = Mark(op, num)
  BY WriteIs
<1>2. Mark(op, num).op = op
  BY MarkIs
<1>. QED  BY <1>1, <1>2

LEMMA LabelIs ==
  ASSUME NEW l
  PROVE  /\ JobOK(Label(l)) /\ MarkOf(Label(l)) = Mark("LABEL", l)
         /\ JobOK(Goto(l)) /\ MarkOf(Goto(l)) = Mark("GOTO", l)
         /\ JobOK(IfFalse(l)) /\ MarkOf(IfFalse(l)) = Mark("IF_FALSE", l)
BY WriteIs DEF Label, Goto, IfFalse

LEMMA LabelMarks ==
  ASSUME NEW l
  PROVE  /\ JobOK(Label(l)) /\ MarkOf(Label(l)).op = "LABEL" /\ MarkOf(Label(l)).num = l
         /\ JobOK(Goto(l)) /\ MarkOf(Goto(l)).op = "GOTO" /\ MarkOf(Goto(l)).num = l
         /\ JobOK(IfFalse(l)) /\ MarkOf(IfFalse(l)).op = "IF_FALSE"
         /\ MarkOf(IfFalse(l)).num = l
<1>1. \A op : Mark(op, l).op = op /\ Mark(op, l).num = l
  BY MarkIs
<1>. QED  BY <1>1, LabelIs

LEMMA ExprIs ==
  ASSUME NEW n
  PROVE  /\ n \in Node /\ Kind(n) \in ExprKind => JobOK(Expr(n))
         /\ MarkOf(Expr(n)) = Blank /\ MarkOf(Expr(n)).op = ""
<1>1. Expr(n).do = "expr" /\ Expr(n).n = n
  BY DEF Expr, Item
<1>. QED  BY <1>1, MarkIs DEF JobOK, MarkOf

LEMMA StmtIs ==
  ASSUME NEW n
  PROVE  /\ n \in Node => JobOK(Stmt(n))
         /\ MarkOf(Stmt(n)) = IF Kind(n) \in {"PROGRAM", "FUNC_DECL"} THEN Mark("END", 0) ELSE Blank
<1>1. Stmt(n).do = "stmt" /\ Stmt(n).n = n
  BY DEF Stmt, Item
<1>. QED  BY <1>1 DEF JobOK, MarkOf

LEMMA FreeIs == JobOK(Free) /\ MarkOf(Free) = Blank
<1>1. Free.do = "free"
  BY DEF Free, Item
<1>. QED  BY <1>1 DEF JobOK, MarkOf

(* Jobs that neither label or jump nor end a function disturb nothing.     *)
Quiet(items, ops) ==
    /\ IsSequence(items)
    /\ \A i \in 1 .. Len(items) : JobOK(items[i]) /\ MarkOf(items[i]).op \notin ops

Plain(items) == Quiet(items, Jumps \cup {"END"})

LEMMA PlainExpands ==
  ASSUME NEW p, NEW items, NEW from \in Nat, Plain(items)
  PROVE  Expands(p, items, from, from)
<1>. DEFINE e == [i \in 1 .. Len(items) |-> MarkOf(items[i])]
<1>1. Len(items) \in Nat
  BY DEF Plain, Quiet, IsSequence
<1>2. Linked(e, Len(items), from, from)
  BY <1>1, NoJumps DEF Plain, Quiet
<1>. QED  BY <1>2 DEF Expands, Plain, Quiet

LEMMA ExprExpands ==
  ASSUME NEW p, NEW n \in Node, Kind(n) \in ExprKind \ {"LITERAL", "VAR_REF"}, NEW from \in Nat
  PROVE  Expands(p, ExprItems(n), from, from)
<1>1. CASE Kind(n) = "CALL"
  <2>. DEFINE items == ExprItems(n)
              N == 2 * Len(Ast[n].args)
              call == Write(0, "CALL", "", Ast[n].name, Len(Ast[n].args))
  <2>1. items = Append(GenArgs(n), call)
    BY <1>1 DEF ExprItems, GenCall
  <2>2. N \in Nat /\ Len(Ast[n].args) \in Nat
    BY NodeIs
  <2>3. ASSUME NEW j \in 1 .. N
        PROVE  \/ \E k \in 1 .. Len(Ast[n].args) : GenArgs(n)[j] = Expr(Ast[n].args[k])
               \/ GenArgs(n)[j] = Write(1, "PARAM", "", "", 0)
    <3>1. CASE j % 2 = 1
      <4>1. (j + 1) \div 2 \in 1 .. Len(Ast[n].args)
        BY <2>2, <3>1
      <4>. QED  BY <3>1, <4>1 DEF GenArgs
    <3>2. CASE j % 2 # 1
      BY <3>2 DEF GenArgs
    <3>. QED  BY <3>1, <3>2
  <2>4. \A k \in 1 .. Len(Ast[n].args) : Ast[n].args[k] \in Node /\ Kind(Ast[n].args[k]) \in ExprKind
    BY NodeIs DEF WellShaped
  <2>5. \A j \in 1 .. N : JobOK(GenArgs(n)[j]) /\ MarkOf(GenArgs(n)[j]).op \notin Jumps \cup {"END"}
    <3>. SUFFICES ASSUME NEW j \in 1 .. N
                  PROVE  JobOK(GenArgs(n)[j]) /\ MarkOf(GenArgs(n)[j]).op \notin Jumps \cup {"END"}
      OBVIOUS
    <3>1. CASE GenArgs(n)[j] = Write(1, "PARAM", "", "", 0)
      BY <3>1, PlainWrite DEF Jumps
    <3>2. CASE \E k \in 1 .. Len(Ast[n].args) : GenArgs(n)[j] = Expr(Ast[n].args[k])
      <4>1. PICK k \in 1 .. Len(Ast[n].args) : GenArgs(n)[j] = Expr(Ast[n].args[k])
        BY <3>2
      <4>. QED  BY <2>4, <4>1, ExprIs DEF Jumps
    <3>. QED  BY <2>3, <3>1, <3>2
  <2>6. JobOK(call) /\ MarkOf(call).op \notin Jumps \cup {"END"}
    BY PlainWrite DEF Jumps
  <2>7. GenArgs(n) \in Seq({GenArgs(n)[j] : j \in 1 .. N}) /\ Len(GenArgs(n)) = N
    <3>1. GenArgs(n) = [j \in 1 .. N |-> GenArgs(n)[j]]
      BY DEF GenArgs
    <3>. HIDE DEF N
    <3>. QED  BY <2>2, <3>1
  <2>. HIDE DEF call, N
  <2>8. /\ items \in Seq({GenArgs(n)[j] : j \in 1 .. N} \cup {call}) /\ Len(items) = N + 1
        /\ \A j \in 1 .. N : items[j] = GenArgs(n)[j]
        /\ items[N + 1] = call
    BY <2>1, <2>2, <2>7
  <2>9. \A j \in 1 .. Len(items) : JobOK(items[j]) /\ MarkOf(items[j]).op \notin Jumps \cup {"END"}
    BY <2>2, <2>5, <2>6, <2>8
  <2>. QED  BY <2>8, <2>9, PlainExpands DEF Plain, Quiet, IsSequence
<1>2. CASE Kind(n) = "UNARY_OP"
  <2>. DEFINE x  == Expr(Child(n, 1))
              op == Write(1, "UNARY", "", Ast[n].op, 0)
  <2>1. ExprItems(n) = <<x, op>>
    BY <1>2 DEF ExprItems
  <2>2. Child(n, 1) \in Node /\ Kind(Child(n, 1)) \in ExprKind
    BY <1>2, NodeIs DEF WellShaped, WellCounted, ExprChildren
  <2>3. JobOK(x) /\ MarkOf(x).op = "" /\ JobOK(op) /\ MarkOf(op).op \notin Jumps \cup {"END"}
    BY <2>2, ExprIs, PlainWrite DEF Jumps
  <2>. HIDE DEF x, op
  <2>4. ExprItems(n) \in Seq({x, op}) /\ Len(ExprItems(n)) = 2
    BY <2>1
  <2>5. \A i \in 1 .. Len(ExprItems(n)) : ExprItems(n)[i] \in {x, op}
    BY <2>1, <2>4
  <2>6. Plain(ExprItems(n))
    BY <2>3, <2>4, <2>5 DEF Plain, Quiet, IsSequence, Jumps
  <2>. QED  BY <2>6, PlainExpands
<1>3. CASE Kind(n) = "BINARY_OP"
  <2>. DEFINE x  == Expr(Child(n, 1))
              y  == Expr(Child(n, 2))
              op == Write(2, "BINARY", "", Ast[n].op, 0)
  <2>1. ExprItems(n) = <<x, y, op>>
    BY <1>3 DEF ExprItems
  <2>2. \A i \in {1, 2} : Child(n, i) \in Node /\ Kind(Child(n, i)) \in ExprKind
    BY <1>3, NodeIs DEF WellShaped, WellCounted, ExprChildren
  <2>3. /\ JobOK(x) /\ MarkOf(x).op = "" /\ JobOK(y) /\ MarkOf(y).op = ""
        /\ JobOK(op) /\ MarkOf(op).op \notin Jumps \cup {"END"}
    BY <2>2, ExprIs, PlainWrite DEF Jumps
  <2>. HIDE DEF x, y, op
  <2>4. ExprItems(n) \in Seq({x, y, op}) /\ Len(ExprItems(n)) = 3
    BY <2>1
  <2>5. \A i \in 1 .. Len(ExprItems(n)) : ExprItems(n)[i] \in {x, y, op}
    BY <2>1, <2>4
  <2>6. Plain(ExprItems(n))
    BY <2>3, <2>4, <2>5 DEF Plain, Quiet, IsSequence, Jumps
  <2>. QED  BY <2>6, PlainExpands
<1>. QED  BY <1>1, <1>2, <1>3 DEF ExprKind

LEMMA QuietOne ==
  ASSUME NEW x, NEW ops, JobOK(x), MarkOf(x).op \notin ops
  PROVE  Quiet(<<x>>, ops)
<1>1. <<x>> \in Seq({x}) /\ Len(<<x>>) = 1 /\ \A i \in 1 .. 1 : <<x>>[i] = x
  OBVIOUS
<1>2. IsSequence(<<x>>)
  BY <1>1 DEF IsSequence
<1>. QED  BY <1>1, <1>2 DEF Quiet

LEMMA PlainOne ==
  ASSUME NEW x, JobOK(x), MarkOf(x).op \notin Jumps \cup {"END"}
  PROVE  Plain(<<x>>)
BY QuietOne DEF Plain

LEMMA QuietBoth ==
  ASSUME NEW a, NEW b, NEW ops, Quiet(a, ops), Quiet(b, ops)
  PROVE  Quiet(a \o b, ops)
<1>1. PICK S : a \in Seq(S)
  BY DEF Quiet, IsSequence
<1>2. PICK T : b \in Seq(T)
  BY DEF Quiet, IsSequence
<1>3. a \in Seq(S \cup T) /\ b \in Seq(S \cup T)
  BY <1>1, <1>2
<1>4. /\ a \o b \in Seq(S \cup T) /\ Len(a \o b) = Len(a) + Len(b)
      /\ Len(a) \in Nat /\ Len(b) \in Nat
      /\ \A i \in 1 .. Len(a) : (a \o b)[i] = a[i]
      /\ \A i \in Len(a) + 1 .. Len(a) + Len(b) :
            (a \o b)[i] = b[i - Len(a)] /\ i - Len(a) \in 1 .. Len(b)
  BY <1>3
<1>5. ASSUME NEW i \in 1 .. Len(a \o b)
      PROVE  JobOK((a \o b)[i]) /\ MarkOf((a \o b)[i]).op \notin ops
  <2>1. i \in 1 .. Len(a) \/ i \in Len(a) + 1 .. Len(a) + Len(b)
    BY <1>4
  <2>. QED  BY <1>4, <2>1 DEF Quiet
<1>. QED  BY <1>4, <1>5 DEF Quiet, IsSequence

LEMMA PlainBoth ==
  ASSUME NEW a, NEW b, Plain(a), Plain(b)
  PROVE  Plain(a \o b)
BY QuietBoth DEF Plain

LEMMA PlainStmt ==
  ASSUME NEW n \in Node, Kind(n) \in StmtKind \cup ExprKind
  PROVE  /\ JobOK(Stmt(n)) /\ MarkOf(Stmt(n)).op = ""
         /\ MarkOf(Stmt(n)).op \notin Jumps \cup {"END"}
<1>1. Kind(n) \notin {"PROGRAM", "FUNC_DECL"}
  BY DEF StmtKind, ExprKind
<1>2. JobOK(Stmt(n)) /\ MarkOf(Stmt(n)) = Blank
  BY <1>1, StmtIs
<1>. QED  BY <1>2, MarkIs DEF Jumps

LEMMA PlainExpr ==
  ASSUME NEW n \in Node, Kind(n) \in ExprKind
  PROVE  /\ JobOK(Expr(n)) /\ MarkOf(Expr(n)).op = ""
         /\ MarkOf(Expr(n)).op \notin Jumps \cup {"END"}
<1>1. JobOK(Expr(n)) /\ MarkOf(Expr(n)) = Blank
  BY ExprIs
<1>. QED  BY <1>1, MarkIs DEF Jumps

LEMMA ChildrenAre ==
  ASSUME NEW n \in Node
  PROVE  \A i \in 1 .. Children(n) :
            /\ Child(n, i) \in Node
            /\ i \in ExprChildren(n) /\ Kind(n) \notin {"PROGRAM", "FUNC_DECL"}
                  => Kind(Child(n, i)) \in ExprKind
            /\ Kind(n) \notin {"PROGRAM", "FUNC_DECL"}
                  => Kind(Child(n, i)) \in StmtKind \cup ExprKind
            /\ Kind(n) = "FUNC_DECL" => Kind(Child(n, i)) = "BLOCK"
BY NodeIs DEF WellShaped

(* The values of a node's children, in order.                              *)
LEMMA StmtsAre ==
  ASSUME NEW n \in Node
  PROVE  /\ Stmts(Ast[n].children) = [i \in 1 .. Children(n) |-> Stmt(Child(n, i))]
         /\ Exprs(Ast[n].children) = [i \in 1 .. Children(n) |-> Expr(Child(n, i))]
<1>1. DOMAIN Ast[n].children = 1 .. Children(n)
  BY NodeIs DEF Children
<1>. QED  BY <1>1 DEF Stmts, Exprs, Child

LEMMA PlainChildren ==
  ASSUME NEW n \in Node, Kind(n) \notin {"PROGRAM", "FUNC_DECL"}
  PROVE  /\ Plain(Stmts(Ast[n].children))
         /\ ExprChildren(n) = 1 .. Children(n) => Plain(Exprs(Ast[n].children))
<1>. DEFINE N == Children(n)
            st == [i \in 1 .. N |-> Stmt(Child(n, i))]
            ex == [i \in 1 .. N |-> Expr(Child(n, i))]
<1>1. N \in Nat
  BY NodeIs
<1>2. \A i \in 1 .. N : JobOK(st[i]) /\ MarkOf(st[i]).op \notin Jumps \cup {"END"}
  BY ChildrenAre, PlainStmt
<1>3. ASSUME ExprChildren(n) = 1 .. N
      PROVE  \A i \in 1 .. N : JobOK(ex[i]) /\ MarkOf(ex[i]).op \notin Jumps \cup {"END"}
  BY <1>3, ChildrenAre, PlainExpr
<1>4. /\ st \in Seq({st[i] : i \in 1 .. N}) /\ Len(st) = N
      /\ ex \in Seq({ex[i] : i \in 1 .. N}) /\ Len(ex) = N
  <2>. HIDE DEF N
  <2>. QED  BY <1>1
<1>. HIDE DEF st, ex, N
<1>5. Plain(st) /\ (ExprChildren(n) = 1 .. N => Plain(ex))
  BY <1>2, <1>3, <1>4 DEF Plain, Quiet, IsSequence
<1>. QED  BY <1>5, StmtsAre DEF st, ex, N

-----------------------------------------------------------------------------
(* Statements that take labels.                                            *)

(* All that is written of such a statement by itself: labels and jumps     *)
(* with one of the two numbers l and l + 1, each label once, each jump     *)
(* with its label.                                                         *)
TwoLabels(e, m, l) ==
    /\ \A k \in 1 .. m : e[k].op # "END"
    /\ \A k \in 1 .. m : e[k].op \in Jumps => e[k].num \in {l, l + 1}
    /\ \A k, j \in 1 .. m :
          e[k].op = "LABEL" /\ e[j].op = "LABEL" /\ e[k].num = e[j].num => k = j
    /\ \A k \in 1 .. m : e[k].op \in Jumps =>
          \E j \in 1 .. m : e[j].op = "LABEL" /\ e[j].num = e[k].num

LEMMA TwoLabelsExpand ==
  ASSUME NEW p, NEW items, NEW l \in Nat, IsSequence(items),
         \A i \in 1 .. Len(items) : JobOK(items[i]),
         TwoLabels([i \in 1 .. Len(items) |-> MarkOf(items[i])], Len(items), l)
  PROVE  Expands(p, items, l, l + 2)
<1>. DEFINE e == [i \in 1 .. Len(items) |-> MarkOf(items[i])]
<1>1. Len(items) \in Nat
  BY DEF IsSequence
<1>2. \A k \in 1 .. Len(items) : e[k].op = MarkOf(items[k]).op
  OBVIOUS
<1>. HIDE DEF e
<1>3. TwoLabels(e, Len(items), l)
  BY DEF e
<1>4. Linked(e, Len(items), l, l + 2)
  BY <1>1, <1>3 DEF TwoLabels, Linked
<1>. QED  BY <1>2, <1>3, <1>4 DEF Expands, TwoLabels, e

(* An if without an else: its first label is not used.                     *)
LEMMA ShortIf ==
  ASSUME NEW p, NEW l \in Nat, NEW cond \in Node, Kind(cond) \in ExprKind,
         NEW then \in Node, Kind(then) \in StmtKind \cup ExprKind
  PROVE  Expands(p, <<Expr(cond), IfFalse(l + 1), Stmt(then), Label(l + 1)>>, l, l + 2)
<1>. DEFINE a == Expr(cond)
            b == IfFalse(l + 1)
            c == Stmt(then)
            d == Label(l + 1)
            items == <<a, b, c, d>>
            e == [i \in 1 .. 4 |-> MarkOf(items[i])]
<1>1. JobOK(a) /\ JobOK(b) /\ JobOK(c) /\ JobOK(d)
  BY LabelMarks, PlainExpr, PlainStmt
<1>2. /\ MarkOf(a).op = ""
      /\ MarkOf(b).op = "IF_FALSE" /\ MarkOf(b).num = l + 1
      /\ MarkOf(c).op = ""
      /\ MarkOf(d).op = "LABEL" /\ MarkOf(d).num = l + 1
  BY LabelMarks, PlainExpr, PlainStmt
<1>. HIDE DEF a, b, c, d
<1>3. items \in Seq({a, b, c, d}) /\ Len(items) = 4
  OBVIOUS
<1>4. \A i \in 1 .. 4 : JobOK(items[i])
  <2>1. \A i \in 1 .. 4 : items[i] \in {a, b, c, d}
    OBVIOUS
  <2>. HIDE DEF items
  <2>. QED  BY <1>1, <2>1
<1>5. e[1] = MarkOf(a) /\ e[2] = MarkOf(b) /\ e[3] = MarkOf(c) /\ e[4] = MarkOf(d)
  OBVIOUS
<1>. HIDE DEF items, e
<1>6. /\ e[1].op = ""
      /\ e[2].op = "IF_FALSE" /\ e[2].num = l + 1
      /\ e[3].op = ""
      /\ e[4].op = "LABEL" /\ e[4].num = l + 1
  BY <1>2, <1>5
<1>7. TwoLabels(e, 4, l)
  <2>1. \A k \in 1 .. 4 : k \in {1, 2, 3, 4}
    OBVIOUS
  <2>2. \A k \in 1 .. 4 : e[k].op # "END"
    BY <1>6, <2>1
  <2>3. \A k \in 1 .. 4 : e[k].op = "LABEL" => k \in {4}
    BY <1>6, <2>1
  <2>4. \A k \in 1 .. 4 : e[k].op \in Jumps => k \in {2, 4}
    BY <1>6, <2>1 DEF Jumps
  <2>5. \A k \in {2, 4} : e[k].num \in {l + 1}
    BY <1>6
  <2>6. e[4].op = "LABEL" /\ e[4].num = l + 1
    BY <1>6
  <2>. QED  BY <2>2, <2>3, <2>4, <2>5, <2>6 DEF TwoLabels
<1>. QED  BY <1>3, <1>4, <1>7, TwoLabelsExpand DEF IsSequence, a, b, c, d, items, e

(* An if with an else.                                                     *)
LEMMA FullIf ==
  ASSUME NEW p, NEW l \in Nat, NEW cond \in Node, Kind(cond) \in ExprKind,
         NEW then \in Node, Kind(then) \in StmtKind \cup ExprKind,
         NEW else \in Node, Kind(else) \in StmtKind \cup ExprKind
  PROVE  Expands(p, <<Expr(cond), IfFalse(l), Stmt(then), Goto(l + 1),
                      Label(l), Stmt(else), Label(l + 1)>>, l, l + 2)
<1>. DEFINE a == Expr(cond)
            b == IfFalse(l)
            c == Stmt(then)
            d == Goto(l + 1)
            f == Label(l)
            g == Stmt(else)
            h == Label(l + 1)
            items == <<a, b, c, d, f, g, h>>
            e == [i \in 1 .. 7 |-> MarkOf(items[i])]
<1>1. JobOK(a) /\ JobOK(b) /\ JobOK(c) /\ JobOK(d) /\ JobOK(f) /\ JobOK(g) /\ JobOK(h)
  BY LabelMarks, PlainExpr, PlainStmt
<1>2. /\ MarkOf(a).op = ""
      /\ MarkOf(b).op = "IF_FALSE" /\ MarkOf(b).num = l
      /\ MarkOf(c).op = ""
      /\ MarkOf(d).op = "GOTO" /\ MarkOf(d).num = l + 1
      /\ MarkOf(f).op = "LABEL" /\ MarkOf(f).num = l
      /\ MarkOf(g).op = ""
      /\ MarkOf(h).op = "LABEL" /\ MarkOf(h).num = l + 1
  BY LabelMarks, PlainExpr, PlainStmt
<1>. HIDE DEF a, b, c, d, f, g, h
<1>3. items \in Seq({a, b, c, d, f, g, h}) /\ Len(items) = 7
  OBVIOUS
<1>4. \A i \in 1 .. 7 : JobOK(items[i])
  <2>1. \A i \in 1 .. 7 : items[i] \in {a, b, c, d, f, g, h}
    OBVIOUS
  <2>. HIDE DEF items
  <2>. QED  BY <1>1, <2>1
<1>5. e[1] = MarkOf(a) /\ e[2] = MarkOf(b) /\ e[3] = MarkOf(c) /\ e[4] = MarkOf(d) /\ e[5] = MarkOf(f) /\ e[6] = MarkOf(g) /\ e[7] = MarkOf(h)
  OBVIOUS
<1>. HIDE DEF items, e
<1>6. /\ e[1].op = ""
      /\ e[2].op = "IF_FALSE" /\ e[2].num = l
      /\ e[3].op = ""
      /\ e[4].op = "GOTO" /\ e[4].num = l + 1
      /\ e[5].op = "LABEL" /\ e[5].num = l
      /\ e[6].op = ""
      /\ e[7].op = "LABEL" /\ e[7].num = l + 1
  BY <1>2, <1>5
<1>7. TwoLabels(e, 7, l)
  <2>1. \A k \in 1 .. 7 : k \in {1, 2, 3, 4, 5, 6, 7}
    OBVIOUS
  <2>2. \A k \in 1 .. 7 : e[k].op # "END"
    BY <1>6, <2>1
  <2>3. \A k \in 1 .. 7 : e[k].op = "LABEL" => k \in {5, 7}
    BY <1>6, <2>1
  <2>4. \A k \in 1 .. 7 : e[k].op \in Jumps => k \in {2, 4, 5, 7}
    BY <1>6, <2>1 DEF Jumps
  <2>5. \A k \in {2, 4, 5, 7} : e[k].num \in {l, l + 1}
    BY <1>6
  <2>6. e[5].op = "LABEL" /\ e[5].num = l /\ e[7].op = "LABEL" /\ e[7].num = l + 1
    BY <1>6
  <2>. QED  BY <2>2, <2>3, <2>4, <2>5, <2>6 DEF TwoLabels
<1>. QED  BY <1>3, <1>4, <1>7, TwoLabelsExpand DEF IsSequence, a, b, c, d, f, g, h, items, e

(* A while loop.                                                           *)
LEMMA WhileLoop ==
  ASSUME NEW p, NEW l \in Nat, NEW cond \in Node, Kind(cond) \in ExprKind,
         NEW body \in Node, Kind(body) \in StmtKind \cup ExprKind
  PROVE  Expands(p, <<Label(l), Expr(cond), IfFalse(l + 1), Stmt(body),
                      Goto(l), Label(l + 1)>>, l, l + 2)
<1>. DEFINE a == Label(l)
            b == Expr(cond)
            c == IfFalse(l + 1)
            d == Stmt(body)
            f == Goto(l)
            g == Label(l + 1)
            items == <<a, b, c, d, f, g>>
            e == [i \in 1 .. 6 |-> MarkOf(items[i])]
<1>1. JobOK(a) /\ JobOK(b) /\ JobOK(c) /\ JobOK(d) /\ JobOK(f) /\ JobOK(g)
  BY LabelMarks, PlainExpr, PlainStmt
<1>2. /\ MarkOf(a).op = "LABEL" /\ MarkOf(a).num = l
      /\ MarkOf(b).op = ""
      /\ MarkOf(c).op = "IF_FALSE" /\ MarkOf(c).num = l + 1
      /\ MarkOf(d).op = ""
      /\ MarkOf(f).op = "GOTO" /\ MarkOf(f).num = l
      /\ MarkOf(g).op = "LABEL" /\ MarkOf(g).num = l + 1
  BY LabelMarks, PlainExpr, PlainStmt
<1>. HIDE DEF a, b, c, d, f, g
<1>3. items \in Seq({a, b, c, d, f, g}) /\ Len(items) = 6
  OBVIOUS
<1>4. \A i \in 1 .. 6 : JobOK(items[i])
  <2>1. \A i \in 1 .. 6 : items[i] \in {a, b, c, d, f, g}
    OBVIOUS
  <2>. HIDE DEF items
  <2>. QED  BY <1>1, <2>1
<1>5. e[1] = MarkOf(a) /\ e[2] = MarkOf(b) /\ e[3] = MarkOf(c) /\ e[4] = MarkOf(d) /\ e[5] = MarkOf(f) /\ e[6] = MarkOf(g)
  OBVIOUS
<1>. HIDE DEF items, e
<1>6. /\ e[1].op = "LABEL" /\ e[1].num = l
      /\ e[2].op = ""
      /\ e[3].op = "IF_FALSE" /\ e[3].num = l + 1
      /\ e[4].op = ""
      /\ e[5].op = "GOTO" /\ e[5].num = l
      /\ e[6].op = "LABEL" /\ e[6].num = l + 1
  BY <1>2, <1>5
<1>7. TwoLabels(e, 6, l)
  <2>1. \A k \in 1 .. 6 : k \in {1, 2, 3, 4, 5, 6}
    OBVIOUS
  <2>2. \A k \in 1 .. 6 : e[k].op # "END"
    BY <1>6, <2>1
  <2>3. \A k \in 1 .. 6 : e[k].op = "LABEL" => k \in {1, 6}
    BY <1>6, <2>1
  <2>4. \A k \in 1 .. 6 : e[k].op \in Jumps => k \in {1, 3, 5, 6}
    BY <1>6, <2>1 DEF Jumps
  <2>5. \A k \in {1, 3, 5, 6} : e[k].num \in {l, l + 1}
    BY <1>6
  <2>6. e[1].op = "LABEL" /\ e[1].num = l /\ e[6].op = "LABEL" /\ e[6].num = l + 1
    BY <1>6
  <2>. QED  BY <2>2, <2>3, <2>4, <2>5, <2>6 DEF TwoLabels
<1>. QED  BY <1>3, <1>4, <1>7, TwoLabelsExpand DEF IsSequence, a, b, c, d, f, g, items, e

(* A for loop: its first statement is outside the loop.                    *)
LEMMA ForLoop ==
  ASSUME NEW p, NEW l \in Nat, NEW cond \in Node, Kind(cond) \in ExprKind,
         NEW init \in Node, Kind(init) \in StmtKind \cup ExprKind,
         NEW body \in Node, Kind(body) \in StmtKind \cup ExprKind,
         NEW update \in Node, Kind(update) \in StmtKind \cup ExprKind
  PROVE  Expands(p, <<Stmt(init), Label(l), Expr(cond), IfFalse(l + 1),
                      Stmt(body), Stmt(update), Goto(l), Label(l + 1)>>, l, l + 2)
<1>. DEFINE x == Stmt(init)
            a == Label(l)
            b == Expr(cond)
            c == IfFalse(l + 1)
            d == Stmt(body)
            y == Stmt(update)
            f == Goto(l)
            g == Label(l + 1)
            items == <<x, a, b, c, d, y, f, g>>
            e == [i \in 1 .. 8 |-> MarkOf(items[i])]
<1>1. JobOK(x) /\ JobOK(a) /\ JobOK(b) /\ JobOK(c) /\ JobOK(d) /\ JobOK(y) /\ JobOK(f) /\ JobOK(g)
  BY LabelMarks, PlainExpr, PlainStmt
<1>2. /\ MarkOf(x).op = ""
      /\ MarkOf(a).op = "LABEL" /\ MarkOf(a).num = l
      /\ MarkOf(b).op = ""
      /\ MarkOf(c).op = "IF_FALSE" /\ MarkOf(c).num = l + 1
      /\ MarkOf(d).op = ""
      /\ MarkOf(y).op = ""
      /\ MarkOf(f).op = "GOTO" /\ MarkOf(f).num = l
      /\ MarkOf(g).op = "LABEL" /\ MarkOf(g).num = l + 1
  BY LabelMarks, PlainExpr, PlainStmt
<1>. HIDE DEF x, a, b, c, d, y, f, g
<1>3. items \in Seq({x, a, b, c, d, y, f, g}) /\ Len(items) = 8
  OBVIOUS
<1>4. \A i \in 1 .. 8 : JobOK(items[i])
  <2>1. \A i \in 1 .. 8 : items[i] \in {x, a, b, c, d, y, f, g}
    OBVIOUS
  <2>. HIDE DEF items
  <2>. QED  BY <1>1, <2>1
<1>5. e[1] = MarkOf(x) /\ e[2] = MarkOf(a) /\ e[3] = MarkOf(b) /\ e[4] = MarkOf(c) /\ e[5] = MarkOf(d) /\ e[6] = MarkOf(y) /\ e[7] = MarkOf(f) /\ e[8] = MarkOf(g)
  OBVIOUS
<1>. HIDE DEF items, e
<1>6. /\ e[1].op = ""
      /\ e[2].op = "LABEL" /\ e[2].num = l
      /\ e[3].op = ""
      /\ e[4].op = "IF_FALSE" /\ e[4].num = l + 1
      /\ e[5].op = ""
      /\ e[6].op = ""
      /\ e[7].op = "GOTO" /\ e[7].num = l
      /\ e[8].op = "LABEL" /\ e[8].num = l + 1
  BY <1>2, <1>5
<1>7. TwoLabels(e, 8, l)
  <2>1. \A k \in 1 .. 8 : k \in {1, 2, 3, 4, 5, 6, 7, 8}
    OBVIOUS
  <2>2. \A k \in 1 .. 8 : e[k].op # "END"
    BY <1>6, <2>1
  <2>3. \A k \in 1 .. 8 : e[k].op = "LABEL" => k \in {2, 8}
    BY <1>6, <2>1
  <2>4. \A k \in 1 .. 8 : e[k].op \in Jumps => k \in {2, 4, 7, 8}
    BY <1>6, <2>1 DEF Jumps
  <2>5. \A k \in {2, 4, 7, 8} : e[k].num \in {l, l + 1}
    BY <1>6
  <2>6. e[2].op = "LABEL" /\ e[2].num = l /\ e[8].op = "LABEL" /\ e[8].num = l + 1
    BY <1>6
  <2>. QED  BY <2>2, <2>3, <2>4, <2>5, <2>6 DEF TwoLabels
<1>. QED  BY <1>3, <1>4, <1>7, TwoLabelsExpand DEF IsSequence, x, a, b, c, d, y, f, g, items, e

-----------------------------------------------------------------------------
(* The jobs of a statement.                                                *)

(* Two sequences one after the other.                                      *)
LEMMA Joining ==
  ASSUME NEW S, NEW s \in Seq(S), NEW t \in Seq(S)
  PROVE  /\ s \o t \in Seq(S) /\ Len(s \o t) = Len(s) + Len(t)
         /\ \A i \in 1 .. Len(s) : (s \o t)[i] = s[i]
         /\ \A i \in 1 .. Len(t) : (s \o t)[Len(s) + i] = t[i]
<1>1. s \o t \in Seq(S) /\ Len(s \o t) = Len(s) + Len(t)
  OBVIOUS
<1>2. \A i \in 1 .. Len(s) : (s \o t)[i] = s[i]
  OBVIOUS
<1>3. \A i \in 1 .. Len(t) : (s \o t)[Len(s) + i] = t[i]
  OBVIOUS
<1>. QED  BY <1>1, <1>2, <1>3

LEMMA NothingJoined ==
  ASSUME NEW a, NEW b, NEW c
  PROVE  <<>> \o <<a, b, c>> = <<a, b, c>>
<1>1. <<a, b, c>> \in Seq({a, b, c})
  OBVIOUS
<1>. QED  BY <1>1

LEMMA JoinedCall ==
  ASSUME NEW a, NEW b
  PROVE  <<a>> \o <<b>>
            = <<a, b>>
<1>. DEFINE S == {a, b}
            whole == <<a, b>>
            p0 == <<a>>
            p1 == <<b>>
<1>1. whole \in Seq(S) /\ Len(whole) = 2 /\ whole[1] = a /\ whole[2] = b
  OBVIOUS
<1>2. p0 \in Seq(S) /\ Len(p0) = 1 /\ p0[1] = a
  OBVIOUS
<1>3. p1 \in Seq(S) /\ Len(p1) = 1 /\ p1[1] = b
  OBVIOUS
<1>. HIDE DEF S, whole, p0, p1
<1>. DEFINE q1 == p0 \o p1
<1>4. q1 \in Seq(S) /\ Len(q1) = 2 /\ q1[1] = a /\ q1[2] = b
  <2>0. p0 \in Seq(S) /\ p1 \in Seq(S)
    BY <1>2, <1>3
  <2>1. /\ q1 \in Seq(S) /\ Len(q1) = Len(p0) + Len(p1)
        /\ \A i \in 1 .. Len(p0) : q1[i] = p0[i]
        /\ \A i \in 1 .. Len(p1) : q1[Len(p0) + i] = p1[i]
    BY <2>0, Joining
  <2>. HIDE DEF q1
  <2>2. q1 \in Seq(S) /\ Len(q1) = 2
    BY <1>2, <1>3, <2>1
  <2>3. \A i \in 1 .. 1 : q1[i] = p0[i]
    BY <1>2, <2>1
  <2>4. \A i \in 1 .. 1 : q1[1 + i] = p1[i]
    BY <1>2, <1>3, <2>1
  <2>5. q1[1] = a
    BY <1>2, <2>3
  <2>6. q1[1 + 1] = b
    BY <1>3, <2>4
  <2>. QED  BY <2>2, <2>5, <2>6
<1>. HIDE DEF q1
<1>5. q1 = whole
  <2>1. \A i \in 1 .. 2 : i \in {1, 2}
    OBVIOUS
  <2>2. \A i \in 1 .. 2 : q1[i] = whole[i]
    BY <1>1, <1>4, <2>1
  <2>. QED  BY <1>1, <1>4, <2>2
<1>. QED  BY <1>5 DEF whole, q1, p0, p1

LEMMA JoinedIf ==
  ASSUME NEW a, NEW b, NEW c, NEW d
  PROVE  <<a, b, c>> \o <<d>>
            = <<a, b, c, d>>
<1>. DEFINE S == {a, b, c, d}
            whole == <<a, b, c, d>>
            p0 == <<a, b, c>>
            p1 == <<d>>
<1>1. whole \in Seq(S) /\ Len(whole) = 4 /\ whole[1] = a /\ whole[2] = b /\ whole[3] = c /\ whole[4] = d
  OBVIOUS
<1>2. p0 \in Seq(S) /\ Len(p0) = 3 /\ p0[1] = a /\ p0[2] = b /\ p0[3] = c
  OBVIOUS
<1>3. p1 \in Seq(S) /\ Len(p1) = 1 /\ p1[1] = d
  OBVIOUS
<1>. HIDE DEF S, whole, p0, p1
<1>. DEFINE q1 == p0 \o p1
<1>4. q1 \in Seq(S) /\ Len(q1) = 4 /\ q1[1] = a /\ q1[2] = b /\ q1[3] = c /\ q1[4] = d
  <2>0. p0 \in Seq(S) /\ p1 \in Seq(S)
    BY <1>2, <1>3
  <2>1. /\ q1 \in Seq(S) /\ Len(q1) = Len(p0) + Len(p1)
        /\ \A i \in 1 .. Len(p0) : q1[i] = p0[i]
        /\ \A i \in 1 .. Len(p1) : q1[Len(p0) + i] = p1[i]
    BY <2>0, Joining
  <2>. HIDE DEF q1
  <2>2. q1 \in Seq(S) /\ Len(q1) = 4
    BY <1>2, <1>3, <2>1
  <2>3. \A i \in 1 .. 3 : q1[i] = p0[i]
    BY <1>2, <2>1
  <2>4. \A i \in 1 .. 1 : q1[3 + i] = p1[i]
    BY <1>2, <1>3, <2>1
  <2>5. q1[1] = a /\ q1[2] = b /\ q1[3] = c
    BY <1>2, <2>3
  <2>6. q1[3 + 1] = d
    BY <1>3, <2>4
  <2>. QED  BY <2>2, <2>5, <2>6
<1>. HIDE DEF q1
<1>5. q1 = whole
  <2>1. \A i \in 1 .. 4 : i \in {1, 2, 3, 4}
    OBVIOUS
  <2>2. \A i \in 1 .. 4 : q1[i] = whole[i]
    BY <1>1, <1>4, <2>1
  <2>. QED  BY <1>1, <1>4, <2>2
<1>. QED  BY <1>5 DEF whole, q1, p0, p1

LEMMA JoinedElse ==
  ASSUME NEW a, NEW b, NEW c, NEW d, NEW e, NEW f, NEW g
  PROVE  <<a, b, c>> \o <<d, e, f>> \o <<g>>
            = <<a, b, c, d, e, f, g>>
<1>. DEFINE S == {a, b, c, d, e, f, g}
            whole == <<a, b, c, d, e, f, g>>
            p0 == <<a, b, c>>
            p1 == <<d, e, f>>
            p2 == <<g>>
<1>1. whole \in Seq(S) /\ Len(whole) = 7 /\ whole[1] = a /\ whole[2] = b /\ whole[3] = c /\ whole[4] = d /\ whole[5] = e /\ whole[6] = f /\ whole[7] = g
  OBVIOUS
<1>2. p0 \in Seq(S) /\ Len(p0) = 3 /\ p0[1] = a /\ p0[2] = b /\ p0[3] = c
  OBVIOUS
<1>3. p1 \in Seq(S) /\ Len(p1) = 3 /\ p1[1] = d /\ p1[2] = e /\ p1[3] = f
  OBVIOUS
<1>4. p2 \in Seq(S) /\ Len(p2) = 1 /\ p2[1] = g
  OBVIOUS
<1>. HIDE DEF S, whole, p0, p1, p2
<1>. DEFINE q1 == p0 \o p1
<1>5. q1 \in Seq(S) /\ Len(q1) = 6 /\ q1[1] = a /\ q1[2] = b /\ q1[3] = c /\ q1[4] = d /\ q1[5] = e /\ q1[6] = f
  <2>0. p0 \in Seq(S) /\ p1 \in Seq(S)
    BY <1>2, <1>3
  <2>1. /\ q1 \in Seq(S) /\ Len(q1) = Len(p0) + Len(p1)
        /\ \A i \in 1 .. Len(p0) : q1[i] = p0[i]
        /\ \A i \in 1 .. Len(p1) : q1[Len(p0) + i] = p1[i]
    BY <2>0, Joining
  <2>. HIDE DEF q1
  <2>2. q1 \in Seq(S) /\ Len(q1) = 6
    BY <1>2, <1>3, <2>1
  <2>3. \A i \in 1 .. 3 : q1[i] = p0[i]
    BY <1>2, <2>1
  <2>4. \A i \in 1 .. 3 : q1[3 + i] = p1[i]
    BY <1>2, <1>3, <2>1
  <2>5. q1[1] = a /\ q1[2] = b /\ q1[3] = c
    BY <1>2, <2>3
  <2>6. q1[3 + 1] = d /\ q1[3 + 2] = e /\ q1[3 + 3] = f
    BY <1>3, <2>4
  <2>. QED  BY <2>2, <2>5, <2>6
<1>. HIDE DEF q1
<1>. DEFINE q2 == q1 \o p2
<1>6. q2 \in Seq(S) /\ Len(q2) = 7 /\ q2[1] = a /\ q2[2] = b /\ q2[3] = c /\ q2[4] = d /\ q2[5] = e /\ q2[6] = f /\ q2[7] = g
  <2>0. q1 \in Seq(S) /\ p2 \in Seq(S)
    BY <1>5, <1>4
  <2>1. /\ q2 \in Seq(S) /\ Len(q2) = Len(q1) + Len(p2)
        /\ \A i \in 1 .. Len(q1) : q2[i] = q1[i]
        /\ \A i \in 1 .. Len(p2) : q2[Len(q1) + i] = p2[i]
    BY <2>0, Joining
  <2>. HIDE DEF q2
  <2>2. q2 \in Seq(S) /\ Len(q2) = 7
    BY <1>5, <1>4, <2>1
  <2>3. \A i \in 1 .. 6 : q2[i] = q1[i]
    BY <1>5, <2>1
  <2>4. \A i \in 1 .. 1 : q2[6 + i] = p2[i]
    BY <1>5, <1>4, <2>1
  <2>5. q2[1] = a /\ q2[2] = b /\ q2[3] = c /\ q2[4] = d /\ q2[5] = e /\ q2[6] = f
    BY <1>5, <2>3
  <2>6. q2[6 + 1] = g
    BY <1>4, <2>4
  <2>. QED  BY <2>2, <2>5, <2>6
<1>. HIDE DEF q2
<1>7. q2 = whole
  <2>1. \A i \in 1 .. 7 : i \in {1, 2, 3, 4, 5, 6, 7}
    OBVIOUS
  <2>2. \A i \in 1 .. 7 : q2[i] = whole[i]
    BY <1>1, <1>6, <2>1
  <2>. QED  BY <1>1, <1>6, <2>2
<1>. QED  BY <1>7 DEF whole, q1, q2, p0, p1, p2

LEMMA JoinedWhile ==
  ASSUME NEW a, NEW b, NEW c, NEW d, NEW e, NEW f
  PROVE  <<a, b, c>> \o <<d>> \o <<e, f>>
            = <<a, b, c, d, e, f>>
<1>. DEFINE S == {a, b, c, d, e, f}
            whole == <<a, b, c, d, e, f>>
            p0 == <<a, b, c>>
            p1 == <<d>>
            p2 == <<e, f>>
<1>1. whole \in Seq(S) /\ Len(whole) = 6 /\ whole[1] = a /\ whole[2] = b /\ whole[3] = c /\ whole[4] = d /\ whole[5] = e /\ whole[6] = f
  OBVIOUS
<1>2. p0 \in Seq(S) /\ Len(p0) = 3 /\ p0[1] = a /\ p0[2] = b /\ p0[3] = c
  OBVIOUS
<1>3. p1 \in Seq(S) /\ Len(p1) = 1 /\ p1[1] = d
  OBVIOUS
<1>4. p2 \in Seq(S) /\ Len(p2) = 2 /\ p2[1] = e /\ p2[2] = f
  OBVIOUS
<1>. HIDE DEF S, whole, p0, p1, p2
<1>. DEFINE q1 == p0 \o p1
<1>5. q1 \in Seq(S) /\ Len(q1) = 4 /\ q1[1] = a /\ q1[2] = b /\ q1[3] = c /\ q1[4] = d
  <2>0. p0 \in Seq(S) /\ p1 \in Seq(S)
    BY <1>2, <1>3
  <2>1. /\ q1 \in Seq(S) /\ Len(q1) = Len(p0) + Len(p1)
        /\ \A i \in 1 .. Len(p0) : q1[i] = p0[i]
        /\ \A i \in 1 .. Len(p1) : q1[Len(p0) + i] = p1[i]
    BY <2>0, Joining
  <2>. HIDE DEF q1
  <2>2. q1 \in Seq(S) /\ Len(q1) = 4
    BY <1>2, <1>3, <2>1
  <2>3. \A i \in 1 .. 3 : q1[i] = p0[i]
    BY <1>2, <2>1
  <2>4. \A i \in 1 .. 1 : q1[3 + i] = p1[i]
    BY <1>2, <1>3, <2>1
  <2>5. q1[1] = a /\ q1[2] = b /\ q1[3] = c
    BY <1>2, <2>3
  <2>6. q1[3 + 1] = d
    BY <1>3, <2>4
  <2>. QED  BY <2>2, <2>5, <2>6
<1>. HIDE DEF q1
<1>. DEFINE q2 == q1 \o p2
<1>6. q2 \in Seq(S) /\ Len(q2) = 6 /\ q2[1] = a /\ q2[2] = b /\ q2[3] = c /\ q2[4] = d /\ q2[5] = e /\ q2[6] = f
  <2>0. q1 \in Seq(S) /\ p2 \in Seq(S)
    BY <1>5, <1>4
  <2>1. /\ q2 \in Seq(S) /\ Len(q2) = Len(q1) + Len(p2)
        /\ \A i \in 1 .. Len(q1) : q2[i] = q1[i]
        /\ \A i \in 1 .. Len(p2) : q2[Len(q1) + i] = p2[i]
    BY <2>0, Joining
  <2>. HIDE DEF q2
  <2>2. q2 \in Seq(S) /\ Len(q2) = 6
    BY <1>5, <1>4, <2>1
  <2>3. \A i \in 1 .. 4 : q2[i] = q1[i]
    BY <1>5, <2>1
  <2>4. \A i \in 1 .. 2 : q2[4 + i] = p2[i]
    BY <1>5, <1>4, <2>1
  <2>5. q2[1] = a /\ q2[2] = b /\ q2[3] = c /\ q2[4] = d
    BY <1>5, <2>3
  <2>6. q2[4 + 1] = e /\ q2[4 + 2] = f
    BY <1>4, <2>4
  <2>. QED  BY <2>2, <2>5, <2>6
<1>. HIDE DEF q2
<1>7. q2 = whole
  <2>1. \A i \in 1 .. 6 : i \in {1, 2, 3, 4, 5, 6}
    OBVIOUS
  <2>2. \A i \in 1 .. 6 : q2[i] = whole[i]
    BY <1>1, <1>6, <2>1
  <2>. QED  BY <1>1, <1>6, <2>2
<1>. QED  BY <1>7 DEF whole, q1, q2, p0, p1, p2

LEMMA JoinedFor ==
  ASSUME NEW a, NEW b, NEW c, NEW d, NEW e, NEW f, NEW g, NEW h
  PROVE  <<a>> \o <<b, c, d>> \o <<e, f>> \o <<g, h>>
            = <<a, b, c, d, e, f, g, h>>
<1>. DEFINE S == {a, b, c, d, e, f, g, h}
            whole == <<a, b, c, d, e, f, g, h>>
            p0 == <<a>>
            p1 == <<b, c, d>>
            p2 == <<e, f>>
            p3 == <<g, h>>
<1>1. whole \in Seq(S) /\ Len(whole) = 8 /\ whole[1] = a /\ whole[2] = b /\ whole[3] = c /\ whole[4] = d /\ whole[5] = e /\ whole[6] = f /\ whole[7] = g /\ whole[8] = h
  OBVIOUS
<1>2. p0 \in Seq(S) /\ Len(p0) = 1 /\ p0[1] = a
  OBVIOUS
<1>3. p1 \in Seq(S) /\ Len(p1) = 3 /\ p1[1] = b /\ p1[2] = c /\ p1[3] = d
  OBVIOUS
<1>4. p2 \in Seq(S) /\ Len(p2) = 2 /\ p2[1] = e /\ p2[2] = f
  OBVIOUS
<1>5. p3 \in Seq(S) /\ Len(p3) = 2 /\ p3[1] = g /\ p3[2] = h
  OBVIOUS
<1>. HIDE DEF S, whole, p0, p1, p2, p3
<1>. DEFINE q1 == p0 \o p1
<1>6. q1 \in Seq(S) /\ Len(q1) = 4 /\ q1[1] = a /\ q1[2] = b /\ q1[3] = c /\ q1[4] = d
  <2>0. p0 \in Seq(S) /\ p1 \in Seq(S)
    BY <1>2, <1>3
  <2>1. /\ q1 \in Seq(S) /\ Len(q1) = Len(p0) + Len(p1)
        /\ \A i \in 1 .. Len(p0) : q1[i] = p0[i]
        /\ \A i \in 1 .. Len(p1) : q1[Len(p0) + i] = p1[i]
    BY <2>0, Joining
  <2>. HIDE DEF q1
  <2>2. q1 \in Seq(S) /\ Len(q1) = 4
    BY <1>2, <1>3, <2>1
  <2>3. \A i \in 1 .. 1 : q1[i] = p0[i]
    BY <1>2, <2>1
  <2>4. \A i \in 1 .. 3 : q1[1 + i] = p1[i]
    BY <1>2, <1>3, <2>1
  <2>5. q1[1] = a
    BY <1>2, <2>3
  <2>6. q1[1 + 1] = b /\ q1[1 + 2] = c /\ q1[1 + 3] = d
    BY <1>3, <2>4
  <2>. QED  BY <2>2, <2>5, <2>6
<1>. HIDE DEF q1
<1>. DEFINE q2 == q1 \o p2
<1>7. q2 \in Seq(S) /\ Len(q2) = 6 /\ q2[1] = a /\ q2[2] = b /\ q2[3] = c /\ q2[4] = d /\ q2[5] = e /\ q2[6] = f
  <2>0. q1 \in Seq(S) /\ p2 \in Seq(S)
    BY <1>6, <1>4
  <2>1. /\ q2 \in Seq(S) /\ Len(q2) = Len(q1) + Len(p2)
        /\ \A i \in 1 .. Len(q1) : q2[i] = q1[i]
        /\ \A i \in 1 .. Len(p2) : q2[Len(q1) + i] = p2[i]
    BY <2>0, Joining
  <2>. HIDE DEF q2
  <2>2. q2 \in Seq(S) /\ Len(q2) = 6
    BY <1>6, <1>4, <2>1
  <2>3. \A i \in 1 .. 4 : q2[i] = q1[i]
    BY <1>6, <2>1
  <2>4. \A i \in 1 .. 2 : q2[4 + i] = p2[i]
    BY <1>6, <1>4, <2>1
  <2>5. q2[1] = a /\ q2[2] = b /\ q2[3] = c /\ q2[4] = d
    BY <1>6, <2>3
  <2>6. q2[4 + 1] = e /\ q2[4 + 2] = f
    BY <1>4, <2>4
  <2>. QED  BY <2>2, <2>5, <2>6
<1>. HIDE DEF q2
<1>. DEFINE q3 == q2 \o p3
<1>8. q3 \in Seq(S) /\ Len(q3) = 8 /\ q3[1] = a /\ q3[2] = b /\ q3[3] = c /\ q3[4] = d /\ q3[5] = e /\ q3[6] = f /\ q3[7] = g /\ q3[8] = h
  <2>0. q2 \in Seq(S) /\ p3 \in Seq(S)
    BY <1>7, <1>5
  <2>1. /\ q3 \in Seq(S) /\ Len(q3) = Len(q2) + Len(p3)
        /\ \A i \in 1 .. Len(q2) : q3[i] = q2[i]
        /\ \A i \in 1 .. Len(p3) : q3[Len(q2) + i] = p3[i]
    BY <2>0, Joining
  <2>. HIDE DEF q3
  <2>2. q3 \in Seq(S) /\ Len(q3) = 8
    BY <1>7, <1>5, <2>1
  <2>3. \A i \in 1 .. 6 : q3[i] = q2[i]
    BY <1>7, <2>1
  <2>4. \A i \in 1 .. 2 : q3[6 + i] = p3[i]
    BY <1>7, <1>5, <2>1
  <2>5. q3[1] = a /\ q3[2] = b /\ q3[3] = c /\ q3[4] = d /\ q3[5] = e /\ q3[6] = f
    BY <1>7, <2>3
  <2>6. q3[6 + 1] = g /\ q3[6 + 2] = h
    BY <1>5, <2>4
  <2>. QED  BY <2>2, <2>5, <2>6
<1>. HIDE DEF q3
<1>9. q3 = whole
  <2>1. \A i \in 1 .. 8 : i \in {1, 2, 3, 4, 5, 6, 7, 8}
    OBVIOUS
  <2>2. \A i \in 1 .. 8 : q3[i] = whole[i]
    BY <1>1, <1>8, <2>1
  <2>. QED  BY <1>1, <1>8, <2>2
<1>. QED  BY <1>9 DEF whole, q1, q2, q3, p0, p1, p2, p3

(* What gen_stmt does of a statement takes its numbers and no others.      *)
Made(n) == IF Kind(n) \in {"IF", "WHILE", "FOR"} THEN 2 ELSE 0

LEMMA EndExpands ==
  ASSUME NEW p, NEW items, NEW from \in Nat, Quiet(items, Jumps), MarkOf(p).op = "END"
  PROVE  Expands(p, items, from, from)
<1>. DEFINE e == [i \in 1 .. Len(items) |-> MarkOf(items[i])]
<1>1. Len(items) \in Nat
  BY DEF Quiet, IsSequence
<1>2. Linked(e, Len(items), from, from)
  BY <1>1, NoJumps DEF Quiet
<1>. QED  BY <1>2 DEF Expands, Quiet

LEMMA EndMarks ==
  ASSUME NEW n \in Node, Kind(n) \in {"PROGRAM", "FUNC_DECL"}
  PROVE  MarkOf(Stmt(n)).op = "END"
<1>1. MarkOf(Stmt(n)) = Mark("END", 0)
  BY StmtIs
<1>. QED  BY <1>1, MarkIs

LEMMA FreePlain == JobOK(Free) /\ MarkOf(Free).op \notin Jumps \cup {"END"}
BY FreeIs, MarkIs DEF Jumps

LEMMA StmtExpands ==
  ASSUME NEW n \in Node, label_counter \in Nat
  PROVE  Expands(Stmt(n), StmtItems(n), label_counter, label_counter + Made(n))
<1>. DEFINE l == label_counter
            items == StmtItems(n)
            Goal == Expands(Stmt(n), items, l, l + Made(n))
            many == Stmts(Ast[n].children)
            value == Exprs(Ast[n].children)
<1>1. /\ Children(n) \in Nat /\ Kind(n) \in NodeKind /\ WellShaped(n)
      /\ \A i \in 1 .. Children(n) : Child(n, i) \in Node
  BY NodeIs DEF AstNode, Kind
<1>0. Made(n) = 0 => l + Made(n) = l
  OBVIOUS
<1>2. CASE Kind(n) = "PROGRAM"
  <2>1. items = many /\ Made(n) = 0
    BY <1>2 DEF StmtItems, Made
  <2>2. ASSUME NEW i \in 1 .. Children(n)
        PROVE  JobOK(Stmt(Child(n, i))) /\ MarkOf(Stmt(Child(n, i))).op \notin Jumps
    <3>1. Child(n, i) \in Node /\ Kind(Child(n, i)) = "FUNC_DECL"
      BY <1>1, <1>2 DEF WellShaped
    <3>. QED  BY <3>1, StmtIs, EndMarks DEF Jumps
  <2>3. Quiet(many, Jumps)
    <3>. DEFINE N == Children(n)
                st == [i \in 1 .. N |-> Stmt(Child(n, i))]
    <3>0. N \in Nat
      BY <1>1
    <3>1. \A i \in 1 .. N : JobOK(st[i]) /\ MarkOf(st[i]).op \notin Jumps
      BY <2>2
    <3>2. st \in Seq({st[i] : i \in 1 .. N}) /\ Len(st) = N
      <4>. HIDE DEF N
      <4>. QED  BY <3>0
    <3>. HIDE DEF st, N
    <3>3. Quiet(st, Jumps)
      BY <3>1, <3>2 DEF Quiet, IsSequence
    <3>. QED  BY <3>3, StmtsAre DEF st, N
  <2>. QED  BY <1>0, <1>2, <2>1, <2>3, EndMarks, EndExpands
<1>3. CASE Kind(n) = "FUNC_DECL"
  <2>. DEFINE head == Write(0, "FUNC", "", Ast[n].name, 0)
              body == Stmt(Child(n, 1))
              end == Write(0, "END", "", "", 0)
  <2>1. Children(n) = 1 /\ Kind(Child(n, 1)) = "BLOCK" /\ Child(n, 1) \in Node
    BY <1>1, <1>3 DEF WellShaped, WellCounted
  <2>2. Made(n) = 0 /\ items = <<head>> \o many \o <<end>>
    BY <1>3 DEF StmtItems, Made
  <2>3. many = <<body>>
    <3>1. many = [i \in 1 .. 1 |-> Stmt(Child(n, i))]
      BY <2>1, StmtsAre
    <3>. QED  BY <3>1
  <2>4. /\ JobOK(head) /\ MarkOf(head).op \notin Jumps
        /\ JobOK(end) /\ MarkOf(end).op \notin Jumps
        /\ JobOK(body) /\ MarkOf(body).op \notin Jumps
    <3>1. JobOK(head) /\ MarkOf(head) = Mark("FUNC", 0) /\ JobOK(end) /\ MarkOf(end) = Mark("END", 0)
      BY WriteIs
    <3>2. JobOK(body) /\ MarkOf(body).op \notin Jumps
      BY <2>1, PlainStmt DEF StmtKind
    <3>3. Mark("FUNC", 0).op = "FUNC" /\ Mark("END", 0).op = "END"
      BY MarkIs
    <3>. HIDE DEF head, body, end
    <3>. QED  BY <3>1, <3>2, <3>3 DEF Jumps
  <2>. HIDE DEF head, body, end
  <2>5. Quiet(<<head>>, Jumps) /\ Quiet(<<body>>, Jumps) /\ Quiet(<<end>>, Jumps)
    BY <2>4, QuietOne
  <2>6. Quiet(<<head>> \o <<body>> \o <<end>>, Jumps)
    BY <2>5, QuietBoth
  <2>. QED  BY <1>0, <1>3, <2>2, <2>3, <2>6, EndMarks, EndExpands
<1>4. CASE Kind(n) = "BLOCK"
  <2>1. items = many /\ Made(n) = 0
    BY <1>4 DEF StmtItems, Made
  <2>. QED  BY <1>0, <1>4, <2>1, PlainChildren, PlainExpands
<1>5. CASE Kind(n) \in {"ASSIGN", "VAR_DECL", "RETURN", "PRINT"}
  <2>1. Plain(value)
    BY <1>5, PlainChildren DEF ExprChildren
  <2>2. \A takes, op, sym, num : op \notin Jumps \cup {"END"} =>
           Plain(Append(value, Write(takes, op, sym, "", num)))
    <3>. SUFFICES ASSUME NEW takes, NEW op, NEW sym, NEW num, op \notin Jumps \cup {"END"}
                  PROVE  Plain(Append(value, Write(takes, op, sym, "", num)))
      OBVIOUS
    <3>. DEFINE w == Write(takes, op, sym, "", num)
    <3>1. Plain(<<w>>)
      BY PlainWrite, PlainOne
    <3>. HIDE DEF w
    <3>2. Append(value, w) = value \o <<w>>
      BY <2>1 DEF Plain, Quiet, IsSequence
    <3>. QED  BY <2>1, <3>1, <3>2, PlainBoth DEF w
  <2>3. Plain(<<>>)
    BY DEF Plain, Quiet, IsSequence
  <2>4. Made(n) = 0 /\ (\/ items = <<>>
                        \/ items = Append(value, Write(1, "COPY", Ast[n].name, "", 0))
                        \/ items = Append(value, Write(Children(n), "RETURN", "", "", 0))
                        \/ items = Append(value, Write(Children(n), "PRINT", "", "", 0)))
    BY <1>5 DEF StmtItems, Made
  <2>5. Plain(items)
    BY <2>2, <2>3, <2>4 DEF Jumps
  <2>. QED  BY <1>0, <1>1, <2>4, <2>5, PlainExpands
<1>6. CASE Kind(n) = "IF"
  <2>. DEFINE c == Child(n, 1)
              t == Child(n, 2)
  <2>1. items = GenIf(n, l) /\ Made(n) = 2
    BY <1>6 DEF StmtItems, Made
  <2>2. Children(n) \in {2, 3}
    BY <1>1, <1>6 DEF WellShaped, WellCounted
  <2>3. /\ c \in Node /\ Kind(c) \in ExprKind
        /\ t \in Node /\ Kind(t) \in StmtKind \cup ExprKind
    BY <1>1, <1>6, <2>2, ChildrenAre DEF ExprChildren
  <2>4. CASE Children(n) = 2
    <3>1. items = <<Expr(c), IfFalse(l + 1), Stmt(t), Label(l + 1)>>
      BY <2>1, <2>4, JoinedIf DEF GenIf
    <3>. QED  BY <2>1, <2>3, <3>1, ShortIf
  <2>5. CASE Children(n) = 3
    <3>. DEFINE f == Child(n, 3)
    <3>1. items = <<Expr(c), IfFalse(l), Stmt(t), Goto(l + 1), Label(l), Stmt(f), Label(l + 1)>>
      BY <2>1, <2>5, JoinedElse DEF GenIf, GenElse
    <3>2. f \in Node /\ Kind(f) \in StmtKind \cup ExprKind
      BY <1>6, <2>5, ChildrenAre
    <3>. QED  BY <2>1, <2>3, <3>1, <3>2, FullIf
  <2>. QED  BY <2>2, <2>4, <2>5
<1>7. CASE Kind(n) = "WHILE"
  <2>. DEFINE c == Child(n, 1)
              b == Child(n, 2)
  <2>1. items = GenLoop(l, <<>>, c, <<b>>) /\ Made(n) = 2
    BY <1>7 DEF StmtItems, Made
  <2>2. Children(n) = 2
    BY <1>1, <1>7 DEF WellShaped, WellCounted
  <2>3. /\ c \in Node /\ Kind(c) \in ExprKind
        /\ b \in Node /\ Kind(b) \in StmtKind \cup ExprKind
    BY <1>1, <1>7, <2>2, ChildrenAre DEF ExprChildren
  <2>4. Stmts(<<>>) = <<>> /\ Stmts(<<b>>) = <<Stmt(b)>>
    BY DEF Stmts
  <2>5. items = <<Label(l), Expr(c), IfFalse(l + 1), Stmt(b), Goto(l), Label(l + 1)>>
    <3>. DEFINE A == <<Label(l), Expr(c), IfFalse(l + 1)>>
                E == <<Goto(l), Label(l + 1)>>
    <3>1. <<>> \o A = A
      BY NothingJoined
    <3>2. A \o <<Stmt(b)>> \o E = <<Label(l), Expr(c), IfFalse(l + 1), Stmt(b), Goto(l), Label(l + 1)>>
      BY JoinedWhile
    <3>3. items = Stmts(<<>>) \o A \o Stmts(<<b>>) \o E
      BY <2>1 DEF GenLoop
    <3>. HIDE DEF A, E
    <3>. QED  BY <2>4, <3>1, <3>2, <3>3
  <2>. QED  BY <2>1, <2>3, <2>5, WhileLoop
<1>8. CASE Kind(n) = "FOR"
  <2>. DEFINE i == Child(n, 1)
              c == Child(n, 2)
              u == Child(n, 3)
              b == Child(n, 4)
  <2>1. items = GenLoop(l, <<i>>, c, <<b, u>>) /\ Made(n) = 2
    BY <1>8 DEF StmtItems, Made
  <2>2. Children(n) = 4
    BY <1>1, <1>8 DEF WellShaped, WellCounted
  <2>3. /\ i \in Node /\ Kind(i) \in StmtKind \cup ExprKind
        /\ c \in Node /\ Kind(c) \in ExprKind
        /\ u \in Node /\ Kind(u) \in StmtKind \cup ExprKind
        /\ b \in Node /\ Kind(b) \in StmtKind \cup ExprKind
    BY <1>1, <1>8, <2>2, ChildrenAre DEF ExprChildren
  <2>4. Stmts(<<i>>) = <<Stmt(i)>> /\ Stmts(<<b, u>>) = <<Stmt(b), Stmt(u)>>
    BY DEF Stmts
  <2>5. items = <<Stmt(i), Label(l), Expr(c), IfFalse(l + 1), Stmt(b), Stmt(u), Goto(l), Label(l + 1)>>
    <3>. DEFINE A == <<Label(l), Expr(c), IfFalse(l + 1)>>
                E == <<Goto(l), Label(l + 1)>>
    <3>1. <<Stmt(i)>> \o A \o <<Stmt(b), Stmt(u)>> \o E
             = <<Stmt(i), Label(l), Expr(c), IfFalse(l + 1), Stmt(b), Stmt(u), Goto(l), Label(l + 1)>>
      BY JoinedFor
    <3>2. items = Stmts(<<i>>) \o A \o Stmts(<<b, u>>) \o E
      BY <2>1 DEF GenLoop
    <3>. HIDE DEF A, E
    <3>. QED  BY <2>4, <3>1, <3>2
  <2>. QED  BY <2>1, <2>3, <2>5, ForLoop
<1>9. CASE Kind(n) = "CALL"
  <2>1. items = <<Expr(n), Free>> /\ Made(n) = 0
    BY <1>9 DEF StmtItems, Made
  <2>2. Plain(<<Expr(n)>>) /\ Plain(<<Free>>)
    BY <1>9, PlainExpr, FreePlain, PlainOne DEF ExprKind
  <2>3. items = <<Expr(n)>> \o <<Free>>
    BY <2>1, JoinedCall
  <2>. QED  BY <1>0, <2>1, <2>2, <2>3, PlainBoth, PlainExpands
<1>10. CASE Kind(n) \in ExprKind \ {"CALL"}
  <2>1. items = <<>> /\ Made(n) = 0
    BY <1>10 DEF StmtItems, Made, ExprKind
  <2>2. Plain(<<>>)
    BY DEF Plain, Quiet, IsSequence
  <2>. QED  BY <1>0, <2>1, <2>2, PlainExpands
<1>. QED  BY <1>1, <1>2, <1>3, <1>4, <1>5, <1>6, <1>7, <1>8, <1>9, <1>10
          DEF NodeKind, StmtKind

-----------------------------------------------------------------------------
(* The steps of the generator.                                             *)

LEMMA JobIs ==
  ASSUME GenInv, todo # <<>>
  PROVE  /\ JobOK(Job) /\ Job = todo[1]
         /\ Len(todo) \in Nat \ {0}
         /\ IsSequence(Tail(todo)) /\ Len(Tail(todo)) = Len(todo) - 1
         /\ \A i \in 1 .. Len(todo) - 1 : Tail(todo)[i] = todo[i + 1]
<1>1. PICK S : todo \in Seq(S)
  BY DEF GenInv, IsSequence
<1>2. /\ Head(todo) = todo[1] /\ Len(todo) \in Nat \ {0}
      /\ Tail(todo) \in Seq(S) /\ Len(Tail(todo)) = Len(todo) - 1
      /\ \A i \in 1 .. Len(todo) - 1 : Tail(todo)[i] = todo[i + 1]
  BY <1>1
<1>3. JobOK(todo[1])
  BY <1>2 DEF GenInv
<1>. QED  BY <1>2, <1>3 DEF Job, IsSequence

(* The first job is replaced by the jobs it is made of.                    *)
LEMMA ExpandedKeeps ==
  ASSUME GenInv, todo # <<>>, NEW items, NEW to \in Nat, label_counter <= to,
         Expands(Job, items, label_counter, to), MarkOf(Job).op \notin Jumps,
         todo' = items \o Tail(todo), label_counter' = to,
         UNCHANGED <<program, code>>
  PROVE  GenInv'
<1>. DEFINE e == [i \in 1 .. Len(items) |-> MarkOf(items[i])]
            m == Len(items)
            C == Len(code)
            T == Len(todo)
            r == Tail(todo)
            p == C + 1
            s == Marks
            t == Marks'
<1>1. C \in Nat /\ T \in Nat \ {0} /\ m \in Nat /\ label_counter \in Nat \ {0}
  BY JobIs DEF GenInv, Expands, IsSequence
<1>2. PICK S, U : items \in Seq(S) /\ r \in Seq(U)
  BY JobIs DEF Expands, IsSequence
<1>3. items \in Seq(S \cup U) /\ r \in Seq(S \cup U)
  BY <1>2
<1>4. Len(r) = T - 1 /\ \A i \in 1 .. T - 1 : r[i] = todo[i + 1]
  BY JobIs
<1>5. /\ todo' \in Seq(S \cup U) /\ Len(todo') = m + T - 1
      /\ \A i \in 1 .. m : todo'[i] = items[i]
      /\ \A i \in 1 .. T - 1 : todo'[m + i] = todo[i + 1]
  <2>. DEFINE q == items \o r
  <2>1. /\ q \in Seq(S \cup U) /\ Len(q) = Len(items) + Len(r)
        /\ \A i \in 1 .. Len(items) : q[i] = items[i]
        /\ \A i \in 1 .. Len(r) : q[Len(items) + i] = r[i]
    BY <1>3, Joining
  <2>. HIDE DEF q
  <2>2. Len(q) = m + T - 1 /\ \A i \in 1 .. T - 1 : q[m + i] = todo[i + 1]
    BY <1>1, <1>4, <2>1
  <2>3. todo' = q
    BY DEF q
  <2>. QED  BY <2>1, <2>2, <2>3
<1>6. \A i \in 1 .. Len(todo') : JobOK(todo'[i])
  <2>1. \A i \in 1 .. m : JobOK(items[i])
    BY DEF Expands
  <2>2. \A i \in 1 .. T : JobOK(todo[i])
    BY DEF GenInv
  <2>3. \A i \in 1 .. m + T - 1 : i \in 1 .. m \/ (i - m \in 1 .. T - 1 /\ i = m + (i - m) /\ i - m + 1 \in 1 .. T)
    BY <1>1
  <2>4. ASSUME NEW i \in 1 .. m + T - 1
        PROVE  JobOK(todo'[i])
    <3>1. CASE i \in 1 .. m
      BY <1>5, <2>1, <3>1
    <3>2. CASE i \notin 1 .. m
      <4>1. i - m \in 1 .. T - 1 /\ i = m + (i - m) /\ i - m + 1 \in 1 .. T
        BY <2>3, <3>2
      <4>2. todo'[i] = todo[i - m + 1]
        BY <1>5, <4>1
      <4>. QED  BY <2>2, <4>1, <4>2
    <3>. QED  BY <3>1, <3>2
  <2>. QED  BY <1>5, <2>4
<1>7. /\ \A i \in 1 .. C : s[i] = Mark(code[i].op, code[i].num)
      /\ \A x \in 1 .. T : s[C + x] = MarkOf(todo[x])
  <2>1. s = [i \in 1 .. C + T |-> IF i <= C THEN Mark(code[i].op, code[i].num)
                                            ELSE MarkOf(todo[i - C])]
    BY DEF Marks
  <2>. HIDE DEF s
  <2>. QED  BY <1>1, <2>1
<1>8. /\ \A i \in 1 .. C : t[i] = Mark(code[i].op, code[i].num)
      /\ \A x \in 1 .. m + T - 1 : t[C + x] = MarkOf(todo'[x])
  <2>1. t = [i \in 1 .. C + (m + T - 1) |-> IF i <= C THEN Mark(code[i].op, code[i].num)
                                                      ELSE MarkOf(todo'[i - C])]
    BY <1>5 DEF Marks, MarkOf
  <2>. HIDE DEF t
  <2>. QED  BY <1>1, <2>1
<1>. HIDE DEF s, t, e
<1>9. Replaces(t, s, C + T, p, e, m)
  <2>1. ASSUME NEW i \in 1 .. p - 1
        PROVE  t[i] = s[i]
    <3>1. i \in 1 .. C
      BY <1>1
    <3>2. t[i] = Mark(code[i].op, code[i].num) /\ s[i] = Mark(code[i].op, code[i].num)
      BY <1>7, <1>8, <3>1
    <3>. QED  BY <3>2
  <2>2. ASSUME NEW i \in 1 .. m
        PROVE  t[p + i - 1] = e[i]
    <3>1. i \in 1 .. m + T - 1 /\ p + i - 1 = C + i
      BY <1>1
    <3>2. t[C + i] = MarkOf(todo'[i])
      BY <1>8, <3>1
    <3>. QED  BY <1>5, <3>1, <3>2 DEF e
  <2>3. ASSUME NEW i \in p + 1 .. C + T
        PROVE  t[i + m - 1] = s[i]
    <3>. DEFINE x == i - C - 1
    <3>1. /\ i + m - 1 = C + (m + x) /\ i = C + (x + 1)
          /\ x \in 1 .. T - 1 /\ x + 1 \in 1 .. T /\ m + x \in 1 .. m + T - 1
      BY <1>1
    <3>. HIDE DEF x
    <3>2. t[C + (m + x)] = MarkOf(todo'[m + x]) /\ s[C + (x + 1)] = MarkOf(todo[x + 1])
      BY <1>7, <1>8, <3>1
    <3>3. todo'[m + x] = todo[x + 1]
      BY <1>5, <3>1
    <3>. QED  BY <3>1, <3>2, <3>3
  <2>. QED  BY <2>1, <2>2, <2>3 DEF Replaces
<1>10. s[p] = MarkOf(Job)
  <2>1. s[C + 1] = MarkOf(todo[1])
    BY <1>1, <1>7
  <2>. QED  BY <2>1, JobIs
<1>11. /\ Linked(s, C + T, 1, label_counter) /\ Linked(e, m, label_counter, to)
       /\ \A i \in 1 .. m : e[i].op = "END" =>
             MarkOf(Job).op = "END" /\ \A k \in 1 .. m : e[k].op \notin Jumps
  BY DEF GenInv, Expands, s, e
<1>12. Linked(t, C + T + m - 1, 1, to)
  <2>. DEFINE len == C + T
  <2>1. len \in Nat /\ m \in Nat /\ p \in 1 .. len
    BY <1>1
  <2>2. label_counter \in Nat \ {0} /\ to \in Nat /\ label_counter <= to
    BY <1>1 DEF Expands
  <2>3. \A i \in 1 .. m : e[i].op = "END" =>
          s[p].op = "END" /\ \A k \in 1 .. m : e[k].op \notin Jumps
    BY <1>10, <1>11, Zenon
  <2>4. s[p].op \notin Jumps
    BY <1>10, Zenon
  <2>5. Replaces(t, s, len, p, e, m) /\ Linked(s, len, 1, label_counter) /\ Linked(e, m, label_counter, to)
    BY <1>9, <1>11
  <2>. HIDE DEF m, p, len
  <2>6. Linked(t, len + m - 1, 1, to)
    BY <2>1, <2>2, <2>3, <2>4, <2>5, ReplacedIsLinked, Zenon
  <2>. QED  BY <2>6 DEF len
<1>13. Len(code)' + Len(todo)' = C + T + m - 1
  BY <1>1, <1>5
<1>14. (program \in Roots)' /\ IsSequence(code)' /\ (label_counter \in Nat \ {0})'
  BY <1>1 DEF GenInv, IsSequence
<1>15. IsSequence(todo)'
  BY <1>5 DEF IsSequence
<1>. QED  BY <1>6, <1>12, <1>13, <1>14, <1>15 DEF GenInv, JobOK, IsInstruction, t

(* A job that is done and leaves no other.                                 *)
LEMMA FinishedKeeps ==
  ASSUME GenInv, todo # <<>>, MarkOf(Job).op \notin Jumps,
         todo' = Tail(todo), UNCHANGED <<program, code, label_counter>>
  PROVE  GenInv'
<1>1. Plain(<<>>)
  BY DEF Plain, Quiet, IsSequence
<1>2. label_counter \in Nat /\ label_counter <= label_counter
  BY DEF GenInv
<1>3. Expands(Job, <<>>, label_counter, label_counter)
  BY <1>1, <1>2, PlainExpands
<1>4. <<>> \o Tail(todo) = Tail(todo)
  BY JobIs DEF IsSequence
<1>. QED  BY <1>2, <1>3, <1>4, ExpandedKeeps

(* An instruction moves from what is to be written to what is written.     *)
LEMMA WrittenKeeps ==
  ASSUME GenInv, todo # <<>>, NEW ins, ins.op = Job.ins.op, ins.num = Job.ins.num,
         Job.do = "write", code' = Append(code, ins), todo' = Tail(todo),
         UNCHANGED <<program, label_counter>>
  PROVE  GenInv'
<1>. DEFINE C == Len(code)
            T == Len(todo)
            s == Marks
            t == Marks'
<1>1. C \in Nat /\ T \in Nat \ {0}
  BY JobIs DEF GenInv, IsSequence
<1>2. PICK S : code \in Seq(S)
  BY DEF GenInv, IsSequence
<1>3. /\ code' \in Seq(S \cup {ins}) /\ Len(code') = C + 1
      /\ \A i \in 1 .. C : code'[i] = code[i]
      /\ code'[C + 1] = ins
  BY <1>2
<1>4. /\ IsSequence(todo') /\ Len(todo') = T - 1
      /\ \A i \in 1 .. T - 1 : todo'[i] = todo[i + 1]
  BY JobIs
<1>5. /\ \A i \in 1 .. C : s[i] = Mark(code[i].op, code[i].num)
      /\ \A x \in 1 .. T : s[C + x] = MarkOf(todo[x])
  <2>1. s = [i \in 1 .. C + T |-> IF i <= C THEN Mark(code[i].op, code[i].num)
                                            ELSE MarkOf(todo[i - C])]
    BY DEF Marks
  <2>. HIDE DEF s
  <2>. QED  BY <1>1, <2>1
<1>6. /\ \A i \in 1 .. C + 1 : t[i] = Mark(code'[i].op, code'[i].num)
      /\ \A x \in 1 .. T - 1 : t[(C + 1) + x] = MarkOf(todo'[x])
  <2>1. t = [i \in 1 .. (C + 1) + (T - 1) |->
                IF i <= C + 1 THEN Mark(code'[i].op, code'[i].num)
                              ELSE MarkOf(todo'[i - (C + 1)])]
    BY <1>3, <1>4 DEF Marks, MarkOf
  <2>. HIDE DEF t
  <2>. QED  BY <1>1, <2>1
<1>7. s[C + 1] = Mark(ins.op, ins.num)
  <2>1. s[C + 1] = MarkOf(Job)
    BY <1>1, <1>5, JobIs
  <2>. QED  BY <2>1 DEF MarkOf
<1>. HIDE DEF s, t
<1>8. ASSUME NEW i \in 1 .. C + T
      PROVE  t[i] = s[i]
  <2>1. CASE i \in 1 .. C
    BY <1>1, <1>3, <1>5, <1>6, <2>1
  <2>2. CASE i = C + 1
    BY <1>1, <1>3, <1>6, <1>7, <2>2
  <2>3. CASE i \notin 1 .. C + 1
    <3>. DEFINE x == i - (C + 1)
    <3>0. C + 2 <= i /\ i <= C + T
      BY <1>1, <2>3
    <3>1. x \in 1 .. T - 1 /\ i = (C + 1) + x /\ i = C + (x + 1) /\ x + 1 \in 1 .. T
      <4>. HIDE DEF C, T
      <4>. QED  BY <1>1, <3>0
    <3>. HIDE DEF x
    <3>. QED  BY <1>4, <1>5, <1>6, <3>1
  <2>. QED  BY <1>1, <2>1, <2>2, <2>3
<1>9. Linked(t, C + T, 1, label_counter)
  <2>1. Linked(s, C + T, 1, label_counter)
    BY DEF GenInv, s
  <2>. HIDE DEF C, T
  <2>. QED  BY <1>8, <2>1 DEF Linked
<1>10. Len(code)' + Len(todo)' = C + T
  BY <1>1, <1>3, <1>4
<1>11. \A i \in 1 .. Len(todo') : JobOK(todo'[i])
  <2>1. \A i \in 1 .. T : JobOK(todo[i])
    BY DEF GenInv
  <2>2. \A i \in 1 .. T - 1 : i + 1 \in 1 .. T
    BY <1>1
  <2>. HIDE DEF T
  <2>. QED  BY <1>4, <2>1, <2>2
<1>12. IsSequence(code)' /\ IsSequence(todo)'
  BY <1>3, <1>4 DEF IsSequence
<1>13. (program \in Roots)' /\ (label_counter \in Nat \ {0})'
  BY DEF GenInv
<1>. QED  BY <1>9, <1>10, <1>11, <1>12, <1>13 DEF GenInv, JobOK, IsInstruction, t

LEMMA MarkOfJob ==
  ASSUME GenInv, todo # <<>>
  PROVE  /\ Job.do \in {"expr", "free"} => MarkOf(Job).op \notin Jumps
         /\ Job.do = "stmt" => /\ Job.n \in Node
                               /\ MarkOf(Job) = MarkOf(Stmt(Job.n))
                               /\ MarkOf(Job).op \notin Jumps
         /\ Job.do = "expr" => Job.n \in Node /\ Kind(Job.n) \in ExprKind
<1>1. Job.do \in {"expr", "free"} => MarkOf(Job).op \notin Jumps
  BY MarkIs DEF MarkOf, Jumps
<1>2. Job.do = "stmt" =>
         MarkOf(Job) = IF Kind(Job.n) \in {"PROGRAM", "FUNC_DECL"} THEN Mark("END", 0) ELSE Blank
  BY DEF MarkOf
<1>3. Mark("END", 0).op \notin Jumps /\ Blank.op \notin Jumps
  BY MarkIs DEF Jumps
<1>. HIDE DEF Job
<1>4. Job.do = "stmt" => MarkOf(Job) = MarkOf(Stmt(Job.n)) /\ MarkOf(Job).op \notin Jumps
  BY <1>2, <1>3, StmtIs
<1>5. /\ Job.do = "stmt" => Job.n \in Node
      /\ Job.do = "expr" => Job.n \in Node /\ Kind(Job.n) \in ExprKind
  BY JobIs DEF JobOK
<1>. QED  BY <1>1, <1>4, <1>5

LEMMA GeneratorInit == GenInit => GenInv
<1>. SUFFICES ASSUME GenInit
              PROVE  GenInv
  OBVIOUS
<1>1. program \in Node /\ Kind(program) = "PROGRAM"
  BY AstAssumption DEF GenInit
<1>2. JobOK(Stmt(program)) /\ MarkOf(Stmt(program)).op = "END"
  BY <1>1, StmtIs, EndMarks
<1>. DEFINE x == Stmt(program)
<1>3. todo = <<x>> /\ code = <<>> /\ label_counter = 1 /\ program \in Roots
  BY DEF GenInit
<1>. HIDE DEF x
<1>4. IsSequence(todo) /\ IsSequence(code) /\ Len(code) = 0 /\ Len(todo) = 1 /\ todo[1] = x
  <2>1. todo \in Seq({x}) /\ code \in Seq({x})
    BY <1>3
  <2>. QED  BY <1>3, <2>1 DEF IsSequence
<1>5. \A i \in 1 .. Len(todo) : JobOK(todo[i])
  BY <1>2, <1>4 DEF x
<1>6. Marks[1] = MarkOf(x)
  BY <1>4 DEF Marks
<1>7. Linked(Marks, 1, 1, 1)
  <2>1. \A i \in 1 .. 1 : Marks[i].op \notin Jumps
    BY <1>2, <1>6 DEF x, Jumps
  <2>. QED  BY <2>1, NoJumps
<1>. QED  BY <1>3, <1>4, <1>5, <1>7 DEF GenInv

LEMMA GeneratorStep == GenInv /\ GenStep => GenInv'
<1>. SUFFICES ASSUME GenInv, GenStep
              PROVE  GenInv'
  OBVIOUS
<1>0. label_counter \in Nat \ {0} /\ label_counter <= label_counter
  BY DEF GenInv
<1>1. CASE GenOperand
  <2>1. /\ todo # <<>> /\ Job.do = "expr" /\ todo' = Tail(todo)
        /\ UNCHANGED <<program, code, label_counter>>
    BY <1>1 DEF GenOperand, Doing
  <2>. QED  BY <2>1, MarkOfJob, FinishedKeeps
<1>2. CASE GenExpr
  <2>1. /\ todo # <<>> /\ Job.do = "expr" /\ todo' = ExprItems(Job.n) \o Tail(todo)
        /\ Kind(Job.n) \notin {"LITERAL", "VAR_REF"}
        /\ UNCHANGED <<program, code, label_counter>>
    BY <1>2 DEF GenExpr, Doing
  <2>2. /\ Job.n \in Node /\ Kind(Job.n) \in ExprKind \ {"LITERAL", "VAR_REF"}
        /\ MarkOf(Job).op \notin Jumps
    BY <2>1, MarkOfJob
  <2>3. Expands(Job, ExprItems(Job.n), label_counter, label_counter)
    BY <1>0, <2>2, ExprExpands
  <2>. QED  BY <1>0, <2>1, <2>2, <2>3, ExpandedKeeps
<1>3. CASE GenStmt
  <2>. DEFINE to == label_counter + Made(Job.n)
  <2>1. /\ todo # <<>> /\ Job.do = "stmt" /\ todo' = StmtItems(Job.n) \o Tail(todo)
        /\ label_counter' = to /\ UNCHANGED <<program, code>>
    BY <1>3 DEF GenStmt, Doing, Made
  <2>2. /\ Job.n \in Node /\ MarkOf(Job) = MarkOf(Stmt(Job.n))
        /\ MarkOf(Job).op \notin Jumps
    BY <2>1, MarkOfJob
  <2>3. Expands(Stmt(Job.n), StmtItems(Job.n), label_counter, to)
    BY <1>0, <2>2, StmtExpands
  <2>4. Expands(Job, StmtItems(Job.n), label_counter, to)
    BY <2>2, <2>3 DEF Expands
  <2>5. to \in Nat /\ label_counter <= to
    BY <1>0 DEF Made
  <2>. HIDE DEF to
  <2>. QED  BY <2>1, <2>2, <2>4, <2>5, ExpandedKeeps
<1>4. CASE GenWrite
  <2>. DEFINE ins == [Job.ins EXCEPT !.args = Taken,
                         !.dst = IF Job.ins.op \in Computes THEN new_temp ELSE @]
  <2>1. /\ todo # <<>> /\ Job.do = "write" /\ todo' = Tail(todo)
        /\ code' = Append(code, ins) /\ UNCHANGED <<program, label_counter>>
    BY <1>4 DEF GenWrite, Doing
  <2>2. PICK op, dst, sym, num : Job.ins = Ins(op, dst, sym, num)
    BY <2>1, JobIs DEF JobOK, IsInstruction
  <2>3. ins.op = Job.ins.op /\ ins.num = Job.ins.num
    BY <2>2 DEF Ins
  <2>. HIDE DEF ins
  <2>. QED  BY <2>1, <2>3, WrittenKeeps
<1>5. CASE GenFree
  <2>1. /\ todo # <<>> /\ Job.do = "free" /\ todo' = Tail(todo)
        /\ UNCHANGED <<program, code, label_counter>>
    BY <1>5 DEF GenFree, Doing
  <2>. QED  BY <2>1, MarkOfJob, FinishedKeeps
<1>. QED  BY <1>1, <1>2, <1>3, <1>4, <1>5 DEF GenStep

LEMMA OthersKeep == GenInv /\ UNCHANGED genVars => GenInv'
BY DEF GenInv, genVars, Marks, MarkOf, JobOK, IsInstruction, IsSequence

(* When nothing is left to do, what is linked is the text.                 *)
LEMMA LinkedText == GenInv => JumpsResolve
<1>. SUFFICES ASSUME GenInv, todo = <<>>,
                     NEW k \in DOMAIN code, code[k].op \in Jumps
              PROVE  \E l \in DOMAIN code :
                        /\ Labels(k) = {l}
                        /\ \A j \in 1 .. Len(code) :
                              code[j].op = "END" => (j < k <=> j < l)
  BY DEF JumpsResolve, Generated, Jumps
<1>. DEFINE N == Len(code)
<1>1. N \in Nat /\ DOMAIN code = 1 .. N
  BY DEF GenInv, IsSequence
<1>2. \A i \in 1 .. N : Marks[i].op = code[i].op /\ Marks[i].num = code[i].num
  <2>1. \A i \in 1 .. N : Marks[i] = Mark(code[i].op, code[i].num)
    BY <1>1 DEF Marks
  <2>2. ASSUME NEW i \in 1 .. N
        PROVE  Marks[i].op = code[i].op /\ Marks[i].num = code[i].num
    <3>1. Mark(code[i].op, code[i].num).op = code[i].op /\ Mark(code[i].op, code[i].num).num = code[i].num
      BY MarkIs
    <3>. HIDE DEF N
    <3>. QED  BY <2>1, <3>1
  <2>. QED  BY <2>2
<1>3. Linked(Marks, N, 1, label_counter)
  BY <1>1 DEF GenInv
<1>. HIDE DEF N
<1>4. PICK l \in 1 .. N : /\ code[l].op = "LABEL" /\ code[l].num = code[k].num
                          /\ \A j \in 1 .. N : code[j].op = "END" => (j < k <=> j < l)
  BY <1>1, <1>2, <1>3 DEF Linked
<1>5. \A j \in 1 .. N : code[j].op = "LABEL" /\ code[j].num = code[k].num => j = l
  BY <1>2, <1>3, <1>4 DEF Linked
<1>6. Labels(k) = {l}
  BY <1>1, <1>4, <1>5 DEF Labels
<1>. QED  BY <1>1, <1>4, <1>6 DEF N

(* Every jump of the text the generator ends with finds one label, in its  *)
(* own function (new_label and gen_stmt, codegen.c:153-178).               *)
THEOREM JumpsAlwaysResolve == Spec => []JumpsResolve
<1>1. Init => GenInv
  BY GeneratorInit DEF Init
<1>2. GenInv /\ [Next]_vars => GenInv'
  <2>. SUFFICES ASSUME GenInv, [Next]_vars
                PROVE  GenInv'
    OBVIOUS
  <2>1. CASE Generate
    BY <2>1, GeneratorStep DEF Generate
  <2>2. CASE Interpret
    BY <2>2, OthersKeep DEF Interpret
  <2>3. CASE Start
    BY <2>3, OthersKeep DEF Start
  <2>4. CASE Machine
    BY <2>4, OthersKeep DEF Machine
  <2>5. CASE Ended \/ UNCHANGED vars
    BY <2>5, OthersKeep DEF Ended, vars
  <2>. QED  BY <2>1, <2>2, <2>3, <2>4, <2>5 DEF Next, Step
<1>3. GenInv => JumpsResolve
  BY LinkedText
<1>. QED  BY <1>1, <1>2, <1>3, PTL DEF Spec

-----------------------------------------------------------------------------
(* How many operands an instruction uses.                                  *)
Uses(op) == IF op \in {"UNARY", "COPY", "IF_FALSE", "PRINT", "PARAM"} THEN {1}
            ELSE IF op = "BINARY" THEN {2}
            ELSE IF op = "RETURN" THEN {0, 1} ELSE {0}

(* What an instruction makes of the number of parameters that have been    *)
(* pushed in its function and not been taken: there is none of them where  *)
(* a statement begins or ends, where control comes from or goes elsewhere. *)
Moves(op, num, p, q) ==
    IF op = "PARAM"     THEN q = p + 1
    ELSE IF op = "CALL" THEN num \in 0 .. p /\ q = p - num
    ELSE IF op \in {"UNARY", "BINARY"} THEN q = p
    ELSE p = 0 /\ q = 0

Nameless(sym) == sym = ""

(* The instructions that operands can wait for.                            *)
Carries == Computes \cup {"PARAM"}

InsOK(ins, uses) ==
    /\ uses \in Uses(ins.op)
    /\ ins.op = "LABEL" => Nameless(ins.sym)

(* What a job makes of the number of operands that wait and of that of the *)
(* parameters.                                                             *)
Does(item, o, p, r, q) ==
    \/ item.do = "expr" /\ r = o + 1 /\ q = p
    \/ item.do = "stmt" /\ o = 0 /\ r = 0 /\ p = 0 /\ q = 0
    \/ item.do = "free" /\ item.takes = 1 /\ r + 1 = o /\ q = p
    \/ /\ item.do = "write"
       /\ InsOK(item.ins, item.takes) /\ item.takes <= o
       /\ item.ins.op \in Carries \/ item.takes = o
       /\ Moves(item.ins.op, item.ins.num, p, q)
       /\ r = o - item.takes + (IF item.ins.op \in Computes THEN 1 ELSE 0)

Leads(s, o, p, r, q) ==
    /\ IsSequence(s)
    /\ \E O, P \in [1 .. Len(s) + 1 -> Nat] :
          /\ O[1] = o /\ P[1] = p /\ O[Len(s) + 1] = r /\ P[Len(s) + 1] = q
          /\ \A i \in 1 .. Len(s) : Does(s[i], O[i], P[i], O[i + 1], P[i + 1])

LEMMA LeadsNone ==
  ASSUME NEW o \in Nat, NEW p \in Nat
  PROVE  Leads(<<>>, o, p, o, p)
<1>. DEFINE O == [i \in 1 .. 1 |-> o]
            P == [i \in 1 .. 1 |-> p]
<1>1. O \in [1 .. 1 -> Nat] /\ P \in [1 .. 1 -> Nat] /\ O[1] = o /\ P[1] = p
  OBVIOUS
<1>2. IsSequence(<<>>) /\ Len(<<>>) = 0
  BY DEF IsSequence
<1>. HIDE DEF O, P
<1>. QED  BY <1>1, <1>2 DEF Leads

LEMMA LeadsOne ==
  ASSUME NEW x, NEW o \in Nat, NEW p \in Nat, NEW r \in Nat, NEW q \in Nat,
         Does(x, o, p, r, q)
  PROVE  Leads(<<x>>, o, p, r, q)
<1>. DEFINE O == [i \in 1 .. 2 |-> IF i = 1 THEN o ELSE r]
            P == [i \in 1 .. 2 |-> IF i = 1 THEN p ELSE q]
<1>1. /\ O \in [1 .. 2 -> Nat] /\ P \in [1 .. 2 -> Nat]
      /\ O[1] = o /\ P[1] = p /\ O[2] = r /\ P[2] = q
  OBVIOUS
<1>2. <<x>> \in Seq({x}) /\ Len(<<x>>) = 1 /\ <<x>>[1] = x
  OBVIOUS
<1>. HIDE DEF O, P
<1>3. \A i \in 1 .. 1 : Does(<<x>>[i], O[i], P[i], O[i + 1], P[i + 1])
  BY <1>1, <1>2
<1>4. IsSequence(<<x>>)
  BY <1>2 DEF IsSequence
<1>. QED  BY <1>1, <1>2, <1>3, <1>4 DEF Leads

LEMMA LeadsJoin ==
  ASSUME NEW s, NEW t, NEW o, NEW p, NEW r, NEW q, NEW r2, NEW q2,
         Leads(s, o, p, r, q), Leads(t, r, q, r2, q2)
  PROVE  Leads(s \o t, o, p, r2, q2)
<1>1. PICK S : s \in Seq(S)
  BY DEF Leads, IsSequence
<1>2. PICK T : t \in Seq(T)
  BY DEF Leads, IsSequence
<1>. DEFINE m == Len(s)
            n == Len(t)
<1>3. s \in Seq(S \cup T) /\ t \in Seq(S \cup T) /\ m \in Nat /\ n \in Nat
  BY <1>1, <1>2
<1>4. /\ s \o t \in Seq(S \cup T) /\ Len(s \o t) = m + n
      /\ \A i \in 1 .. m : (s \o t)[i] = s[i]
      /\ \A i \in 1 .. n : (s \o t)[m + i] = t[i]
  BY <1>3, Joining
<1>5. PICK O, P \in [1 .. m + 1 -> Nat] :
         /\ O[1] = o /\ P[1] = p /\ O[m + 1] = r /\ P[m + 1] = q
         /\ \A i \in 1 .. m : Does(s[i], O[i], P[i], O[i + 1], P[i + 1])
  BY DEF Leads
<1>6. PICK O2, P2 \in [1 .. n + 1 -> Nat] :
         /\ O2[1] = r /\ P2[1] = q /\ O2[n + 1] = r2 /\ P2[n + 1] = q2
         /\ \A i \in 1 .. n : Does(t[i], O2[i], P2[i], O2[i + 1], P2[i + 1])
  BY DEF Leads
<1>. HIDE DEF m, n
<1>. DEFINE O3 == [i \in 1 .. m + n + 1 |-> IF i <= m THEN O[i] ELSE O2[i - m]]
            P3 == [i \in 1 .. m + n + 1 |-> IF i <= m THEN P[i] ELSE P2[i - m]]
<1>7. /\ \A i \in 1 .. m + 1 : O3[i] = O[i] /\ P3[i] = P[i]
      /\ \A i \in 1 .. n + 1 : O3[m + i] = O2[i] /\ P3[m + i] = P2[i]
      /\ O3 \in [1 .. m + n + 1 -> Nat] /\ P3 \in [1 .. m + n + 1 -> Nat]
  <2>1. ASSUME NEW i \in 1 .. m + 1
        PROVE  O3[i] = O[i] /\ P3[i] = P[i]
    <3>1. CASE i <= m
      BY <1>3, <3>1
    <3>2. CASE i = m + 1
      <4>1. O3[i] = O2[1] /\ P3[i] = P2[1]
        BY <1>3, <3>2
      <4>. QED  BY <1>5, <1>6, <3>2, <4>1
    <3>. QED  BY <1>3, <3>1, <3>2
  <2>2. ASSUME NEW i \in 1 .. n + 1
        PROVE  O3[m + i] = O2[i] /\ P3[m + i] = P2[i]
    BY <1>3
  <2>3. ASSUME NEW i \in 1 .. m + n + 1
        PROVE  O3[i] \in Nat /\ P3[i] \in Nat
    <3>1. i <= m => i \in 1 .. m + 1
      BY <1>3
    <3>2. ~(i <= m) => i - m \in 1 .. n + 1
      BY <1>3
    <3>. QED  BY <3>1, <3>2
  <2>4. O3 \in [1 .. m + n + 1 -> Nat] /\ P3 \in [1 .. m + n + 1 -> Nat]
    BY <2>3
  <2>. QED  BY <2>1, <2>2, <2>4
<1>. HIDE DEF O3, P3
<1>8. ASSUME NEW i \in 1 .. m + n
      PROVE  Does((s \o t)[i], O3[i], P3[i], O3[i + 1], P3[i + 1])
  <2>1. CASE i <= m
    <3>1. i \in 1 .. m /\ i \in 1 .. m + 1 /\ i + 1 \in 1 .. m + 1
      BY <1>3, <2>1
    <3>. QED  BY <1>4, <1>5, <1>7, <3>1
  <2>2. CASE ~(i <= m)
    <3>. DEFINE j == i - m
    <3>1. j \in 1 .. n /\ j \in 1 .. n + 1 /\ j + 1 \in 1 .. n + 1 /\ i = m + j /\ i + 1 = m + (j + 1)
      BY <1>3, <2>2
    <3>. HIDE DEF j
    <3>. QED  BY <1>4, <1>6, <1>7, <3>1
  <2>. QED  BY <2>1, <2>2
<1>9. O3[1] = o /\ P3[1] = p /\ O3[m + n + 1] = r2 /\ P3[m + n + 1] = q2
  <2>1. 1 \in 1 .. m + 1 /\ n + 1 \in 1 .. n + 1 /\ m + n + 1 = m + (n + 1)
    BY <1>3
  <2>. QED  BY <1>5, <1>6, <1>7, <2>1
<1>10. IsSequence(s \o t)
  BY <1>4 DEF IsSequence
<1>. QED  BY <1>4, <1>7, <1>8, <1>9, <1>10 DEF Leads

LEMMA LeadsRest ==
  ASSUME NEW s, NEW o, NEW p, NEW r, NEW q, Leads(s, o, p, r, q), s # <<>>
  PROVE  \E a, b \in Nat : /\ o \in Nat /\ p \in Nat
                           /\ Does(Head(s), o, p, a, b) /\ Leads(Tail(s), a, b, r, q)
<1>1. PICK S : s \in Seq(S)
  BY DEF Leads, IsSequence
<1>. DEFINE n == Len(s)
            t == Tail(s)
<1>2. /\ n \in Nat \ {0} /\ t \in Seq(S) /\ Len(t) = n - 1 /\ Head(s) = s[1]
      /\ \A i \in 1 .. n - 1 : t[i] = s[i + 1]
  BY <1>1
<1>3. PICK O, P \in [1 .. n + 1 -> Nat] :
         /\ O[1] = o /\ P[1] = p /\ O[n + 1] = r /\ P[n + 1] = q
         /\ \A i \in 1 .. n : Does(s[i], O[i], P[i], O[i + 1], P[i + 1])
  BY DEF Leads
<1>. HIDE DEF n, t
<1>. DEFINE O2 == [i \in 1 .. n |-> O[i + 1]]
            P2 == [i \in 1 .. n |-> P[i + 1]]
<1>4. \A i \in 1 .. n : i + 1 \in 1 .. n + 1
  BY <1>2
<1>5. /\ O2 \in [1 .. n -> Nat] /\ P2 \in [1 .. n -> Nat]
      /\ \A i \in 1 .. n : O2[i] = O[i + 1] /\ P2[i] = P[i + 1]
  BY <1>4
<1>. HIDE DEF O2, P2
<1>6. O2[1] = O[2] /\ P2[1] = P[2] /\ O2[n] = r /\ P2[n] = q
  <2>1. 1 \in 1 .. n /\ n \in 1 .. n /\ 1 + 1 = 2
    BY <1>2
  <2>. QED  BY <1>3, <1>5, <2>1
<1>7. ASSUME NEW i \in 1 .. n - 1
      PROVE  Does(t[i], O2[i], P2[i], O2[i + 1], P2[i + 1])
  <2>1. i \in 1 .. n /\ i + 1 \in 1 .. n
    BY <1>2
  <2>2. Does(s[i + 1], O[i + 1], P[i + 1], O[i + 1 + 1], P[i + 1 + 1])
    BY <1>3, <2>1
  <2>. QED  BY <1>2, <1>5, <2>1, <2>2
<1>8. Leads(t, O[2], P[2], r, q)
  <2>1. IsSequence(t) /\ Len(t) + 1 = n /\ Len(t) = n - 1
    BY <1>2 DEF IsSequence
  <2>. QED  BY <1>5, <1>6, <1>7, <2>1 DEF Leads
<1>9. Does(Head(s), o, p, O[2], P[2])
  <2>1. 1 \in 1 .. n /\ 1 + 1 = 2
    BY <1>2
  <2>. QED  BY <1>2, <1>3, <2>1
<1>10. 1 \in 1 .. n + 1 /\ 2 \in 1 .. n + 1
  BY <1>2
<1>11. O[1] \in Nat /\ O[2] \in Nat /\ P[1] \in Nat /\ P[2] \in Nat
  BY <1>10
<1>. QED  BY <1>3, <1>8, <1>9, <1>11 DEF t

-----------------------------------------------------------------------------
(* Neither an operand nor a parameter waits before or after.               *)
Still(s) == Leads(s, 0, 0, 0, 0)

LEMMA StillNone == Still(<<>>)
BY LeadsNone DEF Still

LEMMA StillJoin ==
  ASSUME NEW s, NEW t, Still(s), Still(t)
  PROVE  Still(s \o t)
<1>1. Leads(s, 0, 0, 0, 0) /\ Leads(t, 0, 0, 0, 0)
  BY DEF Still
<1>2. Leads(s \o t, 0, 0, 0, 0)
  BY <1>1, LeadsJoin
<1>. QED  BY <1>2 DEF Still

LEMMA DoesExpr ==
  ASSUME NEW n, NEW o \in Nat, NEW p \in Nat
  PROVE  Does(Expr(n), o, p, o + 1, p) /\ Leads(<<Expr(n)>>, o, p, o + 1, p)
<1>1. Expr(n).do = "expr"
  BY DEF Expr, Item
<1>2. Does(Expr(n), o, p, o + 1, p)
  BY <1>1 DEF Does
<1>. QED  BY <1>2, LeadsOne

LEMMA FirstExpr ==
  ASSUME NEW n
  PROVE  Leads(<<Expr(n)>>, 0, 0, 1, 0)
<1>1. Leads(<<Expr(n)>>, 0, 0, 0 + 1, 0)
  BY DoesExpr
<1>2. 0 + 1 = 1
  OBVIOUS
<1>. QED  BY <1>1, <1>2

LEMMA DoesStmt ==
  ASSUME NEW n
  PROVE  Does(Stmt(n), 0, 0, 0, 0) /\ Still(<<Stmt(n)>>)
<1>1. Stmt(n).do = "stmt"
  BY DEF Stmt, Item
<1>2. Does(Stmt(n), 0, 0, 0, 0)
  BY <1>1 DEF Does
<1>. QED  BY <1>2, LeadsOne DEF Still

LEMMA DoesWrite ==
  ASSUME NEW k, NEW op, NEW dst, NEW sym, NEW num, NEW o, NEW p, NEW r, NEW q,
         k \in Uses(op), op = "LABEL" => Nameless(sym), k <= o, Moves(op, num, p, q),
         op \in Carries \/ k = o,
         op \in Computes => r = o - k + 1, op \notin Computes => r = o - k + 0
  PROVE  Does(Write(k, op, dst, sym, num), o, p, r, q)
<1>. DEFINE w == Write(k, op, dst, sym, num)
<1>0. /\ Ins(op, dst, sym, num).op = op /\ Ins(op, dst, sym, num).num = num
      /\ Ins(op, dst, sym, num).sym = sym
  BY DEF Ins
<1>1. w.do = "write" /\ w.takes = k /\ w.ins = Ins(op, dst, sym, num)
  BY DEF Write, Item
<1>. HIDE DEF w
<1>2. w.ins.op = op /\ w.ins.num = num /\ w.ins.sym = sym
  BY <1>0, <1>1
<1>3. InsOK(w.ins, w.takes)
  BY <1>1, <1>2 DEF InsOK
<1>4. r = o - w.takes + (IF w.ins.op \in Computes THEN 1 ELSE 0)
  BY <1>1, <1>2
<1>5. Does(w, o, p, r, q)
  BY <1>1, <1>2, <1>3, <1>4 DEF Does
<1>. QED  BY <1>5 DEF w

(* An instruction that ends a statement, and one that is one.              *)
LEMMA WriteEnds ==
  ASSUME NEW k \in {0, 1}, NEW op \in {"COPY", "RETURN", "PRINT", "IF_FALSE"},
         NEW dst, NEW sym, NEW num, k \in Uses(op)
  PROVE  Leads(<<Write(k, op, dst, sym, num)>>, k, 0, 0, 0)
<1>. DEFINE w == Write(k, op, dst, sym, num)
<1>1. Moves(op, num, 0, 0) /\ op # "LABEL" /\ op \notin Computes
  BY DEF Moves, Computes
<1>2. k \in Nat /\ k <= k /\ 0 = k - k + 0
  OBVIOUS
<1>3. Does(w, k, 0, 0, 0)
  BY <1>1, <1>2, DoesWrite
<1>. HIDE DEF w
<1>4. Leads(<<w>>, k, 0, 0, 0)
  BY <1>2, <1>3, LeadsOne
<1>. QED  BY <1>4 DEF w

LEMMA WriteStill ==
  ASSUME NEW op \in {"LABEL", "GOTO", "FUNC", "END"},
         NEW dst, NEW sym, NEW num, op = "LABEL" => Nameless(sym)
  PROVE  Still(<<Write(0, op, dst, sym, num)>>)
<1>. DEFINE w == Write(0, op, dst, sym, num)
<1>1. Moves(op, num, 0, 0) /\ op \notin Computes /\ 0 \in Uses(op)
  BY DEF Moves, Computes, Uses
<1>2. 0 <= 0 /\ 0 = 0 - 0 + 0
  OBVIOUS
<1>3. Does(w, 0, 0, 0, 0)
  BY <1>1, <1>2, DoesWrite
<1>. HIDE DEF w
<1>4. Leads(<<w>>, 0, 0, 0, 0)
  BY <1>3, LeadsOne
<1>. QED  BY <1>4 DEF w, Still

LEMMA LabelStill ==
  ASSUME NEW l
  PROVE  /\ Still(<<Label(l)>>) /\ Still(<<Goto(l)>>)
         /\ Leads(<<IfFalse(l)>>, 1, 0, 0, 0)
<1>1. Still(<<Label(l)>>) /\ Still(<<Goto(l)>>)
  <2>1. Nameless("")
    BY DEF Nameless
  <2>2. /\ Still(<<Write(0, "LABEL", "", "", l)>>)
        /\ Still(<<Write(0, "GOTO", "", "", l)>>)
    BY <2>1, WriteStill, Zenon
  <2>. QED  BY <2>2, Zenon DEF Label, Goto
<1>2. 1 \in Uses("IF_FALSE")
  BY DEF Uses
<1>3. Leads(<<IfFalse(l)>>, 1, 0, 0, 0)
  <2>1. Leads(<<Write(1, "IF_FALSE", "", "", l)>>, 1, 0, 0, 0)
    BY <1>2, WriteEnds, Zenon
  <2>. QED  BY <2>1, Zenon DEF IfFalse
<1>. QED  BY <1>1, <1>3

(* A condition and the jump that depends on it.                            *)
LEMMA TestStill ==
  ASSUME NEW n, NEW l
  PROVE  Still(<<Expr(n), IfFalse(l)>>)
<1>1. Leads(<<Expr(n)>>, 0, 0, 1, 0) /\ Leads(<<IfFalse(l)>>, 1, 0, 0, 0)
  BY FirstExpr, LabelStill
<1>2. Leads(<<Expr(n)>> \o <<IfFalse(l)>>, 0, 0, 0, 0)
  BY <1>1, LeadsJoin
<1>. QED  BY <1>2, JoinedCall DEF Still

LEMMA ThreeJoined ==
  ASSUME NEW a, NEW b, NEW c
  PROVE  <<a, b>> \o <<c>> = <<a, b, c>> /\ <<a>> \o <<b, c>> = <<a, b, c>>
<1>. DEFINE S == {a, b, c}
            whole == <<a, b, c>>
<1>1. ASSUME NEW s \in Seq(S), NEW t \in Seq(S), Len(s) + Len(t) = 3,
             \A i \in 1 .. Len(s) : s[i] = whole[i],
             \A i \in 1 .. Len(t) : t[i] = whole[Len(s) + i]
      PROVE  s \o t = whole
  <2>1. whole \in Seq(S) /\ Len(whole) = 3
    OBVIOUS
  <2>. HIDE DEF whole, S
  <2>. DEFINE u == s \o t
  <2>2. /\ u \in Seq(S) /\ Len(u) = 3
        /\ \A i \in 1 .. Len(s) : u[i] = s[i]
        /\ \A i \in 1 .. Len(t) : u[Len(s) + i] = t[i]
    BY <1>1, Joining
  <2>3. Len(s) \in Nat /\ Len(t) \in Nat
    OBVIOUS
  <2>. HIDE DEF u
  <2>4. ASSUME NEW i \in 1 .. 3
        PROVE  u[i] = whole[i]
    <3>1. CASE i <= Len(s)
      <4>1. i \in 1 .. Len(s)
        BY <2>3, <3>1
      <4>. QED  BY <1>1, <2>2, <4>1
    <3>2. CASE ~(i <= Len(s))
      <4>. DEFINE j == i - Len(s)
      <4>1. j \in 1 .. Len(t) /\ i = Len(s) + j
        BY <1>1, <2>3, <3>2
      <4>. HIDE DEF j
      <4>. QED  BY <1>1, <2>2, <4>1
    <3>. QED  BY <3>1, <3>2
  <2>5. u = whole
    <3>1. \A i \in 1 .. Len(u) : u[i] = whole[i]
      BY <2>2, <2>4
    <3>. QED  BY <2>1, <2>2, <3>1, SeqEqual
  <2>. QED  BY <2>5 DEF u
<1>2. whole[1] = a /\ whole[2] = b /\ whole[3] = c
  OBVIOUS
<1>. HIDE DEF whole
<1>3. <<a, b>> \o <<c>> = whole
  <2>. DEFINE s == <<a, b>>
              t == <<c>>
  <2>1. s \in Seq(S) /\ t \in Seq(S) /\ Len(s) = 2 /\ Len(t) = 1
    OBVIOUS
  <2>2. s[1] = a /\ s[2] = b /\ t[1] = c
    OBVIOUS
  <2>. HIDE DEF s, t, S
  <2>3. \A i \in 1 .. 2 : s[i] = whole[i]
    BY <1>2, <2>2
  <2>4. \A i \in 1 .. 1 : t[i] = whole[2 + i]
    BY <1>2, <2>2
  <2>5. s \o t = whole
    <3>1. Len(s) + Len(t) = 3
      BY <2>1
    <3>2. /\ \A i \in 1 .. Len(s) : s[i] = whole[i]
          /\ \A i \in 1 .. Len(t) : t[i] = whole[Len(s) + i]
      BY <2>1, <2>3, <2>4
    <3>. QED  BY <1>1, <2>1, <3>1, <3>2
  <2>. QED  BY <2>5 DEF s, t
<1>4. <<a>> \o <<b, c>> = whole
  <2>. DEFINE s == <<a>>
              t == <<b, c>>
  <2>1. s \in Seq(S) /\ t \in Seq(S) /\ Len(s) = 1 /\ Len(t) = 2
    OBVIOUS
  <2>2. s[1] = a /\ t[1] = b /\ t[2] = c
    OBVIOUS
  <2>. HIDE DEF s, t, S
  <2>3. \A i \in 1 .. 1 : s[i] = whole[i]
    BY <1>2, <2>2
  <2>4. \A i \in 1 .. 2 : t[i] = whole[1 + i]
    BY <1>2, <2>2
  <2>5. s \o t = whole
    <3>1. Len(s) + Len(t) = 3
      BY <2>1
    <3>2. /\ \A i \in 1 .. Len(s) : s[i] = whole[i]
          /\ \A i \in 1 .. Len(t) : t[i] = whole[Len(s) + i]
      BY <2>1, <2>3, <2>4
    <3>. QED  BY <1>1, <2>1, <3>1, <3>2
  <2>. QED  BY <2>5 DEF s, t
<1>. QED  BY <1>3, <1>4 DEF whole

LEMMA OperatorDoes ==
  ASSUME NEW dst, NEW sym, NEW num, NEW o \in Nat, NEW p
  PROVE  /\ Does(Write(1, "UNARY", dst, sym, num), o + 1, p, o + 1, p)
         /\ Does(Write(2, "BINARY", dst, sym, num), o + 1 + 1, p, o + 1, p)
<1>1. ASSUME NEW k \in {1, 2}, NEW op \in {"UNARY", "BINARY"}, k \in Uses(op)
      PROVE  Does(Write(k, op, dst, sym, num), o + k, p, o + 1, p)
  <2>. DEFINE a == o + k
              b == o + 1
  <2>1. op \in Computes /\ op # "LABEL" /\ Moves(op, num, p, p) /\ op \in Carries
    BY DEF Computes, Moves, Carries
  <2>2. k <= a /\ b = a - k + 1
    OBVIOUS
  <2>. HIDE DEF a, b
  <2>3. Does(Write(k, op, dst, sym, num), a, p, b, p)
    BY <1>1, <2>1, <2>2, DoesWrite, Zenon
  <2>. QED  BY <2>3 DEF a, b
<1>2. 1 \in Uses("UNARY") /\ 2 \in Uses("BINARY") /\ o + 2 = o + 1 + 1
  BY DEF Uses
<1>. HIDE DEF Does
<1>. QED  BY <1>1, <1>2

LEMMA PushDoes ==
  ASSUME NEW dst, NEW sym, NEW num, NEW o \in Nat, NEW p \in Nat
  PROVE  Does(Write(1, "PARAM", dst, sym, num), o + 1, p, o, p + 1)
<1>1. ASSUME NEW k \in {1}, NEW op \in {"PARAM"}
      PROVE  Does(Write(k, op, dst, sym, num), o + k, p, o, p + 1)
  <2>. DEFINE a == o + k
              b == p + 1
  <2>1. op \notin Computes /\ op # "LABEL" /\ Moves(op, num, p, b) /\ k \in Uses(op)
        /\ op \in Carries
    BY DEF Computes, Moves, Uses, Carries
  <2>2. k <= a /\ o = a - k + 0
    OBVIOUS
  <2>. HIDE DEF a, b
  <2>3. Does(Write(k, op, dst, sym, num), a, p, o, b)
    BY <2>1, <2>2, DoesWrite, Zenon
  <2>. QED  BY <2>3 DEF a, b
<1>. QED  BY <1>1

(* Each argument becomes a parameter before the next is computed.          *)
LEMMA ArgsLead ==
  ASSUME NEW n \in Node, NEW o \in Nat, NEW p \in Nat
  PROVE  /\ Leads(GenArgs(n), o, p, o, p + Len(Ast[n].args))
         /\ Len(Ast[n].args) \in Nat
<1>. DEFINE m == Len(Ast[n].args)
            N == 2 * m
            g == GenArgs(n)
            arg(j) == Expr(Ast[n].args[(j + 1) \div 2])
            w == Write(1, "PARAM", "", "", 0)
            O == [j \in 1 .. N + 1 |-> o + ((j - 1) % 2)]
            P == [j \in 1 .. N + 1 |-> p + ((j - 1) \div 2)]
<1>1. m \in Nat
  BY NodeIs
<1>2. g = [j \in 1 .. N |-> IF j % 2 = 1 THEN arg(j) ELSE w]
  BY DEF GenArgs
<1>3. \A x, y : Does(arg(x), o, y, o + 1, y) <=> Does(arg(x), o, y, o + 1, y)
  OBVIOUS
<1>4. ASSUME NEW x, NEW y \in Nat
      PROVE  Does(arg(x), o, y, o + 1, y) /\ Does(w, o + 1, y, o, y + 1)
  <2>1. Does(arg(x), o, y, o + 1, y)
    BY <1>4, DoesExpr
  <2>5. Does(w, o + 1, y, o, y + 1)
    BY PushDoes
  <2>. QED  BY <2>1, <2>5
<1>. HIDE DEF m, w, arg
<1>5. IsSequence(g) /\ Len(g) = N
  <2>. DEFINE S == {g[j] : j \in 1 .. N}
  <2>1. N \in Nat
    BY <1>1
  <2>. HIDE DEF N
  <2>2. g \in Seq(S) /\ Len(g) = N
    BY <1>2, <2>1
  <2>. HIDE DEF S, g
  <2>. QED  BY <2>2 DEF IsSequence
<1>6. ASSUME NEW j \in 1 .. N + 1
      PROVE  (j - 1) % 2 \in {0, 1} /\ (j - 1) \div 2 \in Nat
  BY <1>1
<1>7. O \in [1 .. N + 1 -> Nat] /\ P \in [1 .. N + 1 -> Nat]
  BY <1>6
<1>8. O[1] = o /\ P[1] = p /\ O[N + 1] = o /\ P[N + 1] = p + m
  <2>1. 1 \in 1 .. N + 1 /\ N + 1 \in 1 .. N + 1 /\ (N + 1 - 1) % 2 = 0 /\ (N + 1 - 1) \div 2 = m
    BY <1>1
  <2>2. O[1] = o + ((1 - 1) % 2) /\ P[1] = p + ((1 - 1) \div 2)
    <3>1. \A j \in 1 .. N + 1 : O[j] = o + ((j - 1) % 2) /\ P[j] = p + ((j - 1) \div 2)
      OBVIOUS
    <3>. HIDE DEF O, P, N
    <3>. QED  BY <2>1, <3>1
  <2>4. (1 - 1) % 2 = 0 /\ (1 - 1) \div 2 = 0
    OBVIOUS
  <2>3. O[N + 1] = o /\ P[N + 1] = p + m
    <3>1. \A j \in 1 .. N + 1 : O[j] = o + ((j - 1) % 2) /\ P[j] = p + ((j - 1) \div 2)
      OBVIOUS
    <3>. DEFINE z == N + 1
    <3>2. z \in 1 .. N + 1 /\ (z - 1) % 2 = 0 /\ (z - 1) \div 2 = m
      BY <1>1
    <3>. HIDE DEF O, P, z, N
    <3>3. O[z] = o + ((z - 1) % 2) /\ P[z] = p + ((z - 1) \div 2)
      BY <3>1, <3>2, Zenon
    <3>4. O[z] = o /\ P[z] = p + m
      BY <3>2, <3>3
    <3>. QED  BY <3>4 DEF z
  <2>. QED  BY <1>1, <2>1, <2>2, <2>3, <2>4
<1>9. ASSUME NEW j \in 1 .. N
      PROVE  Does(g[j], O[j], P[j], O[j + 1], P[j + 1])
  <2>. DEFINE y == P[j]
  <2>1. /\ j \in 1 .. N + 1 /\ j + 1 \in 1 .. N + 1 /\ j \in Nat
    BY <1>1
  <2>2. /\ O[j] = o + ((j - 1) % 2) /\ O[j + 1] = o + (j % 2)
        /\ P[j] = p + ((j - 1) \div 2) /\ P[j + 1] = p + (j \div 2)
    BY <2>1
  <2>3. y \in Nat
    BY <1>7, <2>1
  <2>. HIDE DEF O, P, g
  <2>4. CASE j % 2 = 1
    <3>1. (j - 1) % 2 = 0 /\ j \div 2 = (j - 1) \div 2
      BY <2>1, <2>4
    <3>2. O[j] = o /\ O[j + 1] = o + 1 /\ P[j + 1] = y
      BY <2>2, <2>4, <3>1
    <3>3. g[j] = arg(j)
      BY <1>2, <2>4
    <3>. HIDE DEF y
    <3>4. Does(arg(j), o, y, o + 1, y)
      BY <1>4, <2>3
    <3>. QED  BY <3>2, <3>3, <3>4, Zenon DEF y
  <2>5. CASE j % 2 # 1
    <3>1. (j - 1) % 2 = 1 /\ j % 2 = 0 /\ j \div 2 = (j - 1) \div 2 + 1 /\ (j - 1) \div 2 \in Nat
      BY <2>1, <2>5
    <3>2. O[j] = o + 1 /\ O[j + 1] = o /\ P[j + 1] = y + 1
      BY <2>2, <3>1
    <3>3. g[j] = w
      BY <1>2, <2>5
    <3>. HIDE DEF y
    <3>4. Does(w, o + 1, y, o, y + 1)
      BY <1>4, <2>3
    <3>. QED  BY <3>2, <3>3, <3>4, Zenon DEF y
  <2>. QED  BY <2>4, <2>5
<1>. HIDE DEF O, P, g, N
<1>10. Leads(g, o, p, o, p + m)
  BY <1>5, <1>7, <1>8, <1>9 DEF Leads
<1>. QED  BY <1>1, <1>10 DEF g, m

(* An operator or a call leaves one operand more, and of the parameters    *)
(* what was there.                                                         *)
LEMMA ExprLeads ==
  ASSUME NEW n \in Node, Kind(n) \in ExprKind \ {"LITERAL", "VAR_REF"},
         NEW o \in Nat, NEW p \in Nat
  PROVE  Leads(ExprItems(n), o, p, o + 1, p)
<1>1. CASE Kind(n) = "CALL"
  <2>. DEFINE m == Len(Ast[n].args)
              w == Write(0, "CALL", "", Ast[n].name, m)
  <2>1. m \in Nat /\ Leads(GenArgs(n), o, p, o, p + m)
    BY ArgsLead
  <2>2. ExprItems(n) = Append(GenArgs(n), w)
    BY <1>1 DEF ExprItems, GenCall
  <2>3. 0 \in Uses("CALL") /\ "CALL" \in Computes /\ "CALL" # "LABEL" /\ "CALL" \in Carries
    BY DEF Uses, Computes, Carries
  <2>. HIDE DEF m
  <2>4. Moves("CALL", m, p + m, p)
    BY <2>1 DEF Moves
  <2>5. 0 <= o /\ o + 1 = o - 0 + 1 /\ o + 1 \in Nat /\ p + m \in Nat
    BY <2>1
  <2>6. Does(w, o, p + m, o + 1, p)
    BY <2>3, <2>4, <2>5, DoesWrite, Zenon
  <2>. HIDE DEF w
  <2>7. Leads(<<w>>, o, p + m, o + 1, p)
    BY <2>5, <2>6, LeadsOne
  <2>8. Append(GenArgs(n), w) = GenArgs(n) \o <<w>>
    BY <2>1 DEF Leads, IsSequence
  <2>. QED  BY <2>1, <2>2, <2>7, <2>8, LeadsJoin
<1>2. CASE Kind(n) = "UNARY_OP"
  <2>. DEFINE x == Expr(Child(n, 1))
              w == Write(1, "UNARY", "", Ast[n].op, 0)
  <2>1. ExprItems(n) = <<x, w>>
    BY <1>2 DEF ExprItems
  <2>2. Leads(<<x>>, o, p, o + 1, p)
    BY DoesExpr
  <2>4. o + 1 \in Nat
    OBVIOUS
  <2>5. Does(w, o + 1, p, o + 1, p)
    BY OperatorDoes
  <2>. HIDE DEF w, x
  <2>6. Leads(<<w>>, o + 1, p, o + 1, p)
    BY <2>4, <2>5, LeadsOne
  <2>. QED  BY <2>1, <2>2, <2>6, LeadsJoin, JoinedCall
<1>3. CASE Kind(n) = "BINARY_OP"
  <2>. DEFINE x == Expr(Child(n, 1))
              y == Expr(Child(n, 2))
              w == Write(2, "BINARY", "", Ast[n].op, 0)
  <2>1. ExprItems(n) = <<x, y, w>>
    BY <1>3 DEF ExprItems
  <2>2. Leads(<<x>>, o, p, o + 1, p) /\ Leads(<<y>>, o + 1, p, o + 1 + 1, p)
    BY DoesExpr
  <2>4. o + 1 \in Nat /\ o + 1 + 1 \in Nat
    OBVIOUS
  <2>5. Does(w, o + 1 + 1, p, o + 1, p)
    BY OperatorDoes
  <2>. HIDE DEF w, x, y
  <2>6. Leads(<<w>>, o + 1 + 1, p, o + 1, p)
    BY <2>4, <2>5, LeadsOne
  <2>7. Leads(<<x>> \o <<y>>, o, p, o + 1 + 1, p)
    BY <2>2, LeadsJoin
  <2>8. Leads(<<x, y>> \o <<w>>, o, p, o + 1, p)
    BY <2>6, <2>7, LeadsJoin, JoinedCall
  <2>. QED  BY <2>1, <2>8, ThreeJoined
<1>. QED  BY <1>1, <1>2, <1>3 DEF ExprKind

LEMMA StmtsStill ==
  ASSUME NEW N \in Nat, NEW f
  PROVE  Still([i \in 1 .. N |-> Stmt(f[i])])
<1>. DEFINE s == [i \in 1 .. N |-> Stmt(f[i])]
            O == [i \in 1 .. N + 1 |-> 0]
            P == [i \in 1 .. N + 1 |-> 0]
<1>1. s \in Seq({s[i] : i \in 1 .. N}) /\ Len(s) = N
  OBVIOUS
<1>2. \A i \in 1 .. N : Does(s[i], 0, 0, 0, 0)
  BY DoesStmt
<1>3. O \in [1 .. N + 1 -> Nat] /\ P \in [1 .. N + 1 -> Nat]
  OBVIOUS
<1>4. \A i \in 1 .. N + 1 : O[i] = 0 /\ P[i] = 0
  OBVIOUS
<1>. HIDE DEF s, O, P
<1>5. \A i \in 1 .. N : Does(s[i], O[i], P[i], O[i + 1], P[i + 1])
  <2>1. \A i \in 1 .. N : i \in 1 .. N + 1 /\ i + 1 \in 1 .. N + 1
    OBVIOUS
  <2>. QED  BY <1>2, <1>4, <2>1
<1>6. 1 \in 1 .. N + 1 /\ N + 1 \in 1 .. N + 1
  OBVIOUS
<1>7. IsSequence(s)
  BY <1>1 DEF IsSequence
<1>. QED  BY <1>1, <1>3, <1>4, <1>5, <1>6, <1>7 DEF Still, Leads, s

(* The value of a statement that has one at most, and what is made of it.  *)
LEMMA ValueStill ==
  ASSUME NEW n \in Node, Children(n) \in {0, 1},
         NEW k \in {0, 1}, k = Children(n), NEW op \in {"COPY", "RETURN", "PRINT"},
         k \in Uses(op), NEW dst, NEW sym, NEW num
  PROVE  Still(Append(Exprs(Ast[n].children), Write(k, op, dst, sym, num)))
<1>. DEFINE value == Exprs(Ast[n].children)
            w == Write(k, op, dst, sym, num)
            x == Expr(Child(n, 1))
<1>1. value = [i \in 1 .. Children(n) |-> Expr(Child(n, i))]
  BY StmtsAre
<1>2. Leads(value, 0, 0, k, 0) /\ IsSequence(value)
  <2>1. CASE k = 0
    <3>1. value = <<>>
      BY <1>1, <2>1
    <3>2. Leads(<<>>, 0, 0, 0, 0)
      BY LeadsNone
    <3>. HIDE DEF value
    <3>. QED  BY <2>1, <3>1, <3>2 DEF Leads
  <2>2. CASE k = 1
    <3>1. value = <<x>>
      BY <1>1, <2>2
    <3>2. Leads(<<x>>, 0, 0, 1, 0)
      BY FirstExpr
    <3>. HIDE DEF value, x
    <3>. QED  BY <2>2, <3>1, <3>2 DEF Leads
  <2>. QED  BY <2>1, <2>2
<1>3. Leads(<<w>>, k, 0, 0, 0)
  BY WriteEnds
<1>. HIDE DEF value, w
<1>4. Append(value, w) = value \o <<w>>
  BY <1>2 DEF IsSequence
<1>5. Leads(value \o <<w>>, 0, 0, 0, 0)
  BY <1>2, <1>3, LeadsJoin
<1>. QED  BY <1>4, <1>5 DEF Still, value, w

LEMMA StmtsOf ==
  /\ Still(Stmts(<<>>))
  /\ \A a : Still(Stmts(<<a>>))
  /\ \A a, b : Still(Stmts(<<a, b>>))
<1>1. Stmts(<<>>) = <<>>
  BY DEF Stmts
<1>2. \A a : Stmts(<<a>>) = <<Stmt(a)>>
  BY DEF Stmts
<1>3. \A a, b : Stmts(<<a, b>>) = <<Stmt(a)>> \o <<Stmt(b)>>
  <2>1. \A a, b : Stmts(<<a, b>>) = <<Stmt(a), Stmt(b)>>
    BY DEF Stmts
  <2>. QED  BY <2>1, JoinedCall
<1>4. \A a : Still(<<Stmt(a)>>)
  BY DoesStmt
<1>5. \A a, b : Still(<<Stmt(a)>> \o <<Stmt(b)>>)
  BY <1>4, StillJoin
<1>6. ASSUME NEW a, NEW b
      PROVE  Still(Stmts(<<a>>)) /\ Still(Stmts(<<a, b>>))
  <2>1. Still(<<Stmt(a)>>) /\ Still(<<Stmt(a)>> \o <<Stmt(b)>>)
    BY <1>4, <1>5
  <2>. QED  BY <1>2, <1>3, <2>1
<1>7. Still(Stmts(<<>>))
  BY <1>1, StillNone
<1>. QED  BY <1>6, <1>7

LEMMA IfStill ==
  ASSUME NEW n, NEW l
  PROVE  Still(GenIf(n, l))
<1>. DEFINE c == Expr(Child(n, 1))
            f == IfFalse(IF Children(n) > 2 THEN l ELSE l + 1)
            t == Stmt(Child(n, 2))
            e == IF Children(n) > 2 THEN GenElse(n, l) ELSE <<>>
            end == Label(l + 1)
            g == Goto(l + 1)
            m == Label(l)
            s == Stmt(Child(n, 3))
<1>1. Still(<<c, f>>) /\ Still(<<t>>) /\ Still(<<end>>)
  BY TestStill, DoesStmt, LabelStill
<1>2. Still(<<g>>) /\ Still(<<m>>) /\ Still(<<s>>)
  BY DoesStmt, LabelStill
<1>3. GenIf(n, l) = <<c, f, t>> \o e \o <<end>>
  BY DEF GenIf
<1>4. GenElse(n, l) = <<g, m, s>>
  BY DEF GenElse
<1>. HIDE DEF c, f, t, end, g, m, s
<1>5. Still(<<c, f, t>>)
  BY <1>1, StillJoin, ThreeJoined
<1>6. Still(<<g, m, s>>)
  <2>1. Still(<<g, m>>)
    BY <1>2, StillJoin, JoinedCall
  <2>. QED  BY <1>2, <2>1, StillJoin, ThreeJoined
<1>7. Still(e)
  BY <1>4, <1>6, StillNone
<1>. HIDE DEF e
<1>. QED  BY <1>1, <1>3, <1>5, <1>7, StillJoin

LEMMA LoopStill ==
  ASSUME NEW l, NEW init, NEW cond, NEW body,
         Still(Stmts(init)), Still(Stmts(body))
  PROVE  Still(GenLoop(l, init, cond, body))
<1>. DEFINE a == Label(l)
            c == Expr(cond)
            f == IfFalse(l + 1)
            g == Goto(l)
            e == Label(l + 1)
            i == Stmts(init)
            b == Stmts(body)
<1>1. Still(<<c, f>>) /\ Still(<<a>>) /\ Still(<<g>>) /\ Still(<<e>>)
  BY TestStill, LabelStill
<1>2. GenLoop(l, init, cond, body) = i \o <<a, c, f>> \o b \o <<g, e>>
  BY DEF GenLoop
<1>3. Still(i) /\ Still(b)
  OBVIOUS
<1>. HIDE DEF a, c, f, g, e, i, b
<1>4. Still(<<a, c, f>>)
  BY <1>1, StillJoin, ThreeJoined
<1>5. Still(<<g, e>>)
  BY <1>1, StillJoin, JoinedCall
<1>. QED  BY <1>2, <1>3, <1>4, <1>5, StillJoin

(* A statement leaves no operand, and takes as many parameters as it       *)
(* pushes.                                                                 *)
LEMMA StmtStill ==
  ASSUME NEW n \in Node
  PROVE  Still(StmtItems(n))
<1>. DEFINE l == label_counter
            items == StmtItems(n)
            many == Stmts(Ast[n].children)
            value == Exprs(Ast[n].children)
            k == Children(n)
<1>1. /\ k \in Nat /\ Kind(n) \in NodeKind /\ WellShaped(n)
  BY NodeIs DEF AstNode, Kind
<1>2. Still(many)
  <2>1. many = [i \in 1 .. k |-> Stmt(Ast[n].children[i])]
    BY StmtsAre DEF Child
  <2>. HIDE DEF many, k
  <2>. QED  BY <1>1, <2>1, StmtsStill
<1>3. CASE Kind(n) \in {"PROGRAM", "BLOCK"}
  <2>1. items = many
    BY <1>3 DEF StmtItems
  <2>. QED  BY <1>2, <2>1
<1>4. CASE Kind(n) = "FUNC_DECL"
  <2>. DEFINE head == Write(0, "FUNC", "", Ast[n].name, 0)
              end == Write(0, "END", "", "", 0)
  <2>1. items = <<head>> \o many \o <<end>>
    BY <1>4 DEF StmtItems
  <2>2. Still(<<head>>) /\ Still(<<end>>)
    <3>1. \A dst, sym, num : Still(<<Write(0, "FUNC", dst, sym, num)>>)
      BY WriteStill
    <3>2. \A dst, sym, num : Still(<<Write(0, "END", dst, sym, num)>>)
      BY WriteStill
    <3>. QED  BY <3>1, <3>2, Zenon
  <2>. HIDE DEF head, end, many
  <2>. QED  BY <1>2, <2>1, <2>2, StillJoin
<1>5. CASE Kind(n) \in {"ASSIGN", "VAR_DECL"}
  <2>1. k \in {0, 1}
    BY <1>1, <1>5 DEF WellShaped, WellCounted
  <2>2. CASE k = 0
    <3>0. ~(Children(n) > 0)
      BY <2>2
    <3>1. items = <<>>
      BY <1>5, <3>0, Zenon DEF StmtItems
    <3>. QED  BY <3>1, StillNone
  <2>3. CASE k = 1
    <3>0. Children(n) > 0
      BY <2>3
    <3>1. items = Append(value, Write(1, "COPY", Ast[n].name, "", 0))
      BY <1>5, <3>0, Zenon DEF StmtItems
    <3>2. 1 \in Uses("COPY")
      BY DEF Uses
    <3>3. \A dst, sym, num : Still(Append(value, Write(1, "COPY", dst, sym, num)))
      BY <2>3, <3>2, ValueStill
    <3>. HIDE DEF items, value
    <3>. QED  BY <3>1, <3>3, Zenon DEF items
  <2>. QED  BY <2>1, <2>2, <2>3
<1>6. CASE Kind(n) = "IF"
  <2>1. items = GenIf(n, l)
    BY <1>6 DEF StmtItems
  <2>. QED  BY <2>1, IfStill
<1>7. CASE Kind(n) = "WHILE"
  <2>1. items = GenLoop(l, <<>>, Child(n, 1), <<Child(n, 2)>>)
    BY <1>7 DEF StmtItems
  <2>2. Still(Stmts(<<>>)) /\ Still(Stmts(<<Child(n, 2)>>))
    BY StmtsOf
  <2>. QED  BY <2>1, <2>2, LoopStill
<1>8. CASE Kind(n) = "FOR"
  <2>1. items = GenLoop(l, <<Child(n, 1)>>, Child(n, 2), <<Child(n, 4), Child(n, 3)>>)
    BY <1>8 DEF StmtItems
  <2>2. Still(Stmts(<<Child(n, 1)>>)) /\ Still(Stmts(<<Child(n, 4), Child(n, 3)>>))
    BY StmtsOf
  <2>. QED  BY <2>1, <2>2, LoopStill
<1>9. CASE Kind(n) = "RETURN"
  <2>1. k \in {0, 1}
    BY <1>1, <1>9 DEF WellShaped, WellCounted
  <2>2. items = Append(value, Write(k, "RETURN", "", "", 0))
    BY <1>9 DEF StmtItems
  <2>3. k \in Uses("RETURN")
    BY <2>1 DEF Uses
  <2>4. \A dst, sym, num : Still(Append(value, Write(k, "RETURN", dst, sym, num)))
    BY <2>1, <2>3, ValueStill
  <2>. HIDE DEF items, value
  <2>. QED  BY <2>2, <2>4, Zenon DEF items
<1>10. CASE Kind(n) = "PRINT"
  <2>1. k = 1
    BY <1>1, <1>10 DEF WellShaped, WellCounted
  <2>2. items = Append(value, Write(k, "PRINT", "", "", 0))
    BY <1>10 DEF StmtItems
  <2>3. k \in Uses("PRINT")
    BY <2>1 DEF Uses
  <2>4. \A dst, sym, num : Still(Append(value, Write(k, "PRINT", dst, sym, num)))
    BY <2>1, <2>3, ValueStill
  <2>. HIDE DEF items, value
  <2>. QED  BY <2>2, <2>4, Zenon DEF items
<1>11. CASE Kind(n) = "CALL"
  <2>. DEFINE x == Expr(n)
  <2>1. items = <<x, Free>>
    BY <1>11 DEF StmtItems
  <2>2. Leads(<<x>>, 0, 0, 1, 0)
    BY FirstExpr
  <2>3. Leads(<<Free>>, 1, 0, 0, 0)
    <3>1. Free.do = "free" /\ Free.takes = 1
      BY DEF Free, Item
    <3>2. Does(Free, 1, 0, 0, 0)
      BY <3>1 DEF Does
    <3>. QED  BY <3>2, LeadsOne
  <2>. HIDE DEF x
  <2>4. Leads(<<x>> \o <<Free>>, 0, 0, 0, 0)
    BY <2>2, <2>3, LeadsJoin
  <2>. QED  BY <2>1, <2>4, JoinedCall DEF Still
<1>12. CASE Kind(n) \in ExprKind \ {"CALL"}
  <2>1. items = <<>>
    BY <1>12 DEF StmtItems, ExprKind
  <2>. QED  BY <2>1, StillNone
<1>. QED  BY <1>1, <1>3, <1>4, <1>5, <1>6, <1>7, <1>8, <1>9, <1>10, <1>11, <1>12
          DEF NodeKind, StmtKind

-----------------------------------------------------------------------------
(* Operands that wait, or that an instruction has.                         *)
Lits(s) == IsSequence(s) /\ \A i \in 1 .. Len(s) : s[i].lit \in Value

(* Along the code from each instruction to the next.                       *)
Flow(h) ==
    /\ h \in [1 .. Len(code) + 1 -> Nat]
    /\ \A k \in 1 .. Len(code) : Moves(code[k].op, code[k].num, h[k], h[k + 1])

FlowInv ==
    /\ Lits(operands)
    /\ \A k \in 1 .. Len(code) :
          Lits(code[k].args) /\ InsOK(code[k], Len(code[k].args))
    /\ \E h : /\ Flow(h)
              /\ \E r : Leads(todo, Len(operands), h[Len(code) + 1], r, 0)

LEMMA TypedIsValue ==
  /\ IntZero \in Value
  /\ \A x : Name(x).lit \in Value
  /\ \A n \in Node : Const(Typed(Ast[n].type, Ast[n].num)).lit \in Value
<1>1. IntMax \in Nat \ {0} /\ \A n \in Node : Ast[n].num \in IntMin .. IntMax
  BY ValuesAssumption
<1>2. IntZero \in Value
  <2>1. 0 \in IntMin .. IntMax
    BY <1>1 DEF IntMin
  <2>. QED  BY <2>1 DEF IntZero, Typed, Value, DataType
<1>3. \A x : Name(x).lit \in Value
  BY <1>2 DEF Name
<1>4. ASSUME NEW n \in Node
      PROVE  Const(Typed(Ast[n].type, Ast[n].num)).lit \in Value
  <2>1. Ast[n].type \in DataType
    BY NodeIs DEF AstNode
  <2>2. Typed(Ast[n].type, Ast[n].num) \in Value
    BY <1>1, <2>1 DEF Typed, Value
  <2>. QED  BY <2>2 DEF Const
<1>. QED  BY <1>2, <1>3, <1>4

LEMMA LitsAppended ==
  ASSUME NEW s, Lits(s), NEW x, x.lit \in Value
  PROVE  Lits(Append(s, x)) /\ Len(Append(s, x)) = Len(s) + 1
<1>1. PICK S : s \in Seq(S)
  BY DEF Lits, IsSequence
<1>. DEFINE t == Append(s, x)
<1>2. /\ t \in Seq(S \cup {x}) /\ Len(t) = Len(s) + 1 /\ Len(s) \in Nat
      /\ t[Len(s) + 1] = x /\ \A i \in 1 .. Len(s) : t[i] = s[i]
  BY <1>1
<1>. HIDE DEF t
<1>3. \A i \in 1 .. Len(t) : t[i].lit \in Value
  <2>1. \A i \in 1 .. Len(s) + 1 : i \in 1 .. Len(s) \/ i = Len(s) + 1
    BY <1>2
  <2>. QED  BY <1>2, <2>1 DEF Lits
<1>. QED  BY <1>2, <1>3 DEF Lits, IsSequence, t

LEMMA LitsSplit ==
  ASSUME NEW s, Lits(s), NEW k \in Nat, k <= Len(s)
  PROVE  /\ Lits(SubSeq(s, 1, Len(s) - k)) /\ Len(SubSeq(s, 1, Len(s) - k)) = Len(s) - k
         /\ Lits(SubSeq(s, Len(s) - k + 1, Len(s)))
         /\ Len(SubSeq(s, Len(s) - k + 1, Len(s))) = k
<1>1. PICK S : s \in Seq(S)
  BY DEF Lits, IsSequence
<1>. DEFINE n == Len(s)
            a == SubSeq(s, 1, n - k)
            b == SubSeq(s, n - k + 1, n)
<1>2. n \in Nat
  BY <1>1
<1>3. /\ a \in Seq(S) /\ Len(a) = n - k
      /\ \A i \in 1 .. n - k : a[i] = s[i]
  BY <1>1, <1>2
<1>4. /\ b \in Seq(S) /\ Len(b) = k
      /\ \A i \in 1 .. k : b[i] = s[n - k + i]
  BY <1>1, <1>2
<1>5. \A i \in 1 .. n : s[i].lit \in Value
  BY DEF Lits
<1>. HIDE DEF n, a, b
<1>6. Lits(a)
  <2>1. \A i \in 1 .. n - k : i \in 1 .. n
    BY <1>2
  <2>. QED  BY <1>3, <1>5, <2>1 DEF Lits, IsSequence
<1>7. Lits(b)
  <2>0. k <= n
    BY DEF n
  <2>1. \A i \in 1 .. k : n - k + i \in 1 .. n
    BY <1>2, <2>0
  <2>. QED  BY <1>4, <1>5, <2>1 DEF Lits, IsSequence
<1>. QED  BY <1>3, <1>4, <1>6, <1>7 DEF n, a, b

(* A step that writes nothing.                                             *)
LEMMA FlowKept ==
  ASSUME FlowInv, UNCHANGED code, Lits(operands)',
         \A p \in Nat : \A r : Leads(todo, Len(operands), p, r, 0) =>
            Leads(todo', Len(operands'), p, r, 0)
  PROVE  FlowInv'
<1>1. PICK h, r : Flow(h) /\ Leads(todo, Len(operands), h[Len(code) + 1], r, 0)
  BY DEF FlowInv
<1>2. h[Len(code) + 1] \in Nat
  <2>1. \E O, P \in [1 .. Len(todo) + 1 -> Nat] : P[1] = h[Len(code) + 1] /\ IsSequence(todo)
    BY <1>1 DEF Leads
  <2>2. Len(todo) \in Nat
    BY <2>1 DEF IsSequence
  <2>3. 1 \in 1 .. Len(todo) + 1
    BY <2>2
  <2>. QED  BY <2>1, <2>3
<1>3. (\E t : Leads(todo, Len(operands), h[Len(code) + 1], t, 0))'
  <2>1. \E t : Leads(todo', Len(operands'), h[Len(code') + 1], t, 0)
    BY <1>1, <1>2
  <2>. QED  BY <2>1, Zenon DEF Leads, Does, Moves, InsOK, IsSequence
<1>4. Flow(h)'
  BY <1>1 DEF Flow, Moves
<1>5. (\A k \in 1 .. Len(code) : Lits(code[k].args) /\ InsOK(code[k], Len(code[k].args)))'
  BY DEF FlowInv, Lits, InsOK
<1>. QED  BY <1>3, <1>4, <1>5 DEF FlowInv

(* One that does, of an instruction with its operands.                     *)
LEMMA FlowWritten ==
  ASSUME FlowInv, IsSequence(code), NEW ins, code' = Append(code, ins), Lits(ins.args),
         InsOK(ins, Len(ins.args)), Lits(operands)',
         \A p \in Nat : \A r : Leads(todo, Len(operands), p, r, 0) =>
            \E q \in Nat : /\ Moves(ins.op, ins.num, p, q)
                           /\ Leads(todo', Len(operands'), q, r, 0)
  PROVE  FlowInv'
<1>. DEFINE C == Len(code)
<1>1. PICK h, r : Flow(h) /\ Leads(todo, Len(operands), h[C + 1], r, 0)
  BY DEF FlowInv
<1>2. PICK S : code \in Seq(S)
  BY DEF IsSequence
<1>3. C \in Nat /\ C + 1 \in 1 .. C + 1
  BY <1>2
<1>4. h[C + 1] \in Nat
  BY <1>1, <1>3 DEF Flow
<1>5. PICK q \in Nat : /\ Moves(ins.op, ins.num, h[C + 1], q)
                       /\ Leads(todo', Len(operands'), q, r, 0)
  BY <1>1, <1>4
<1>6. /\ Len(code') = C + 1 /\ code'[C + 1] = ins
      /\ \A k \in 1 .. C : code'[k] = code[k]
  BY <1>2
<1>7. /\ h \in [1 .. C + 1 -> Nat]
      /\ \A k \in 1 .. C : Moves(code[k].op, code[k].num, h[k], h[k + 1])
  BY <1>1 DEF Flow
<1>8. \A k \in 1 .. C : Lits(code[k].args) /\ InsOK(code[k], Len(code[k].args))
  BY DEF FlowInv
<1>. HIDE DEF C
<1>9. PICK g \in [1 .. C + 2 -> Nat] : g[C + 2] = q /\ \A k \in 1 .. C + 1 : g[k] = h[k]
  <2>. DEFINE f == [k \in 1 .. C + 2 |-> IF k <= C + 1 THEN h[k] ELSE q]
  <2>1. f \in [1 .. C + 2 -> Nat] /\ f[C + 2] = q /\ \A k \in 1 .. C + 1 : f[k] = h[k]
    BY <1>3, <1>7
  <2>. QED  BY <2>1
<1>10. ASSUME NEW k \in 1 .. C + 1
       PROVE  /\ Moves(code'[k].op, code'[k].num, g[k], g[k + 1])
              /\ Lits(code'[k].args) /\ InsOK(code'[k], Len(code'[k].args))
  <2>1. CASE k \in 1 .. C
    <3>1. k \in 1 .. C + 1 /\ k + 1 \in 1 .. C + 1
      BY <1>3, <2>1
    <3>. QED  BY <1>6, <1>7, <1>8, <1>9, <2>1, <3>1
  <2>2. CASE k = C + 1
    <3>1. k + 1 = C + 2 /\ k \in 1 .. C + 1
      BY <1>3, <2>2
    <3>. QED  BY <1>5, <1>6, <1>9, <2>2, <3>1
  <2>3. k \in 1 .. C \/ k = C + 1
    BY <1>3
  <2>. QED  BY <2>1, <2>2, <2>3, Zenon
<1>11. Len(code') + 1 = C + 2
  BY <1>3, <1>6
<1>12. /\ g \in [1 .. Len(code') + 1 -> Nat]
       /\ Leads(todo', Len(operands'), g[Len(code') + 1], r, 0)
  BY <1>5, <1>9, <1>11
<1>13. Flow(g)'
  <2>1. \A k \in 1 .. Len(code') : Moves(code'[k].op, code'[k].num, g[k], g[k + 1])
    BY <1>6, <1>10
  <2>. QED  BY <1>12, <2>1 DEF Flow, Moves
<1>14. (\A k \in 1 .. Len(code) : Lits(code[k].args) /\ InsOK(code[k], Len(code[k].args)))'
  BY <1>6, <1>10 DEF Lits, InsOK
<1>15. (\E t : Leads(todo, Len(operands), g[Len(code) + 1], t, 0))'
  <2>1. \E t : Leads(todo', Len(operands'), g[Len(code') + 1], t, 0)
    BY <1>12
  <2>. QED  BY <2>1, Zenon DEF Leads, Does, Moves, InsOK, IsSequence
<1>. QED  BY <1>13, <1>14, <1>15 DEF FlowInv

LEMMA FlowInit == GenInit => FlowInv
<1>. SUFFICES ASSUME GenInit
              PROVE  FlowInv
  OBVIOUS
<1>. DEFINE x == Stmt(program)
            h == [k \in 1 .. 1 |-> 0]
<1>1. todo = <<x>> /\ code = <<>> /\ operands = <<>>
  BY DEF GenInit
<1>2. Leads(<<x>>, 0, 0, 0, 0)
  BY DoesStmt DEF Still
<1>. HIDE DEF x
<1>3. Len(code) = 0 /\ Len(operands) = 0 /\ IsSequence(operands)
  BY <1>1 DEF IsSequence
<1>4. Lits(operands)
  BY <1>3 DEF Lits
<1>5. h \in [1 .. 1 -> Nat] /\ h[1] = 0
  OBVIOUS
<1>. HIDE DEF h
<1>6. Flow(h)
  BY <1>3, <1>5 DEF Flow
<1>. QED  BY <1>1, <1>2, <1>3, <1>4, <1>5, <1>6 DEF FlowInv

(* What the first job leads to.                                            *)
LEMMA FirstLeads ==
  ASSUME todo # <<>>, NEW p \in Nat, NEW r, Leads(todo, Len(operands), p, r, 0)
  PROVE  \E a, b \in Nat : /\ Len(operands) \in Nat
                           /\ Does(Job, Len(operands), p, a, b)
                           /\ Leads(Tail(todo), a, b, r, 0)
<1>1. \E a, b \in Nat : /\ Len(operands) \in Nat /\ p \in Nat
                        /\ Does(Head(todo), Len(operands), p, a, b)
                        /\ Leads(Tail(todo), a, b, r, 0)
  BY LeadsRest
<1>. QED  BY <1>1 DEF Job

LEMMA FlowStep == GenInv /\ FlowInv /\ GenStep => FlowInv'
<1>. SUFFICES ASSUME GenInv, FlowInv, GenStep
              PROVE  FlowInv'
  OBVIOUS
<1>0. Lits(operands)
  BY DEF FlowInv
<1>. DEFINE o == Len(operands)
<1>1. CASE GenOperand
  <2>. DEFINE n == Ast[Job.n]
              x == IF n.kind = "VAR_REF" THEN Name(n.name) ELSE Const(Typed(n.type, n.num))
  <2>1. /\ todo # <<>> /\ Job.do = "expr" /\ todo' = Tail(todo)
        /\ operands' = Append(operands, x) /\ UNCHANGED code
    BY <1>1 DEF GenOperand, Doing
  <2>2. x.lit \in Value
    <3>1. Job.n \in Node
      BY <2>1, MarkOfJob
    <3>. QED  BY <3>1, TypedIsValue
  <2>. HIDE DEF x
  <2>3. Lits(operands') /\ Len(operands') = o + 1
    BY <1>0, <2>1, <2>2, LitsAppended
  <2>4. ASSUME NEW p \in Nat, NEW r, Leads(todo, o, p, r, 0)
        PROVE  Leads(todo', Len(operands'), p, r, 0)
    <3>1. PICK a, b \in Nat : Does(Job, o, p, a, b) /\ Leads(Tail(todo), a, b, r, 0)
      BY <2>1, <2>4, FirstLeads
    <3>2. a = o + 1 /\ b = p
      BY <2>1, <3>1 DEF Does
    <3>. QED  BY <2>1, <2>3, <3>1, <3>2
  <2>5. Lits(operands)'
    BY <2>3 DEF Lits, IsSequence
  <2>. QED  BY <2>1, <2>4, <2>5, FlowKept
<1>2. CASE GenExpr
  <2>1. /\ todo # <<>> /\ Job.do = "expr" /\ todo' = ExprItems(Job.n) \o Tail(todo)
        /\ Kind(Job.n) \notin {"LITERAL", "VAR_REF"} /\ UNCHANGED <<code, operands>>
    BY <1>2 DEF GenExpr, Doing
  <2>2. Job.n \in Node /\ Kind(Job.n) \in ExprKind \ {"LITERAL", "VAR_REF"}
    BY <2>1, MarkOfJob
  <2>4. ASSUME NEW p \in Nat, NEW r, Leads(todo, o, p, r, 0)
        PROVE  Leads(todo', Len(operands'), p, r, 0)
    <3>1. PICK a, b \in Nat : /\ o \in Nat /\ Does(Job, o, p, a, b)
                              /\ Leads(Tail(todo), a, b, r, 0)
      BY <2>1, <2>4, FirstLeads
    <3>2. a = o + 1 /\ b = p
      BY <2>1, <3>1 DEF Does
    <3>3. Leads(ExprItems(Job.n), o, p, o + 1, p)
      BY <2>2, <3>1, ExprLeads
    <3>4. Leads(Tail(todo), o + 1, p, r, 0)
      BY <3>1, <3>2
    <3>5. Leads(ExprItems(Job.n) \o Tail(todo), o, p, r, 0)
      BY <3>3, <3>4, LeadsJoin
    <3>. QED  BY <2>1, <3>5
  <2>5. Lits(operands)'
    BY <1>0, <2>1 DEF Lits
  <2>. QED  BY <2>1, <2>4, <2>5, FlowKept
<1>3. CASE GenStmt
  <2>1. /\ todo # <<>> /\ Job.do = "stmt" /\ todo' = StmtItems(Job.n) \o Tail(todo)
        /\ UNCHANGED <<code, operands>>
    BY <1>3 DEF GenStmt, Doing
  <2>2. Job.n \in Node
    BY <2>1, MarkOfJob
  <2>4. ASSUME NEW p \in Nat, NEW r, Leads(todo, o, p, r, 0)
        PROVE  Leads(todo', Len(operands'), p, r, 0)
    <3>1. PICK a, b \in Nat : /\ o \in Nat /\ Does(Job, o, p, a, b)
                              /\ Leads(Tail(todo), a, b, r, 0)
      BY <2>1, <2>4, FirstLeads
    <3>2. o = 0 /\ a = 0 /\ b = 0 /\ p = 0
      BY <2>1, <3>1 DEF Does
    <3>3. Leads(StmtItems(Job.n), 0, 0, 0, 0)
      BY <2>2, StmtStill DEF Still
    <3>4. Leads(Tail(todo), 0, 0, r, 0)
      BY <3>1, <3>2
    <3>5. Leads(StmtItems(Job.n) \o Tail(todo), 0, 0, r, 0)
      BY <3>3, <3>4, LeadsJoin
    <3>. QED  BY <2>1, <3>2, <3>5
  <2>5. Lits(operands)'
    BY <1>0, <2>1 DEF Lits
  <2>. QED  BY <2>1, <2>4, <2>5, FlowKept
<1>4. CASE GenWrite
  <2>. DEFINE k == Job.takes
              op == Job.ins.op
              c == op \in Computes
              t == new_temp
              ins == [Job.ins EXCEPT !.args = Taken, !.dst = IF c THEN t ELSE @]
              grown == IF c THEN Append(Untaken, Name(t)) ELSE Untaken
  <2>1. /\ todo # <<>> /\ Job.do = "write" /\ todo' = Tail(todo)
        /\ code' = Append(code, ins) /\ operands' = grown
    BY <1>4 DEF GenWrite, Doing
  <2>2. /\ ins.op = op /\ ins.num = Job.ins.num /\ ins.sym = Job.ins.sym /\ ins.args = Taken
    <3>1. PICK p, dst, sym, num : Job.ins = Ins(p, dst, sym, num)
      BY <2>1, JobIs DEF JobOK, IsInstruction
    <3>2. Job.ins = [op |-> p, dst |-> dst, sym |-> sym, num |-> num, args |-> <<>>]
      BY <3>1 DEF Ins
    <3>. HIDE DEF t
    <3>. QED  BY <3>2
  <2>3. PICK h, r0 : Flow(h) /\ Leads(todo, o, h[Len(code) + 1], r0, 0)
    BY DEF FlowInv
  <2>4. Len(code) + 1 \in 1 .. Len(code) + 1
    <3>1. Len(code) \in Nat
      BY DEF GenInv, IsSequence
    <3>. QED  BY <3>1
  <2>5. h[Len(code) + 1] \in Nat
    BY <2>3, <2>4 DEF Flow
  <2>. HIDE DEF ins, t, grown
  <2>6. ASSUME NEW p \in Nat, NEW r, Leads(todo, o, p, r, 0)
        PROVE  \E a, b \in Nat :
                  /\ o \in Nat /\ InsOK(Job.ins, k) /\ k <= o
                  /\ Moves(op, Job.ins.num, p, b)
                  /\ a = o - k + (IF c THEN 1 ELSE 0)
                  /\ Leads(Tail(todo), a, b, r, 0)
    <3>1. PICK a, b \in Nat : /\ o \in Nat /\ Does(Job, o, p, a, b)
                              /\ Leads(Tail(todo), a, b, r, 0)
      BY <2>1, <2>6, FirstLeads
    <3>2. /\ InsOK(Job.ins, k) /\ k <= o /\ Moves(op, Job.ins.num, p, b)
          /\ a = o - k + (IF c THEN 1 ELSE 0)
      BY <2>1, <3>1 DEF Does
    <3>. QED  BY <3>1, <3>2
  <2>7. o \in Nat /\ InsOK(Job.ins, k) /\ k <= o
    BY <2>3, <2>5, <2>6
  <2>8. k \in Nat
    BY <2>7 DEF InsOK, Uses
  <2>9. Lits(Untaken) /\ Len(Untaken) = o - k /\ Lits(Taken) /\ Len(Taken) = k
    BY <1>0, <2>7, <2>8, LitsSplit DEF Untaken, Taken
  <2>10. Lits(operands') /\ Len(operands') = o - k + (IF c THEN 1 ELSE 0)
    <3>1. CASE c
      <4>1. Lits(Append(Untaken, Name(t))) /\ Len(Append(Untaken, Name(t))) = o - k + 1
        BY <2>9, TypedIsValue, LitsAppended
      <4>. QED  BY <2>1, <3>1, <4>1 DEF grown
    <3>2. CASE ~c
      <4>1. o - k + 0 = o - k
        BY <2>7, <2>8
      <4>. QED  BY <2>1, <2>9, <3>2, <4>1 DEF grown
    <3>. QED  BY <3>1, <3>2
  <2>11. Lits(ins.args) /\ InsOK(ins, Len(ins.args))
    BY <2>2, <2>7, <2>9 DEF InsOK
  <2>12. ASSUME NEW p \in Nat, NEW r, Leads(todo, o, p, r, 0)
         PROVE  \E q \in Nat : /\ Moves(ins.op, ins.num, p, q)
                               /\ Leads(todo', Len(operands'), q, r, 0)
    <3>1. PICK a, b \in Nat : /\ Moves(op, Job.ins.num, p, b)
                              /\ a = o - k + (IF c THEN 1 ELSE 0)
                              /\ Leads(Tail(todo), a, b, r, 0)
      BY <2>6, <2>12
    <3>2. a = Len(operands')
      BY <2>10, <3>1
    <3>. QED  BY <2>1, <2>2, <3>1, <3>2
  <2>13. Lits(operands)'
    BY <2>10 DEF Lits, IsSequence
  <2>14. IsSequence(code)
    BY DEF GenInv
  <2>. QED  BY <2>1, <2>11, <2>12, <2>13, <2>14, FlowWritten
<1>5. CASE GenFree
  <2>1. /\ todo # <<>> /\ Job.do = "free" /\ todo' = Tail(todo)
        /\ operands' = Untaken /\ UNCHANGED code
    BY <1>5 DEF GenFree, Doing
  <2>2. PICK h, r0 : Flow(h) /\ Leads(todo, o, h[Len(code) + 1], r0, 0)
    BY DEF FlowInv
  <2>3. Len(code) \in Nat
    BY DEF GenInv, IsSequence
  <2>4. h[Len(code) + 1] \in Nat
    <3>1. Len(code) + 1 \in 1 .. Len(code) + 1
      BY <2>3
    <3>. QED  BY <2>2, <3>1 DEF Flow
  <2>5. ASSUME NEW p \in Nat, NEW r, Leads(todo, o, p, r, 0)
        PROVE  /\ o \in Nat /\ Job.takes = 1 /\ 1 <= o
               /\ Leads(Tail(todo), o - 1, p, r, 0)
    <3>1. PICK a, b \in Nat : /\ o \in Nat /\ Does(Job, o, p, a, b)
                              /\ Leads(Tail(todo), a, b, r, 0)
      BY <2>1, <2>5, FirstLeads
    <3>2. a + 1 = o /\ b = p /\ Job.takes = 1
      BY <2>1, <3>1 DEF Does
    <3>3. a = o - 1 /\ 1 <= o
      BY <3>1, <3>2
    <3>. QED  BY <3>1, <3>2, <3>3
  <2>6. o \in Nat /\ Job.takes = 1 /\ 1 <= o
    BY <2>2, <2>4, <2>5
  <2>7. Lits(operands') /\ Len(operands') = o - 1
    BY <1>0, <2>1, <2>6, LitsSplit DEF Untaken
  <2>8. ASSUME NEW p \in Nat, NEW r, Leads(todo, o, p, r, 0)
        PROVE  Leads(todo', Len(operands'), p, r, 0)
    BY <2>1, <2>5, <2>7, <2>8
  <2>9. Lits(operands)'
    BY <2>7 DEF Lits, IsSequence
  <2>. QED  BY <2>1, <2>8, <2>9, FlowKept
<1>. QED  BY <1>1, <1>2, <1>3, <1>4, <1>5 DEF GenStep

LEMMA FlowOthers == FlowInv /\ UNCHANGED genVars => FlowInv'
<1>. SUFFICES ASSUME FlowInv, UNCHANGED genVars
              PROVE  FlowInv'
  OBVIOUS
<1>1. UNCHANGED <<code, todo, operands>>
  BY DEF genVars
<1>2. Lits(operands)'
  BY <1>1 DEF FlowInv, Lits
<1>. QED  BY <1>1, <1>2, FlowKept

-----------------------------------------------------------------------------
(* A function's head, and what will become one or an end.                  *)
HeadOf(ins, x) == ins.op = "FUNC" /\ ins.sym = x /\ ins.num = 0

Gives(item, x) ==
    \/ item.do = "stmt" /\ Kind(item.n) = "FUNC_DECL" /\ Ast[item.n].name = x
    \/ item.do = "write" /\ HeadOf(item.ins, x)

Ender(item) ==
    \/ item.do = "stmt" /\ Kind(item.n) = "FUNC_DECL"
    \/ item.do = "write" /\ item.ins.op = "END"

(* The text ends with END FUNC, and every function of the program has its  *)
(* head in it.                                                             *)
Headed(x) == \/ \E k \in 1 .. Len(code) : HeadOf(code[k], x)
             \/ \E i \in 1 .. Len(todo) : Gives(todo[i], x)

Closed == IF todo = <<>> THEN code # <<>> => code[Len(code)].op = "END"
          ELSE Ender(todo[Len(todo)])

Shaped == Closed /\ \A i \in 1 .. Children(program) : Headed(Ast[Child(program, i)].name)

ShapeInv == (todo = <<Stmt(program)>> /\ code = <<>>) \/ Shaped

LEMMA ShapeExpanded ==
  ASSUME GenInv, Shaped, todo # <<>>, NEW items, IsSequence(items),
         todo' = items \o Tail(todo), UNCHANGED <<code, program>>,
         Ender(Job) => items # <<>> /\ Ender(items[Len(items)]),
         \A x : Gives(Job, x) => \E i \in 1 .. Len(items) : Gives(items[i], x)
  PROVE  Shaped'
<1>. DEFINE m == Len(items)
            T == Len(todo)
            t == Tail(todo)
            u == items \o t
<1>1. /\ Job = todo[1] /\ T \in Nat \ {0} /\ IsSequence(t) /\ Len(t) = T - 1
      /\ \A i \in 1 .. T - 1 : t[i] = todo[i + 1]
  BY JobIs
<1>2. PICK A : items \in Seq(A)
  BY DEF IsSequence
<1>3. PICK B : t \in Seq(B)
  BY <1>1 DEF IsSequence
<1>4. items \in Seq(A \cup B) /\ t \in Seq(A \cup B) /\ m \in Nat
  BY <1>2, <1>3
<1>5. /\ u \in Seq(A \cup B) /\ Len(u) = m + Len(t)
      /\ \A i \in 1 .. m : u[i] = items[i]
      /\ \A i \in 1 .. Len(t) : u[m + i] = t[i]
  BY <1>4, Joining
<1>. HIDE DEF m, T, t, u
<1>6. Len(u) = m + T - 1 /\ \A i \in 1 .. T - 1 : u[m + i] = todo[i + 1]
  BY <1>1, <1>4, <1>5
<1>7. todo' = u
  BY DEF u, t
<1>8. Closed'
  <2>1. Ender(todo[T])
    BY DEF Shaped, Closed, T
  <2>2. u # <<>> /\ Ender(u[Len(u)])
    <3>1. CASE T = 1
      <4>1. items # <<>> /\ Ender(items[m])
        BY <1>1, <2>1, <3>1 DEF m
      <4>2. m # 0
        BY <1>2, <4>1 DEF m
      <4>3. Len(u) = m /\ m \in 1 .. m
        BY <1>4, <1>6, <3>1, <4>2
      <4>. QED  BY <1>5, <4>1, <4>2, <4>3
    <3>2. CASE T # 1
      <4>1. T - 1 \in 1 .. T - 1 /\ m + (T - 1) = m + T - 1 /\ m + T - 1 # 0 /\ T - 1 + 1 = T
        BY <1>1, <1>4, <3>2
      <4>2. u[m + (T - 1)] = todo[T]
        BY <1>6, <4>1
      <4>. QED  BY <1>6, <2>1, <4>1, <4>2
    <3>. QED  BY <3>1, <3>2
  <2>. QED  BY <1>7, <2>2 DEF Closed, Ender
<1>9. ASSUME NEW i \in 1 .. Children(program)
      PROVE  Headed(Ast[Child(program, i)].name)'
  <2>0. PICK x : x = Ast[Child(program, i)].name
    OBVIOUS
  <2>1. Headed(x)
    BY <2>0 DEF Shaped
  <2>2. \/ \E k \in 1 .. Len(code) : HeadOf(code[k], x)
        \/ \E j \in 1 .. Len(u) : Gives(u[j], x)
    <3>1. CASE \E k \in 1 .. Len(code) : HeadOf(code[k], x)
      BY <3>1
    <3>2. CASE \E j \in 1 .. T : Gives(todo[j], x)
      <4>1. PICK j \in 1 .. T : Gives(todo[j], x)
        BY <3>2
      <4>2. CASE j = 1
        <5>1. PICK k \in 1 .. m : Gives(items[k], x)
          BY <1>1, <4>1, <4>2 DEF m
        <5>2. k \in 1 .. Len(u)
          BY <1>1, <1>4, <1>6
        <5>. QED  BY <1>5, <5>1, <5>2
      <4>3. CASE j # 1
        <5>1. j - 1 \in 1 .. T - 1 /\ m + (j - 1) \in 1 .. Len(u) /\ j - 1 + 1 = j
          BY <1>1, <1>4, <1>6, <4>3
        <5>2. u[m + (j - 1)] = todo[j]
          BY <1>6, <5>1
        <5>. QED  BY <4>1, <5>1, <5>2
      <4>. QED  BY <4>2, <4>3
    <3>. QED  BY <2>1, <3>1, <3>2 DEF Headed, T
  <2>3. \/ \E k \in 1 .. Len(code') : HeadOf(code'[k], x)
        \/ \E j \in 1 .. Len(todo') : Gives(todo'[j], x)
    BY <1>7, <2>2
  <2>4. (Ast[Child(program, i)].name)' = x
    BY <2>0
  <2>. QED  BY <2>3, <2>4 DEF Headed, HeadOf, Gives
<1>10. program' = program
  OBVIOUS
<1>. QED  BY <1>8, <1>9, <1>10 DEF Shaped, Headed, HeadOf, Gives

LEMMA ShapeWritten ==
  ASSUME GenInv, Shaped, todo # <<>>, Job.do = "write", NEW ins,
         ins.op = Job.ins.op, ins.num = Job.ins.num, ins.sym = Job.ins.sym,
         code' = Append(code, ins), todo' = Tail(todo), UNCHANGED program
  PROVE  Shaped'
<1>. DEFINE C == Len(code)
            T == Len(todo)
            t == Tail(todo)
            d == Append(code, ins)
<1>1. /\ Job = todo[1] /\ T \in Nat \ {0} /\ IsSequence(t) /\ Len(t) = T - 1
      /\ \A i \in 1 .. T - 1 : t[i] = todo[i + 1]
  BY JobIs
<1>2. PICK S : code \in Seq(S)
  BY DEF GenInv, IsSequence
<1>3. /\ d \in Seq(S \cup {ins}) /\ Len(d) = C + 1 /\ C \in Nat
      /\ d[C + 1] = ins /\ \A k \in 1 .. C : d[k] = code[k]
  BY <1>2
<1>4. d # <<>>
  <2>. HIDE DEF d
  <2>1. Len(d) # 0
    BY <1>3
  <2>. QED  BY <2>1
<1>. HIDE DEF C, T, t, d
<1>5. code' = d /\ todo' = t
  BY DEF d, t
<1>6. Closed'
  <2>1. Ender(todo[T])
    BY DEF Shaped, Closed, T
  <2>2. CASE T = 1
    <3>1. t = <<>>
      BY <1>1, <2>2 DEF IsSequence
    <3>2. ins.op = "END"
      BY <1>1, <2>1, <2>2 DEF Ender
    <3>. QED  BY <1>3, <1>5, <3>1, <3>2 DEF Closed
  <2>3. CASE T # 1
    <3>1. T - 1 \in 1 .. T - 1 /\ T - 1 + 1 = T /\ Len(t) # 0
      BY <1>1, <2>3
    <3>2. t[T - 1] = todo[T] /\ t # <<>>
      BY <1>1, <3>1
    <3>3. t # <<>> /\ Ender(t[Len(t)])
      BY <1>1, <2>1, <3>2
    <3>. QED  BY <1>5, <3>3 DEF Closed, Ender
  <2>. QED  BY <2>2, <2>3
<1>7. ASSUME NEW i \in 1 .. Children(program)
      PROVE  Headed(Ast[Child(program, i)].name)'
  <2>0. PICK x : x = Ast[Child(program, i)].name
    OBVIOUS
  <2>1. Headed(x)
    BY <2>0 DEF Shaped
  <2>2. \/ \E k \in 1 .. Len(d) : HeadOf(d[k], x)
        \/ \E j \in 1 .. Len(t) : Gives(t[j], x)
    <3>1. CASE \E k \in 1 .. C : HeadOf(code[k], x)
      <4>1. PICK k \in 1 .. C : HeadOf(code[k], x)
        BY <3>1
      <4>2. k \in 1 .. Len(d)
        BY <1>3
      <4>. QED  BY <1>3, <4>1, <4>2
    <3>2. CASE \E j \in 1 .. T : Gives(todo[j], x)
      <4>1. PICK j \in 1 .. T : Gives(todo[j], x)
        BY <3>2
      <4>2. CASE j = 1
        <5>1. HeadOf(ins, x)
          BY <1>1, <4>1, <4>2 DEF Gives, HeadOf
        <5>2. C + 1 \in 1 .. Len(d)
          BY <1>3
        <5>. QED  BY <1>3, <5>1, <5>2
      <4>3. CASE j # 1
        <5>1. j - 1 \in 1 .. Len(t) /\ j - 1 \in 1 .. T - 1 /\ j - 1 + 1 = j
          BY <1>1, <4>3
        <5>2. t[j - 1] = todo[j]
          BY <1>1, <5>1
        <5>. QED  BY <4>1, <5>1, <5>2
      <4>. QED  BY <4>2, <4>3
    <3>. QED  BY <2>1, <3>1, <3>2 DEF Headed, T, C
  <2>3. \/ \E k \in 1 .. Len(code') : HeadOf(code'[k], x)
        \/ \E j \in 1 .. Len(todo') : Gives(todo'[j], x)
    BY <1>5, <2>2
  <2>4. (Ast[Child(program, i)].name)' = x
    BY <2>0
  <2>. QED  BY <2>3, <2>4 DEF Headed, HeadOf, Gives
<1>8. program' = program
  OBVIOUS
<1>. QED  BY <1>6, <1>7, <1>8 DEF Shaped, Headed, HeadOf, Gives

(* A function becomes its head, its body and its end.                      *)
LEMMA FunctionItems ==
  ASSUME NEW n \in Node, Kind(n) = "FUNC_DECL"
  PROVE  /\ StmtItems(n) # <<>> /\ Ender(StmtItems(n)[Len(StmtItems(n))])
         /\ \E i \in 1 .. Len(StmtItems(n)) : Gives(StmtItems(n)[i], Ast[n].name)
<1>. DEFINE items == StmtItems(n)
            many == Stmts(Ast[n].children)
            head == Write(0, "FUNC", "", Ast[n].name, 0)
            body == Stmt(Child(n, 1))
            end == Write(0, "END", "", "", 0)
<1>1. Children(n) = 1
  BY NodeIs DEF WellShaped, WellCounted
<1>2. items = <<head>> \o many \o <<end>>
  BY DEF StmtItems
<1>3. many = <<body>>
  <2>1. many = [i \in 1 .. 1 |-> Stmt(Child(n, i))]
    BY <1>1, StmtsAre
  <2>. QED  BY <2>1
<1>4. HeadOf(head.ins, Ast[n].name) /\ head.do = "write"
  BY DEF Write, Item, Ins, HeadOf
<1>5. end.do = "write" /\ end.ins.op = "END"
  BY DEF Write, Item, Ins
<1>. HIDE DEF items, many, head, body, end
<1>6. items = <<head, body, end>>
  <2>1. <<head>> \o <<body>> = <<head, body>>
    BY JoinedCall
  <2>. QED  BY <1>2, <1>3, <2>1, ThreeJoined
<1>7. items # <<>> /\ Len(items) = 3 /\ items[1] = head /\ items[3] = end
  BY <1>6
<1>. QED  BY <1>4, <1>5, <1>7 DEF items, Gives, Ender

LEMMA ShapeInit == GenInit => ShapeInv
BY DEF GenInit, ShapeInv

LEMMA StmtFields == ASSUME NEW n PROVE Stmt(n).do = "stmt" /\ Stmt(n).n = n
BY DEF Stmt, Item

(* The program becomes its functions.                                      *)
LEMMA ShapeBegun ==
  ASSUME GenInv, todo = <<Stmt(program)>>, code = <<>>, GenStep
  PROVE  Shaped'
<1>. DEFINE x == Stmt(program)
            N == Children(program)
            many == Stmts(Ast[program].children)
<1>1. x.do = "stmt" /\ x.n = program
  BY DEF Stmt, Item
<1>2. program \in Node /\ Kind(program) = "PROGRAM"
  BY AstAssumption DEF GenInv
<1>3. todo # <<>> /\ Job = x /\ Tail(todo) = <<>>
  <2>. HIDE DEF x
  <2>. QED  BY DEF Job, x
<1>4. todo' = StmtItems(program) \o Tail(todo) /\ UNCHANGED <<code, program>>
  BY <1>1, <1>3 DEF GenStep, GenOperand, GenExpr, GenStmt, GenWrite, GenFree, Doing
<1>5. StmtItems(program) = many
  BY <1>2 DEF StmtItems
<1>6. many = [i \in 1 .. N |-> Stmt(Child(program, i))] /\ N \in Nat
  BY <1>2, StmtsAre, NodeIs
<1>. HIDE DEF x, N, many
<1>7. many \in Seq({many[i] : i \in 1 .. N}) /\ Len(many) = N
  BY <1>6
<1>8. todo' = many
  BY <1>3, <1>4, <1>5, <1>7
<1>9. ASSUME NEW i \in 1 .. N
      PROVE  many[i].do = "stmt" /\ many[i].n = Child(program, i) /\ Kind(many[i].n) = "FUNC_DECL"
  <2>1. many[i] = Stmt(Child(program, i))
    BY <1>6
  <2>2. many[i].do = "stmt" /\ many[i].n = Child(program, i)
    BY <2>1, StmtFields
  <2>3. Kind(Child(program, i)) = "FUNC_DECL"
    BY <1>2, NodeIs DEF WellShaped, N
  <2>. QED  BY <2>2, <2>3
<1>10. Closed'
  <2>1. CASE N = 0
    <3>1. many = <<>>
      BY <1>7, <2>1
    <3>. QED  BY <1>4, <1>8, <3>1 DEF Closed
  <2>2. CASE N # 0
    <3>1. N \in 1 .. N
      BY <1>6, <2>2
    <3>2. many # <<>> /\ Ender(many[Len(many)])
      BY <1>7, <1>9, <3>1 DEF Ender
    <3>. QED  BY <1>8, <3>2 DEF Closed, Ender
  <2>. QED  BY <2>1, <2>2
<1>11. ASSUME NEW i \in 1 .. N
       PROVE  Headed(Ast[Child(program, i)].name)'
  <2>0. PICK y : y = Ast[Child(program, i)].name
    OBVIOUS
  <2>1. \E j \in 1 .. Len(many) : Gives(many[j], y)
    BY <1>7, <1>9, <2>0 DEF Gives
  <2>2. \E j \in 1 .. Len(todo') : Gives(todo'[j], y)
    BY <1>8, <2>1
  <2>4. (Ast[Child(program, i)].name)' = y
    BY <1>4, <2>0
  <2>. QED  BY <2>2, <2>4 DEF Headed, HeadOf, Gives
<1>12. N' = N
  BY <1>4 DEF N
<1>. QED  BY <1>4, <1>10, <1>11, <1>12 DEF Shaped, Headed, HeadOf, Gives, N

LEMMA ShapeStep == GenInv /\ FlowInv /\ ShapeInv /\ GenStep => ShapeInv'
<1>. SUFFICES ASSUME GenInv, FlowInv, ShapeInv, GenStep
              PROVE  Shaped'
  BY DEF ShapeInv
<1>1. CASE todo = <<Stmt(program)>> /\ code = <<>>
  BY <1>1, ShapeBegun
<1>2. CASE Shaped /\ (GenOperand \/ GenExpr \/ GenFree)
  <2>. DEFINE items == IF GenExpr THEN ExprItems(Job.n) ELSE <<>>
  <2>1. /\ todo # <<>> /\ Job.do \in {"expr", "free"} /\ UNCHANGED <<code, program>>
    BY <1>2 DEF GenOperand, GenExpr, GenFree, Doing
  <2>2. \/ GenExpr /\ todo' = ExprItems(Job.n) \o Tail(todo) /\ Job.do = "expr"
           /\ Kind(Job.n) \notin {"LITERAL", "VAR_REF"}
        \/ ~GenExpr /\ todo' = Tail(todo)
    BY <1>2 DEF GenOperand, GenExpr, GenFree, Doing
  <2>3. Tail(todo) = <<>> \o Tail(todo)
    BY <2>1, JobIs DEF IsSequence
  <2>4. todo' = items \o Tail(todo)
    BY <2>2, <2>3
  <2>5. IsSequence(items)
    <3>1. CASE GenExpr
      <4>1. Job.n \in Node /\ Kind(Job.n) \in ExprKind \ {"LITERAL", "VAR_REF"}
        BY <2>1, <2>2, <3>1, MarkOfJob
      <4>2. Leads(ExprItems(Job.n), 0, 0, 0 + 1, 0)
        BY <4>1, ExprLeads
      <4>. QED  BY <3>1, <4>2 DEF Leads
    <3>2. CASE ~GenExpr
      BY <3>2 DEF IsSequence
    <3>. QED  BY <3>1, <3>2
  <2>6. ~Ender(Job) /\ \A x : ~Gives(Job, x)
    BY <2>1 DEF Ender, Gives
  <2>. HIDE DEF items
  <2>. QED  BY <1>2, <2>1, <2>4, <2>5, <2>6, ShapeExpanded
<1>3. CASE Shaped /\ GenStmt
  <2>. DEFINE items == StmtItems(Job.n)
  <2>1. /\ todo # <<>> /\ Job.do = "stmt" /\ todo' = items \o Tail(todo)
        /\ UNCHANGED <<code, program>>
    BY <1>3 DEF GenStmt, Doing
  <2>2. Job.n \in Node
    BY <2>1, MarkOfJob
  <2>3. IsSequence(items)
    BY <2>2, StmtStill DEF Still, Leads
  <2>4. Ender(Job) => Kind(Job.n) = "FUNC_DECL"
    BY <2>1 DEF Ender
  <2>5. \A x : Gives(Job, x) => Kind(Job.n) = "FUNC_DECL" /\ Ast[Job.n].name = x
    BY <2>1 DEF Gives
  <2>6. Ender(Job) => items # <<>> /\ Ender(items[Len(items)])
    BY <2>2, <2>4, FunctionItems
  <2>7. \A x : Gives(Job, x) => \E i \in 1 .. Len(items) : Gives(items[i], x)
    BY <2>2, <2>5, FunctionItems
  <2>. HIDE DEF items
  <2>. QED  BY <1>3, <2>1, <2>3, <2>6, <2>7, ShapeExpanded
<1>4. CASE Shaped /\ GenWrite
  <2>. DEFINE ins == [Job.ins EXCEPT !.args = Taken,
                         !.dst = IF Job.ins.op \in Computes THEN new_temp ELSE @]
  <2>1. /\ todo # <<>> /\ Job.do = "write" /\ todo' = Tail(todo)
        /\ code' = Append(code, ins) /\ UNCHANGED program
    BY <1>4 DEF GenWrite, Doing
  <2>2. PICK op, dst, sym, num : Job.ins = Ins(op, dst, sym, num)
    BY <2>1, JobIs DEF JobOK, IsInstruction
  <2>3. ins.op = Job.ins.op /\ ins.num = Job.ins.num /\ ins.sym = Job.ins.sym
    BY <2>2 DEF Ins
  <2>. HIDE DEF ins
  <2>. QED  BY <1>4, <2>1, <2>3, ShapeWritten
<1>. QED  BY <1>1, <1>2, <1>3, <1>4 DEF ShapeInv, GenStep

LEMMA ShapeOthers == ShapeInv /\ UNCHANGED genVars => ShapeInv'
<1>. SUFFICES ASSUME ShapeInv, UNCHANGED genVars
              PROVE  ShapeInv'
  OBVIOUS
<1>1. UNCHANGED <<code, todo, program>>
  BY DEF genVars
<1>2. CASE todo = <<Stmt(program)>> /\ code = <<>>
  BY <1>1, <1>2 DEF ShapeInv
<1>3. CASE Shaped
  <2>1. Closed'
    BY <1>1, <1>3 DEF Shaped, Closed, Ender
  <2>2. \A i \in 1 .. Children(program) : Headed(Ast[Child(program, i)].name)'
    BY <1>1, <1>3 DEF Shaped, Headed, HeadOf, Gives
  <2>. QED  BY <1>1, <2>1, <2>2 DEF Shaped, ShapeInv, Headed, HeadOf, Gives
<1>. QED  BY <1>2, <1>3 DEF ShapeInv

(* What is generated once nothing is left to do.                           *)
LEMMA TextIs ==
  ASSUME GenInv, FlowInv, ShapeInv, todo = <<>>
  PROVE  /\ code # <<>> => code[Len(code)].op = "END"
         /\ \A i \in 1 .. Children(program) :
               \E k \in 1 .. Len(code) : HeadOf(code[k], Ast[Child(program, i)].name)
         /\ \A k \in 1 .. Len(code) :
               code[k].op \in {"GOTO", "IF_FALSE"} =>
                  \E l \in 1 .. Len(code) : /\ code[l].op = "LABEL" /\ Nameless(code[l].sym)
                                            /\ code[l].num = code[k].num
<1>1. Shaped
  <2>1. <<Stmt(program)>> # <<>>
    OBVIOUS
  <2>. QED  BY <2>1 DEF ShapeInv
<1>2. code # <<>> => code[Len(code)].op = "END"
  BY <1>1 DEF Shaped, Closed
<1>3. ASSUME NEW x, Headed(x)
      PROVE  \E k \in 1 .. Len(code) : HeadOf(code[k], x)
  <2>1. Len(todo) = 0
    OBVIOUS
  <2>. QED  BY <1>3, <2>1 DEF Headed
<1>4. ASSUME NEW k \in 1 .. Len(code), code[k].op \in {"GOTO", "IF_FALSE"}
      PROVE  \E l \in 1 .. Len(code) : /\ code[l].op = "LABEL" /\ Nameless(code[l].sym)
                                       /\ code[l].num = code[k].num
  <2>. DEFINE N == Len(code)
  <2>1. N \in Nat /\ DOMAIN code = 1 .. N
    BY DEF GenInv, IsSequence
  <2>2. JumpsResolve /\ Len(todo) = 0
    BY LinkedText
  <2>3. Linked(Marks, N, 1, label_counter)
    BY <2>1, <2>2 DEF GenInv
  <2>4. \A i \in 1 .. N : Marks[i] = Mark(code[i].op, code[i].num)
    BY <2>1, <2>2 DEF Marks
  <2>5. \A i \in 1 .. N : Marks[i].op = code[i].op /\ Marks[i].num = code[i].num
    <3>. SUFFICES ASSUME NEW i \in 1 .. N
                  PROVE  Marks[i].op = code[i].op /\ Marks[i].num = code[i].num
      OBVIOUS
    <3>1. /\ Mark(code[i].op, code[i].num).op = code[i].op
          /\ Mark(code[i].op, code[i].num).num = code[i].num
      BY MarkIs
    <3>. HIDE DEF N
    <3>. QED  BY <2>4, <3>1
  <2>6. PICK l \in 1 .. N : code[l].op = "LABEL" /\ code[l].num = code[k].num
    BY <1>4, <2>3, <2>5 DEF Linked, Jumps
  <2>7. Nameless(code[l].sym)
    BY <2>6 DEF FlowInv, InsOK
  <2>. QED  BY <2>6, <2>7
<1>. QED  BY <1>1, <1>2, <1>3, <1>4 DEF Shaped

LEMMA LineIs ==
  ASSUME NEW op, NEW sym, NEW num, IsSequence(code),
         \E k \in 1 .. Len(code) : code[k].op = op /\ code[k].sym = sym /\ code[k].num = num
  PROVE  LET l == LineOf(op, sym, num)
         IN  l \in 1 .. Len(code) /\ code[l].op = op /\ code[l].sym = sym /\ code[l].num = num
<1>. DEFINE I == {i \in 1 .. Len(code) : code[i].op = op /\ code[i].sym = sym /\ code[i].num = num}
<1>1. LineOf(op, sym, num) = IF I # {} THEN Min(I) ELSE 0
  BY DEF LineOf, SelectInSeq
<1>2. I # {} /\ I \subseteq Nat
  BY DEF IsSequence
<1>. HIDE DEF I
<1>3. \E x \in I : \A y \in I : x <= y
  BY <1>2, LeastOf
<1>4. Min(I) \in I
  BY <1>3 DEF Min
<1>. QED  BY <1>1, <1>2, <1>4 DEF I

-----------------------------------------------------------------------------
(* The parameters on the stack, shared out: those of the activation i are  *)
(* held from b[i - 1] + 1 to b[i], and there are H[i].                     *)
Shares(b, L, H, s) ==
    /\ b \in [0 .. L -> Nat] /\ b[0] = 0 /\ b[L] = Len(s)
    /\ \A i \in 1 .. L : b[i] = b[i - 1] + H[i]
    /\ \A i, j \in 0 .. L : i <= j => b[i] <= b[j]
    /\ \A k \in 1 .. Len(s) :
          LET d == s[k].depth IN d \in 1 .. L /\ b[d - 1] < k /\ k <= b[d]

Fits(L, H, s) ==
    /\ L \in Nat /\ IsSequence(s) /\ \A i \in 1 .. L : H[i] \in Nat
    /\ \E b : Shares(b, L, H, s)

LEMMA FitsSame ==
  ASSUME NEW L, NEW H, NEW G, NEW s, Fits(L, H, s), \A i \in 1 .. L : G[i] = H[i]
  PROVE  Fits(L, G, s)
<1>1. PICK b : Shares(b, L, H, s)
  BY DEF Fits
<1>2. Shares(b, L, G, s)
  BY <1>1 DEF Shares
<1>. QED  BY <1>2 DEF Fits

(* The last of the activations pushes one.                                 *)
LEMMA FitsPush ==
  ASSUME NEW L, L # 0, NEW H, NEW G, NEW s, Fits(L, H, s), NEW x, x.depth = L,
         \A i \in 1 .. L - 1 : G[i] = H[i], G[L] = H[L] + 1
  PROVE  Fits(L, G, Append(s, x))
<1>1. PICK b : Shares(b, L, H, s)
  BY DEF Fits
<1>2. PICK S : s \in Seq(S)
  BY DEF Fits, IsSequence
<1>. DEFINE t == Append(s, x)
            N == Len(s)
            c == [i \in 0 .. L |-> IF i = L THEN N + 1 ELSE b[i]]
<1>3. /\ t \in Seq(S \cup {x}) /\ Len(t) = N + 1 /\ N \in Nat
      /\ t[N + 1] = x /\ \A k \in 1 .. N : t[k] = s[k]
  BY <1>2
<1>4. L \in Nat \ {0} /\ \A i \in 1 .. L : H[i] \in Nat
  BY DEF Fits
<1>5. b \in [0 .. L -> Nat] /\ b[0] = 0 /\ b[L] = N
  BY <1>1 DEF Shares
<1>6. /\ c \in [0 .. L -> Nat] /\ c[L] = N + 1
      /\ \A i \in 0 .. L - 1 : c[i] = b[i]
  BY <1>3, <1>4, <1>5
<1>. HIDE DEF t, N, c
<1>7. \A i, j \in 0 .. L : i <= j => b[i] <= b[j]
  BY <1>1 DEF Shares
<1>8. \A i \in 1 .. L : b[i] = b[i - 1] + H[i]
  BY <1>1 DEF Shares
<1>9. ASSUME NEW i \in 1 .. L
      PROVE  G[i] \in Nat /\ c[i] = c[i - 1] + G[i]
  <2>0. i - 1 \in 0 .. L - 1 /\ b[i - 1] \in Nat /\ H[i] \in Nat
    BY <1>4, <1>5
  <2>1. CASE i = L
    BY <1>4, <1>5, <1>6, <1>8, <2>0, <2>1
  <2>2. CASE i # L
    <3>1. i \in 0 .. L - 1 /\ i \in 1 .. L - 1
      BY <1>4, <2>2
    <3>. QED  BY <1>6, <1>8, <2>0, <3>1
  <2>. QED  BY <2>1, <2>2
<1>10. ASSUME NEW i \in 0 .. L, NEW j \in 0 .. L, i <= j
       PROVE  c[i] <= c[j]
  <2>1. b[i] \in Nat /\ b[j] \in Nat /\ b[i] <= b[j] /\ b[i] <= N
    <3>1. L \in 0 .. L /\ i <= L
      BY <1>4
    <3>. QED  BY <1>5, <1>7, <1>10, <3>1
  <2>2. CASE j = L
    <3>1. CASE i = L
      BY <1>3, <1>6, <2>2, <3>1
    <3>2. CASE i # L
      <4>1. i \in 0 .. L - 1
        BY <1>4, <3>2
      <4>. QED  BY <1>3, <1>6, <2>1, <2>2, <4>1
    <3>. QED  BY <3>1, <3>2
  <2>3. CASE j # L
    <3>1. i \in 0 .. L - 1 /\ j \in 0 .. L - 1
      BY <1>4, <1>10, <2>3
    <3>. QED  BY <1>6, <2>1, <3>1
  <2>. QED  BY <2>2, <2>3
<1>11. ASSUME NEW k \in 1 .. N + 1
       PROVE  t[k].depth \in 1 .. L /\ c[t[k].depth - 1] < k /\ k <= c[t[k].depth]
  <2>1. CASE k = N + 1
    <3>1. L - 1 \in 0 .. L - 1 /\ L \in 0 .. L /\ L - 1 <= L /\ L - 1 \in 0 .. L
      BY <1>4
    <3>2. c[L - 1] <= N
      BY <1>5, <1>6, <1>7, <3>1
    <3>3. c[L - 1] \in Nat
      BY <1>6, <3>1
    <3>. QED  BY <1>3, <1>4, <1>6, <2>1, <3>2, <3>3
  <2>2. CASE k # N + 1
    <3>. DEFINE d == s[k].depth
    <3>1. k \in 1 .. N /\ t[k] = s[k]
      BY <1>3, <2>2
    <3>2. d \in 1 .. L /\ b[d - 1] < k /\ k <= b[d]
      BY <1>1, <3>1 DEF Shares, N
    <3>. HIDE DEF d
    <3>3. d - 1 \in 0 .. L - 1 /\ d - 1 \in 0 .. L /\ d \in 0 .. L
      BY <1>4, <3>2
    <3>4. c[d - 1] = b[d - 1]
      BY <1>6, <3>3
    <3>5. k <= c[d]
      <4>1. CASE d = L
        BY <1>3, <1>6, <3>1, <4>1
      <4>2. CASE d # L
        <5>1. d \in 0 .. L - 1
          BY <1>4, <3>2, <4>2
        <5>. QED  BY <1>6, <3>2, <5>1
      <4>. QED  BY <4>1, <4>2
    <3>. QED  BY <3>1, <3>2, <3>4, <3>5 DEF d
  <2>. QED  BY <2>1, <2>2
<1>12. c[0] = 0
  BY <1>4, <1>5, <1>6
<1>13. Shares(c, L, G, t)
  BY <1>3, <1>6, <1>9, <1>10, <1>11, <1>12 DEF Shares
<1>14. IsSequence(t)
  BY <1>3 DEF IsSequence
<1>. QED  BY <1>4, <1>9, <1>13, <1>14 DEF Fits, t

(* The n last are the last activation's, if it holds as many, and are      *)
(* taken.                                                                  *)
LEMMA FitsTake ==
  ASSUME NEW L, L # 0, NEW H, NEW G, NEW s, Fits(L, H, s), NEW n \in Nat, n <= H[L],
         \A i \in 1 .. L - 1 : G[i] = H[i], G[L] = H[L] - n
  PROVE  /\ n <= Len(s)
         /\ \A k \in Len(s) - n + 1 .. Len(s) : s[k].depth = L
         /\ Fits(L, G, SubSeq(s, 1, Len(s) - n))
<1>1. PICK b : Shares(b, L, H, s)
  BY DEF Fits
<1>2. PICK S : s \in Seq(S)
  BY DEF Fits, IsSequence
<1>. DEFINE N == Len(s)
            t == SubSeq(s, 1, N - n)
            c == [i \in 0 .. L |-> IF i = L THEN N - n ELSE b[i]]
<1>4. L \in Nat \ {0} /\ (\A i \in 1 .. L : H[i] \in Nat) /\ N \in Nat
  BY <1>2 DEF Fits
<1>5. b \in [0 .. L -> Nat] /\ b[0] = 0 /\ b[L] = N
  BY <1>1 DEF Shares
<1>7. \A i, j \in 0 .. L : i <= j => b[i] <= b[j]
  BY <1>1 DEF Shares
<1>8. \A i \in 1 .. L : b[i] = b[i - 1] + H[i]
  BY <1>1 DEF Shares
<1>0. L \in 1 .. L /\ L - 1 \in 0 .. L - 1 /\ L - 1 \in 0 .. L /\ L \in 0 .. L
  BY <1>4
<1>15. b[L - 1] \in Nat /\ H[L] \in Nat /\ N = b[L - 1] + H[L]
  BY <1>0, <1>4, <1>5, <1>8
<1>16. n <= N /\ b[L - 1] <= N - n /\ N - n \in Nat
  BY <1>4, <1>15
<1>3. t \in Seq(S) /\ Len(t) = N - n /\ \A k \in 1 .. N - n : t[k] = s[k]
  BY <1>2, <1>16
<1>6. /\ c \in [0 .. L -> Nat] /\ c[L] = N - n
      /\ \A i \in 0 .. L - 1 : c[i] = b[i]
  BY <1>4, <1>5, <1>16
<1>17. \A k \in 1 .. N : s[k].depth \in 1 .. L /\ b[s[k].depth - 1] < k /\ k <= b[s[k].depth]
  BY <1>1 DEF Shares
<1>. HIDE DEF t, N, c
<1>18. ASSUME NEW k \in N - n + 1 .. N
       PROVE  s[k].depth = L
  <2>. DEFINE d == s[k].depth
  <2>1. k \in 1 .. N
    BY <1>4, <1>16
  <2>2. d \in 1 .. L /\ k <= b[d]
    BY <1>17, <2>1
  <2>. HIDE DEF d
  <2>3. CASE d # L
    <3>1. d <= L - 1 /\ d \in 0 .. L
      BY <1>4, <2>2, <2>3
    <3>2. b[d] <= b[L - 1] /\ b[d] \in Nat
      BY <1>0, <1>5, <1>7, <3>1
    <3>. QED  BY <1>4, <1>15, <1>16, <2>1, <2>2, <3>2
  <2>. QED  BY <2>3 DEF d
<1>9. ASSUME NEW i \in 1 .. L
      PROVE  G[i] \in Nat /\ c[i] = c[i - 1] + G[i]
  <2>0. i - 1 \in 0 .. L - 1 /\ b[i - 1] \in Nat /\ H[i] \in Nat
    BY <1>4, <1>5
  <2>1. CASE i = L
    BY <1>4, <1>6, <1>15, <2>0, <2>1
  <2>2. CASE i # L
    <3>1. i \in 0 .. L - 1 /\ i \in 1 .. L - 1
      BY <1>4, <2>2
    <3>. QED  BY <1>6, <1>8, <2>0, <3>1
  <2>. QED  BY <2>1, <2>2
<1>10. ASSUME NEW i \in 0 .. L, NEW j \in 0 .. L, i <= j
       PROVE  c[i] <= c[j]
  <2>2. CASE j = L
    <3>1. CASE i = L
      BY <1>6, <1>16, <2>2, <3>1
    <3>2. CASE i # L
      <4>1. i \in 0 .. L - 1 /\ i <= L - 1
        BY <1>4, <3>2
      <4>2. b[i] <= b[L - 1] /\ b[i] \in Nat
        BY <1>0, <1>5, <1>7, <4>1
      <4>. QED  BY <1>6, <1>15, <1>16, <2>2, <4>1, <4>2
    <3>. QED  BY <3>1, <3>2
  <2>3. CASE j # L
    <3>1. i \in 0 .. L - 1 /\ j \in 0 .. L - 1
      BY <1>4, <1>10, <2>3
    <3>. QED  BY <1>6, <1>7, <1>10, <3>1
  <2>. QED  BY <2>2, <2>3
<1>11. ASSUME NEW k \in 1 .. N - n
       PROVE  t[k].depth \in 1 .. L /\ c[t[k].depth - 1] < k /\ k <= c[t[k].depth]
  <2>. DEFINE d == s[k].depth
  <2>1. k \in 1 .. N /\ t[k] = s[k]
    BY <1>3, <1>4, <1>16
  <2>2. d \in 1 .. L /\ b[d - 1] < k /\ k <= b[d]
    BY <1>17, <2>1
  <2>. HIDE DEF d
  <2>3. d - 1 \in 0 .. L - 1
    BY <1>4, <2>2
  <2>4. k <= c[d]
    <3>1. CASE d = L
      BY <1>6, <1>16, <3>1
    <3>2. CASE d # L
      <4>1. d \in 0 .. L - 1
        BY <1>4, <2>2, <3>2
      <4>. QED  BY <1>6, <2>2, <4>1
    <3>. QED  BY <3>1, <3>2
  <2>. QED  BY <1>6, <2>1, <2>2, <2>3, <2>4 DEF d
<1>12. c[0] = 0
  BY <1>4, <1>5, <1>6
<1>13. Shares(c, L, G, t)
  BY <1>3, <1>6, <1>9, <1>10, <1>11, <1>12 DEF Shares
<1>14. IsSequence(t)
  BY <1>3 DEF IsSequence
<1>. QED  BY <1>4, <1>9, <1>13, <1>14, <1>16, <1>18 DEF Fits, t, N

(* A new activation holds none.                                            *)
LEMMA FitsEnter ==
  ASSUME NEW L, NEW H, NEW G, NEW s, Fits(L, H, s),
         \A i \in 1 .. L : G[i] = H[i], G[L + 1] = 0
  PROVE  Fits(L + 1, G, s)
<1>1. PICK b : Shares(b, L, H, s)
  BY DEF Fits
<1>. DEFINE N == Len(s)
            M == L + 1
            c == [i \in 0 .. M |-> IF i = M THEN N ELSE b[i]]
<1>2. L \in Nat /\ (\A i \in 1 .. L : H[i] \in Nat) /\ N \in Nat /\ IsSequence(s)
  BY DEF Fits, IsSequence
<1>3. b \in [0 .. L -> Nat] /\ b[0] = 0 /\ b[L] = N
  BY <1>1 DEF Shares
<1>4. \A i, j \in 0 .. L : i <= j => b[i] <= b[j]
  BY <1>1 DEF Shares
<1>5. \A i \in 1 .. L : b[i] = b[i - 1] + H[i]
  BY <1>1 DEF Shares
<1>6. \A k \in 1 .. N : s[k].depth \in 1 .. L /\ b[s[k].depth - 1] < k /\ k <= b[s[k].depth]
  BY <1>1 DEF Shares
<1>7. /\ c \in [0 .. M -> Nat] /\ c[M] = N /\ M \in Nat
      /\ \A i \in 0 .. L : c[i] = b[i]
  BY <1>2, <1>3
<1>. HIDE DEF c, N
<1>8. ASSUME NEW i \in 1 .. M
      PROVE  G[i] \in Nat /\ c[i] = c[i - 1] + G[i]
  <2>1. CASE i = M
    <3>1. L \in 0 .. L /\ M - 1 = L
      BY <1>2
    <3>2. c[L] = N /\ G[M] = 0
      BY <1>3, <1>7, <3>1
    <3>. QED  BY <1>2, <1>7, <2>1, <3>1, <3>2
  <2>2. CASE i # M
    <3>1. i \in 1 .. L /\ i \in 0 .. L /\ i - 1 \in 0 .. L
      BY <1>2, <2>2
    <3>. QED  BY <1>2, <1>5, <1>7, <3>1
  <2>. QED  BY <2>1, <2>2
<1>9. ASSUME NEW i \in 0 .. M, NEW j \in 0 .. M, i <= j
      PROVE  c[i] <= c[j]
  <2>1. CASE i = M
    <3>1. j = M
      BY <1>2, <1>9, <2>1
    <3>. QED  BY <1>2, <1>7, <2>1, <3>1
  <2>2. CASE i # M /\ j = M
    <3>1. i \in 0 .. L /\ L \in 0 .. L /\ i <= L
      BY <1>2, <2>2
    <3>. QED  BY <1>3, <1>4, <1>7, <2>2, <3>1
  <2>3. CASE i # M /\ j # M
    <3>1. i \in 0 .. L /\ j \in 0 .. L
      BY <1>2, <2>3
    <3>. QED  BY <1>4, <1>7, <1>9, <3>1
  <2>. QED  BY <2>1, <2>2, <2>3
<1>10. ASSUME NEW k \in 1 .. N
       PROVE  s[k].depth \in 1 .. M /\ c[s[k].depth - 1] < k /\ k <= c[s[k].depth]
  <2>. DEFINE d == s[k].depth
  <2>1. d \in 1 .. L /\ b[d - 1] < k /\ k <= b[d]
    BY <1>6
  <2>. HIDE DEF d
  <2>2. d \in 1 .. M /\ d - 1 \in 0 .. L /\ d \in 0 .. L
    BY <1>2, <2>1
  <2>. QED  BY <1>7, <2>1, <2>2 DEF d
<1>11. c[0] = 0
  BY <1>2, <1>3, <1>7
<1>12. Shares(c, M, G, s)
  BY <1>7, <1>8, <1>9, <1>10, <1>11 DEF Shares, N
<1>. QED  BY <1>2, <1>7, <1>8, <1>12 DEF Fits

(* The last activation ends with none left.                                *)
LEMMA FitsLeave ==
  ASSUME NEW L, L # 0, NEW H, NEW G, NEW s, Fits(L, H, s), H[L] = 0,
         \A i \in 1 .. L - 1 : G[i] = H[i]
  PROVE  /\ \A k \in 1 .. Len(s) : s[k].depth \in 1 .. L - 1
         /\ Fits(L - 1, G, s)
<1>1. PICK b : Shares(b, L, H, s)
  BY DEF Fits
<1>. DEFINE N == Len(s)
            M == L - 1
            c == [i \in 0 .. M |-> b[i]]
<1>2. L \in Nat \ {0} /\ (\A i \in 1 .. L : H[i] \in Nat) /\ N \in Nat /\ IsSequence(s)
  BY DEF Fits, IsSequence
<1>3. b \in [0 .. L -> Nat] /\ b[0] = 0 /\ b[L] = N
  BY <1>1 DEF Shares
<1>4. \A i, j \in 0 .. L : i <= j => b[i] <= b[j]
  BY <1>1 DEF Shares
<1>5. \A i \in 1 .. L : b[i] = b[i - 1] + H[i]
  BY <1>1 DEF Shares
<1>6. \A k \in 1 .. N : s[k].depth \in 1 .. L /\ b[s[k].depth - 1] < k /\ k <= b[s[k].depth]
  BY <1>1 DEF Shares
<1>7. /\ c \in [0 .. M -> Nat] /\ M \in Nat
      /\ \A i \in 0 .. M : c[i] = b[i] /\ i \in 0 .. L
  BY <1>2, <1>3
<1>8. b[M] = N
  <2>1. L \in 1 .. L /\ M \in 0 .. L
    BY <1>2
  <2>2. b[L] = b[M] + 0 /\ b[M] \in Nat
    BY <1>3, <1>5, <2>1
  <2>. QED  BY <1>3, <2>2
<1>. HIDE DEF c, N
<1>9. ASSUME NEW k \in 1 .. N
      PROVE  s[k].depth \in 1 .. M /\ c[s[k].depth - 1] < k /\ k <= c[s[k].depth]
  <2>. DEFINE d == s[k].depth
  <2>1. d \in 1 .. L /\ b[d - 1] < k /\ k <= b[d]
    BY <1>6
  <2>. HIDE DEF d
  <2>2. d # L
    <3>1. CASE d = L
      BY <1>2, <1>8, <2>1, <3>1
    <3>. QED  BY <3>1
  <2>3. d \in 1 .. M /\ d - 1 \in 0 .. M /\ d \in 0 .. M
    BY <1>2, <2>1, <2>2
  <2>. QED  BY <1>7, <2>1, <2>3 DEF d
<1>10. ASSUME NEW i \in 1 .. M
       PROVE  G[i] \in Nat /\ c[i] = c[i - 1] + G[i]
  <2>1. i \in 1 .. L /\ i \in 0 .. M /\ i - 1 \in 0 .. M
    BY <1>2
  <2>. QED  BY <1>2, <1>5, <1>7, <2>1
<1>11. \A i, j \in 0 .. M : i <= j => c[i] <= c[j]
  BY <1>4, <1>7
<1>12. c[0] = 0 /\ c[M] = N
  <2>1. 0 \in 0 .. M /\ M \in 0 .. M
    BY <1>7
  <2>. QED  BY <1>3, <1>7, <1>8, <2>1
<1>13. Shares(c, M, G, s)
  BY <1>7, <1>9, <1>10, <1>11, <1>12 DEF Shares, N
<1>. QED  BY <1>2, <1>7, <1>9, <1>10, <1>13 DEF Fits, N

-----------------------------------------------------------------------------
(* What each of the activations fs holds where it is: one that waits for   *)
(* another has had its call's parameters taken.                            *)
Held(h, fs) ==
    [i \in 1 .. Len(fs) |-> IF i = Len(fs) THEN h[fs[i].pc] ELSE h[fs[i].pc + 1]]

Stacked(fs, ps) ==
    \E h : /\ Flow(h) /\ Fits(Len(fs), Held(h, fs), ps)
           /\ \A i \in 1 .. Len(fs) - 1 : code[fs[i].pc].op = "CALL"

(* gs is fs with y instead of its last element.                            *)
Topped(gs, fs, y) ==
    /\ IsSequence(gs) /\ Len(fs) \in Nat \ {0} /\ Len(gs) = Len(fs)
    /\ gs[Len(fs)] = y /\ \A i \in 1 .. Len(fs) - 1 : gs[i] = fs[i]

LEMMA HeldTopped ==
  ASSUME NEW fs, NEW gs, NEW y, Topped(gs, fs, y), NEW h
  PROVE  /\ Held(h, gs)[Len(fs)] = h[y.pc]
         /\ Held(h, fs)[Len(fs)] = h[fs[Len(fs)].pc]
         /\ \A i \in 1 .. Len(fs) - 1 : Held(h, gs)[i] = Held(h, fs)[i]
<1>. DEFINE L == Len(fs)
<1>1. L \in Nat \ {0} /\ Len(gs) = L /\ gs[L] = y /\ \A i \in 1 .. L - 1 : gs[i] = fs[i]
  BY DEF Topped
<1>. HIDE DEF L
<1>2. L \in 1 .. L /\ \A i \in 1 .. L - 1 : i \in 1 .. L /\ i # L
  BY <1>1
<1>3. \A i \in 1 .. L : Held(h, gs)[i] = IF i = L THEN h[gs[i].pc] ELSE h[gs[i].pc + 1]
  BY <1>1 DEF Held
<1>4. \A i \in 1 .. L : Held(h, fs)[i] = IF i = L THEN h[fs[i].pc] ELSE h[fs[i].pc + 1]
  BY DEF Held, L
<1>5. Held(h, gs)[L] = h[y.pc] /\ Held(h, fs)[L] = h[fs[L].pc]
  BY <1>1, <1>2, <1>3, <1>4
<1>6. \A i \in 1 .. L - 1 : Held(h, gs)[i] = Held(h, fs)[i]
  BY <1>1, <1>2, <1>3, <1>4
<1>. QED  BY <1>5, <1>6 DEF L

LEMMA TopMoves ==
  ASSUME NEW fs, NEW gs, NEW y, NEW ps, Topped(gs, fs, y), Stacked(fs, ps),
         \A h : Flow(h) => h[y.pc] = h[fs[Len(fs)].pc]
  PROVE  Stacked(gs, ps)
<1>1. PICK h : /\ Flow(h) /\ Fits(Len(fs), Held(h, fs), ps)
               /\ \A i \in 1 .. Len(fs) - 1 : code[fs[i].pc].op = "CALL"
  BY DEF Stacked
<1>2. /\ Len(gs) = Len(fs) /\ Len(fs) \in Nat \ {0}
      /\ \A i \in 1 .. Len(fs) - 1 : gs[i] = fs[i]
  BY DEF Topped
<1>3. \A i \in 1 .. Len(fs) : Held(h, gs)[i] = Held(h, fs)[i]
  <2>1. \A i \in 1 .. Len(fs) : i \in 1 .. Len(fs) - 1 \/ i = Len(fs)
    BY <1>2
  <2>2. Held(h, gs)[Len(fs)] = Held(h, fs)[Len(fs)]
    BY <1>1, HeldTopped
  <2>. QED  BY <2>1, <2>2, HeldTopped
<1>4. Fits(Len(gs), Held(h, gs), ps)
  BY <1>1, <1>2, <1>3, FitsSame
<1>. QED  BY <1>1, <1>2, <1>4 DEF Stacked

LEMMA TopPushes ==
  ASSUME NEW fs, NEW gs, NEW y, NEW ps, Topped(gs, fs, y), Stacked(fs, ps),
         NEW x, x.depth = Len(fs),
         \A h : Flow(h) => h[y.pc] = h[fs[Len(fs)].pc] + 1
  PROVE  Stacked(gs, Append(ps, x))
<1>1. PICK h : /\ Flow(h) /\ Fits(Len(fs), Held(h, fs), ps)
               /\ \A i \in 1 .. Len(fs) - 1 : code[fs[i].pc].op = "CALL"
  BY DEF Stacked
<1>2. /\ Len(gs) = Len(fs) /\ Len(fs) \in Nat \ {0}
      /\ \A i \in 1 .. Len(fs) - 1 : gs[i] = fs[i]
  BY DEF Topped
<1>3. /\ Held(h, gs)[Len(fs)] = Held(h, fs)[Len(fs)] + 1
      /\ \A i \in 1 .. Len(fs) - 1 : Held(h, gs)[i] = Held(h, fs)[i]
  BY <1>1, HeldTopped
<1>4. Fits(Len(gs), Held(h, gs), Append(ps, x))
  BY <1>1, <1>2, <1>3, FitsPush
<1>. QED  BY <1>1, <1>2, <1>4 DEF Stacked

LEMMA TopTakes ==
  ASSUME NEW fs, NEW gs, NEW y, NEW ps, Topped(gs, fs, y), Stacked(fs, ps), NEW n \in Nat,
         \A h : Flow(h) => /\ h[y.pc] = h[fs[Len(fs)].pc] - n
                           /\ n <= h[fs[Len(fs)].pc]
  PROVE  Stacked(gs, SubSeq(ps, 1, Len(ps) - n))
<1>1. PICK h : /\ Flow(h) /\ Fits(Len(fs), Held(h, fs), ps)
               /\ \A i \in 1 .. Len(fs) - 1 : code[fs[i].pc].op = "CALL"
  BY DEF Stacked
<1>2. /\ Len(gs) = Len(fs) /\ Len(fs) \in Nat \ {0}
      /\ \A i \in 1 .. Len(fs) - 1 : gs[i] = fs[i]
  BY DEF Topped
<1>3. /\ Held(h, gs)[Len(fs)] = Held(h, fs)[Len(fs)] - n
      /\ n <= Held(h, fs)[Len(fs)]
      /\ \A i \in 1 .. Len(fs) - 1 : Held(h, gs)[i] = Held(h, fs)[i]
  BY <1>1, HeldTopped
<1>4. Fits(Len(gs), Held(h, gs), SubSeq(ps, 1, Len(ps) - n))
  BY <1>1, <1>2, <1>3, FitsTake
<1>. QED  BY <1>1, <1>2, <1>4 DEF Stacked

(* A call: what it takes is there, and is its own activation's.            *)
LEMMA Taking ==
  ASSUME NEW fs, NEW ps, Len(fs) \in Nat \ {0}, Stacked(fs, ps), NEW n \in Nat,
         \A h : Flow(h) => n <= h[fs[Len(fs)].pc]
  PROVE  n <= Len(ps) /\ \A k \in Len(ps) - n + 1 .. Len(ps) : ps[k].depth = Len(fs)
<1>. DEFINE L == Len(fs)
<1>1. PICK h : Flow(h) /\ Fits(L, Held(h, fs), ps)
  BY DEF Stacked
<1>2. L \in 1 .. L /\ L # 0
  OBVIOUS
<1>3. Held(h, fs)[L] = h[fs[L].pc]
  BY <1>2 DEF Held
<1>. HIDE DEF L
<1>4. n <= Held(h, fs)[L] /\ Held(h, fs)[L] \in Nat
  BY <1>1, <1>2, <1>3 DEF Fits, L
<1>. DEFINE G == [i \in 1 .. L |-> IF i = L THEN Held(h, fs)[L] - n ELSE Held(h, fs)[i]]
<1>5. G[L] = Held(h, fs)[L] - n /\ \A i \in 1 .. L - 1 : G[i] = Held(h, fs)[i]
  <2>1. L \in Nat
    BY <1>1 DEF Fits
  <2>2. \A i \in 1 .. L - 1 : i \in 1 .. L /\ i # L
    BY <2>1
  <2>3. \A i \in 1 .. L : G[i] = IF i = L THEN Held(h, fs)[L] - n ELSE Held(h, fs)[i]
    OBVIOUS
  <2>. HIDE DEF G
  <2>. QED  BY <1>2, <2>2, <2>3
<1>. HIDE DEF G
<1>6. n <= Len(ps) /\ \A k \in Len(ps) - n + 1 .. Len(ps) : ps[k].depth = L
  BY <1>1, <1>2, <1>4, <1>5, FitsTake
<1>. QED  BY <1>6 DEF L

LEMMA Entering ==
  ASSUME NEW fs, NEW y, NEW ps, IsSequence(fs), Len(fs) # 0, Stacked(fs, ps), NEW n \in Nat,
         code[fs[Len(fs)].pc].op = "CALL",
         \A h : Flow(h) => /\ h[fs[Len(fs)].pc + 1] = h[fs[Len(fs)].pc] - n
                           /\ n <= h[fs[Len(fs)].pc] /\ h[y.pc] = 0
  PROVE  Stacked(Append(fs, y), SubSeq(ps, 1, Len(ps) - n))
<1>. DEFINE L == Len(fs)
            gs == Append(fs, y)
            qs == SubSeq(ps, 1, Len(ps) - n)
<1>1. PICK h : /\ Flow(h) /\ Fits(L, Held(h, fs), ps)
               /\ \A i \in 1 .. L - 1 : code[fs[i].pc].op = "CALL"
  BY DEF Stacked
<1>2. PICK S : fs \in Seq(S)
  BY DEF IsSequence
<1>3. Len(gs) = L + 1 /\ gs[L + 1] = y /\ \A i \in 1 .. L : gs[i] = fs[i]
  BY <1>2
<1>4. L \in Nat \ {0} /\ L \in 1 .. L
  BY <1>2
<1>5. \A i \in 1 .. L : Held(h, fs)[i] = IF i = L THEN h[fs[i].pc] ELSE h[fs[i].pc + 1]
  BY DEF Held
<1>. HIDE DEF L, gs, qs
<1>6. \A i \in 1 .. L + 1 : Held(h, gs)[i] = IF i = L + 1 THEN h[gs[i].pc] ELSE h[gs[i].pc + 1]
  BY <1>3 DEF Held
<1>7. L + 1 \in 1 .. L + 1 /\ \A i \in 1 .. L : i \in 1 .. L + 1 /\ i # L + 1
  BY <1>4
<1>8. Held(h, gs)[L + 1] = 0 /\ \A i \in 1 .. L : Held(h, gs)[i] = h[fs[i].pc + 1]
  <2>1. h[y.pc] = 0
    BY <1>1
  <2>. QED  BY <1>3, <1>6, <1>7, <2>1
<1>9. /\ h[fs[L].pc + 1] = h[fs[L].pc] - n /\ n <= h[fs[L].pc]
  BY <1>1 DEF L
<1>10. Fits(L, Held(h, gs), qs)
  <2>1. Held(h, gs)[L] = Held(h, fs)[L] - n /\ n <= Held(h, fs)[L]
    BY <1>4, <1>5, <1>8, <1>9
  <2>2. \A i \in 1 .. L - 1 : i \in 1 .. L /\ i # L
    BY <1>4
  <2>3. \A i \in 1 .. L - 1 : Held(h, gs)[i] = Held(h, fs)[i]
    BY <1>5, <1>8, <2>2
  <2>. QED  BY <1>1, <1>4, <2>1, <2>3, FitsTake DEF qs
<1>11. Fits(Len(gs), Held(h, gs), qs)
  BY <1>3, <1>8, <1>10, FitsEnter
<1>12. \A i \in 1 .. Len(gs) - 1 : code[gs[i].pc].op = "CALL"
  <2>1. \A i \in 1 .. L : i \in 1 .. L - 1 \/ i = L
    BY <1>4
  <2>2. code[fs[L].pc].op = "CALL"
    BY DEF L
  <2>3. \A i \in 1 .. L : code[gs[i].pc].op = "CALL"
    BY <1>1, <1>3, <2>1, <2>2
  <2>4. Len(gs) - 1 = L
    BY <1>3, <1>4
  <2>. QED  BY <2>3, <2>4
<1>. QED  BY <1>1, <1>11, <1>12 DEF Stacked, gs, qs

LEMMA Leaving ==
  ASSUME NEW fs, NEW ps, IsSequence(fs), Len(fs) # 0, Stacked(fs, ps),
         \A h : Flow(h) => h[fs[Len(fs)].pc] = 0
  PROVE  /\ \A k \in 1 .. Len(ps) : ps[k].depth \in 1 .. Len(fs) - 1
         /\ \A gs, y : /\ IsSequence(gs) /\ Len(gs) = Len(fs) - 1 /\ Len(gs) # 0
                       /\ gs[Len(gs)] = y /\ y.pc = fs[Len(gs)].pc + 1
                       /\ \A i \in 1 .. Len(gs) - 1 : gs[i] = fs[i]
                       => Stacked(gs, ps)
<1>. DEFINE L == Len(fs)
<1>1. PICK h : /\ Flow(h) /\ Fits(L, Held(h, fs), ps)
               /\ \A i \in 1 .. L - 1 : code[fs[i].pc].op = "CALL"
  BY DEF Stacked
<1>2. L \in Nat \ {0} /\ L \in 1 .. L
  BY DEF IsSequence
<1>3. \A i \in 1 .. L : Held(h, fs)[i] = IF i = L THEN h[fs[i].pc] ELSE h[fs[i].pc + 1]
  BY DEF Held
<1>4. h[fs[L].pc] = 0
  BY <1>1
<1>. HIDE DEF L
<1>5. Held(h, fs)[L] = 0
  BY <1>2, <1>3, <1>4
<1>6. \A k \in 1 .. Len(ps) : ps[k].depth \in 1 .. L - 1
  BY <1>1, <1>2, <1>5, FitsLeave
<1>7. ASSUME NEW gs, NEW y, IsSequence(gs), Len(gs) = L - 1, Len(gs) # 0,
             gs[Len(gs)] = y, y.pc = fs[Len(gs)].pc + 1,
             \A i \in 1 .. Len(gs) - 1 : gs[i] = fs[i]
      PROVE  Stacked(gs, ps)
  <2>. DEFINE M == Len(gs)
  <2>1. \A i \in 1 .. M : Held(h, gs)[i] = IF i = M THEN h[gs[i].pc] ELSE h[gs[i].pc + 1]
    BY DEF Held
  <2>2. M = L - 1 /\ M \in Nat \ {0}
    BY <1>2, <1>7
  <2>3. gs[M].pc = fs[M].pc + 1 /\ \A i \in 1 .. M - 1 : gs[i] = fs[i]
    BY <1>7
  <2>. HIDE DEF M
  <2>4. \A i \in 1 .. M : i \in 1 .. L /\ i # L /\ (i = M \/ i \in 1 .. M - 1)
    BY <1>2, <2>2
  <2>5. ASSUME NEW i \in 1 .. M
        PROVE  Held(h, gs)[i] = Held(h, fs)[i]
    <3>1. Held(h, fs)[i] = h[fs[i].pc + 1]
      BY <1>3, <2>4
    <3>2. CASE i = M
      BY <2>1, <2>3, <3>1, <3>2
    <3>3. CASE i # M
      <4>1. i \in 1 .. M - 1
        BY <2>4, <3>3
      <4>. QED  BY <2>1, <2>3, <3>1, <3>3, <4>1
    <3>. QED  BY <3>2, <3>3
  <2>6. Fits(M, Held(h, gs), ps)
    <3>1. \A i \in 1 .. L - 1 : Held(h, gs)[i] = Held(h, fs)[i]
      BY <2>2, <2>5
    <3>. QED  BY <1>1, <1>2, <1>5, <2>2, <3>1, FitsLeave
  <2>7. \A i \in 1 .. M - 1 : code[gs[i].pc].op = "CALL"
    <3>1. \A i \in 1 .. M - 1 : i \in 1 .. L - 1
      BY <1>2, <2>2
    <3>. QED  BY <1>1, <2>3, <3>1
  <2>. QED  BY <1>1, <2>6, <2>7 DEF Stacked, M
<1>. QED  BY <1>6, <1>7 DEF L

-----------------------------------------------------------------------------
(* The machine's calls, each at an instruction.                            *)
FrameOK(f) ==
    /\ \E pc, vs, d : f = [pc |-> pc, vars |-> vs, dst |-> d]
    /\ f.pc \in 1 .. Len(code)
    /\ \A x \in DOMAIN f.vars : f.vars[x] \in Value

FramesOK(fs) == IsSequence(fs) /\ \A i \in 1 .. Len(fs) : FrameOK(fs[i])

Valued(s) == IsSequence(s) /\ \A i \in 1 .. Len(s) : s[i].value \in Value

MachineInv ==
    /\ tac \in {"none", "running", "done", "crashed", "undefined"}
    /\ status # "start" \/ tac # "none" => todo = <<>>
    /\ tac = "none" => frames = <<>> /\ pushed = <<>>
    /\ FramesOK(frames) /\ Valued(pushed)
    /\ IsSequence(printed) /\ \A i \in 1 .. Len(printed) : printed[i] \in Value
    /\ tac_exit \in IntMin .. IntMax
    /\ tac = "running" => Len(frames) # 0 /\ Stacked(frames, pushed)

LEMMA MachineInit == Init => MachineInv
<1>. SUFFICES ASSUME Init PROVE MachineInv
  OBVIOUS
<1>1. /\ status = "start" /\ tac = "none" /\ frames = <<>> /\ pushed = <<>>
      /\ printed = <<>> /\ tac_exit = 0
  BY DEF Init, Run!Init
<1>2. 0 \in IntMin .. IntMax
  BY ValuesAssumption DEF IntMin
<1>3. IsSequence(<<>>) /\ Len(<<>>) = 0
  BY DEF IsSequence
<1>4. FramesOK(frames) /\ Valued(pushed)
  BY <1>1, <1>3 DEF FramesOK, Valued
<1>. QED  BY <1>1, <1>2, <1>3, <1>4 DEF MachineInv

(* The function a call finds begins at a line of its own.                  *)
LEMMA FoundIsChild ==
  ASSUME program \in Roots, NEW name, FindFunction(program, name) # NoNode
  PROVE  \E i \in 1 .. Children(program) :
            /\ FindFunction(program, name) = Child(program, i)
            /\ Ast[Child(program, i)].name = name
            /\ FindFunction(program, name) \in Node
<1>. DEFINE hits == {i \in 1 .. Children(program) :
                        /\ Kind(Child(program, i)) = "FUNC_DECL"
                        /\ Ast[Child(program, i)].name = name}
            First(i) == i \in hits /\ \A j \in hits : i <= j
            least == CHOOSE i \in hits : First(i)
<1>1. \E i \in hits : First(i)
  BY DEF FindFunction
<1>2. FindFunction(program, name) = Child(program, least)
  BY <1>1 DEF FindFunction
<1>3. least \in hits
  BY <1>1
<1>4. program \in Node
  BY AstAssumption
<1>. HIDE DEF least
<1>. QED  BY <1>2, <1>3, <1>4, NodeIs

LEMMA HeadIs ==
  ASSUME GenInv, FlowInv, ShapeInv, todo = <<>>,
         NEW name, FindFunction(program, name) # NoNode
  PROVE  LET pc == LineOf("FUNC", name, 0) + 1
         IN  /\ pc \in 1 .. Len(code)
             /\ \A h : Flow(h) => h[pc] = 0
<1>. DEFINE l == LineOf("FUNC", name, 0)
<1>0. IsSequence(code) /\ program \in Roots
  BY DEF GenInv
<1>1. \E k \in 1 .. Len(code) : HeadOf(code[k], name)
  BY <1>0, FoundIsChild, TextIs
<1>2. l \in 1 .. Len(code) /\ code[l].op = "FUNC"
  BY <1>0, <1>1, LineIs DEF HeadOf
<1>3. Len(code) \in Nat /\ code # <<>>
  BY <1>0, <1>2 DEF IsSequence
<1>4. code[Len(code)].op = "END"
  BY <1>3, TextIs
<1>. HIDE DEF l
<1>5. l + 1 \in 1 .. Len(code)
  <2>1. l # Len(code)
    BY <1>2, <1>4
  <2>. QED  BY <1>2, <1>3, <2>1
<1>6. ASSUME NEW h, Flow(h)
      PROVE  h[l + 1] = 0
  BY <1>2, <1>6 DEF Flow, Moves
<1>. QED  BY <1>5, <1>6 DEF l

LEMMA FitsNone == ASSUME NEW H PROVE Fits(0, H, <<>>)
<1>. DEFINE b == [i \in 0 .. 0 |-> 0]
<1>1. b \in [0 .. 0 -> Nat] /\ \A i \in 0 .. 0 : b[i] = 0
  OBVIOUS
<1>. HIDE DEF b
<1>2. Len(<<>>) = 0 /\ IsSequence(<<>>)
  BY DEF IsSequence
<1>3. Shares(b, 0, H, <<>>)
  BY <1>1, <1>2 DEF Shares
<1>. QED  BY <1>2, <1>3 DEF Fits

LEMMA Started ==
  ASSUME GenInv, FlowInv, ShapeInv, MachineInv, Start
  PROVE  MachineInv'
<1>. DEFINE f == Frame("main", NoVars, "")
            pc == LineOf("FUNC", "main", 0) + 1
<1>1. /\ tac = "none" /\ status = "done" /\ FindFunction(program, "main") # NoNode
      /\ tac' = "running" /\ frames' = <<f>>
      /\ UNCHANGED <<code, program, todo, status, pushed, printed, tac_exit>>
  BY DEF Start, genVars, runVars, Run!MainFunction, Run!FindFunction, FindFunction,
         Run!Children, Children, Run!Child, Child, Run!Kind, Kind, Run!NoNode, NoNode
<1>2. todo = <<>> /\ pushed = <<>>
  BY <1>1 DEF MachineInv
<1>3. pc \in 1 .. Len(code) /\ \A h : Flow(h) => h[pc] = 0
  BY <1>1, <1>2, HeadIs
<1>4. /\ f = [pc |-> pc, vars |-> NoVars, dst |-> ""] /\ f.pc = pc /\ f.vars = NoVars
      /\ DOMAIN NoVars = {}
  BY DEF Frame, NoVars
<1>. HIDE DEF pc
<1>5. FrameOK(f)
  BY <1>3, <1>4 DEF FrameOK
<1>. HIDE DEF f
<1>. DEFINE fs == <<f>>
<1>6. IsSequence(fs) /\ Len(fs) = 1 /\ fs[1] = f
  <2>1. fs \in Seq({f})
    OBVIOUS
  <2>. QED  BY <2>1 DEF IsSequence
<1>. HIDE DEF fs
<1>7. Stacked(fs, <<>>)
  <2>1. PICK h : Flow(h)
    BY DEF FlowInv
  <2>2. Held(h, fs)[1] = 0
    <3>1. h[f.pc] = 0
      BY <1>3, <1>4, <2>1
    <3>2. 1 \in 1 .. 1
      OBVIOUS
    <3>3. Held(h, fs)[1] = h[fs[1].pc]
      BY <1>6, <3>2, Zenon DEF Held
    <3>. QED  BY <1>6, <3>1, <3>3
  <2>3. Fits(0 + 1, Held(h, fs), <<>>)
    BY <2>2, FitsNone, FitsEnter
  <2>. QED  BY <1>6, <2>1, <2>3 DEF Stacked
<1>8. FramesOK(fs)
  BY <1>5, <1>6 DEF FramesOK
<1>9. FramesOK(frames') /\ Stacked(frames', pushed') /\ Len(frames') # 0
  BY <1>1, <1>2, <1>6, <1>7, <1>8 DEF fs
<1>10. FramesOK(frames)' /\ Stacked(frames, pushed)'
  BY <1>1, <1>9 DEF FramesOK, FrameOK, Stacked, Flow, Held
<1>. QED  BY <1>1, <1>2, <1>9, <1>10 DEF MachineInv, Valued

LEMMA TopIs ==
  ASSUME GenInv, FlowInv, ShapeInv, MachineInv, tac = "running"
  PROVE  /\ todo = <<>> /\ Len(frames) \in Nat \ {0} /\ FramesOK(frames)
         /\ FrameOK(Here) /\ Stacked(frames, pushed)
         /\ Lits(Line.args) /\ Len(Line.args) \in Nat
         /\ DOMAIN Line.args = 1 .. Len(Line.args)
         /\ InsOK(Line, Len(Line.args))
         /\ Line.op # "END" => Here.pc + 1 \in 1 .. Len(code)
         /\ \A h : Flow(h) => /\ h[Here.pc] \in Nat /\ h[Here.pc + 1] \in Nat
                              /\ Moves(Line.op, Line.num, h[Here.pc], h[Here.pc + 1])
<1>1. /\ todo = <<>> /\ Len(frames) # 0 /\ FramesOK(frames) /\ Stacked(frames, pushed)
  BY DEF MachineInv
<1>2. Len(frames) \in Nat \ {0}
  BY <1>1 DEF FramesOK, IsSequence
<1>3. FrameOK(Here)
  BY <1>1, <1>2 DEF FramesOK, Here
<1>4. Here.pc \in 1 .. Len(code)
  BY <1>3 DEF FrameOK
<1>5. Lits(Line.args) /\ InsOK(Line, Len(Line.args))
  BY <1>4 DEF FlowInv, Line
<1>6. Len(Line.args) \in Nat /\ DOMAIN Line.args = 1 .. Len(Line.args)
  BY <1>5 DEF Lits, IsSequence
<1>7. Len(code) \in Nat
  BY DEF GenInv, IsSequence
<1>8. ASSUME Line.op # "END"
      PROVE  Here.pc + 1 \in 1 .. Len(code)
  <2>1. code # <<>>
    <3>1. Len(code) # 0
      BY <1>4, <1>7
    <3>. QED  BY <3>1
  <2>2. code[Len(code)].op = "END"
    BY <1>1, <2>1, TextIs
  <2>3. Here.pc # Len(code)
    BY <1>8, <2>2 DEF Line
  <2>. QED  BY <1>4, <1>7, <2>3
<1>9. ASSUME NEW h, Flow(h)
      PROVE  /\ h[Here.pc] \in Nat /\ h[Here.pc + 1] \in Nat
             /\ Moves(Line.op, Line.num, h[Here.pc], h[Here.pc + 1])
  BY <1>4, <1>7, <1>9 DEF Flow, Line
<1>. QED  BY <1>1, <1>2, <1>3, <1>5, <1>6, <1>8, <1>9

LEMMA ReadIsValue ==
  ASSUME FrameOK(Here), Lits(Line.args), DOMAIN Line.args = 1 .. Len(Line.args),
         Operands, NEW k \in 1 .. Len(Line.args)
  PROVE  Read(Line.args[k]) \in Value
<1>. DEFINE a == Line.args[k]
<1>1. Known(a) /\ a.lit \in Value
  BY DEF Operands, Lits
<1>. HIDE DEF a
<1>2. \A x \in DOMAIN Here.vars : Here.vars[x] \in Value
  BY DEF FrameOK
<1>3. Read(a) \in Value
  BY <1>1, <1>2, Zenon DEF Known, Read
<1>. QED  BY <1>3 DEF a

LEMMA FramesTopped ==
  ASSUME NEW fs, NEW gs, NEW y, FramesOK(fs), Topped(gs, fs, y), FrameOK(y)
  PROVE  FramesOK(gs) /\ Len(gs) # 0
<1>1. /\ IsSequence(gs) /\ Len(fs) \in Nat \ {0} /\ Len(gs) = Len(fs)
      /\ gs[Len(fs)] = y /\ \A i \in 1 .. Len(fs) - 1 : gs[i] = fs[i]
  BY DEF Topped
<1>2. ASSUME NEW i \in 1 .. Len(gs)
      PROVE  FrameOK(gs[i])
  <2>1. CASE i = Len(fs)
    BY <1>1, <2>1
  <2>2. CASE i # Len(fs)
    <3>1. i \in 1 .. Len(fs) - 1 /\ i \in 1 .. Len(fs)
      BY <1>1, <2>2
    <3>2. gs[i] = fs[i]
      BY <1>1, <3>1
    <3>. QED  BY <3>1, <3>2 DEF FramesOK
  <2>. QED  BY <2>1, <2>2
<1>. QED  BY <1>1, <1>2 DEF FramesOK

LEMMA GoesIs ==
  ASSUME NEW fs, FramesOK(fs), Len(fs) # 0, NEW pc
  PROVE  LET top == fs[Len(fs)]
         IN  Topped([fs EXCEPT ![Len(fs)].pc = pc], fs,
                    [pc |-> pc, vars |-> top.vars, dst |-> top.dst])
<1>. DEFINE L == Len(fs)
            top == fs[L]
            y == [pc |-> pc, vars |-> top.vars, dst |-> top.dst]
            gs == [fs EXCEPT ![L].pc = pc]
<1>1. PICK S : fs \in Seq(S)
  BY DEF FramesOK, IsSequence
<1>2. L \in Nat \ {0}
  BY <1>1
<1>3. FrameOK(top)
  BY <1>2 DEF FramesOK
<1>4. PICK p, vs, d : top = [pc |-> p, vars |-> vs, dst |-> d]
  BY <1>3 DEF FrameOK
<1>5. [top EXCEPT !.pc = pc] = y
  BY <1>4
<1>6. gs = [fs EXCEPT ![L] = y]
  BY <1>5
<1>. HIDE DEF y, gs
<1>7. gs \in Seq(S \cup {y}) /\ Len(gs) = L /\ gs[L] = y
      /\ \A i \in 1 .. L - 1 : gs[i] = fs[i]
  BY <1>1, <1>2, <1>6
<1>8. Topped(gs, fs, y)
  BY <1>2, <1>7 DEF Topped, IsSequence
<1>. QED  BY <1>8 DEF y, gs

LEMMA SetsIs ==
  ASSUME NEW fs, FramesOK(fs), Len(fs) # 0, NEW x, NEW v
  PROVE  LET top == fs[Len(fs)]
         IN  Topped(Sets(fs, x, v), fs,
                    [pc |-> top.pc + 1, vars |-> Bound(top.vars, x, v), dst |-> top.dst])
<1>. DEFINE L == Len(fs)
            top == fs[L]
            vs == Bound(top.vars, x, v)
            y == [pc |-> top.pc + 1, vars |-> vs, dst |-> top.dst]
            gs == Sets(fs, x, v)
<1>1. PICK S : fs \in Seq(S)
  BY DEF FramesOK, IsSequence
<1>2. L \in Nat \ {0} /\ L \in DOMAIN fs
  BY <1>1
<1>3. FrameOK(top)
  BY <1>2 DEF FramesOK
<1>4. PICK p, ws, d : top = [pc |-> p, vars |-> ws, dst |-> d]
  BY <1>3 DEF FrameOK
<1>. DEFINE z == [top EXCEPT !.pc = top.pc + 1]
<1>5. z = [pc |-> top.pc + 1, vars |-> top.vars, dst |-> top.dst]
  BY <1>4
<1>. HIDE DEF vs, z
<1>6. [z EXCEPT !.vars = vs] = y
  BY <1>5
<1>7. gs = [[fs EXCEPT ![L] = z] EXCEPT ![L] = y]
  <2>. DEFINE hs == [fs EXCEPT ![L] = z]
  <2>1. hs[L] = z
    BY <1>2
  <2>2. hs[L].vars = top.vars
    BY <1>5, <2>1
  <2>3. gs = [[fs EXCEPT ![L] = z] EXCEPT ![L] = [z EXCEPT !.vars = Bound(hs[L].vars, x, v)]]
    BY <2>1 DEF Sets, z
  <2>. QED  BY <1>6, <2>2, <2>3 DEF vs
<1>. HIDE DEF y, gs, z
<1>8. gs \in Seq(S \cup {y, z}) /\ Len(gs) = L /\ gs[L] = y
      /\ \A i \in 1 .. L - 1 : gs[i] = fs[i]
  BY <1>1, <1>2, <1>7
<1>9. Topped(gs, fs, y)
  BY <1>2, <1>8 DEF Topped, IsSequence
<1>. QED  BY <1>9 DEF y, gs, vs

(* The variables after an assignment.                                      *)
LEMMA SetFrameOK ==
  ASSUME NEW f, FrameOK(f), f.pc + 1 \in 1 .. Len(code), NEW x, NEW v \in Value
  PROVE  FrameOK([pc |-> f.pc + 1, vars |-> Bound(f.vars, x, v), dst |-> f.dst])
<1>. DEFINE vs == Bound(f.vars, x, v)
<1>1. \A w \in DOMAIN vs : vs[w] \in Value
  BY DEF Bound, FrameOK
<1>. HIDE DEF vs
<1>2. FrameOK([pc |-> f.pc + 1, vars |-> vs, dst |-> f.dst])
  BY <1>1 DEF FrameOK
<1>. QED  BY <1>2 DEF vs

-----------------------------------------------------------------------------
(* The interpreter, together with what is proved of it.                    *)
Runner == INSTANCE InterpProofs WITH root <- program

LEMMA RunnerTree ==
  /\ Runner!NoNode = NoNode /\ Runner!Node = Node /\ Runner!AstNode = AstNode
  /\ \A n : Runner!Kind(n) = Kind(n)
  /\ \A n : Runner!WellShaped(n) = WellShaped(n)
<1>1. Runner!NoNode = NoNode /\ Runner!Node = Node
  BY DEF Runner!NoNode, NoNode, Runner!Node, Node
<1>2. Runner!AstNode = AstNode
  BY DEF Runner!AstNode, AstNode, Runner!Node, Node,
         Runner!NodeKind, NodeKind, Runner!StmtKind, StmtKind,
         Runner!ExprKind, ExprKind, Runner!DataType, DataType,
         Runner!BinOp, BinOp, Runner!RelOp, RelOp, Runner!UnaryOp, UnaryOp,
         Runner!NoOp, NoOp, Runner!Param, Param
<1>3. \A n : Runner!Kind(n) = Kind(n)
  BY DEF Kind, Runner!Kind
<1>4. \A n : Runner!WellShaped(n) = WellShaped(n)
  BY DEF Runner!Kind, Kind, Runner!WellShaped, WellShaped,
         Runner!WellCounted, WellCounted, Runner!Children, Children,
         Runner!Child, Child, Runner!ExprChildren, ExprChildren,
         Runner!StmtKind, StmtKind, Runner!ExprKind, ExprKind
<1>. QED  BY <1>1, <1>2, <1>3, <1>4

LEMMA RunnerSubtree ==
  /\ \A n : Runner!Subtree(n) = Subtree(n) /\ Runner!Parts(n) = Parts(n)
  /\ \A n : Runner!Children(n) = Children(n)
  /\ \A n, i : Runner!Child(n, i) = Child(n, i)
<1>1. \A n : Runner!Subtree(n) = Subtree(n) /\ Runner!Parts(n) = Parts(n)
  BY DEF Subtree, Runner!Subtree, Runner!Parts, Parts, Runner!Children, Children,
         Runner!Child, Child, Runner!Node, Node
<1>2. /\ \A n : Runner!Children(n) = Children(n)
      /\ \A n, i : Runner!Child(n, i) = Child(n, i)
  BY DEF Runner!Children, Children, Runner!Child, Child
<1>. QED  BY <1>1, <1>2

LEMMA RunnerFinite == \A S : Runner!IsFiniteSet(S) = IsFiniteSet(S)
BY DEF IsFiniteSet, Runner!IsFiniteSet

LEMMA RunnerAssumes ==
  /\ Runner!AstAssumption /\ Runner!TreeAssumption
  /\ Runner!ValuesAssumption /\ Runner!EnvAssumption
<1>1. Runner!AstAssumption
  BY AstAssumption, RunnerTree
<1>2. Runner!TreeAssumption
  BY TreeAssumption, RunnerTree, RunnerSubtree, RunnerFinite
<1>3. Runner!ValuesAssumption
  BY ValuesAssumption, RunnerTree DEF IntMin, Runner!IntMin
<1>4. Runner!EnvAssumption
  BY TacAssumption
<1>. QED  BY <1>1, <1>2, <1>3, <1>4

LEMMA RunnerValues ==
  /\ Runner!Value = Value /\ Runner!Fault = Fault
  /\ \A op, l, r : Runner!BinaryResults(op, l, r) = BinaryResults(op, l, r)
  /\ \A op, v : Runner!UnaryResults(op, v) = UnaryResults(op, v)
<1>. USE DEF Abs, Runner!Abs, Bool, Runner!Bool, Fault, Runner!Fault,
             IntMin, Runner!IntMin, IntZero, Runner!IntZero,
             Typed, Runner!Typed, Wrap, Runner!Wrap
<1>1. Runner!Value = Value /\ Runner!Fault = Fault
  BY DEF Value, Runner!Value, DataType, Runner!DataType
<1>2. \A op, isFloat, a, b : Runner!Numeric(op, isFloat, a, b) = Numeric(op, isFloat, a, b)
  BY DEF Compare, Runner!Compare, Divided, Runner!Divided, Numeric, Runner!Numeric,
         Quot, Runner!Quot, Rem, Runner!Rem
<1>3. \A op, l, r : Runner!BinaryResults(op, l, r) = BinaryResults(op, l, r)
  BY <1>2 DEF Abstracted, Runner!Abstracted, BinaryResults, Runner!BinaryResults,
     NumericResults, Runner!NumericResults, Nums, Runner!Nums, RelOp, Runner!RelOp
<1>4. \A op, v : Runner!UnaryResults(op, v) = UnaryResults(op, v)
  BY DEF Abstracted, Runner!Abstracted, UnaryResults, Runner!UnaryResults,
     Nums, Runner!Nums
<1>. QED  BY <1>1, <1>3, <1>4

LEMMA ResultsAreValues ==
  ASSUME FrameOK(Here), Lits(Line.args), DOMAIN Line.args = 1 .. Len(Line.args),
         InsOK(Line, Len(Line.args)), Operands,
         Line.op \in {"COPY", "UNARY", "BINARY"}, NEW v \in Results
  PROVE  v \in Value \cup {Fault}
<1>1. /\ Line.op \in {"COPY", "UNARY"} => Len(Line.args) = 1
      /\ Line.op = "BINARY" => Len(Line.args) = 2
  BY DEF InsOK, Uses
<1>2. Read(Line.args[1]) \in Value
  BY <1>1, ReadIsValue
<1>3. CASE Line.op = "COPY"
  BY <1>2, <1>3 DEF Results, Operand
<1>4. CASE Line.op = "UNARY"
  <2>1. v \in Runner!UnaryResults(Line.sym, Operand) /\ Operand \in Runner!Value
    BY <1>2, <1>4, RunnerValues DEF Results, Operand
  <2>2. v \in Runner!Value \cup {Runner!Fault}
    BY <2>1, Runner!UnaryIsValue, RunnerAssumes
  <2>. QED  BY <2>2, RunnerValues
<1>5. CASE Line.op = "BINARY"
  <2>0. Read(Line.args[2]) \in Value
    BY <1>1, <1>5, ReadIsValue
  <2>1. /\ v \in Runner!BinaryResults(Line.sym, Operand, Read(Line.args[2]))
        /\ Operand \in Runner!Value /\ Read(Line.args[2]) \in Runner!Value
    BY <1>2, <1>5, <2>0, RunnerValues DEF Results, Operand
  <2>2. v \in Runner!Value \cup {Runner!Fault}
    BY <2>1, Runner!BinaryIsValue, RunnerAssumes
  <2>. QED  BY <2>2, RunnerValues
<1>. QED  BY <1>3, <1>4, <1>5

(* The machine goes on, or ends otherwise than by a return.                *)
LEMMA StillRuns ==
  ASSUME MachineInv, tac = "running",
         UNCHANGED <<code, todo, status, tac, tac_exit>>,
         FramesOK(frames'), Len(frames') # 0, Stacked(frames', pushed'), Valued(pushed'),
         IsSequence(printed'), \A i \in 1 .. Len(printed') : printed'[i] \in Value
  PROVE  MachineInv'
<1>1. todo = <<>> /\ tac_exit \in IntMin .. IntMax
  BY DEF MachineInv
<1>2. FramesOK(frames)' /\ Stacked(frames, pushed)'
  BY DEF FramesOK, FrameOK, Stacked, Flow, Held
<1>3. IsSequence(printed)' /\ Valued(pushed)'
  BY DEF IsSequence, Valued
<1>. QED  BY <1>1, <1>2, <1>3 DEF MachineInv

LEMMA EndsOtherwise ==
  ASSUME MachineInv, tac = "running", UNCHANGED <<code, todo, status>>,
         NEW how \in {"crashed", "undefined"}, Ends(how)
  PROVE  MachineInv'
BY DEF MachineInv, Ends, FramesOK, FrameOK, Valued

(* The running activation goes to pc, where it holds as much.              *)
LEMMA GoesOn ==
  ASSUME MachineInv, tac = "running", UNCHANGED <<code, todo, status, pushed>>,
         IsSequence(printed'), \A i \in 1 .. Len(printed') : printed'[i] \in Value,
         NEW pc \in 1 .. Len(code), Goes(pc),
         \A h : Flow(h) => h[pc] = h[Here.pc]
  PROVE  MachineInv'
<1>. DEFINE y == [pc |-> pc, vars |-> Here.vars, dst |-> Here.dst]
            gs == [frames EXCEPT ![Len(frames)].pc = pc]
<1>1. FramesOK(frames) /\ Len(frames) # 0 /\ Stacked(frames, pushed) /\ Valued(pushed)
  BY DEF MachineInv
<1>2. frames' = gs /\ UNCHANGED <<tac, tac_exit>>
  BY DEF Goes, Frames
<1>3. Topped(gs, frames, y)
  BY <1>1, GoesIs DEF Here
<1>4. FrameOK(Here)
  BY <1>1 DEF FramesOK, IsSequence, Here
<1>5. y.pc = pc /\ y.vars = Here.vars /\ FrameOK(y)
  BY <1>4 DEF FrameOK
<1>. HIDE DEF y, gs
<1>6. FramesOK(gs) /\ Len(gs) # 0
  BY <1>1, <1>3, <1>5, FramesTopped
<1>7. Stacked(gs, pushed)
  BY <1>1, <1>3, <1>5, TopMoves DEF Here
<1>. QED  BY <1>1, <1>2, <1>6, <1>7, StillRuns

-----------------------------------------------------------------------------
(* Each step of the machine.                                               *)
AllInv == GenInv /\ FlowInv /\ ShapeInv /\ MachineInv

LEMMA OperateKeeps ==
  ASSUME AllInv, Operate, UNCHANGED <<genVars, runVars>>
  PROVE  MachineInv'
<1>. DEFINE L == Len(frames)
<1>1. tac = "running" /\ Line.op \in {"COPY", "UNARY", "BINARY"} /\ Operands
  BY DEF Operate, At
<1>2. PICK v \in Results : IF v = Fault THEN Ends("crashed")
                           ELSE Frames(Sets(frames, Line.dst, v)) /\ UNCHANGED <<pushed, printed>>
  BY DEF Operate
<1>3. UNCHANGED <<code, todo, status>> /\ MachineInv
  BY DEF genVars, runVars, AllInv
<1>4. CASE v = Fault
  BY <1>1, <1>2, <1>3, <1>4, EndsOtherwise
<1>5. CASE v # Fault
  <2>. DEFINE y == [pc |-> Here.pc + 1, vars |-> Bound(Here.vars, Line.dst, v), dst |-> Here.dst]
              gs == Sets(frames, Line.dst, v)
  <2>1. frames' = gs /\ UNCHANGED <<tac, tac_exit, pushed, printed>>
    BY <1>2, <1>5 DEF Frames
  <2>2. /\ FramesOK(frames) /\ L \in Nat \ {0} /\ FrameOK(Here) /\ Stacked(frames, pushed)
        /\ Here.pc + 1 \in 1 .. Len(code)
    BY <1>1, TopIs DEF AllInv
  <2>3. v \in Value
    <3>1. v \in Value \cup {Fault}
      BY <1>1, TopIs, ResultsAreValues DEF AllInv
    <3>. QED  BY <1>5, <3>1
  <2>4. y.pc = Here.pc + 1 /\ FrameOK(y)
    BY <2>2, <2>3, SetFrameOK
  <2>5. Topped(gs, frames, y)
    BY <2>2, SetsIs DEF Here
  <2>. HIDE DEF y, gs
  <2>6. FramesOK(gs) /\ Len(gs) # 0
    BY <2>2, <2>4, <2>5, FramesTopped
  <2>7. ASSUME NEW h, Flow(h)
        PROVE  h[y.pc] = h[frames[L].pc]
    <3>1. /\ h[Here.pc] \in Nat /\ h[Here.pc + 1] \in Nat
          /\ Moves(Line.op, Line.num, h[Here.pc], h[Here.pc + 1])
      BY <1>1, <2>7, TopIs DEF AllInv
    <3>2. h[Here.pc + 1] = h[Here.pc]
      BY <1>1, <3>1 DEF Moves
    <3>. QED  BY <2>4, <3>2 DEF Here
  <2>8. Stacked(gs, pushed)
    BY <2>2, <2>5, <2>7, TopMoves
  <2>9. /\ Valued(pushed') /\ IsSequence(printed')
        /\ \A i \in 1 .. Len(printed') : printed'[i] \in Value
    BY <1>3, <2>1 DEF MachineInv
  <2>. QED  BY <1>1, <1>3, <2>1, <2>6, <2>8, <2>9, StillRuns
<1>. QED  BY <1>4, <1>5

LEMMA PrintKeeps ==
  ASSUME AllInv, TacPrint, UNCHANGED <<genVars, runVars>>
  PROVE  MachineInv'
<1>1. /\ tac = "running" /\ Line.op = "PRINT" /\ Operands
      /\ printed' = Append(printed, Operand) /\ Goes(Here.pc + 1) /\ UNCHANGED pushed
  BY DEF TacPrint, At
<1>2. UNCHANGED <<code, todo, status>> /\ MachineInv
  BY DEF genVars, runVars, AllInv
<1>3. /\ FrameOK(Here) /\ Here.pc + 1 \in 1 .. Len(code)
      /\ Lits(Line.args) /\ DOMAIN Line.args = 1 .. Len(Line.args)
      /\ InsOK(Line, Len(Line.args))
      /\ \A h : Flow(h) => /\ h[Here.pc] \in Nat /\ h[Here.pc + 1] \in Nat
                           /\ Moves(Line.op, Line.num, h[Here.pc], h[Here.pc + 1])
  BY <1>1, TopIs DEF AllInv
<1>4. Operand \in Value
  <2>0. Len(Line.args) = 1
    BY <1>1, <1>3 DEF InsOK, Uses
  <2>1. 1 \in 1 .. Len(Line.args)
    BY <2>0
  <2>. QED  BY <1>1, <1>3, <2>1, ReadIsValue DEF Operand
<1>5. IsSequence(printed') /\ \A i \in 1 .. Len(printed') : printed'[i] \in Value
  <2>. DEFINE x == Operand
  <2>1. PICK S : printed \in Seq(S)
    BY <1>2 DEF MachineInv, IsSequence
  <2>2. \A i \in 1 .. Len(printed) : printed[i] \in Value
    BY <1>2 DEF MachineInv
  <2>. HIDE DEF x
  <2>3. /\ Append(printed, x) \in Seq(S \cup {x}) /\ Len(printed) \in Nat
        /\ Len(Append(printed, x)) = Len(printed) + 1
        /\ Append(printed, x)[Len(printed) + 1] = x
        /\ \A i \in 1 .. Len(printed) : Append(printed, x)[i] = printed[i]
    BY <2>1
  <2>4. x \in Value
    BY <1>4 DEF x
  <2>5. \A i \in 1 .. Len(printed) + 1 : Append(printed, x)[i] \in Value
    BY <2>2, <2>3, <2>4
  <2>6. printed' = Append(printed, x)
    BY <1>1 DEF x
  <2>7. IsSequence(Append(printed, x))
    BY <2>3 DEF IsSequence
  <2>. QED  BY <2>3, <2>5, <2>6, <2>7
<1>6. \A h : Flow(h) => h[Here.pc + 1] = h[Here.pc]
  BY <1>1, <1>3 DEF Moves
<1>. QED  BY <1>1, <1>2, <1>3, <1>5, <1>6, GoesOn

LEMMA BranchKeeps ==
  ASSUME AllInv, Branch, UNCHANGED <<genVars, runVars>>
  PROVE  MachineInv'
<1>. DEFINE none == ""
            pc == LineOf("LABEL", none, Line.num)
<1>1. tac = "running" /\ Line.op \in {"LABEL", "GOTO", "IF_FALSE"} /\ UNCHANGED <<pushed, printed>>
  BY DEF Branch, At
<1>2. Goes(Here.pc + 1) \/ (Line.op # "LABEL" /\ Goes(pc))
  <2>1. CASE At("LABEL") /\ Goes(Here.pc + 1)
    BY <2>1
  <2>2. CASE At("GOTO") /\ Goes(pc)
    BY <2>2 DEF At
  <2>3. CASE /\ At("IF_FALSE")
             /\ \E taken \in Truths(Operand) : Goes(IF taken THEN Here.pc + 1 ELSE pc)
    <3>1. PICK taken : Goes(IF taken THEN Here.pc + 1 ELSE pc)
      BY <2>3
    <3>. HIDE DEF pc
    <3>2. Goes(Here.pc + 1) \/ Goes(pc)
      <4>1. CASE taken
        BY <3>1, <4>1
      <4>2. CASE ~taken
        BY <3>1, <4>2
      <4>. QED  BY <4>1, <4>2
    <3>. QED  BY <2>3, <3>2 DEF At
  <2>. QED  BY <2>1, <2>2, <2>3 DEF Branch
<1>3. UNCHANGED <<code, todo, status>> /\ MachineInv
  BY DEF genVars, runVars, AllInv
<1>4. IsSequence(printed') /\ \A i \in 1 .. Len(printed') : printed'[i] \in Value
  BY <1>1, <1>3 DEF MachineInv
<1>5. /\ todo = <<>> /\ FrameOK(Here) /\ Here.pc + 1 \in 1 .. Len(code)
      /\ \A h : Flow(h) => Moves(Line.op, Line.num, h[Here.pc], h[Here.pc + 1])
  BY <1>1, TopIs DEF AllInv
<1>6. \A h : Flow(h) => h[Here.pc + 1] = 0 /\ h[Here.pc] = 0
  BY <1>1, <1>5 DEF Moves
<1>7. ASSUME Goes(Here.pc + 1)
      PROVE  MachineInv'
  BY <1>1, <1>3, <1>4, <1>5, <1>6, <1>7, GoesOn
<1>8. ASSUME Line.op # "LABEL", Goes(pc)
      PROVE  MachineInv'
  <2>1. Here.pc \in 1 .. Len(code) /\ Line = code[Here.pc]
    BY <1>5 DEF FrameOK, Line
  <2>2. PICK l \in 1 .. Len(code) : /\ code[l].op = "LABEL" /\ Nameless(code[l].sym)
                                    /\ code[l].num = Line.num
    BY <1>1, <1>5, <1>8, <2>1, TextIs DEF AllInv
  <2>3. code[l].sym = none
    BY <2>2 DEF Nameless
  <2>. HIDE DEF none
  <2>4. IsSequence(code)
    BY DEF AllInv, GenInv
  <2>5. pc \in 1 .. Len(code) /\ code[pc].op = "LABEL"
    BY <2>2, <2>3, <2>4, LineIs
  <2>. HIDE DEF pc
  <2>6. \A h : Flow(h) => h[pc] = 0
    BY <2>5 DEF Flow, Moves
  <2>. QED  BY <1>1, <1>3, <1>4, <1>6, <1>8, <2>5, <2>6, GoesOn
<1>. QED  BY <1>2, <1>7, <1>8

LEMMA PushKeeps ==
  ASSUME AllInv, Push, UNCHANGED <<genVars, runVars>>
  PROVE  MachineInv'
<1>. DEFINE L == Len(frames)
            x == [depth |-> L, value |-> Operand]
            y == [pc |-> Here.pc + 1, vars |-> Here.vars, dst |-> Here.dst]
            gs == [frames EXCEPT ![L].pc = Here.pc + 1]
<1>1. /\ tac = "running" /\ Line.op = "PARAM" /\ Operands
      /\ pushed' = Append(pushed, x) /\ frames' = gs
      /\ UNCHANGED <<tac, tac_exit, printed>>
  BY DEF Push, At, Goes, Frames
<1>2. UNCHANGED <<code, todo, status>> /\ MachineInv
  BY DEF genVars, runVars, AllInv
<1>3. /\ L \in Nat \ {0} /\ FramesOK(frames) /\ Stacked(frames, pushed)
      /\ FrameOK(Here) /\ Here.pc + 1 \in 1 .. Len(code)
      /\ Lits(Line.args) /\ DOMAIN Line.args = 1 .. Len(Line.args)
      /\ InsOK(Line, Len(Line.args))
      /\ \A h : Flow(h) => /\ h[Here.pc] \in Nat /\ h[Here.pc + 1] \in Nat
                           /\ Moves(Line.op, Line.num, h[Here.pc], h[Here.pc + 1])
  BY <1>1, TopIs DEF AllInv
<1>4. Operand \in Value
  <2>0. Len(Line.args) = 1
    BY <1>1, <1>3 DEF InsOK, Uses
  <2>1. 1 \in 1 .. Len(Line.args)
    BY <2>0
  <2>. QED  BY <1>1, <1>3, <2>1, ReadIsValue DEF Operand
<1>5. x.depth = L /\ x.value \in Value
  BY <1>4
<1>6. y.pc = Here.pc + 1 /\ FrameOK(y)
  BY <1>3 DEF FrameOK
<1>7. Topped(gs, frames, y)
  BY <1>3, GoesIs DEF Here
<1>. HIDE DEF x, y, gs
<1>8. FramesOK(gs) /\ Len(gs) # 0
  BY <1>3, <1>6, <1>7, FramesTopped
<1>9. \A h : Flow(h) => h[y.pc] = h[frames[L].pc] + 1
  BY <1>1, <1>3, <1>6 DEF Moves, Here
<1>10. Stacked(gs, Append(pushed, x))
  BY <1>3, <1>5, <1>7, <1>9, TopPushes
<1>11. Valued(Append(pushed, x))
  <2>1. PICK S : pushed \in Seq(S)
    BY <1>2 DEF MachineInv, Valued, IsSequence
  <2>2. \A i \in 1 .. Len(pushed) : pushed[i].value \in Value
    BY <1>2 DEF MachineInv, Valued
  <2>3. /\ Append(pushed, x) \in Seq(S \cup {x}) /\ Len(pushed) \in Nat
        /\ Len(Append(pushed, x)) = Len(pushed) + 1
        /\ Append(pushed, x)[Len(pushed) + 1] = x
        /\ \A i \in 1 .. Len(pushed) : Append(pushed, x)[i] = pushed[i]
    BY <2>1
  <2>4. \A i \in 1 .. Len(pushed) + 1 : Append(pushed, x)[i].value \in Value
    BY <1>5, <2>2, <2>3
  <2>. QED  BY <2>3, <2>4 DEF Valued, IsSequence
<1>12. IsSequence(printed') /\ \A i \in 1 .. Len(printed') : printed'[i] \in Value
  BY <1>1, <1>2 DEF MachineInv
<1>. QED  BY <1>1, <1>2, <1>8, <1>10, <1>11, <1>12, StillRuns

(* What is left of the parameters, and those a call takes.                 *)
LEMMA ValuedSplit ==
  ASSUME NEW s, Valued(s), NEW n \in Nat, n <= Len(s)
  PROVE  /\ Valued(SubSeq(s, 1, Len(s) - n))
         /\ \A k \in Len(s) - n + 1 .. Len(s) : s[k].value \in Value
<1>. DEFINE t == SubSeq(s, 1, Len(s) - n)
<1>1. PICK S : s \in Seq(S)
  BY DEF Valued, IsSequence
<1>2. /\ t \in Seq(S) /\ Len(t) = Len(s) - n /\ Len(s) \in Nat
      /\ \A i \in 1 .. Len(s) - n : t[i] = s[i]
  BY <1>1
<1>3. \A i \in 1 .. Len(s) : s[i].value \in Value
  BY DEF Valued
<1>. HIDE DEF t
<1>4. \A i \in 1 .. Len(t) : t[i].value \in Value
  BY <1>2, <1>3
<1>5. Valued(t)
  BY <1>2, <1>4 DEF Valued, IsSequence
<1>6. \A k \in Len(s) - n + 1 .. Len(s) : s[k].value \in Value
  BY <1>2, <1>3
<1>. QED  BY <1>5, <1>6 DEF t

(* A set of numbers up to m has a greatest one.                            *)
LEMMA GreatestOf ==
  ASSUME NEW m \in Nat, NEW T \in SUBSET (1 .. m), T # {}
  PROVE  \E k \in T : \A j \in T : j <= k
<1>. DEFINE R == {m - k : k \in T}
<1>1. R \in SUBSET Nat /\ R # {}
  <2>1. \A k \in T : m - k \in Nat
    OBVIOUS
  <2>2. PICK k \in T : TRUE
    OBVIOUS
  <2>3. m - k \in R
    BY <2>2
  <2>. QED  BY <2>1, <2>3
<1>2. PICK r \in R : \A q \in R : r <= q
  BY <1>1, LeastOf
<1>3. PICK k \in T : r = m - k
  BY <1>2
<1>4. ASSUME NEW j \in T
      PROVE  j <= k
  <2>1. m - j \in R
    OBVIOUS
  <2>. HIDE DEF R
  <2>2. m - k <= m - j
    BY <1>2, <1>3, <2>1
  <2>. QED  BY <2>2
<1>. QED  BY <1>4

LEMMA BindingsAreValues ==
  ASSUME NEW params, Len(params) \in Nat, NEW n \in Nat, n <= Len(pushed), Valued(pushed)
  PROVE  \A x \in DOMAIN Bindings(params, n) : Bindings(params, n)[x] \in Value
<1>. DEFINE first == Len(pushed) - n
            m == IF n < Len(params) THEN n ELSE Len(params)
            given == 1 .. m
            Latest(x, k) == params[k].name = x
                            /\ \A j \in given : params[j].name = x => j <= k
<1>1. Bindings(params, n) = [x \in {params[k].name : k \in given} |->
                                pushed[first + CHOOSE k \in given : Latest(x, k)].value]
  BY DEF Bindings
<1>2. m \in Nat /\ m <= n
  OBVIOUS
<1>. SUFFICES ASSUME NEW x \in {params[k].name : k \in given}
              PROVE  pushed[first + CHOOSE k \in given : Latest(x, k)].value \in Value
  BY <1>1
<1>. DEFINE T == {k \in given : params[k].name = x}
            c == CHOOSE k \in given : Latest(x, k)
<1>3. T # {} /\ T \in SUBSET (1 .. m)
  OBVIOUS
<1>4. PICK k \in T : \A j \in T : j <= k
  BY <1>2, <1>3, GreatestOf
<1>5. k \in given /\ Latest(x, k)
  BY <1>4
<1>6. c \in given
  BY <1>5
<1>7. Len(pushed) \in Nat
  BY DEF Valued, IsSequence
<1>. HIDE DEF c, m
<1>8. first + c \in Len(pushed) - n + 1 .. Len(pushed)
  BY <1>2, <1>6, <1>7
<1>9. \A i \in Len(pushed) - n + 1 .. Len(pushed) : pushed[i].value \in Value
  BY ValuedSplit
<1>10. pushed[first + c].value \in Value
  BY <1>8, <1>9
<1>. QED  BY <1>10 DEF c

LEMMA CallKeeps ==
  ASSUME AllInv, TacCall, UNCHANGED <<genVars, runVars>>
  PROVE  MachineInv'
<1>. DEFINE L == Len(frames)
            n == Line.num
            f == FindFunction(program, Line.sym)
            rest == SubSeq(pushed, 1, Len(pushed) - n)
            bound == Bindings(Ast[f].params, n)
            y == IF f = NoNode THEN [pc |-> Here.pc + 1, dst |-> Here.dst,
                                     vars |-> Bound(Here.vars, Line.dst, IntZero)]
                 ELSE [pc |-> LineOf("FUNC", Line.sym, 0) + 1, vars |-> bound, dst |-> Line.dst]
            gs == IF f = NoNode THEN Sets(frames, Line.dst, IntZero) ELSE Append(frames, y)
<1>1. /\ tac = "running" /\ Line.op = "CALL" /\ pushed' = rest
      /\ frames' = gs
      /\ UNCHANGED <<tac, tac_exit, printed>>
  BY DEF TacCall, At, Frames, Frame
<1>2. UNCHANGED <<code, todo, status>> /\ AllInv
  BY DEF genVars, runVars
<1>3. /\ L \in Nat \ {0} /\ FramesOK(frames) /\ Stacked(frames, pushed)
      /\ FrameOK(Here) /\ Here.pc + 1 \in 1 .. Len(code) /\ todo = <<>>
      /\ \A h : Flow(h) => /\ h[Here.pc] \in Nat /\ h[Here.pc + 1] \in Nat
                           /\ Moves(Line.op, Line.num, h[Here.pc], h[Here.pc + 1])
  BY <1>1, TopIs DEF AllInv
<1>4. \A h : Flow(h) => /\ n \in 0 .. h[Here.pc] /\ h[Here.pc + 1] = h[Here.pc] - n
                        /\ h[Here.pc] \in Nat
  BY <1>1, <1>3 DEF Moves
<1>5. n \in Nat
  <2>1. PICK h : Flow(h)
    BY DEF AllInv, FlowInv
  <2>. HIDE DEF n
  <2>. QED  BY <1>4, <2>1
<1>. HIDE DEF n
<1>6. Valued(pushed) /\ program \in Roots
  BY DEF AllInv, MachineInv, GenInv
<1>7. n <= Len(pushed)
  <2>1. \A h : Flow(h) => n <= h[frames[Len(frames)].pc]
    BY <1>4, <1>5 DEF Here
  <2>. QED  BY <1>3, <1>5, <2>1, Taking
<1>8. Valued(rest)
  BY <1>5, <1>6, <1>7, ValuedSplit
<1>9. ASSUME f = NoNode
      PROVE  FramesOK(gs) /\ Len(gs) # 0 /\ Stacked(gs, rest)
  <2>1. y.pc = Here.pc + 1 /\ FrameOK(y) /\ Topped(gs, frames, y)
    <3>1. IntZero \in Value
      BY TypedIsValue
    <3>2. y = [pc |-> Here.pc + 1, vars |-> Bound(Here.vars, Line.dst, IntZero), dst |-> Here.dst]
      BY <1>9
    <3>3. FrameOK(y)
      BY <1>3, <3>1, <3>2, SetFrameOK
    <3>4. gs = Sets(frames, Line.dst, IntZero)
      BY <1>9
    <3>5. Topped(gs, frames, y)
      BY <1>3, <3>2, <3>4, SetsIs DEF Here
    <3>. QED  BY <3>2, <3>3, <3>5
  <2>. HIDE DEF y, gs
  <2>2. FramesOK(gs) /\ Len(gs) # 0
    BY <1>3, <2>1, FramesTopped
  <2>3. \A h : Flow(h) => /\ h[y.pc] = h[frames[Len(frames)].pc] - n
                          /\ n <= h[frames[Len(frames)].pc]
    BY <1>4, <1>5, <2>1 DEF Here
  <2>4. Stacked(gs, rest)
    BY <1>3, <1>5, <2>1, <2>3, TopTakes
  <2>. QED  BY <2>2, <2>4
<1>10. ASSUME f # NoNode
       PROVE  FramesOK(gs) /\ Len(gs) # 0 /\ Stacked(gs, rest)
  <2>. DEFINE pc == LineOf("FUNC", Line.sym, 0) + 1
  <2>1. gs = Append(frames, y) /\ y = [pc |-> pc, vars |-> bound, dst |-> Line.dst]
    BY <1>10
  <2>2. pc \in 1 .. Len(code) /\ \A h : Flow(h) => h[pc] = 0
    BY <1>3, <1>10, HeadIs DEF AllInv
  <2>3. \A x \in DOMAIN bound : bound[x] \in Value
    <3>1. f \in Node
      BY <1>6, <1>10, FoundIsChild
    <3>2. Len(Ast[f].params) \in Nat
      BY <3>1, NodeIs DEF AstNode
    <3>. QED  BY <1>5, <1>6, <1>7, <3>2, BindingsAreValues
  <2>. HIDE DEF pc, bound, y, gs
  <2>4. y.pc = pc /\ FrameOK(y)
    BY <2>1, <2>2, <2>3 DEF FrameOK
  <2>5. IsSequence(frames) /\ \A i \in 1 .. L : FrameOK(frames[i])
    BY <1>3 DEF FramesOK
  <2>6. FramesOK(gs) /\ Len(gs) # 0
    <3>1. PICK S : frames \in Seq(S)
      BY <2>5 DEF IsSequence
    <3>2. /\ gs \in Seq(S \cup {y}) /\ Len(gs) = L + 1 /\ gs[L + 1] = y
          /\ \A i \in 1 .. L : gs[i] = frames[i]
      BY <2>1, <3>1
    <3>. HIDE DEF L
    <3>3. \A i \in 1 .. L + 1 : FrameOK(gs[i])
      BY <1>3, <2>4, <2>5, <3>2
    <3>. QED  BY <1>3, <3>2, <3>3 DEF FramesOK, IsSequence
  <2>7. code[frames[Len(frames)].pc].op = "CALL"
    BY <1>1 DEF Line, Here
  <2>8. \A h : Flow(h) => /\ h[frames[Len(frames)].pc + 1] = h[frames[Len(frames)].pc] - n
                          /\ n <= h[frames[Len(frames)].pc] /\ h[y.pc] = 0
    BY <1>4, <1>5, <2>2, <2>4 DEF Here
  <2>9. Stacked(gs, rest)
    BY <1>3, <1>5, <2>1, <2>5, <2>7, <2>8, Entering
  <2>. QED  BY <2>6, <2>9
<1>. HIDE DEF y, gs, rest
<1>11. IsSequence(printed') /\ \A i \in 1 .. Len(printed') : printed'[i] \in Value
  BY <1>1, <1>2 DEF MachineInv, AllInv
<1>12. FramesOK(gs) /\ Len(gs) # 0 /\ Stacked(gs, rest)
  <2>. HIDE DEF f
  <2>. QED  BY <1>9, <1>10
<1>. QED  BY <1>1, <1>2, <1>8, <1>11, <1>12, StillRuns DEF AllInv

LEMMA ReturnKeeps ==
  ASSUME AllInv, TacReturn, UNCHANGED <<genVars, runVars>>
  PROVE  MachineInv'
<1>. DEFINE L == Len(frames)
            fs == Front(frames)
<1>1. /\ tac = "running" /\ Line.op \in {"RETURN", "END"} /\ Operands
      /\ UNCHANGED <<pushed, printed>>
  BY DEF TacReturn, At
<1>2. UNCHANGED <<code, todo, status>> /\ AllInv /\ MachineInv
  BY DEF genVars, runVars, AllInv
<1>3. /\ L \in Nat \ {0} /\ FramesOK(frames) /\ Stacked(frames, pushed)
      /\ FrameOK(Here) /\ Lits(Line.args) /\ DOMAIN Line.args = 1 .. Len(Line.args)
      /\ InsOK(Line, Len(Line.args)) /\ todo = <<>>
      /\ \A h : Flow(h) => Moves(Line.op, Line.num, h[Here.pc], h[Here.pc + 1])
  BY <1>1, TopIs DEF AllInv
<1>4. Answer \in Value
  <2>1. CASE Line.args = <<>>
    BY <2>1, TypedIsValue DEF Answer
  <2>2. CASE Line.args # <<>>
    <3>1. Len(Line.args) # 0
      <4>1. PICK S : Line.args \in Seq(S)
        BY <1>3 DEF Lits, IsSequence
      <4>. QED  BY <2>2, <4>1
    <3>2. Len(Line.args) \in {0, 1}
      BY <1>1, <1>3 DEF InsOK, Uses
    <3>3. 1 \in 1 .. Len(Line.args)
      BY <3>1, <3>2
    <3>. QED  BY <1>1, <1>3, <2>2, <3>3, ReadIsValue DEF Answer, Operand
  <2>. QED  BY <2>1, <2>2
<1>5. \A h : Flow(h) => h[frames[L].pc] = 0
  BY <1>1, <1>3 DEF Moves, Here
<1>6. CASE L > 1
  <2>. DEFINE t == frames[L - 1]
              y == [pc |-> t.pc + 1, vars |-> Bound(t.vars, Here.dst, Answer), dst |-> t.dst]
              gs == Sets(fs, Here.dst, Answer)
  <2>1. frames' = gs /\ UNCHANGED <<tac, tac_exit>>
    BY <1>6 DEF TacReturn, Frames
  <2>2. PICK S : frames \in Seq(S)
    BY <1>3 DEF FramesOK, IsSequence
  <2>3. /\ fs \in Seq(S) /\ Len(fs) = L - 1 /\ Len(fs) \in Nat \ {0}
        /\ \A i \in 1 .. L - 1 : fs[i] = frames[i]
    <3>1. fs = SubSeq(frames, 1, L - 1)
      BY DEF Front
    <3>2. L - 1 \in 1 .. L
      BY <1>3, <1>6
    <3>. HIDE DEF fs
    <3>. QED  BY <2>2, <3>1, <3>2
  <2>4. \A i \in 1 .. L : FrameOK(frames[i])
    BY <1>3 DEF FramesOK
  <2>. HIDE DEF L, fs
  <2>5. FramesOK(fs) /\ fs[Len(fs)] = t
    <3>1. \A i \in 1 .. L - 1 : FrameOK(fs[i])
      BY <1>3, <2>3, <2>4
    <3>2. L - 1 \in 1 .. L - 1
      BY <1>3, <1>6
    <3>. QED  BY <2>3, <3>1, <3>2 DEF FramesOK, IsSequence
  <2>6. FrameOK(t) /\ L - 1 \in 1 .. L - 1
    BY <1>3, <1>6, <2>4
  <2>7. code[t.pc].op = "CALL"
    BY <1>3, <2>6 DEF Stacked, L
  <2>8. t.pc + 1 \in 1 .. Len(code)
    <3>1. t.pc \in 1 .. Len(code) /\ Len(code) \in Nat /\ code # <<>>
      BY <1>2, <2>6 DEF FrameOK, AllInv, GenInv, IsSequence
    <3>2. code[Len(code)].op = "END"
      BY <1>2, <1>3, <3>1, TextIs DEF AllInv
    <3>3. t.pc # Len(code)
      BY <2>7, <3>2
    <3>. QED  BY <3>1, <3>3
  <2>9. Topped(gs, fs, y)
    BY <2>3, <2>5, SetsIs
  <2>10. y.pc = t.pc + 1 /\ FrameOK(y)
    BY <1>4, <2>6, <2>8, SetFrameOK
  <2>. HIDE DEF y, gs
  <2>11. FramesOK(gs) /\ Len(gs) # 0
    BY <2>5, <2>9, <2>10, FramesTopped
  <2>12. /\ IsSequence(gs) /\ Len(gs) = L - 1 /\ gs[Len(gs)] = y
         /\ y.pc = frames[Len(gs)].pc + 1
         /\ \A i \in 1 .. Len(gs) - 1 : gs[i] = frames[i]
    <3>1. /\ IsSequence(gs) /\ Len(gs) = Len(fs) /\ gs[Len(fs)] = y
          /\ \A i \in 1 .. Len(fs) - 1 : gs[i] = fs[i]
      BY <2>9 DEF Topped
    <3>2. \A i \in 1 .. L - 1 - 1 : gs[i] = frames[i]
      BY <1>3, <2>3, <3>1
    <3>. QED  BY <2>3, <2>10, <3>1, <3>2
  <2>13. IsSequence(frames) /\ Len(frames) # 0 /\ L = Len(frames)
    BY <1>3, <2>2 DEF IsSequence, L
  <2>14. Stacked(gs, pushed)
    BY <1>3, <1>5, <2>11, <2>12, <2>13, Leaving
  <2>15. /\ Valued(pushed') /\ IsSequence(printed')
         /\ \A i \in 1 .. Len(printed') : printed'[i] \in Value
    BY <1>1, <1>2 DEF MachineInv
  <2>. QED  BY <1>1, <1>2, <2>1, <2>11, <2>14, <2>15, StillRuns
<1>7. CASE ~(L > 1)
  <2>1. /\ tac' = "done" /\ frames' = <<>>
        /\ tac_exit' = IF Answer.type = "INT" THEN Answer.num ELSE 0
    BY <1>7 DEF TacReturn
  <2>2. tac_exit' \in IntMin .. IntMax
    BY <1>4, <2>1, ValuesAssumption DEF Value, IntMin
  <2>3. FramesOK(<<>>)
    BY DEF FramesOK, IsSequence
  <2>4. FramesOK(frames)'
    BY <2>1, <2>3 DEF FramesOK, FrameOK, IsSequence
  <2>. QED  BY <1>1, <1>2, <1>3, <2>1, <2>2, <2>4 DEF MachineInv, Valued
<1>. QED  BY <1>6, <1>7

LEMMA MachineStep == AllInv /\ [Next]_vars => MachineInv'
<1>. SUFFICES ASSUME AllInv, [Next]_vars
              PROVE  MachineInv'
  OBVIOUS
<1>0. MachineInv
  BY DEF AllInv
<1>1. CASE Generate
  <2>1. todo # <<>> /\ UNCHANGED <<status, tac, frames, pushed, printed, tac_exit>>
    BY <1>1 DEF Generate, GenStep, GenOperand, GenExpr, GenStmt, GenWrite, GenFree, Doing,
           runVars, tacVars
  <2>2. tac = "none" /\ status = "start" /\ frames = <<>>
    BY <1>0, <2>1 DEF MachineInv
  <2>3. FramesOK(<<>>)
    BY DEF FramesOK, IsSequence
  <2>4. FramesOK(frames)'
    BY <2>1, <2>2, <2>3 DEF FramesOK, FrameOK, IsSequence
  <2>. QED  BY <1>0, <2>1, <2>2, <2>4 DEF MachineInv, Valued
<1>2. CASE Interpret
  <2>1. todo = <<>> /\ tac = "none" /\ UNCHANGED <<code, todo, tac, frames, pushed, printed, tac_exit>>
    BY <1>2 DEF Interpret, genVars, tacVars
  <2>2. FramesOK(frames)'
    BY <1>0, <2>1 DEF MachineInv, FramesOK, FrameOK
  <2>. QED  BY <1>0, <2>1, <2>2 DEF MachineInv, Valued
<1>3. CASE Start
  BY <1>3, Started DEF AllInv
<1>4. CASE Machine
  <2>1. UNCHANGED <<genVars, runVars>> /\ UNCHANGED <<code, todo, status>>
    BY <1>4 DEF Machine, genVars, runVars
  <2>2. CASE Undefined
    BY <1>0, <2>1, <2>2, EndsOtherwise DEF Undefined
  <2>3. CASE Operate
    BY <2>1, <2>3, OperateKeeps
  <2>4. CASE TacPrint
    BY <2>1, <2>4, PrintKeeps
  <2>5. CASE Push
    BY <2>1, <2>5, PushKeeps
  <2>6. CASE Branch
    BY <2>1, <2>6, BranchKeeps
  <2>7. CASE TacCall
    BY <2>1, <2>7, CallKeeps
  <2>8. CASE TacReturn
    BY <2>1, <2>8, ReturnKeeps
  <2>. QED  BY <1>4, <2>2, <2>3, <2>4, <2>5, <2>6, <2>7, <2>8 DEF Machine
<1>5. CASE Ended \/ UNCHANGED vars
  <2>1. UNCHANGED <<code, todo, status, tac, frames, pushed, printed, tac_exit>>
    BY <1>5 DEF Ended, vars, genVars, runVars, tacVars
  <2>2. FramesOK(frames)'
    <3>1. FramesOK(frames)
      BY <1>0 DEF MachineInv
    <3>2. code' = code /\ frames' = frames
      BY <2>1
    <3>. QED  BY <3>1, <3>2, Zenon DEF FramesOK, FrameOK, IsSequence
  <2>3. Stacked(frames, pushed) => Stacked(frames, pushed)'
    BY <2>1, Zenon DEF Stacked, Flow, Held
  <2>. QED  BY <1>0, <2>1, <2>2, <2>3 DEF MachineInv, Valued
<1>. QED  BY <1>1, <1>2, <1>3, <1>4, <1>5 DEF Next, Step

LEMMA Inductive == Spec => []AllInv
<1>1. Init => AllInv
  BY GeneratorInit, FlowInit, ShapeInit, MachineInit DEF Init, AllInv
<1>2. AllInv /\ [Next]_vars => AllInv'
  <2>. SUFFICES ASSUME AllInv, [Next]_vars
                PROVE  AllInv'
    OBVIOUS
  <2>1. GenInv /\ FlowInv /\ ShapeInv
    BY DEF AllInv
  <2>2. MachineInv'
    BY MachineStep
  <2>3. GenStep \/ UNCHANGED genVars
    BY DEF Next, Step, Generate, Interpret, Start, Machine, Ended, vars
  <2>4. GenInv' /\ FlowInv' /\ ShapeInv'
    BY <2>1, <2>3, GeneratorStep, OthersKeep, FlowStep, FlowOthers, ShapeStep, ShapeOthers
  <2>. QED  BY <2>2, <2>4 DEF AllInv
<1>. QED  BY <1>1, <1>2, PTL DEF Spec

(* However calls nest among a call's arguments, and whatever path was      *)
(* taken, a CALL takes what its own arguments pushed, and an activation    *)
(* leaves nothing (gen_expr's argument loop, codegen.c:86-101).            *)
THEOREM ParamsAlwaysPaired == Spec => []ParamsPaired
<1>1. AllInv => ParamsPaired
  <2>. SUFFICES ASSUME AllInv, tac = "running"
                PROVE  /\ Line.op = "CALL" =>
                             /\ Line.num <= Len(pushed)
                             /\ \A k \in Len(pushed) - Line.num + 1 .. Len(pushed) :
                                   pushed[k].depth = Len(frames)
                       /\ Line.op \in {"RETURN", "END"} =>
                             \A k \in DOMAIN pushed : pushed[k].depth < Len(frames)
    BY DEF ParamsPaired, At
  <2>1. /\ Len(frames) \in Nat \ {0} /\ FramesOK(frames) /\ Stacked(frames, pushed)
        /\ \A h : Flow(h) => /\ h[Here.pc] \in Nat
                             /\ Moves(Line.op, Line.num, h[Here.pc], h[Here.pc + 1])
    BY TopIs DEF AllInv
  <2>2. ASSUME Line.op = "CALL"
        PROVE  /\ Line.num <= Len(pushed)
               /\ \A k \in Len(pushed) - Line.num + 1 .. Len(pushed) :
                     pushed[k].depth = Len(frames)
    <3>. DEFINE n == Line.num
    <3>1. \A h : Flow(h) => n \in 0 .. h[Here.pc] /\ h[Here.pc] \in Nat
      BY <2>1, <2>2 DEF Moves
    <3>. HIDE DEF n
    <3>2. n \in Nat
      <4>1. PICK h : Flow(h)
        BY DEF AllInv, FlowInv
      <4>. QED  BY <3>1, <4>1
    <3>3. \A h : Flow(h) => n <= h[frames[Len(frames)].pc]
      BY <3>1, <3>2 DEF Here
    <3>4. n <= Len(pushed) /\ \A k \in Len(pushed) - n + 1 .. Len(pushed) : pushed[k].depth = Len(frames)
      BY <2>1, <3>2, <3>3, Taking
    <3>. QED  BY <3>4 DEF n
  <2>3. ASSUME Line.op \in {"RETURN", "END"}
        PROVE  \A k \in DOMAIN pushed : pushed[k].depth < Len(frames)
    <3>1. \A h : Flow(h) => h[frames[Len(frames)].pc] = 0
      BY <2>1, <2>3 DEF Moves, Here
    <3>2. IsSequence(frames) /\ Len(frames) # 0
      BY <2>1 DEF FramesOK
    <3>3. \A k \in 1 .. Len(pushed) : pushed[k].depth \in 1 .. Len(frames) - 1
      BY <2>1, <3>1, <3>2, Leaving
    <3>4. DOMAIN pushed = 1 .. Len(pushed)
      BY DEF AllInv, MachineInv, Valued, IsSequence
    <3>. QED  BY <2>1, <3>3, <3>4
  <2>. QED  BY <2>2, <2>3
<1>. QED  BY <1>1, Inductive, PTL

-----------------------------------------------------------------------------
(* A behaviour of the whole is one of the interpreter.                     *)

LEMMA SameResults ==
  \A op, l, r : Run!BinaryResults(op, l, r) = Runner!BinaryResults(op, l, r)
<1>1. \A op, isFloat, a, b : Run!Numeric(op, isFloat, a, b) = Runner!Numeric(op, isFloat, a, b)
  BY DEF Run!Abs, Runner!Abs, Run!Bool, Runner!Bool,
   Run!Compare, Runner!Compare, Run!Divided, Runner!Divided,
   Run!Fault, Runner!Fault, Run!IntMin, Runner!IntMin,
   Run!IntZero, Runner!IntZero, Run!Numeric, Runner!Numeric,
   Run!Quot, Runner!Quot, Run!Rem, Runner!Rem, Run!Typed, Runner!Typed,
   Run!Wrap, Runner!Wrap
<1>. QED
  BY <1>1 DEF Run!Abstracted, Runner!Abstracted,
     Run!BinaryResults, Runner!BinaryResults, Run!Bool, Runner!Bool,
     Run!NumericResults, Runner!NumericResults, Run!Nums, Runner!Nums,
     Run!RelOp, Runner!RelOp, Run!Typed, Runner!Typed

LEMMA RunSteps == Run!Step => Runner!Step
<1>. USE DEF Run!Abstracted, Runner!Abstracted, Run!As, Runner!As,
             Run!At, Runner!At, Run!Become, Runner!Become,
             Run!Bool, Runner!Bool, Run!Call, Runner!Call,
             Run!Callee, Runner!Callee, Run!Child, Runner!Child,
             Run!Children, Runner!Children, Run!Condition, Runner!Condition,
             Run!Continue, Runner!Continue, Run!Crash, Runner!Crash,
             Run!Deliver, Runner!Deliver, Run!Eval, Runner!Eval,
             Run!Exec, Runner!Exec, Run!ExprKind, Runner!ExprKind,
             Run!Fault, Runner!Fault, Run!FindFunction, Runner!FindFunction,
             Run!Finish, Runner!Finish, Run!Freed, Runner!Freed,
             Run!FreshEnv, Runner!FreshEnv, Run!HeapFull, Runner!HeapFull,
             Run!Holder, Runner!Holder, Run!IntMin, Runner!IntMin,
             Run!IntZero, Runner!IntZero, Run!Kind, Runner!Kind,
             Run!LeaveLoop, Runner!LeaveLoop, Run!Live, Runner!Live,
             Run!LoopBody, Runner!LoopBody,
             Run!MainFunction, Runner!MainFunction,
             Run!MoreArguments, Runner!MoreArguments,
             Run!NewFrame, Runner!NewFrame, Run!NoNode, Runner!NoNode,
             Run!Nums, Runner!Nums, Run!On, Runner!On, Run!Pop, Runner!Pop,
             Run!Top, Runner!Top, Run!Truths, Runner!Truths,
             Run!Typed, Runner!Typed, Run!UnaryResults, Runner!UnaryResults,
             Run!Unset, Runner!Unset, Run!Wrap, Runner!Wrap,
             Run!env_create, Runner!env_create,
             Run!env_define, Runner!env_define, Run!env_free, Runner!env_free,
             Run!env_get, Runner!env_get, Run!env_set, Runner!env_set,
             Run!vars, Runner!vars
<1>1. Run!NoMain => Runner!NoMain
  BY DEF Run!NoMain, Runner!NoMain
<1>2. Run!StartMain => Runner!StartMain
  BY DEF Run!StartMain, Runner!StartMain
<1>3. Run!MainStatement => Runner!MainStatement
  BY DEF Run!MainStatement, Runner!MainStatement
<1>4. Run!MainDone => Runner!MainDone
  BY DEF Run!MainDone, Runner!MainDone
<1>5. Run!OutOfMemory => Runner!OutOfMemory
  BY DEF Run!OutOfMemory, Runner!OutOfMemory
<1>6. Run!EvalLiteral => Runner!EvalLiteral
  BY DEF Run!EvalLiteral, Runner!EvalLiteral
<1>7. Run!EvalVarRef => Runner!EvalVarRef
  BY DEF Run!EvalVarRef, Runner!EvalVarRef
<1>8. Run!EvalOperand => Runner!EvalOperand
  BY DEF Run!EvalOperand, Runner!EvalOperand
<1>9. Run!AfterUnary => Runner!AfterUnary
  BY DEF Run!AfterUnary, Runner!AfterUnary
<1>10. Run!AfterLeft => Runner!AfterLeft
  BY DEF Run!AfterLeft, Runner!AfterLeft
<1>11. Run!AfterRight => Runner!AfterRight
  BY SameResults DEF Run!AfterRight, Runner!AfterRight
<1>12. Run!EvalUnknownCall => Runner!EvalUnknownCall
  BY DEF Run!EvalUnknownCall, Runner!EvalUnknownCall
<1>13. Run!EvalCall => Runner!EvalCall
  BY DEF Run!EvalCall, Runner!EvalCall
<1>14. Run!EvalArgument => Runner!EvalArgument
  BY DEF Run!EvalArgument, Runner!EvalArgument
<1>15. Run!BindArgument => Runner!BindArgument
  BY DEF Run!BindArgument, Runner!BindArgument
<1>16. Run!EnterBody => Runner!EnterBody
  BY DEF Run!EnterBody, Runner!EnterBody
<1>17. Run!BodyStatement => Runner!BodyStatement
  BY DEF Run!BodyStatement, Runner!BodyStatement
<1>18. Run!LeaveBody => Runner!LeaveBody
  BY DEF Run!LeaveBody, Runner!LeaveBody
<1>19. Run!ExecOperand => Runner!ExecOperand
  BY DEF Run!ExecOperand, Runner!ExecOperand
<1>20. Run!ExecVarDecl => Runner!ExecVarDecl
  BY DEF Run!ExecVarDecl, Runner!ExecVarDecl
<1>21. Run!AfterVarDecl => Runner!AfterVarDecl
  BY DEF Run!AfterVarDecl, Runner!AfterVarDecl
<1>22. Run!AfterAssign => Runner!AfterAssign
  BY DEF Run!AfterAssign, Runner!AfterAssign
<1>23. Run!AfterIf => Runner!AfterIf
  BY DEF Run!AfterIf, Runner!AfterIf
<1>24. Run!AfterPrint => Runner!AfterPrint
  BY DEF Run!AfterPrint, Runner!AfterPrint
<1>25. Run!ExecReturn => Runner!ExecReturn
  BY DEF Run!ExecReturn, Runner!ExecReturn
<1>26. Run!AfterReturn => Runner!AfterReturn
  BY DEF Run!AfterReturn, Runner!AfterReturn
<1>27. Run!ExecCall => Runner!ExecCall
  BY DEF Run!ExecCall, Runner!ExecCall
<1>28. Run!AfterCall => Runner!AfterCall
  BY DEF Run!AfterCall, Runner!AfterCall
<1>29. Run!ExecIgnored => Runner!ExecIgnored
  BY DEF Run!ExecIgnored, Runner!ExecIgnored
<1>30. Run!ExecWhile => Runner!ExecWhile
  BY DEF Run!ExecWhile, Runner!ExecWhile
<1>31. Run!ExecBlock => Runner!ExecBlock
  BY DEF Run!ExecBlock, Runner!ExecBlock
<1>32. Run!ExecFor => Runner!ExecFor
  BY DEF Run!ExecFor, Runner!ExecFor
<1>33. Run!BlockStatement => Runner!BlockStatement
  BY DEF Run!BlockStatement, Runner!BlockStatement
<1>34. Run!LeaveBlock => Runner!LeaveBlock
  BY DEF Run!LeaveBlock, Runner!LeaveBlock
<1>35. Run!LoopTest => Runner!LoopTest
  BY DEF Run!LoopTest, Runner!LoopTest
<1>36. Run!EnterLoopBody => Runner!EnterLoopBody
  BY DEF Run!EnterLoopBody, Runner!EnterLoopBody
<1>37. Run!LoopFails => Runner!LoopFails
  BY DEF Run!LoopFails, Runner!LoopFails
<1>38. Run!LoopReturns => Runner!LoopReturns
  BY DEF Run!LoopReturns, Runner!LoopReturns
<1>39. Run!ForUpdate => Runner!ForUpdate
  BY DEF Run!ForUpdate, Runner!ForUpdate
<1>. QED
  BY <1>1, <1>2, <1>3, <1>4, <1>5, <1>6, <1>7, <1>8, <1>9, <1>10, <1>11, <1>12, <1>13, <1>14, <1>15, <1>16, <1>17, <1>18, <1>19, <1>20, <1>21, <1>22, <1>23, <1>24, <1>25, <1>26, <1>27, <1>28, <1>29, <1>30, <1>31, <1>32, <1>33, <1>34, <1>35, <1>36, <1>37, <1>38, <1>39
     DEF Run!Step, Runner!Step, Run!Evaluate, Runner!Evaluate, Run!Execute, Runner!Execute

LEMMA RunInit == Run!Init => Runner!Init
BY DEF Run!Init, Runner!Init, Run!IntZero, Runner!IntZero, Run!Typed, Runner!Typed,
       Run!Freed, Runner!Freed, Run!Unset, Runner!Unset


LEMMA RunsAlone == Spec => Runner!Spec
<1>1. Init => Runner!Init
  BY RunInit DEF Init
<1>2. [Next]_vars => [Runner!Next]_(Runner!vars)
  <2>. SUFFICES ASSUME [Next]_vars
                PROVE  [Runner!Next]_(Runner!vars)
    OBVIOUS
  <2>1. CASE Interpret
    BY <2>1, RunSteps DEF Interpret, Runner!Next
  <2>2. CASE Generate \/ Start \/ Machine \/ Ended \/ UNCHANGED vars
    <3>1. program' = program
      BY <2>2 DEF Generate, GenStep, GenOperand, GenExpr, GenStmt, GenWrite, GenFree,
             Start, Machine, Ended, vars, genVars
    <3>2. UNCHANGED runVars
      BY <2>2 DEF Generate, Start, Machine, Ended, vars
    <3>. QED  BY <3>1, <3>2 DEF runVars, Runner!vars
  <2>. QED  BY <2>1, <2>2 DEF Next, Step
<1>. QED  BY <1>1, <1>2, PTL DEF Spec, Runner!Spec

(* The machine's values are the interpreter's, and it is at an instruction *)
(* of its code in each of its calls: no path runs off the end of a         *)
(* function's code, no jump or call goes where there is none.              *)
THEOREM MachineTypeCorrect == Spec => []TypeOK
<1>1. Run!TypeOK <=> Runner!TypeOK
  BY DEF Run!DataType, Runner!DataType, Run!Env, Runner!Env,
     Run!Frame, Runner!Frame, Run!FrameKind, Runner!FrameKind,
     Run!IntMin, Runner!IntMin, Run!Node, Runner!Node,
     Run!TypeOK, Runner!TypeOK, Run!Unset, Runner!Unset,
     Run!Value, Runner!Value, Run!vars, Runner!vars
<1>2. Runner!Spec => []Runner!TypeOK
  BY Runner!TypeCorrect, RunnerAssumes
<1>3. AllInv /\ Runner!TypeOK => TypeOK
  <2>. SUFFICES ASSUME AllInv, Runner!TypeOK
                PROVE  TypeOK
    OBVIOUS
  <2>1. MachineInv /\ IsSequence(code)
    BY DEF AllInv, GenInv
  <2>2. /\ DOMAIN code = 1 .. Len(code) /\ DOMAIN frames = 1 .. Len(frames)
        /\ DOMAIN pushed = 1 .. Len(pushed) /\ DOMAIN printed = 1 .. Len(printed)
    BY <2>1 DEF MachineInv, FramesOK, Valued, IsSequence
  <2>3. \A k \in DOMAIN frames : /\ frames[k].pc \in DOMAIN code
                                 /\ Range(frames[k].vars) \subseteq Value
    BY <2>1, <2>2 DEF MachineInv, FramesOK, FrameOK, Range
  <2>4. Range(printed) \subseteq Value
    BY <2>1, <2>2 DEF MachineInv, Range
  <2>5. \A k \in DOMAIN pushed : pushed[k].value \in Value
    BY <2>1, <2>2 DEF MachineInv, Valued
  <2>. QED  BY <1>1, <2>1, <2>3, <2>4, <2>5 DEF TypeOK, MachineInv
<1>. QED  BY <1>2, <1>3, RunsAlone, Inductive, PTL

-----------------------------------------------------------------------------
(* The program's names for variables, and none at all.                     *)
Namer    == {"VAR_DECL", "VAR_REF", "ASSIGN"}
Named(r) == {""} \cup {Ast[n].name : n \in {m \in Subtree(r) : Kind(m) \in Namer}}

(* A job is about the program under r, and writes to no other variable.    *)
Within(item, r) ==
    /\ item.do \in {"expr", "stmt"} => item.n \in Subtree(r)
    /\ item.do = "write" => item.ins.dst \in Named(r)

AllWithin(s, r) == IsSequence(s) /\ \A i \in 1 .. Len(s) : Within(s[i], r)

LEMMA WithinNone == \A r : AllWithin(<<>>, r)
<1>1. <<>> \in Seq({}) /\ Len(<<>>) = 0
  OBVIOUS
<1>. QED  BY <1>1 DEF AllWithin, IsSequence

LEMMA WithinOne ==
  ASSUME NEW x, NEW r, Within(x, r)
  PROVE  AllWithin(<<x>>, r)
<1>1. <<x>> \in Seq({x}) /\ Len(<<x>>) = 1 /\ \A i \in 1 .. 1 : <<x>>[i] = x
  OBVIOUS
<1>2. IsSequence(<<x>>)
  BY <1>1 DEF IsSequence
<1>. QED  BY <1>1, <1>2 DEF AllWithin

LEMMA WithinJoin ==
  ASSUME NEW a, NEW b, NEW r, AllWithin(a, r), AllWithin(b, r)
  PROVE  AllWithin(a \o b, r)
<1>1. PICK S : a \in Seq(S)
  BY DEF AllWithin, IsSequence
<1>2. PICK T : b \in Seq(T)
  BY DEF AllWithin, IsSequence
<1>3. a \in Seq(S \cup T) /\ b \in Seq(S \cup T)
  BY <1>1, <1>2
<1>4. /\ a \o b \in Seq(S \cup T) /\ Len(a \o b) = Len(a) + Len(b)
      /\ Len(a) \in Nat /\ Len(b) \in Nat
      /\ \A i \in 1 .. Len(a) : (a \o b)[i] = a[i]
      /\ \A i \in Len(a) + 1 .. Len(a) + Len(b) :
            (a \o b)[i] = b[i - Len(a)] /\ i - Len(a) \in 1 .. Len(b)
  BY <1>3
<1>5. ASSUME NEW i \in 1 .. Len(a \o b)
      PROVE  Within((a \o b)[i], r)
  <2>1. i \in 1 .. Len(a) \/ i \in Len(a) + 1 .. Len(a) + Len(b)
    BY <1>4
  <2>. QED  BY <1>4, <2>1 DEF AllWithin
<1>. QED  BY <1>4, <1>5 DEF AllWithin, IsSequence

LEMMA NodeWithin ==
  ASSUME NEW r, NEW n \in Subtree(r)
  PROVE  /\ Within(Expr(n), r) /\ AllWithin(<<Expr(n)>>, r)
         /\ Within(Stmt(n), r) /\ AllWithin(<<Stmt(n)>>, r)
<1>1. Expr(n).do = "expr" /\ Expr(n).n = n /\ Stmt(n).do = "stmt" /\ Stmt(n).n = n
  BY DEF Expr, Stmt, Item
<1>2. Within(Expr(n), r) /\ Within(Stmt(n), r)
  BY <1>1 DEF Within
<1>. QED  BY <1>2, WithinOne

LEMMA WriteWithin ==
  ASSUME NEW r, NEW k, NEW op, NEW dst \in Named(r), NEW sym, NEW num
  PROVE  /\ Within(Write(k, op, dst, sym, num), r)
         /\ AllWithin(<<Write(k, op, dst, sym, num)>>, r)
<1>. DEFINE w == Write(k, op, dst, sym, num)
<1>1. w.do = "write" /\ w.ins = Ins(op, dst, sym, num)
  BY DEF Write, Item
<1>2. Ins(op, dst, sym, num).dst = dst
  BY DEF Ins
<1>. HIDE DEF w
<1>3. Within(w, r)
  BY <1>1, <1>2 DEF Within
<1>4. AllWithin(<<w>>, r)
  BY <1>3, WithinOne
<1>. QED  BY <1>3, <1>4 DEF w

(* What is written to no variable.                                         *)
LEMMA OtherWithin ==
  ASSUME NEW r
  PROVE  /\ \A k, op, sym, num : /\ Within(Write(k, op, "", sym, num), r)
                                 /\ AllWithin(<<Write(k, op, "", sym, num)>>, r)
         /\ \A l : /\ AllWithin(<<Label(l)>>, r) /\ AllWithin(<<Goto(l)>>, r)
                   /\ AllWithin(<<IfFalse(l)>>, r)
         /\ AllWithin(<<Free>>, r)
<1>1. "" \in Named(r)
  BY DEF Named
<1>2. \A k, op, sym, num : /\ Within(Write(k, op, "", sym, num), r)
                           /\ AllWithin(<<Write(k, op, "", sym, num)>>, r)
  BY <1>1, WriteWithin
<1>3. AllWithin(<<Free>>, r)
  <2>1. Free.do = "free"
    BY DEF Free, Item
  <2>2. Within(Free, r)
    BY <2>1 DEF Within
  <2>. QED  BY <2>2, WithinOne
<1>4. ASSUME NEW l
      PROVE  /\ AllWithin(<<Label(l)>>, r) /\ AllWithin(<<Goto(l)>>, r)
             /\ AllWithin(<<IfFalse(l)>>, r)
  <2>1. /\ AllWithin(<<Write(0, "LABEL", "", "", l)>>, r)
        /\ AllWithin(<<Write(0, "GOTO", "", "", l)>>, r)
        /\ AllWithin(<<Write(1, "IF_FALSE", "", "", l)>>, r)
    BY <1>2, Zenon
  <2>. QED  BY <2>1, Zenon DEF Label, Goto, IfFalse
<1>. QED  BY <1>2, <1>3, <1>4

LEMMA PartWithin ==
  ASSUME NEW r \in Node, NEW n \in Subtree(r)
  PROVE  /\ n \in Node
         /\ \A i \in 1 .. Children(n) : Child(n, i) \in Subtree(r)
         /\ \A i \in 1 .. Len(Ast[n].args) : Ast[n].args[i] \in Subtree(r)
<1>1. n \in Node /\ Subtree(n) \subseteq Subtree(r)
  BY SubtreeClosed
<1>2. \A c \in Parts(n) : c \in Node /\ c \in Subtree(c) /\ Subtree(c) \subseteq Subtree(n)
  BY <1>1, PartsAre, SubtreeIs
<1>3. \A c \in Parts(n) : c \in Subtree(r)
  BY <1>1, <1>2
<1>. QED  BY <1>1, <1>3 DEF Parts

LEMMA ChildrenWithin ==
  ASSUME NEW r \in Node, NEW n \in Subtree(r)
  PROVE  AllWithin(Stmts(Ast[n].children), r) /\ AllWithin(Exprs(Ast[n].children), r)
<1>. DEFINE N == Children(n)
            st == [i \in 1 .. N |-> Stmt(Child(n, i))]
            ex == [i \in 1 .. N |-> Expr(Child(n, i))]
<1>1. n \in Node /\ N \in Nat
  BY PartWithin, NodeIs
<1>2. \A i \in 1 .. N : Within(st[i], r) /\ Within(ex[i], r)
  BY PartWithin, NodeWithin
<1>4. /\ st \in Seq({st[i] : i \in 1 .. N}) /\ Len(st) = N
      /\ ex \in Seq({ex[i] : i \in 1 .. N}) /\ Len(ex) = N
  <2>. HIDE DEF N
  <2>. QED  BY <1>1
<1>. HIDE DEF st, ex, N
<1>5. AllWithin(st, r) /\ AllWithin(ex, r)
  BY <1>2, <1>4 DEF AllWithin, IsSequence
<1>. QED  BY <1>1, <1>5, StmtsAre DEF st, ex, N

LEMMA ArgsWithin ==
  ASSUME NEW r \in Node, NEW n \in Subtree(r)
  PROVE  AllWithin(GenArgs(n), r)
<1>. DEFINE m == Len(Ast[n].args)
            N == 2 * m
            arg(j) == Expr(Ast[n].args[(j + 1) \div 2])
            w == Write(1, "PARAM", "", "", 0)
            g == [j \in 1 .. N |-> IF j % 2 = 1 THEN arg(j) ELSE w]
<1>1. n \in Node /\ m \in Nat
  <2>1. n \in Node
    BY PartWithin
  <2>. QED  BY <2>1, NodeIs
<1>2. g = GenArgs(n)
  BY DEF GenArgs
<1>3. Within(w, r)
  BY OtherWithin
<1>4. ASSUME NEW j \in 1 .. N, j % 2 = 1
      PROVE  Within(arg(j), r)
  <2>1. (j + 1) \div 2 \in 1 .. m
    BY <1>1, <1>4
  <2>2. Ast[n].args[(j + 1) \div 2] \in Subtree(r)
    BY <2>1, PartWithin
  <2>. QED  BY <2>2, NodeWithin
<1>5. N \in Nat
  BY <1>1
<1>. HIDE DEF m, w, arg, N
<1>6. \A j \in 1 .. N : Within(g[j], r)
  BY <1>3, <1>4
<1>7. g \in Seq({g[j] : j \in 1 .. N}) /\ Len(g) = N
  BY <1>5
<1>. HIDE DEF g
<1>8. AllWithin(g, r)
  BY <1>6, <1>7 DEF AllWithin, IsSequence
<1>. QED  BY <1>2, <1>8

LEMMA AppendIs ==
  ASSUME NEW s, IsSequence(s), NEW x
  PROVE  Append(s, x) = s \o <<x>>
BY DEF IsSequence

LEMMA ExprWithin ==
  ASSUME NEW r \in Node, NEW n \in Subtree(r), Kind(n) \in ExprKind \ {"LITERAL", "VAR_REF"}
  PROVE  AllWithin(ExprItems(n), r)
<1>0. n \in Node
  BY PartWithin
<1>1. CASE Kind(n) = "CALL"
  <2>. DEFINE w == Write(0, "CALL", "", Ast[n].name, Len(Ast[n].args))
              g == GenArgs(n)
  <2>1. ExprItems(n) = Append(g, w)
    BY <1>1 DEF ExprItems, GenCall
  <2>2. AllWithin(g, r) /\ AllWithin(<<w>>, r)
    BY ArgsWithin, OtherWithin
  <2>. HIDE DEF w, g
  <2>3. Append(g, w) = g \o <<w>>
    BY <2>2, AppendIs DEF AllWithin
  <2>. QED  BY <2>1, <2>2, <2>3, WithinJoin
<1>2. CASE Kind(n) = "UNARY_OP"
  <2>. DEFINE x == Expr(Child(n, 1))
              w == Write(1, "UNARY", "", Ast[n].op, 0)
  <2>1. ExprItems(n) = <<x, w>>
    BY <1>2 DEF ExprItems
  <2>2. 1 \in 1 .. Children(n)
    BY <1>0, <1>2, NodeIs DEF WellShaped, WellCounted
  <2>3. AllWithin(<<x>>, r) /\ AllWithin(<<w>>, r)
    BY <2>2, PartWithin, NodeWithin, OtherWithin
  <2>. HIDE DEF w, x
  <2>. QED  BY <2>1, <2>3, WithinJoin, JoinedCall
<1>3. CASE Kind(n) = "BINARY_OP"
  <2>. DEFINE x == Expr(Child(n, 1))
              y == Expr(Child(n, 2))
              w == Write(2, "BINARY", "", Ast[n].op, 0)
  <2>1. ExprItems(n) = <<x, y, w>>
    BY <1>3 DEF ExprItems
  <2>2. 1 \in 1 .. Children(n) /\ 2 \in 1 .. Children(n)
    BY <1>0, <1>3, NodeIs DEF WellShaped, WellCounted
  <2>3. AllWithin(<<x>>, r) /\ AllWithin(<<y>>, r) /\ AllWithin(<<w>>, r)
    BY <2>2, PartWithin, NodeWithin, OtherWithin
  <2>. HIDE DEF w, x, y
  <2>4. AllWithin(<<x, y>>, r)
    BY <2>3, WithinJoin, JoinedCall
  <2>. QED  BY <2>1, <2>3, <2>4, WithinJoin, ThreeJoined
<1>. QED  BY <1>1, <1>2, <1>3 DEF ExprKind

LEMMA StmtsWithin ==
  ASSUME NEW r, NEW a \in Subtree(r), NEW b \in Subtree(r)
  PROVE  /\ AllWithin(Stmts(<<>>), r) /\ AllWithin(Stmts(<<a>>), r)
         /\ AllWithin(Stmts(<<a, b>>), r)
<1>1. Stmts(<<>>) = <<>> /\ Stmts(<<a>>) = <<Stmt(a)>>
  BY DEF Stmts
<1>2. Stmts(<<a, b>>) = <<Stmt(a)>> \o <<Stmt(b)>>
  <2>1. Stmts(<<a, b>>) = <<Stmt(a), Stmt(b)>>
    BY DEF Stmts
  <2>. QED  BY <2>1, JoinedCall
<1>3. AllWithin(<<Stmt(a)>>, r) /\ AllWithin(<<Stmt(b)>>, r)
  BY NodeWithin
<1>4. AllWithin(<<Stmt(a)>> \o <<Stmt(b)>>, r)
  BY <1>3, WithinJoin
<1>5. AllWithin(Stmts(<<>>), r) /\ AllWithin(Stmts(<<a>>), r)
  BY <1>1, <1>3, WithinNone
<1>6. AllWithin(Stmts(<<a, b>>), r)
  BY <1>2, <1>4
<1>. QED  BY <1>5, <1>6

LEMMA IfWithin ==
  ASSUME NEW r \in Node, NEW n \in Subtree(r), Kind(n) = "IF", NEW l
  PROVE  AllWithin(GenIf(n, l), r)
<1>. DEFINE c == Expr(Child(n, 1))
            f == IfFalse(IF Children(n) > 2 THEN l ELSE l + 1)
            t == Stmt(Child(n, 2))
            e == IF Children(n) > 2 THEN GenElse(n, l) ELSE <<>>
            end == Label(l + 1)
            g == Goto(l + 1)
            m == Label(l)
            s == Stmt(Child(n, 3))
<1>0. /\ 1 \in 1 .. Children(n) /\ 2 \in 1 .. Children(n)
      /\ Children(n) > 2 => 3 \in 1 .. Children(n)
  <2>1. n \in Node
    BY PartWithin
  <2>. QED  BY <2>1, NodeIs DEF WellShaped, WellCounted
<1>1. /\ AllWithin(<<c>>, r) /\ AllWithin(<<f>>, r) /\ AllWithin(<<t>>, r)
      /\ AllWithin(<<end>>, r) /\ AllWithin(<<g>>, r) /\ AllWithin(<<m>>, r)
  BY <1>0, PartWithin, NodeWithin, OtherWithin
<1>2. Children(n) > 2 => AllWithin(<<s>>, r)
  BY <1>0, PartWithin, NodeWithin
<1>3. GenIf(n, l) = <<c, f, t>> \o e \o <<end>>
  BY DEF GenIf
<1>4. GenElse(n, l) = <<g, m, s>>
  BY DEF GenElse
<1>. HIDE DEF c, f, t, end, g, m, s
<1>5. AllWithin(<<c, f, t>>, r)
  <2>1. AllWithin(<<c, f>>, r)
    BY <1>1, WithinJoin, JoinedCall
  <2>. QED  BY <1>1, <2>1, WithinJoin, ThreeJoined
<1>6. AllWithin(e, r)
  <2>1. AllWithin(<<g, m>>, r)
    BY <1>1, WithinJoin, JoinedCall
  <2>2. Children(n) > 2 => AllWithin(<<g, m, s>>, r)
    BY <1>2, <2>1, WithinJoin, ThreeJoined
  <2>. QED  BY <1>4, <2>2, WithinNone
<1>. HIDE DEF e
<1>. QED  BY <1>1, <1>3, <1>5, <1>6, WithinJoin

LEMMA LoopWithin ==
  ASSUME NEW r, NEW l, NEW init, NEW cond \in Subtree(r), NEW body,
         AllWithin(Stmts(init), r), AllWithin(Stmts(body), r)
  PROVE  AllWithin(GenLoop(l, init, cond, body), r)
<1>. DEFINE a == Label(l)
            c == Expr(cond)
            f == IfFalse(l + 1)
            g == Goto(l)
            e == Label(l + 1)
            i == Stmts(init)
            b == Stmts(body)
<1>1. /\ AllWithin(<<a>>, r) /\ AllWithin(<<c>>, r) /\ AllWithin(<<f>>, r)
      /\ AllWithin(<<g>>, r) /\ AllWithin(<<e>>, r)
  BY NodeWithin, OtherWithin
<1>2. GenLoop(l, init, cond, body) = i \o <<a, c, f>> \o b \o <<g, e>>
  BY DEF GenLoop
<1>3. AllWithin(i, r) /\ AllWithin(b, r)
  OBVIOUS
<1>. HIDE DEF a, c, f, g, e, i, b
<1>4. AllWithin(<<a, c, f>>, r)
  <2>1. AllWithin(<<a, c>>, r)
    BY <1>1, WithinJoin, JoinedCall
  <2>. QED  BY <1>1, <2>1, WithinJoin, ThreeJoined
<1>5. AllWithin(<<g, e>>, r)
  BY <1>1, WithinJoin, JoinedCall
<1>. QED  BY <1>2, <1>3, <1>4, <1>5, WithinJoin

LEMMA ValueWithin ==
  ASSUME NEW r \in Node, NEW n \in Subtree(r), NEW w, AllWithin(<<w>>, r)
  PROVE  AllWithin(Append(Exprs(Ast[n].children), w), r)
<1>. DEFINE value == Exprs(Ast[n].children)
<1>1. AllWithin(value, r)
  BY ChildrenWithin
<1>. HIDE DEF value
<1>2. Append(value, w) = value \o <<w>>
  BY <1>1, AppendIs DEF AllWithin
<1>3. AllWithin(value \o <<w>>, r)
  BY <1>1, WithinJoin
<1>. QED  BY <1>2, <1>3 DEF value

LEMMA StmtWithin ==
  ASSUME NEW r \in Node, NEW n \in Subtree(r)
  PROVE  AllWithin(StmtItems(n), r)
<1>. DEFINE l == label_counter
            items == StmtItems(n)
            many == Stmts(Ast[n].children)
            value == Exprs(Ast[n].children)
            k == Children(n)
<1>0. n \in Node
  BY PartWithin
<1>1. k \in Nat /\ Kind(n) \in NodeKind /\ WellShaped(n)
  BY <1>0, NodeIs DEF AstNode, Kind
<1>2. AllWithin(many, r)
  BY ChildrenWithin
<1>3. CASE Kind(n) \in {"PROGRAM", "BLOCK"}
  <2>1. items = many
    BY <1>3 DEF StmtItems
  <2>. QED  BY <1>2, <2>1
<1>4. CASE Kind(n) = "FUNC_DECL"
  <2>. DEFINE head == Write(0, "FUNC", "", Ast[n].name, 0)
              end == Write(0, "END", "", "", 0)
  <2>1. items = <<head>> \o many \o <<end>>
    BY <1>4 DEF StmtItems
  <2>2. AllWithin(<<head>>, r) /\ AllWithin(<<end>>, r)
    BY OtherWithin
  <2>. HIDE DEF head, end, many
  <2>. QED  BY <1>2, <2>1, <2>2, WithinJoin
<1>5. CASE Kind(n) \in {"ASSIGN", "VAR_DECL"}
  <2>1. CASE ~(Children(n) > 0)
    <3>1. items = <<>>
      BY <1>5, <2>1, Zenon DEF StmtItems
    <3>. QED  BY <3>1, WithinNone
  <2>2. CASE Children(n) > 0
    <3>. DEFINE w == Write(1, "COPY", Ast[n].name, "", 0)
    <3>1. items = Append(value, w)
      BY <1>5, <2>2, Zenon DEF StmtItems
    <3>2. Ast[n].name \in Named(r)
      BY <1>5 DEF Named, Namer
    <3>3. AllWithin(<<w>>, r)
      BY <3>2, WriteWithin
    <3>. HIDE DEF w
    <3>. QED  BY <3>1, <3>3, ValueWithin
  <2>. QED  BY <2>1, <2>2
<1>6. CASE Kind(n) = "IF"
  <2>1. items = GenIf(n, l)
    BY <1>6 DEF StmtItems
  <2>. QED  BY <1>6, <2>1, IfWithin
<1>7. CASE Kind(n) = "WHILE"
  <2>. DEFINE b == Child(n, 2)
  <2>1. items = GenLoop(l, <<>>, Child(n, 1), <<b>>)
    BY <1>7 DEF StmtItems
  <2>2. Child(n, 1) \in Subtree(r) /\ b \in Subtree(r)
    <3>1. k = 2
      BY <1>1, <1>7 DEF WellShaped, WellCounted
    <3>. QED  BY <3>1, PartWithin
  <2>. HIDE DEF b
  <2>3. AllWithin(Stmts(<<>>), r) /\ AllWithin(Stmts(<<b>>), r)
    BY <2>2, StmtsWithin
  <2>. QED  BY <2>1, <2>2, <2>3, LoopWithin
<1>8. CASE Kind(n) = "FOR"
  <2>. DEFINE a == Child(n, 1)
              b == Child(n, 4)
              c == Child(n, 3)
  <2>1. items = GenLoop(l, <<a>>, Child(n, 2), <<b, c>>)
    BY <1>8 DEF StmtItems
  <2>2. /\ Child(n, 2) \in Subtree(r) /\ a \in Subtree(r)
        /\ b \in Subtree(r) /\ c \in Subtree(r)
    <3>1. k = 4
      BY <1>1, <1>8 DEF WellShaped, WellCounted
    <3>. QED  BY <3>1, PartWithin
  <2>. HIDE DEF a, b, c
  <2>3. AllWithin(Stmts(<<a>>), r) /\ AllWithin(Stmts(<<b, c>>), r)
    BY <2>2, StmtsWithin
  <2>. QED  BY <2>1, <2>2, <2>3, LoopWithin
<1>9. CASE Kind(n) \in {"RETURN", "PRINT"}
  <2>. DEFINE w == Write(k, Kind(n), "", "", 0)
  <2>1. items = Append(value, w)
    BY <1>9 DEF StmtItems
  <2>2. AllWithin(<<w>>, r)
    BY OtherWithin
  <2>. HIDE DEF w
  <2>. QED  BY <2>1, <2>2, ValueWithin
<1>11. CASE Kind(n) = "CALL"
  <2>1. items = <<Expr(n), Free>>
    BY <1>11 DEF StmtItems
  <2>2. AllWithin(<<Expr(n)>>, r) /\ AllWithin(<<Free>>, r)
    BY NodeWithin, OtherWithin
  <2>. QED  BY <2>1, <2>2, WithinJoin, JoinedCall
<1>12. CASE Kind(n) \in ExprKind \ {"CALL"}
  <2>1. items = <<>>
    BY <1>12 DEF StmtItems, ExprKind
  <2>. QED  BY <2>1, WithinNone
<1>. QED  BY <1>1, <1>3, <1>4, <1>5, <1>6, <1>7, <1>8, <1>9, <1>11, <1>12
          DEF NodeKind, StmtKind

-----------------------------------------------------------------------------
(* The code c, in which names of N are variables, has computed x at k, and *)
(* has gone straight on to e.                                              *)
Ready(c, k, e, x) ==
    /\ c[k].op \in Computes /\ c[k].dst = x
    /\ \A j \in k .. e : c[j].op \in Carries

ReadAt(c, j, x) == \E a \in 1 .. Len(c[j].args) : c[j].args[a].name = x

Temps(c, N, top) ==
    /\ \A k \in 1 .. Len(c) :
          IF c[k].op \in Computes
          THEN \E i \in 1 .. top - 1 : i \in DOMAIN TempName /\ c[k].dst = TempName[i]
          ELSE c[k].dst \in N
    /\ \A j, k \in 1 .. Len(c) :
          c[j].op \in Computes /\ c[k].op \in Computes /\ c[j].dst = c[k].dst => j = k
    /\ \A j \in 1 .. Len(c) : \A x : ReadAt(c, j, x) =>
          x \in N \/ \E k \in 1 .. j - 1 : Ready(c, k, j - 1, x)
    /\ \A i, j \in 1 .. Len(c) : \A x :
          ReadAt(c, i, x) /\ ReadAt(c, j, x) /\ x \notin N => i = j

(* The operands s that wait: each temporary is just computed, nobody has   *)
(* read it, and nobody else will.                                          *)
Waits(c, N, s) ==
    /\ \A i \in 1 .. Len(s) :
          \/ s[i].name \in N
          \/ /\ \E k \in 1 .. Len(c) : Ready(c, k, Len(c), s[i].name)
             /\ \A j \in 1 .. Len(c) : ~ReadAt(c, j, s[i].name)
    /\ \A i, j \in 1 .. Len(s) :
          s[i].name = s[j].name /\ s[i].name \notin N => i = j

LEMMA WaitsFewer ==
  ASSUME NEW c, NEW N, NEW s, NEW t, Len(s) \in Nat, NEW m \in Nat, m <= Len(s),
         Len(t) = m, \A i \in 1 .. m : t[i] = s[i], Waits(c, N, s)
  PROVE  Waits(c, N, t)
<1>1. \A i \in 1 .. m : i \in 1 .. Len(s)
  OBVIOUS
<1>. QED  BY <1>1 DEF Waits

LEMMA AppendedIs ==
  ASSUME NEW s, IsSequence(s), NEW x
  PROVE  /\ Len(s) \in Nat /\ Len(Append(s, x)) = Len(s) + 1
         /\ Append(s, x)[Len(s) + 1] = x
         /\ \A i \in 1 .. Len(s) : Append(s, x)[i] = s[i]
         /\ IsSequence(Append(s, x))
<1>1. PICK S : s \in Seq(S)
  BY DEF IsSequence
<1>. DEFINE T == S \cup {x}
<1>2. s \in Seq(T) /\ x \in T
  BY <1>1
<1>. HIDE DEF T
<1>. QED  BY <1>2 DEF IsSequence

LEMMA WaitsPlain ==
  ASSUME NEW c, NEW N, NEW s, IsSequence(s), NEW x, x.name \in N, Waits(c, N, s)
  PROVE  Waits(c, N, Append(s, x))
<1>. DEFINE t == Append(s, x)
            n == Len(s)
<1>1. n \in Nat /\ Len(t) = n + 1 /\ t[n + 1] = x /\ \A i \in 1 .. n : t[i] = s[i]
  BY DEF IsSequence
<1>. HIDE DEF t
<1>2. \A i \in 1 .. n + 1 : i \in 1 .. n \/ i = n + 1
  BY <1>1
<1>3. ASSUME NEW i \in 1 .. n + 1
      PROVE  \/ t[i].name \in N
             \/ /\ \E k \in 1 .. Len(c) : Ready(c, k, Len(c), t[i].name)
                /\ \A j \in 1 .. Len(c) : ~ReadAt(c, j, t[i].name)
  BY <1>1, <1>2 DEF Waits
<1>4. ASSUME NEW i \in 1 .. n + 1, NEW j \in 1 .. n + 1,
             t[i].name = t[j].name, t[i].name \notin N
      PROVE  i = j
  <2>1. i \in 1 .. n /\ j \in 1 .. n
    BY <1>1, <1>2, <1>4
  <2>. QED  BY <1>1, <1>4, <2>1 DEF Waits
<1>5. Waits(c, N, t)
  BY <1>1, <1>3, <1>4 DEF Waits
<1>. QED  BY <1>5 DEF t

(* An instruction is written with the last of the operands that wait.      *)
LEMMA TempsWritten ==
  ASSUME NEW c, IsSequence(c), NEW N, NEW top \in Nat \ {0}, Temps(c, N, top),
         NEW s, IsSequence(s), Waits(c, N, s), NEW k \in Nat, k <= Len(s),
         NEW ins, ins.args = SubSeq(s, Len(s) - k + 1, Len(s)),
         ins.op \in Carries \/ k = Len(s),
         IF ins.op \in Computes THEN top \in DOMAIN TempName /\ ins.dst = TempName[top]
                                ELSE ins.dst \in N
  PROVE  /\ ins.op \in Computes =>
              /\ Temps(Append(c, ins), N, top + 1)
              /\ Waits(Append(c, ins), N, Append(SubSeq(s, 1, Len(s) - k), Name(ins.dst)))
         /\ ins.op \notin Computes =>
              /\ Temps(Append(c, ins), N, top)
              /\ Waits(Append(c, ins), N, SubSeq(s, 1, Len(s) - k))
<1>. DEFINE C == Len(c)
            n == Len(s)
            d == Append(c, ins)
            u == SubSeq(s, 1, n - k)
            t == ins.dst
<1>1. /\ C \in Nat /\ Len(d) = C + 1 /\ d[C + 1] = ins
      /\ \A i \in 1 .. C : d[i] = c[i]
  BY DEF IsSequence
<1>2. /\ n \in Nat /\ Len(u) = n - k /\ \A i \in 1 .. n - k : u[i] = s[i]
      /\ IsSequence(u) /\ n - k \in Nat
      /\ Len(ins.args) = k /\ \A i \in 1 .. k : ins.args[i] = s[n - k + i]
  <2>1. PICK S : s \in Seq(S)
    BY DEF IsSequence
  <2>2. n \in Nat /\ n - k \in Nat
    BY <2>1
  <2>3. u \in Seq(S) /\ Len(u) = n - k /\ \A i \in 1 .. n - k : u[i] = s[i]
    BY <2>1, <2>2
  <2>4. /\ Len(SubSeq(s, n - k + 1, n)) = k
        /\ \A i \in 1 .. k : SubSeq(s, n - k + 1, n)[i] = s[n - k + i]
    BY <2>1, <2>2
  <2>. QED  BY <2>2, <2>3, <2>4 DEF IsSequence
<1>. HIDE DEF C, d, u, n
<1>3. \A i \in 1 .. C + 1 : i \in 1 .. C \/ i = C + 1
  BY <1>1
<1>4. C + 1 \in 1 .. C + 1 /\ \A i \in 1 .. C : i \in 1 .. C + 1 /\ i # C + 1
  BY <1>1
(* What was computed, and read, before.                                    *)
<1>5. ASSUME NEW i \in 1 .. C, NEW e \in 0 .. C, NEW x
      PROVE  Ready(d, i, e, x) <=> Ready(c, i, e, x)
  <2>1. \A j \in i .. e : j \in 1 .. C
    BY <1>1
  <2>. QED  BY <1>1, <2>1 DEF Ready
<1>6. ASSUME NEW i \in 1 .. C, NEW x
      PROVE  ReadAt(d, i, x) <=> ReadAt(c, i, x)
  <2>1. d[i] = c[i]
    BY <1>1
  <2>. QED  BY <2>1 DEF ReadAt
<1>7. ASSUME NEW x
      PROVE  ReadAt(d, C + 1, x) <=> \E a \in 1 .. k : s[n - k + a].name = x
  <2>1. ReadAt(d, C + 1, x) <=> \E a \in 1 .. k : ins.args[a].name = x
    BY <1>1, <1>2 DEF ReadAt
  <2>2. \A a \in 1 .. k : ins.args[a].name = s[n - k + a].name
    BY <1>2
  <2>. QED  BY <2>1, <2>2
<1>8. ASSUME NEW x, ReadAt(d, C + 1, x)
      PROVE  \E a \in n - k + 1 .. n : s[a].name = x
  <2>1. PICK a \in 1 .. k : s[n - k + a].name = x
    BY <1>7, <1>8
  <2>2. n - k + a \in n - k + 1 .. n
    BY <1>2
  <2>. QED  BY <2>1, <2>2
<1>9. \A a \in n - k + 1 .. n : a \in 1 .. n /\ a \notin 1 .. n - k
  BY <1>2
(* An operand that waits.                                                  *)
<1>10. ASSUME NEW a \in 1 .. n, s[a].name \notin N
       PROVE  /\ \E i \in 1 .. C : Ready(c, i, C, s[a].name)
              /\ \A j \in 1 .. C : ~ReadAt(c, j, s[a].name)
  BY <1>10 DEF Waits, C, n
<1>11. ASSUME ins.op \in Computes
       PROVE  /\ t = TempName[top] /\ top \in DOMAIN TempName
              /\ \A i \in 1 .. C : c[i].op \in Computes => c[i].dst # t
  <2>1. t = TempName[top] /\ top \in DOMAIN TempName
    BY <1>11
  <2>2. ASSUME NEW i \in 1 .. C, c[i].op \in Computes
        PROVE  c[i].dst # t
    <3>1. PICK q \in 1 .. top - 1 : q \in DOMAIN TempName /\ c[i].dst = TempName[q]
      BY <2>2 DEF Temps, C
    <3>2. q # top
      OBVIOUS
    <3>. QED  BY <2>1, <3>1, <3>2, CodegenAssumption DEF IsInjective
  <2>. QED  BY <2>1, <2>2
<1>12. ASSUME NEW a \in 1 .. n, ins.op \in Computes, s[a].name = t
       PROVE  t \in N
  BY <1>10, <1>11, <1>12 DEF Ready
<1>13. ASSUME NEW j \in 1 .. C + 1, ins.op \in Computes, ReadAt(d, j, t)
       PROVE  t \in N
  <2>1. CASE j = C + 1
    BY <1>8, <1>9, <1>12, <1>13, <2>1
  <2>2. CASE j \in 1 .. C
    <3>1. ReadAt(c, j, t)
      BY <1>6, <1>13, <2>2
    <3>2. t \in N \/ \E i \in 1 .. j - 1 : Ready(c, i, j - 1, t)
      BY <2>2, <3>1 DEF Temps, C
    <3>3. \A i \in 1 .. j - 1 : i \in 1 .. C
      BY <1>1, <2>2
    <3>. QED  BY <1>11, <1>13, <3>2, <3>3 DEF Ready
  <2>. QED  BY <1>3, <2>1, <2>2
(* The code.                                                               *)
<1>14. ASSUME NEW more, more \in Nat, more >= top, ins.op \in Computes => more = top + 1
       PROVE  Temps(d, N, more)
  <2>1. ASSUME NEW i \in 1 .. C + 1
        PROVE  IF d[i].op \in Computes
               THEN \E q \in 1 .. more - 1 : q \in DOMAIN TempName /\ d[i].dst = TempName[q]
               ELSE d[i].dst \in N
    <3>1. CASE i \in 1 .. C
      <4>1. IF c[i].op \in Computes
            THEN \E q \in 1 .. top - 1 : q \in DOMAIN TempName /\ c[i].dst = TempName[q]
            ELSE c[i].dst \in N
        BY <3>1 DEF Temps, C
      <4>2. \A q \in 1 .. top - 1 : q \in 1 .. more - 1
        BY <1>14
      <4>. QED  BY <1>1, <3>1, <4>1, <4>2
    <3>2. CASE i = C + 1
      <4>1. ins.op \in Computes => top \in 1 .. more - 1
        BY <1>14
      <4>. QED  BY <1>1, <1>11, <3>2, <4>1
    <3>. QED  BY <1>3, <3>1, <3>2
  <2>2. ASSUME NEW i \in 1 .. C + 1, NEW j \in 1 .. C + 1, d[i].op \in Computes,
               d[j].op \in Computes, d[i].dst = d[j].dst
        PROVE  i = j
    <3>1. CASE i \in 1 .. C /\ j \in 1 .. C
      BY <1>1, <2>2, <3>1 DEF Temps, C
    <3>2. CASE i = C + 1 /\ j \in 1 .. C
      BY <1>1, <1>11, <2>2, <3>2
    <3>3. CASE j = C + 1 /\ i \in 1 .. C
      BY <1>1, <1>11, <2>2, <3>3
    <3>. QED  BY <1>3, <3>1, <3>2, <3>3
  <2>3. ASSUME NEW j \in 1 .. C + 1, NEW x, ReadAt(d, j, x), x \notin N
        PROVE  \E i \in 1 .. j - 1 : Ready(d, i, j - 1, x)
    <3>1. CASE j \in 1 .. C
      <4>1. PICK i \in 1 .. j - 1 : Ready(c, i, j - 1, x)
        BY <1>6, <2>3, <3>1 DEF Temps, C
      <4>2. i \in 1 .. C /\ j - 1 \in 0 .. C
        BY <1>1, <3>1
      <4>3. Ready(d, i, j - 1, x)
        BY <1>5, <4>1, <4>2
      <4>. QED  BY <4>3
    <3>2. CASE j = C + 1
      <4>1. PICK a \in n - k + 1 .. n : s[a].name = x
        BY <1>8, <2>3, <3>2
      <4>2. PICK i \in 1 .. C : Ready(c, i, C, x)
        BY <1>9, <1>10, <2>3, <4>1
      <4>3. j - 1 = C /\ C \in 0 .. C
        BY <1>1, <3>2
      <4>4. Ready(d, i, C, x)
        BY <1>5, <4>2, <4>3
      <4>. QED  BY <4>3, <4>4
    <3>. QED  BY <1>3, <3>1, <3>2
  <2>4. ASSUME NEW j \in 1 .. C, NEW x, ReadAt(d, C + 1, x), ReadAt(d, j, x)
        PROVE  x \in N
    <3>1. PICK a \in n - k + 1 .. n : s[a].name = x
      BY <1>8, <2>4
    <3>2. ReadAt(c, j, x)
      BY <1>6, <2>4
    <3>. QED  BY <1>9, <1>10, <3>1, <3>2
  <2>5. ASSUME NEW i \in 1 .. C + 1, NEW j \in 1 .. C + 1, NEW x,
               ReadAt(d, i, x), ReadAt(d, j, x), x \notin N
        PROVE  i = j
    <3>1. CASE i \in 1 .. C /\ j \in 1 .. C
      BY <1>6, <2>5, <3>1 DEF Temps, C
    <3>. QED  BY <1>3, <2>4, <2>5, <3>1
  <2>6. \A j \in 1 .. C + 1 : \A x : ReadAt(d, j, x) =>
          x \in N \/ \E i \in 1 .. j - 1 : Ready(d, i, j - 1, x)
    BY <2>3
  <2>7. \A i, j \in 1 .. C + 1 : \A x :
          ReadAt(d, i, x) /\ ReadAt(d, j, x) /\ x \notin N => i = j
    BY <2>5
  <2>. QED  BY <1>1, <2>1, <2>2, <2>6, <2>7 DEF Temps
(* Those that still wait.                                                  *)
<1>15. Waits(d, N, u)
  <2>1. ASSUME NEW i \in 1 .. n - k, u[i].name \notin N
        PROVE  /\ \E j \in 1 .. C + 1 : Ready(d, j, C + 1, u[i].name)
               /\ \A j \in 1 .. C + 1 : ~ReadAt(d, j, u[i].name)
    <3>. DEFINE x == u[i].name
    <3>1. i \in 1 .. n /\ u[i] = s[i] /\ k # n
      BY <1>2
    <3>2. /\ \E j \in 1 .. C : Ready(c, j, C, x)
          /\ \A j \in 1 .. C : ~ReadAt(c, j, x)
      BY <1>10, <2>1, <3>1
    <3>3. PICK j \in 1 .. C : Ready(c, j, C, x)
      BY <3>2
    <3>4. ins.op \in Carries
      BY <3>1 DEF n
    <3>5. Ready(d, j, C + 1, x)
      <4>1. \A q \in j .. C + 1 : (q \in j .. C /\ q \in 1 .. C) \/ q = C + 1
        BY <1>1
      <4>. QED  BY <1>1, <3>3, <3>4, <4>1 DEF Ready
    <3>6. ~ReadAt(d, C + 1, x)
      <4>1. ASSUME ReadAt(d, C + 1, x)
            PROVE  FALSE
        <5>1. PICK a \in n - k + 1 .. n : s[a].name = x
          BY <1>8, <4>1
        <5>2. a \in 1 .. n /\ a # i
          BY <1>9
        <5>. QED  BY <2>1, <3>1, <5>1, <5>2 DEF Waits, n
      <4>. QED  BY <4>1
    <3>7. \A q \in 1 .. C + 1 : ~ReadAt(d, q, x)
      BY <1>3, <1>6, <3>2, <3>6
    <3>. QED  BY <1>4, <3>5, <3>7
  <2>2. ASSUME NEW i \in 1 .. n - k, NEW j \in 1 .. n - k,
               u[i].name = u[j].name, u[i].name \notin N
        PROVE  i = j
    <3>1. i \in 1 .. n /\ j \in 1 .. n
      BY <1>2
    <3>. QED  BY <1>2, <2>2, <3>1 DEF Waits, n
  <2>. QED  BY <1>1, <1>2, <2>1, <2>2 DEF Waits
<1>16. ASSUME ins.op \in Computes
       PROVE  Waits(d, N, Append(u, Name(t)))
  <2>1. CASE t \in N
    BY <1>2, <1>15, <2>1, WaitsPlain DEF Name
  <2>2. CASE t \notin N
    <3>. DEFINE v == Append(u, Name(t))
                m == n - k
    <3>1. /\ Len(v) = m + 1 /\ v[m + 1].name = t /\ \A i \in 1 .. m : v[i] = u[i]
          /\ m \in Nat
      <4>1. Name(t).name = t
        BY DEF Name
      <4>2. /\ Len(v) = Len(u) + 1 /\ v[Len(u) + 1] = Name(t)
            /\ \A i \in 1 .. Len(u) : v[i] = u[i]
        BY <1>2, AppendedIs
      <4>. HIDE DEF v
      <4>. QED  BY <1>2, <4>1, <4>2
    <3>. HIDE DEF v, m
    <3>2. \A i \in 1 .. m + 1 : i \in 1 .. m \/ i = m + 1
      BY <3>1
    <3>3. Ready(d, C + 1, C + 1, t)
      <4>1. \A j \in C + 1 .. C + 1 : j = C + 1
        BY <1>1
      <4>. QED  BY <1>1, <1>16, <4>1 DEF Ready, Carries
    <3>4. \A j \in 1 .. C + 1 : ~ReadAt(d, j, t)
      BY <1>13, <1>16, <2>2
    <3>5. \A i \in 1 .. m : v[i].name # t
      <4>1. \A i \in 1 .. m : u[i] = s[i] /\ i \in 1 .. n
        BY <1>2 DEF m
      <4>. QED  BY <1>12, <1>16, <2>2, <3>1, <4>1
    <3>6. ASSUME NEW i \in 1 .. m + 1, v[i].name \notin N
          PROVE  /\ \E j \in 1 .. C + 1 : Ready(d, j, C + 1, v[i].name)
                 /\ \A j \in 1 .. C + 1 : ~ReadAt(d, j, v[i].name)
      <4>1. CASE i \in 1 .. m
        BY <1>1, <1>2, <1>15, <3>1, <3>6, <4>1 DEF Waits, m
      <4>2. CASE i = m + 1
        BY <1>4, <3>1, <3>3, <3>4, <4>2
      <4>. QED  BY <3>2, <4>1, <4>2
    <3>7. ASSUME NEW i \in 1 .. m + 1, NEW j \in 1 .. m + 1,
                 v[i].name = v[j].name, v[i].name \notin N
          PROVE  i = j
      <4>1. CASE i \in 1 .. m /\ j \in 1 .. m
        BY <1>2, <1>15, <3>1, <3>7, <4>1 DEF Waits, m
      <4>. QED  BY <3>1, <3>2, <3>5, <3>7, <4>1
    <3>8. Waits(d, N, v)
      BY <1>1, <3>1, <3>6, <3>7 DEF Waits
    <3>. QED  BY <3>8 DEF v
  <2>. QED  BY <2>1, <2>2
<1>17. top + 1 \in Nat /\ top + 1 >= top /\ top \in Nat /\ top >= top
  OBVIOUS
<1>18. ASSUME ins.op \in Computes
       PROVE  Temps(d, N, top + 1)
  BY <1>14, <1>17
<1>19. ASSUME ins.op \notin Computes
       PROVE  Temps(d, N, top)
  BY <1>14, <1>17, <1>19
<1>. QED  BY <1>15, <1>16, <1>18, <1>19 DEF d, u, n

TempInv ==
    /\ temp_counter \in Nat \ {0}
    /\ AllWithin(todo, program)
    /\ Temps(code, Named(program), temp_counter)
    /\ Waits(code, Named(program), operands)

LEMMA TempInit == GenInit => TempInv
<1>. SUFFICES ASSUME GenInit
              PROVE  TempInv
  OBVIOUS
<1>1. /\ program \in Node /\ todo = <<Stmt(program)>> /\ code = <<>> /\ operands = <<>>
      /\ temp_counter = 1
  BY AstAssumption DEF GenInit
<1>2. program \in Subtree(program)
  BY <1>1, SubtreeIs
<1>3. AllWithin(todo, program)
  BY <1>1, <1>2, NodeWithin
<1>4. Len(code) = 0 /\ Len(operands) = 0
  BY <1>1
<1>5. Temps(code, Named(program), temp_counter) /\ Waits(code, Named(program), operands)
  BY <1>4 DEF Temps, Waits
<1>. QED  BY <1>1, <1>3, <1>5 DEF TempInv

(* The first job, and the others.                                          *)
LEMMA FirstWithin ==
  ASSUME GenInv, TempInv, todo # <<>>
  PROVE  /\ program \in Node /\ Within(Job, program) /\ AllWithin(Tail(todo), program)
<1>1. program \in Node
  BY AstAssumption DEF GenInv
<1>2. /\ Job = todo[1] /\ Len(todo) \in Nat \ {0}
      /\ IsSequence(Tail(todo)) /\ Len(Tail(todo)) = Len(todo) - 1
      /\ \A i \in 1 .. Len(todo) - 1 : Tail(todo)[i] = todo[i + 1]
  BY JobIs
<1>3. \A i \in 1 .. Len(todo) : Within(todo[i], program)
  BY DEF TempInv, AllWithin
<1>4. Within(Job, program)
  BY <1>2, <1>3
<1>5. \A i \in 1 .. Len(todo) - 1 : i + 1 \in 1 .. Len(todo)
  BY <1>2
<1>6. AllWithin(Tail(todo), program)
  BY <1>2, <1>3, <1>5 DEF AllWithin
<1>. QED  BY <1>1, <1>4, <1>6

(* What the first job does to the operands.                                *)
LEMMA FirstDoes ==
  ASSUME GenInv, FlowInv, todo # <<>>
  PROVE  \E p \in Nat, a, b \in Nat : Len(operands) \in Nat /\ Does(Job, Len(operands), p, a, b)
<1>1. PICK h, r : Flow(h) /\ Leads(todo, Len(operands), h[Len(code) + 1], r, 0)
  BY DEF FlowInv
<1>2. Len(code) \in Nat
  BY DEF GenInv, IsSequence
<1>3. h[Len(code) + 1] \in Nat
  <2>1. Len(code) + 1 \in 1 .. Len(code) + 1
    BY <1>2
  <2>. QED  BY <1>1, <2>1 DEF Flow
<1>. QED  BY <1>1, <1>3, FirstLeads

LEMMA TempWritten ==
  ASSUME GenInv, FlowInv, TempInv, GenWrite
  PROVE  TempInv'
<1>. DEFINE k == Job.takes
            op == Job.ins.op
            N == Named(program)
            ins == [Job.ins EXCEPT !.args = Taken, !.dst = IF op \in Computes THEN new_temp ELSE @]
<1>1. /\ todo # <<>> /\ Job.do = "write" /\ todo' = Tail(todo) /\ UNCHANGED program
      /\ op \in Computes => temp_counter \in DOMAIN TempName
      /\ code' = Append(code, ins)
      /\ operands' = IF op \in Computes THEN Append(Untaken, Name(new_temp)) ELSE Untaken
      /\ temp_counter' = temp_counter + (IF op \in Computes THEN 1 ELSE 0)
  BY DEF GenWrite, Doing
<1>2. /\ ins.op = op /\ ins.args = Taken
      /\ ins.dst = IF op \in Computes THEN new_temp ELSE Job.ins.dst
  <2>1. PICK p, dst, sym, num : Job.ins = Ins(p, dst, sym, num)
    BY <1>1, JobIs DEF JobOK, IsInstruction
  <2>2. Job.ins = [op |-> p, dst |-> dst, sym |-> sym, num |-> num, args |-> <<>>]
    BY <2>1 DEF Ins
  <2>. QED  BY <2>2
<1>3. /\ k <= Len(operands) /\ (op \in Carries \/ k = Len(operands))
      /\ InsOK(Job.ins, k)
  <2>1. PICK p \in Nat, a, b \in Nat : Does(Job, Len(operands), p, a, b)
    BY <1>1, FirstDoes
  <2>. QED  BY <1>1, <2>1 DEF Does
<1>4. k \in Nat
  BY <1>3 DEF InsOK, Uses
<1>5. Job.ins.dst \in N
  BY <1>1, FirstWithin DEF Within
<1>6. IF ins.op \in Computes
      THEN temp_counter \in DOMAIN TempName /\ ins.dst = TempName[temp_counter]
      ELSE ins.dst \in N
  BY <1>1, <1>2, <1>5 DEF new_temp
<1>7. /\ IsSequence(code) /\ IsSequence(operands) /\ temp_counter \in Nat \ {0}
      /\ Temps(code, N, temp_counter) /\ Waits(code, N, operands)
  BY DEF GenInv, FlowInv, Lits, TempInv
<1>8. ins.args = SubSeq(operands, Len(operands) - k + 1, Len(operands))
  BY <1>2 DEF Taken
<1>9. ins.op \in Carries \/ k = Len(operands)
  BY <1>2, <1>3
<1>10. AllWithin(todo', program')
  BY <1>1, FirstWithin
<1>11. N' = N
  BY <1>1
<1>. HIDE DEF k, op, N, ins
<1>12. /\ ins.op \in Computes =>
            /\ Temps(Append(code, ins), N, temp_counter + 1)
            /\ Waits(Append(code, ins), N,
                     Append(SubSeq(operands, 1, Len(operands) - k), Name(ins.dst)))
       /\ ins.op \notin Computes =>
            /\ Temps(Append(code, ins), N, temp_counter)
            /\ Waits(Append(code, ins), N, SubSeq(operands, 1, Len(operands) - k))
  BY <1>3, <1>4, <1>6, <1>7, <1>8, <1>9, TempsWritten
<1>13. SubSeq(operands, 1, Len(operands) - k) = Untaken
  BY DEF Untaken, k
<1>14. /\ Temps(code', N, temp_counter') /\ Waits(code', N, operands')
       /\ temp_counter' \in Nat \ {0}
  <2>1. CASE op \in Computes
    <3>1. temp_counter' = temp_counter + 1 /\ temp_counter' \in Nat \ {0}
      BY <1>1, <1>7, <2>1
    <3>2. operands' = Append(Untaken, Name(ins.dst))
      BY <1>1, <1>2, <2>1
    <3>. QED  BY <1>1, <1>2, <1>12, <1>13, <2>1, <3>1, <3>2
  <2>2. CASE op \notin Computes
    <3>1. temp_counter' = temp_counter
      BY <1>1, <1>7, <2>2
    <3>2. operands' = Untaken
      BY <1>1, <2>2
    <3>. QED  BY <1>1, <1>2, <1>7, <1>12, <1>13, <2>2, <3>1, <3>2
  <2>. QED  BY <2>1, <2>2
<1>15. /\ Temps(code', Named(program)', temp_counter')
       /\ Waits(code', Named(program)', operands')
  BY <1>11, <1>14 DEF N
<1>. QED  BY <1>10, <1>14, <1>15 DEF TempInv

(* A step that writes nothing.                                             *)
LEMMA TempKept ==
  ASSUME TempInv, UNCHANGED <<program, code, temp_counter>>,
         AllWithin(todo', program), Waits(code, Named(program), operands')
  PROVE  TempInv'
<1>1. /\ temp_counter' \in Nat \ {0}
      /\ Temps(code', Named(program'), temp_counter')
  BY DEF TempInv
<1>2. AllWithin(todo', program') /\ Waits(code', Named(program'), operands')
  OBVIOUS
<1>. QED  BY <1>1, <1>2 DEF TempInv

LEMMA TempStep == GenInv /\ FlowInv /\ TempInv /\ GenStep => TempInv'
<1>. SUFFICES ASSUME GenInv, FlowInv, TempInv, GenStep
              PROVE  TempInv'
  OBVIOUS
<1>. DEFINE N == Named(program)
<1>0. IsSequence(operands) /\ Waits(code, N, operands)
  BY DEF FlowInv, Lits, TempInv
<1>1. CASE GenOperand
  <2>. DEFINE n == Ast[Job.n]
              x == IF n.kind = "VAR_REF" THEN Name(n.name) ELSE Const(Typed(n.type, n.num))
  <2>1. /\ todo # <<>> /\ Job.do = "expr" /\ todo' = Tail(todo)
        /\ operands' = Append(operands, x) /\ UNCHANGED <<program, code, temp_counter>>
    BY <1>1 DEF GenOperand, Doing
  <2>2. Job.n \in Subtree(program)
    BY <2>1, FirstWithin DEF Within
  <2>3. x.name \in N
    <3>1. CASE n.kind = "VAR_REF"
      <4>1. x.name = n.name
        BY <3>1 DEF Name
      <4>. QED  BY <2>2, <3>1, <4>1 DEF Named, Namer, Kind
    <3>2. CASE n.kind # "VAR_REF"
      <4>1. x.name = ""
        BY <3>2 DEF Const
      <4>. QED  BY <4>1 DEF Named
    <3>. QED  BY <3>1, <3>2
  <2>. HIDE DEF x, N
  <2>4. Waits(code, N, Append(operands, x))
    BY <1>0, <2>3, WaitsPlain
  <2>. QED  BY <2>1, <2>4, FirstWithin, TempKept DEF N
<1>2. CASE GenExpr
  <2>1. /\ todo # <<>> /\ Job.do = "expr" /\ todo' = ExprItems(Job.n) \o Tail(todo)
        /\ Kind(Job.n) \notin {"LITERAL", "VAR_REF"}
        /\ UNCHANGED <<program, code, operands, temp_counter>>
    BY <1>2 DEF GenExpr, Doing
  <2>2. Job.n \in Subtree(program) /\ Kind(Job.n) \in ExprKind \ {"LITERAL", "VAR_REF"}
    BY <2>1, FirstWithin, MarkOfJob DEF Within
  <2>3. AllWithin(ExprItems(Job.n), program) /\ AllWithin(Tail(todo), program)
    BY <2>1, <2>2, FirstWithin, ExprWithin
  <2>4. AllWithin(todo', program)
    BY <2>1, <2>3, WithinJoin
  <2>. QED  BY <1>0, <2>1, <2>4, TempKept
<1>3. CASE GenStmt
  <2>1. /\ todo # <<>> /\ Job.do = "stmt" /\ todo' = StmtItems(Job.n) \o Tail(todo)
        /\ UNCHANGED <<program, code, operands, temp_counter>>
    BY <1>3 DEF GenStmt, Doing
  <2>2. Job.n \in Subtree(program)
    BY <2>1, FirstWithin DEF Within
  <2>3. AllWithin(StmtItems(Job.n), program) /\ AllWithin(Tail(todo), program)
    BY <2>1, <2>2, FirstWithin, StmtWithin
  <2>4. AllWithin(todo', program)
    BY <2>1, <2>3, WithinJoin
  <2>. QED  BY <1>0, <2>1, <2>4, TempKept
<1>4. CASE GenWrite
  BY <1>4, TempWritten
<1>5. CASE GenFree
  <2>1. /\ todo # <<>> /\ Job.do = "free" /\ todo' = Tail(todo) /\ operands' = Untaken
        /\ UNCHANGED <<program, code, temp_counter>>
    BY <1>5 DEF GenFree, Doing
  <2>2. Len(operands) \in Nat /\ Job.takes = 1 /\ 1 <= Len(operands)
    <3>1. PICK p \in Nat, a, b \in Nat :
             Len(operands) \in Nat /\ Does(Job, Len(operands), p, a, b)
      BY <2>1, FirstDoes
    <3>2. a + 1 = Len(operands) /\ Job.takes = 1
      BY <2>1, <3>1 DEF Does
    <3>. QED  BY <3>1, <3>2
  <2>3. PICK S : operands \in Seq(S)
    BY <1>0 DEF IsSequence
  <2>. DEFINE m == Len(operands) - 1
  <2>4. /\ m \in Nat /\ m <= Len(operands) /\ Len(Untaken) = m
        /\ \A i \in 1 .. m : Untaken[i] = operands[i]
    <3>1. Untaken = SubSeq(operands, 1, m)
      BY <2>2 DEF Untaken
    <3>2. m \in Nat /\ m <= Len(operands) /\ m \in 0 .. Len(operands)
      BY <2>2
    <3>. HIDE DEF m
    <3>3. /\ Len(SubSeq(operands, 1, m)) = m
          /\ \A i \in 1 .. m : SubSeq(operands, 1, m)[i] = operands[i]
      BY <2>3, <3>2
    <3>. QED  BY <3>1, <3>2, <3>3, Zenon
  <2>. HIDE DEF m, N
  <2>5. Waits(code, N, Untaken)
    BY <1>0, <2>2, <2>4, WaitsFewer
  <2>. QED  BY <2>1, <2>5, FirstWithin, TempKept DEF N
<1>. QED  BY <1>1, <1>2, <1>3, <1>4, <1>5 DEF GenStep

LEMMA TempOthers == TempInv /\ UNCHANGED genVars => TempInv'
BY DEF TempInv, genVars

(* What it says of a text in which no variable has a temporary's name.     *)
LEMMA StraightText ==
  ASSUME GenInv, FlowInv, TempInv
  PROVE  TempsStraight
<1>. SUFFICES ASSUME ~NameClash, NEW k \in DOMAIN code, code[k].op \in Computes
              PROVE  LET t == code[k].dst
                         uses == {j \in DOMAIN code : t \in Reads(j)}
                     IN  /\ \A j \in DOMAIN code : code[j].dst = t => j = k
                         /\ Cardinality(uses) <= 1
                         /\ \A u \in uses :
                               /\ k < u
                               /\ \A j \in k .. u - 1 :
                                     code[j].op \in Computes \cup {"PARAM"}
  BY DEF TempsStraight
<1>. DEFINE N == Named(program)
            C == Len(code)
            t == code[k].dst
            uses == {j \in DOMAIN code : t \in Reads(j)}
<1>1. C \in Nat /\ DOMAIN code = 1 .. C
  BY DEF GenInv, IsSequence
<1>2. Temps(code, N, temp_counter)
  BY DEF TempInv
<1>3. t \notin N
  <2>1. t # ""
    <3>1. PICK i : i \in DOMAIN TempName /\ t = TempName[i]
      BY <1>1, <1>2 DEF Temps
    <3>. QED  BY <3>1, CodegenAssumption
  <2>. QED  BY <2>1 DEF NameClash, Named, Namer
<1>4. ASSUME NEW j \in 1 .. C, code[j].dst = t
      PROVE  j = k
  BY <1>1, <1>2, <1>3, <1>4 DEF Temps
<1>5. ASSUME NEW j \in 1 .. C
      PROVE  t \in Reads(j) <=> ReadAt(code, j, t)
  <2>1. Len(code[j].args) \in Nat /\ DOMAIN code[j].args = 1 .. Len(code[j].args)
    BY DEF FlowInv, Lits, IsSequence
  <2>. QED  BY <2>1 DEF Reads, ReadAt
<1>. HIDE DEF t, N, C
<1>6. ASSUME NEW u \in uses
      PROVE  /\ k < u
             /\ \A j \in k .. u - 1 : code[j].op \in Computes \cup {"PARAM"}
  <2>1. u \in 1 .. C /\ ReadAt(code, u, t)
    BY <1>1, <1>5
  <2>2. PICK i \in 1 .. u - 1 : Ready(code, i, u - 1, t)
    BY <1>2, <1>3, <2>1 DEF Temps, C
  <2>3. i = k
    BY <1>1, <1>4, <2>1, <2>2 DEF Ready
  <2>. QED  BY <1>1, <2>1, <2>2, <2>3 DEF Ready, Carries
<1>7. \A u, v \in uses : u = v
  <2>1. \A u \in uses : u \in 1 .. C /\ ReadAt(code, u, t)
    BY <1>1, <1>5
  <2>. HIDE DEF uses
  <2>. QED  BY <1>2, <1>3, <2>1 DEF Temps, C
<1>. HIDE DEF uses
<1>8. Cardinality(uses) <= 1
  <2>1. CASE uses = {}
    BY <2>1, FS_EmptySet
  <2>2. CASE uses # {}
    <3>1. PICK u : uses = {u}
      BY <1>7, <2>2
    <3>. QED  BY <3>1, FS_Singleton
  <2>. QED  BY <2>1, <2>2
<1>. QED  BY <1>1, <1>4, <1>6, <1>8 DEF t, uses

(* A temporary is written once, and whatever reads it comes straight after *)
(* (new_temp, codegen.c:16-20, and gen_expr, codegen.c:48-112).            *)
THEOREM TempsAlwaysStraight == Spec => []TempsStraight
<1>. DEFINE Inv == GenInv /\ FlowInv /\ TempInv
<1>1. Init => Inv
  BY GeneratorInit, FlowInit, TempInit DEF Init
<1>2. Inv /\ [Next]_vars => Inv'
  <2>. SUFFICES ASSUME Inv, [Next]_vars
                PROVE  Inv'
    OBVIOUS
  <2>1. CASE GenStep
    BY <2>1, GeneratorStep, FlowStep, TempStep
  <2>2. CASE UNCHANGED genVars
    BY <2>2, OthersKeep, FlowOthers, TempOthers
  <2>3. GenStep \/ UNCHANGED genVars
    BY DEF Next, Step, Generate, Interpret, Start, Machine, Ended, vars
  <2>. QED  BY <2>1, <2>2, <2>3
<1>3. Inv => TempsStraight
  BY StraightText
<1>. QED  BY <1>1, <1>2, <1>3, PTL DEF Spec
=============================================================================
