------------------------- MODULE CBackendBuildProofs -------------------------
(***************************************************************************)
(* Proofs about c_backend_compile_binary for any number of processes, any  *)
(* sizes of their texts and any wait statuses of gcc: no process that runs *)
(* to its end leaves the temporary file behind, and a build that is alone  *)
(* builds its own program.                                                 *)
(***************************************************************************)
EXTENDS CBackendBuild, TLAPS

-----------------------------------------------------------------------------
(* Facts about the text of a process.                                      *)

(* The flush of another block extends what a process has written to an     *)
(* empty file by that block (fwrite at the file's offset).                 *)
LEMMA FlushExtends ==
    ASSUME NEW p, NEW n \in Nat
    PROVE  Written(Part(p, n), n + 1, p) = Part(p, n + 1)
<1>1. Len(Part(p, n)) = n
    BY DEF Part
<1>2. (IF n + 1 > Len(Part(p, n)) THEN n + 1 ELSE Len(Part(p, n))) = n + 1
    BY <1>1
<1>3. ASSUME NEW j \in 1 .. n + 1
      PROVE  (IF j = n + 1 THEN p ELSE IF j <= Len(Part(p, n)) THEN Part(p, n)[j] ELSE Hole) = p
    <2>1. CASE j = n + 1
        BY <2>1
    <2>2. CASE j # n + 1
        <3>1. j \in 1 .. n
            BY <2>2
        <3>2. Part(p, n)[j] = p
            BY <3>1 DEF Part
        <3>. QED
            BY <1>1, <2>2, <3>1, <3>2
    <2>. QED
        BY <2>1, <2>2
<1>4. Written(Part(p, n), n + 1, p) =
        [j \in 1 .. n + 1 |->
            IF j = n + 1 THEN p ELSE IF j <= Len(Part(p, n)) THEN Part(p, n)[j] ELSE Hole]
    BY <1>2 DEF Written
<1>5. Part(p, n + 1) = [j \in 1 .. n + 1 |-> p]
    BY DEF Part
<1>. QED
    BY <1>3, <1>4, <1>5, Zenon

(* A write into a file of blocks leaves a file of blocks.                  *)
LEMMA WrittenType ==
    ASSUME NEW blocks \in Seq(Proc \cup {Hole}), NEW i \in Nat, NEW q \in Proc
    PROVE  Written(blocks, i, q) \in Seq(Proc \cup {Hole})
<1>1. Len(blocks) \in Nat
    OBVIOUS
<1>. DEFINE n == IF i > Len(blocks) THEN i ELSE Len(blocks)
<1>2. n \in Nat
    BY <1>1
<1>3. ASSUME NEW j \in 1 .. n
      PROVE  (IF j = i THEN q ELSE IF j <= Len(blocks) THEN blocks[j] ELSE Hole)
                \in Proc \cup {Hole}
    <2>1. j <= Len(blocks) => blocks[j] \in Proc \cup {Hole}
        BY <1>1, <1>2
    <2>. QED
        BY <2>1
<1>4. Written(blocks, i, q) =
        [j \in 1 .. n |-> IF j = i THEN q ELSE IF j <= Len(blocks) THEN blocks[j] ELSE Hole]
    BY DEF Written
<1>. HIDE DEF n
<1>. QED
    BY <1>2, <1>3, <1>4

(* What a process has written is nobody's text but its own, and that only  *)
(* if it is all of it.                                                     *)
LEMMA PartIsText ==
    ASSUME NEW p \in Proc, NEW n \in Nat, NEW q \in Proc, Part(p, n) = Text(q)
    PROVE  p = q /\ n = Size[q]
<1>1. Size[q] \in Nat /\ Size[q] # 0
    BY BuildAssumption
<1>2. Len(Part(p, n)) = n /\ Len(Text(q)) = Size[q]
    BY <1>1 DEF Part, Text
<1>3. n = Size[q] /\ 1 \in 1 .. n
    BY <1>1, <1>2
<1>4. Text(q)[1] = q /\ Part(p, n)[1] = p
    BY <1>3 DEF Part, Text
<1>. QED
    BY <1>3, <1>4

(* What the kernel keeps of an exit status.                                *)
LEMMA LowByte == \A n \in Int : n % 256 \in 0 .. 255
    OBVIOUS

-----------------------------------------------------------------------------
(* The type invariant.                                                     *)

LEMMA Results ==
    /\ {0, 1, NoChild} \subseteq Result
    /\ FailStatus \subseteq Result
    /\ Result \subseteq Int
    BY BuildAssumption DEF Result, NoChild

LEMMA TypeInit == Init => TypeOK
    BY Results DEF Init, TypeOK, PC

LEMMA TypeStep == TypeOK /\ [Next]_vars => TypeOK'
<1>. SUFFICES ASSUME TypeOK, [Next]_vars PROVE TypeOK'
    OBVIOUS
<1>. USE BuildAssumption, Results DEF TypeOK, PC
<1>1. ASSUME NEW p \in Proc, Open(p) PROVE TypeOK'
    <2>. DEFINE opened == IF path = None THEN p ELSE path
    <2>1. opened \in Proc
        OBVIOUS
    <2>2. path' = opened /\ file' = [file EXCEPT ![p] = opened]
          /\ content' = [content EXCEPT ![opened] = <<>>]
          /\ pc' = [pc EXCEPT ![p] = "write"]
        BY <1>1 DEF Open
    <2>3. alone' \in [Proc -> BOOLEAN]
        <3>1. alone' = [q \in Proc |-> CASE q = p          -> Building = {}
                                         [] q \in Building -> FALSE
                                         [] OTHER          -> alone[q]]
            BY <1>1 DEF Open
        <3>2. ASSUME NEW q \in Proc
              PROVE  (CASE q = p -> Building = {} [] q \in Building -> FALSE
                       [] OTHER -> alone[q]) \in BOOLEAN
            OBVIOUS
        <3>. QED
            BY <3>1, <3>2
    <2>4. <<>> \in Seq(Proc \cup {Hole})
        OBVIOUS
    <2>5. UNCHANGED <<written, offset, res, binary, message, exited>>
        BY <1>1 DEF Open
    <2>. HIDE DEF opened
    <2>. QED
        BY <2>1, <2>2, <2>3, <2>4, <2>5
<1>2. ASSUME NEW p \in Proc, OpenFails(p) PROVE TypeOK'
    BY <1>2 DEF OpenFails
<1>3. ASSUME NEW p \in Proc, FlushDone(p),
             content' \in [Proc -> Seq(Proc \cup {Hole})], offset' \in [Proc -> Nat]
      PROVE  TypeOK'
    <2>1. /\ written' = [written EXCEPT ![p] = @ + 1]
          /\ UNCHANGED <<path, file, res, binary, message, exited, alone>>
        BY <1>3 DEF FlushDone
    <2>2. PICK next \in {"gcc", "write"} : pc' = [pc EXCEPT ![p] = next]
        BY <1>3 DEF FlushDone
    <2>3. pc[p] = "write" /\ pc' \in [Proc -> PC]
        BY <1>3, <2>2 DEF FlushDone
    <2>4. \A q \in Proc : pc'[q] = "write" => file'[q] \in Proc
        BY <2>1, <2>2, <2>3
    <2>5. written' \in [Proc -> Nat]
        BY <2>1
    <2>6. /\ path' = path /\ file' = file /\ res' = res /\ binary' = binary
          /\ message' = message /\ exited' = exited /\ alone' = alone
        BY <2>1
    <2>. QED
        BY <1>3, <2>3, <2>4, <2>5, <2>6
<1>3a. ASSUME NEW p \in Proc, Flush(p) PROVE TypeOK'
    <2>1. FlushDone(p) /\ file[p] \in Proc /\ offset[p] + 1 \in Nat
        BY <1>3a DEF Flush, FlushDone
    <2>2. Written(content[file[p]], offset[p] + 1, p) \in Seq(Proc \cup {Hole})
        BY <2>1, WrittenType
    <2>3. /\ content' = [content EXCEPT ![file[p]] =
                           Written(content[file[p]], offset[p] + 1, p)]
          /\ offset' = [offset EXCEPT ![p] = @ + 1]
        BY <1>3a DEF Flush
    <2>4. content' \in [Proc -> Seq(Proc \cup {Hole})] /\ offset' \in [Proc -> Nat]
        BY <2>1, <2>2, <2>3
    <2>. QED
        BY <1>3, <2>1, <2>4
<1>3b. ASSUME NEW p \in Proc, FlushFails(p) PROVE TypeOK'
    BY <1>3, <1>3b DEF FlushFails
<1>4. ASSUME NEW p \in Proc, GccSucceeds(p) PROVE TypeOK'
    <2>1. Compilable \subseteq Proc \cup {Garbled}
        BY DEF Compilable
    <2>. QED
        BY <1>4, <2>1 DEF GccSucceeds
<1>5. ASSUME NEW p \in Proc, GccFails(p) PROVE TypeOK'
    <2>1. PICK status \in FailStatus \cup {NoChild} : res' = [res EXCEPT ![p] = status]
        BY <1>5 DEF GccFails
    <2>2. status \in Result
        OBVIOUS
    <2>3. res' \in [Proc -> Result]
        BY <2>1, <2>2
    <2>. QED
        BY <1>5, <2>3 DEF GccFails
<1>6. ASSUME NEW p \in Proc, Remove(p) PROVE TypeOK'
    BY <1>6 DEF Remove
<1>7. ASSUME NEW p \in Proc, Report(p) PROVE TypeOK'
    <2>1. res[p] % 256 \in 0 .. 255
        <3>1. res[p] \in Int
            OBVIOUS
        <3>. QED
            BY ONLY <3>1, LowByte
    <2>. QED
        BY <1>7, <2>1 DEF Report
<1>8. ASSUME NEW p \in Proc, Kill(p) PROVE TypeOK'
    BY <1>8 DEF Kill
<1>9. CASE UNCHANGED vars
    BY <1>9 DEF vars
<1>. QED
    BY <1>1, <1>2, <1>3a, <1>3b, <1>4, <1>5, <1>6, <1>7, <1>8, <1>9 DEF Next, Step, Ended

(* Whatever the other processes do to its file and whatever fails, fopen,  *)
(* a write, gcc or system itself, a process writes only to a file it has   *)
(* opened, and the function's result is 0, 1, a wait status or -1          *)
(* (c_backend_compile_binary).                                             *)
THEOREM BuildTypeCorrect == Spec => []TypeOK
    BY TypeInit, TypeStep, PTL DEF Spec

-----------------------------------------------------------------------------
(* The temporary file.                                                     *)

LEMMA TempInit == Init => TempRemoved
    BY DEF Init, TempRemoved

LEMMA TempStep == TypeOK /\ TempRemoved /\ [Next]_vars => TempRemoved'
<1>. SUFFICES ASSUME TypeOK, TempRemoved, [Next]_vars, path' # None
              PROVE  (Building \cup Killed)' # {}
    BY DEF TempRemoved
<1>. USE DEF Building, Killed
<1>0. pc \in [Proc -> PC]
    BY DEF TypeOK
<1>1. ASSUME NEW p \in Proc, pc'[p] \in {"write", "gcc", "remove", "killed"}
      PROVE  (Building \cup Killed)' # {}
    BY <1>1
<1>2. ASSUME NEW p \in Proc, NEW next \in {"report", "exited"}, path' = path,
             pc[p] \in {"start", "report"}, pc' = [pc EXCEPT ![p] = next]
      PROVE  (Building \cup Killed)' # {}
    <2>1. PICK q \in Proc : pc[q] \in {"write", "gcc", "remove", "killed"}
        BY <1>2 DEF TempRemoved
    <2>2. pc'[q] = pc[q]
        BY <1>0, <1>2, <2>1
    <2>. QED
        BY <1>1, <2>1, <2>2
<1>3. ASSUME NEW p \in Proc,
             \/ Open(p) \/ Flush(p) \/ FlushFails(p) \/ GccSucceeds(p)
             \/ GccFails(p) \/ Kill(p)
      PROVE  (Building \cup Killed)' # {}
    <2>1. pc'[p] \in {"write", "gcc", "remove", "killed"}
        BY <1>0, <1>3 DEF Open, Flush, FlushFails, FlushDone, GccSucceeds, GccFails, Kill
    <2>. QED
        BY <1>1, <2>1
<1>4. ASSUME NEW p \in Proc, OpenFails(p) \/ Report(p)
      PROVE  (Building \cup Killed)' # {}
    <2>1. /\ path' = path /\ pc[p] \in {"start", "report"}
          /\ \E next \in {"report", "exited"} : pc' = [pc EXCEPT ![p] = next]
        BY <1>4 DEF OpenFails, Report
    <2>. QED
        BY <1>2, <2>1
<1>5. ASSUME NEW p \in Proc, Remove(p) PROVE FALSE
    BY <1>5 DEF Remove
<1>6. CASE UNCHANGED vars
    BY <1>6 DEF vars, TempRemoved
<1>. QED
    BY <1>3, <1>4, <1>5, <1>6 DEF Next, Step, Ended

(* Unless some process has been killed, the name in /tmp is gone as soon   *)
(* as no build is under way, however many have overlapped and whichever of *)
(* them have failed (the unlink after system in c_backend_compile_binary). *)
THEOREM NoTempLeft == Spec => []TempRemoved
<1>1. TypeOK /\ TempRemoved /\ [Next]_vars => TypeOK' /\ TempRemoved'
    BY TempStep, TypeStep
<1>2. Init => TypeOK /\ TempRemoved
    BY TempInit, TypeInit
<1>. QED
    BY <1>1, <1>2, PTL DEF Spec

-----------------------------------------------------------------------------
(* A build that is alone.                                                  *)

(* What holds of p at each place of the function while no other build has  *)
(* been under way: the path names the file p has opened, that file holds   *)
(* what p has written and nothing else, and the executable gcc has made of *)
(* it is that of p's own program.                                          *)
BuiltOwn(p) == binary[p] = IF offset[p] = Size[p] THEN p ELSE Garbled

OwnInv(p) ==
    /\ pc[p] \in {"write", "gcc", "remove"} => Building = {p}
    /\ pc[p] = "write" => path = file[p]
    /\ pc[p] \in {"write", "gcc"} => /\ path \in Proc
                                    /\ content[path] = Part(p, offset[p])
    /\ pc[p] \in {"remove", "report"} /\ res[p] = 0 => BuiltOwn(p)
    /\ message[p] = "built" => pc[p] = "exited" /\ BuiltOwn(p)

AloneInv == \A p \in Proc : alone[p] => OwnInv(p)

(* A process that has opened nothing has written and reported nothing.     *)
Fresh == \A p \in Proc : pc[p] = "start" => offset[p] = 0 /\ message[p] = "none"

BInv == TypeOK /\ Fresh /\ AloneInv

LEMMA OwnInit == Init => BInv
<1>. SUFFICES ASSUME Init PROVE BInv
    OBVIOUS
<1>1. TypeOK
    BY TypeInit
<1>2. Fresh /\ AloneInv
    BY DEF Init, Fresh, AloneInv, OwnInv
<1>. QED
    BY <1>1, <1>2 DEF BInv

LEMMA FreshStep == TypeOK /\ Fresh /\ [Next]_vars => Fresh'
<1>. SUFFICES ASSUME TypeOK, Fresh, [Next]_vars, NEW q \in Proc, pc'[q] = "start"
              PROVE  offset'[q] = 0 /\ message'[q] = "none"
    BY DEF Fresh
<1>. USE DEF TypeOK, Fresh
<1>1. ASSUME NEW p \in Proc,
             Open(p) \/ OpenFails(p) \/ GccSucceeds(p) \/ GccFails(p) \/ Remove(p) \/ Kill(p)
      PROVE  offset'[q] = 0 /\ message'[q] = "none"
    BY <1>1 DEF Open, OpenFails, GccSucceeds, GccFails, Remove, Kill
<1>2. ASSUME NEW p \in Proc, Flush(p) \/ FlushFails(p)
      PROVE  offset'[q] = 0 /\ message'[q] = "none"
    BY <1>2 DEF Flush, FlushFails, FlushDone
<1>3. ASSUME NEW p \in Proc, Report(p)
      PROVE  offset'[q] = 0 /\ message'[q] = "none"
    BY <1>3 DEF Report
<1>4. CASE UNCHANGED vars
    BY <1>4 DEF vars
<1>. QED
    BY <1>1, <1>2, <1>3, <1>4 DEF Next, Step, Ended

(* A step of another process: it opens the path only when q is not         *)
(* building, or q is alone no more; and only a process that builds touches *)
(* the path and the files behind it.                                       *)
LEMMA OtherStep ==
    ASSUME BInv, NEW q \in Proc, alone'[q], NEW p \in Proc, p # q,
           \/ Open(p) \/ OpenFails(p) \/ Flush(p) \/ FlushFails(p) \/ GccSucceeds(p)
           \/ GccFails(p) \/ Remove(p) \/ Report(p) \/ Kill(p)
    PROVE  OwnInv(q)'
<1>. USE DEF BInv, TypeOK, Building
<1>1. alone[q] /\ (Open(p) => q \notin Building)
    <2>1. CASE Open(p)
        <3>1. alone' = [r \in Proc |-> CASE r = p          -> Building = {}
                                         [] r \in Building -> FALSE
                                         [] OTHER          -> alone[r]]
            BY <2>1 DEF Open
        <3>2. q \notin Building /\ alone'[q] = alone[q]
            BY <3>1
        <3>. QED
            BY <3>2
    <2>2. CASE ~Open(p)
        BY <2>2 DEF OpenFails, Flush, FlushFails, FlushDone, GccSucceeds, GccFails, Remove, Report, Kill
    <2>. QED
        BY <2>1, <2>2
<1>2. OwnInv(q)
    BY <1>1 DEF AloneInv
<1>3. /\ pc'[q] = pc[q] /\ res'[q] = res[q] /\ binary'[q] = binary[q]
      /\ message'[q] = message[q] /\ offset'[q] = offset[q]
    BY DEF Open, OpenFails, Flush, FlushFails, FlushDone, GccSucceeds, GccFails, Remove, Report, Kill
<1>4. CASE q \notin Building
    BY <1>2, <1>3, <1>4 DEF OwnInv, BuiltOwn
<1>5. CASE q \in Building
    <2>1. Building = {q} /\ p \notin Building
        BY <1>2, <1>5 DEF OwnInv, BuiltOwn
    <2>2. OpenFails(p) \/ Report(p) \/ Kill(p)
        BY <1>1, <1>5, <2>1 DEF Flush, FlushFails, FlushDone, GccSucceeds, GccFails, Remove
    <2>3. path' = path /\ content' = content /\ file' = file
        BY <2>2 DEF OpenFails, Report, Kill
    <2>4. \E next \in {"report", "exited", "killed"} : pc' = [pc EXCEPT ![p] = next]
        BY <2>2 DEF OpenFails, Report, Kill
    <2>5. Building' = {q}
        BY <2>1, <2>4
    <2>. QED
        BY <1>2, <1>3, <2>3, <2>5 DEF OwnInv, BuiltOwn
<1>. QED
    BY <1>4, <1>5

(* A step of the process itself.                                           *)
LEMMA OwnStep ==
    ASSUME BInv, NEW q \in Proc, alone'[q],
           \/ Open(q) \/ OpenFails(q) \/ Flush(q) \/ FlushFails(q) \/ GccSucceeds(q)
           \/ GccFails(q) \/ Remove(q) \/ Report(q) \/ Kill(q)
    PROVE  OwnInv(q)'
<1>. USE DEF BInv, TypeOK
<1>0. ASSUME ~Open(q)
      PROVE  alone[q] /\ OwnInv(q)
    <2>1. alone'[q] = alone[q]
        BY <1>0 DEF OpenFails, Flush, FlushFails, FlushDone, GccSucceeds, GccFails, Remove, Report, Kill
    <2>. QED
        BY <2>1 DEF AloneInv
<1>1. CASE Open(q)
    <2>1. alone' = [r \in Proc |-> CASE r = q          -> Building = {}
                                     [] r \in Building -> FALSE
                                     [] OTHER          -> alone[r]]
        BY <1>1 DEF Open
    <2>2. Building = {}
        BY <2>1
    <2>3. pc' = [pc EXCEPT ![q] = "write"]
        BY <1>1 DEF Open
    <2>4. Building' = {q}
        BY <2>2, <2>3 DEF Building
    <2>5. path' \in Proc /\ file'[q] = path' /\ content'[path'] = <<>>
        BY <1>1 DEF Open
    <2>6. offset'[q] = 0 /\ message'[q] = "none"
        BY <1>1 DEF Open, Fresh
    <2>7. Part(q, 0) = <<>>
        BY DEF Part
    <2>8. Size[q] \in Nat /\ 0 < Size[q]
        BY BuildAssumption
    <2>. QED
        BY <2>3, <2>4, <2>5, <2>6, <2>7, <2>8 DEF OwnInv, BuiltOwn
<1>2. CASE OpenFails(q)
    <2>1. pc'[q] = "report" /\ res'[q] = 1 /\ message'[q] = "none"
        BY <1>2 DEF OpenFails, Fresh
    <2>. QED
        BY <2>1 DEF OwnInv, BuiltOwn
<1>3. ASSUME FlushDone(q),
             ~Open(q) => content'[path] = Part(q, offset'[q])
      PROVE  OwnInv(q)'
    <2>1. pc[q] = "write" /\ ~Open(q)
        BY <1>3 DEF FlushDone, Open
    <2>2. OwnInv(q)
        BY <1>0, <2>1
    <2>3. Building = {q} /\ path = file[q] /\ path \in Proc /\ message[q] # "built"
        BY <2>1, <2>2 DEF OwnInv
    <2>4. /\ path' = path /\ file' = file /\ message' = message
          /\ \E next \in {"write", "gcc"} : pc' = [pc EXCEPT ![q] = next]
        BY <1>3 DEF FlushDone
    <2>5. Building' = {q}
        BY <2>1, <2>3, <2>4 DEF Building
    <2>. QED
        BY <1>3, <2>1, <2>3, <2>4, <2>5 DEF OwnInv, BuiltOwn
<1>4. CASE Flush(q)
    <2>1. pc[q] = "write" /\ ~Open(q) /\ FlushDone(q)
        BY <1>4 DEF Flush, FlushDone, Open
    <2>2. path = file[q] /\ path \in Proc /\ content[path] = Part(q, offset[q])
        BY <1>0, <2>1 DEF OwnInv
    <2>3. /\ content'[path] = Written(content[path], offset[q] + 1, q)
          /\ offset'[q] = offset[q] + 1
        BY <1>4, <2>2 DEF Flush
    <2>4. content'[path] = Part(q, offset'[q])
        BY <2>2, <2>3, FlushExtends
    <2>. QED
        BY <1>3, <2>1, <2>4
<1>4a. CASE FlushFails(q)
    <2>1. pc[q] = "write" /\ ~Open(q) /\ FlushDone(q)
        BY <1>4a DEF FlushFails, FlushDone, Open
    <2>2. content[path] = Part(q, offset[q])
        BY <1>0, <2>1 DEF OwnInv
    <2>. QED
        BY <1>3, <1>4a, <2>1, <2>2 DEF FlushFails
<1>4b. CASE GccSucceeds(q)
    <2>1. pc[q] = "gcc" /\ ~Open(q)
        BY <1>4b DEF GccSucceeds, Open
    <2>2. /\ Building = {q} /\ path \in Proc /\ message[q] # "built"
          /\ content[path] = Part(q, offset[q])
        BY <1>0, <2>1 DEF OwnInv
    <2>3. Compilable \subseteq {IF offset[q] = Size[q] THEN q ELSE Garbled}
        <3>1. CASE offset[q] = Size[q]
            <4>1. {r \in Proc : content[path] = Text(r)} = {q}
                BY <2>2, <3>1, PartIsText DEF Text
            <4>. QED
                BY <3>1, <4>1 DEF Compilable
        <3>2. CASE offset[q] # Size[q]
            <4>1. {r \in Proc : content[path] = Text(r)} = {}
                BY <2>2, <3>2, PartIsText
            <4>. QED
                BY <3>2, <4>1 DEF Compilable
        <3>. QED
            BY <3>1, <3>2
    <2>4. PICK b \in Compilable : binary' = [binary EXCEPT ![q] = b]
        BY <1>4b DEF GccSucceeds
    <2>5. /\ offset' = offset /\ message' = message
          /\ pc' = [pc EXCEPT ![q] = "remove"]
        BY <1>4b DEF GccSucceeds
    <2>6. BuiltOwn(q)'
        BY <2>3, <2>4, <2>5 DEF BuiltOwn
    <2>7. Building' = {q}
        BY <2>1, <2>2, <2>5 DEF Building
    <2>. QED
        BY <2>2, <2>5, <2>6, <2>7 DEF OwnInv
<1>5. CASE GccFails(q)
    <2>1. pc[q] = "gcc"
        BY <1>5 DEF GccFails
    <2>2. OwnInv(q)
        BY <1>0, <2>1 DEF Open
    <2>3. Building = {q} /\ message[q] # "built"
        BY <2>1, <2>2 DEF OwnInv, BuiltOwn
    <2>4. /\ message'[q] # "built"
          /\ pc' = [pc EXCEPT ![q] = "remove"]
        BY <1>5, <2>3 DEF GccFails
    <2>4a. res'[q] # 0
        <3>1. PICK status \in FailStatus \cup {NoChild} : res' = [res EXCEPT ![q] = status]
            BY <1>5 DEF GccFails
        <3>2. status # 0
            BY BuildAssumption DEF NoChild
        <3>. QED
            BY <3>1, <3>2
    <2>5. Building' = {q}
        BY <2>1, <2>3, <2>4 DEF Building
    <2>. QED
        BY <2>4, <2>4a, <2>5 DEF OwnInv
<1>6. CASE Remove(q)
    <2>1. OwnInv(q) /\ pc[q] = "remove"
        BY <1>0, <1>6 DEF Open, Remove
    <2>2. /\ pc'[q] = "report" /\ res' = res /\ binary' = binary /\ message' = message
          /\ offset' = offset
        BY <1>6 DEF Remove
    <2>. QED
        BY <2>1, <2>2 DEF OwnInv, BuiltOwn
<1>7. CASE Report(q)
    <2>1. OwnInv(q) /\ pc[q] = "report"
        BY <1>0, <1>7 DEF Open, Report
    <2>2. /\ pc'[q] = "exited" /\ binary' = binary /\ offset' = offset
          /\ message'[q] = IF res[q] = 0 THEN "built" ELSE "failed"
        BY <1>7 DEF Report
    <2>. QED
        BY <2>1, <2>2 DEF OwnInv, BuiltOwn
<1>8. CASE Kill(q)
    <2>1. pc[q] # "exited" /\ pc'[q] = "killed" /\ message' = message
        BY <1>8 DEF Kill
    <2>2. OwnInv(q)
        BY <1>0, <1>8 DEF Open, Kill
    <2>. QED
        BY <2>1, <2>2 DEF OwnInv, BuiltOwn
<1>. QED
    BY <1>1, <1>2, <1>4, <1>4a, <1>4b, <1>5, <1>6, <1>7, <1>8

LEMMA AloneStep == BInv /\ [Next]_vars => BInv'
<1>. SUFFICES ASSUME BInv, [Next]_vars PROVE BInv'
    OBVIOUS
<1>1. TypeOK' /\ Fresh'
    BY TypeStep, FreshStep DEF BInv
<1>2. ASSUME NEW q \in Proc, alone'[q] PROVE OwnInv(q)'
    <2>1. CASE UNCHANGED vars
        BY <1>2, <2>1 DEF BInv, AloneInv, OwnInv, BuiltOwn, vars, Building
    <2>2. ASSUME NEW p \in Proc,
                 \/ Open(p) \/ OpenFails(p) \/ Flush(p) \/ FlushFails(p) \/ GccSucceeds(p)
                 \/ GccFails(p) \/ Remove(p) \/ Report(p) \/ Kill(p)
          PROVE  OwnInv(q)'
        BY <1>2, <2>2, OtherStep, OwnStep
    <2>. QED
        BY <2>1, <2>2 DEF Next, Step, Ended
<1>. QED
    BY <1>1, <1>2 DEF BInv, AloneInv

(* A build no other build overlaps gives gcc its own text, whole and       *)
(* unmixed, whatever file of a killed build it found under the name, and   *)
(* reports success only over its own executable (all of                    *)
(* c_backend_compile_binary and the branch of main that calls it).         *)
THEOREM AloneIsEnough == Spec => []AloneBuildsOwn
<1>1. BInv => AloneBuildsOwn
    BY BuildAssumption DEF BInv, AloneInv, OwnInv, BuiltOwn, AloneBuildsOwn
<1>. QED
    BY <1>1, OwnInit, AloneStep, PTL DEF Spec
=============================================================================
