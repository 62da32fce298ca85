---------------------------- MODULE CBackendBuild ----------------------------
(***************************************************************************)
(* c_backend_compile_binary and the end of main: several `lumis -o'        *)
(* processes on one machine.  Each writes the generated C text to a        *)
(* temporary file, has gcc compile that file by its name, and removes the  *)
(* name.  rand() is never seeded, so its first value, and with it the      *)
(* name, is the same in every process: there is one path.                  *)
(***************************************************************************)
EXTENDS Integers, Sequences

CONSTANTS
    Proc,        \* the processes, each with a program and an output of its own
    Size,        \* how many times stdio flushes the C text of a process
    FailStatus,  \* the wait statuses of a gcc that did not succeed
    Mortal,      \* the processes that may be killed from outside
    Faulty,      \* the processes whose writes may fail
    None

ASSUME BuildAssumption ==
    /\ Size \in [Proc -> Nat \ {0}]
    /\ FailStatus \subseteq Nat \ {0}
    /\ Mortal \subseteq Proc
    /\ Faulty \subseteq Proc
    /\ None \notin Proc

VARIABLES
    pc,          \* where each process is
    path,        \* the file the path names, by its creator's name, or None
    content,     \* of each file: whose piece of text each of its blocks is
    file,        \* the file a process has opened
    written,     \* how many pieces a process has flushed
    offset,      \* how many of them are in the file
    res,         \* the value of system(), the function's result
    binary,      \* whose program the executable at a process's output runs
    message,     \* what main tells the user
    exited,      \* the exit status the shell sees
    alone        \* no other build has been under way during this one

vars == <<pc, path, content, file, written, offset, res, binary, message, exited,
          alone>>

Garbled == "garbled"     \* a mixture or a part of texts that gcc happens to accept
Hole    == "hole"        \* the zero bytes before a write past the end
NoChild == -1            \* system() could not make a process

Building == {p \in Proc : pc[p] \in {"write", "gcc", "remove"}}
Killed   == {p \in Proc : pc[p] = "killed"}

-----------------------------------------------------------------------------
Init ==
    /\ pc = [p \in Proc |-> "start"]
    /\ path = None
    /\ content = [p \in Proc |-> <<>>]
    /\ file = [p \in Proc |-> None]
    /\ written = [p \in Proc |-> 0]
    /\ offset = [p \in Proc |-> 0]
    /\ res = [p \in Proc |-> 0]
    /\ binary = [p \in Proc |-> None]
    /\ message = [p \in Proc |-> "none"]
    /\ exited = [p \in Proc |-> 0]
    /\ alone = [p \in Proc |-> TRUE]

(* Mutant: the file is opened without truncating it.                       *)
Open_Keeps(p) ==
    /\ pc[p] = "start"
    /\ LET opened == IF path = None THEN p ELSE path
       IN  /\ path' = opened
           /\ file' = [file EXCEPT ![p] = opened]
    /\ alone' = [q \in Proc |-> CASE q = p          -> Building = {}
                                  [] q \in Building -> FALSE
                                  [] OTHER          -> alone[q]]
    /\ pc' = [pc EXCEPT ![p] = "write"]
    /\ UNCHANGED <<content, written, offset, res, binary, message, exited>>

(* fopen "w": the file the path names is truncated, or a new one made.     *)
Open(p) ==
    /\ pc[p] = "start"
    /\ LET opened == IF path = None THEN p ELSE path
       IN  /\ path' = opened
           /\ file' = [file EXCEPT ![p] = opened]
           /\ content' = [content EXCEPT ![opened] = <<>>]
    /\ alone' = [q \in Proc |-> CASE q = p          -> Building = {}
                                  [] q \in Building -> FALSE
                                  [] OTHER          -> alone[q]]
    /\ pc' = [pc EXCEPT ![p] = "write"]
    /\ UNCHANGED <<written, offset, res, binary, message, exited>>

(* Mutant: the NULL of a failed fopen is not noticed.                      *)
OpenFails_GoesOn(p) ==
    /\ pc[p] = "start"
    /\ res' = [res EXCEPT ![p] = 1]
    /\ pc' = [pc EXCEPT ![p] = "write"]
    /\ UNCHANGED <<path, content, file, written, offset, binary, message, exited, alone>>

(* fopen fails: /tmp is full, or the file is another user's.               *)
OpenFails(p) ==
    /\ pc[p] = "start"
    /\ res' = [res EXCEPT ![p] = 1]
    /\ pc' = [pc EXCEPT ![p] = "report"]
    /\ UNCHANGED <<path, content, file, written, offset, binary, message, exited, alone>>

(* The blocks of a file after q has written block i of it.                 *)
Written(blocks, i, q) ==
    [j \in 1 .. IF i > Len(blocks) THEN i ELSE Len(blocks) |->
        IF j = i THEN q ELSE IF j <= Len(blocks) THEN blocks[j] ELSE Hole]

(* c_backend_generate and fclose, one flush of the buffer at a time.       *)
FlushDone(p) ==
    /\ pc[p] = "write"
    /\ written' = [written EXCEPT ![p] = @ + 1]
    /\ pc' = [pc EXCEPT ![p] = IF written[p] + 1 = Size[p] THEN "gcc" ELSE "write"]
    /\ UNCHANGED <<path, file, res, binary, message, exited, alone>>

Flush(p) ==
    /\ FlushDone(p)
    /\ content' = [content EXCEPT ![file[p]] = Written(@, offset[p] + 1, p)]
    /\ offset' = [offset EXCEPT ![p] = @ + 1]

(* A write fails, that of fclose included: the piece is lost, and nobody   *)
(* asks ferror or looks at fclose's result.                                *)
FlushFails(p) ==
    /\ p \in Faulty /\ FlushDone(p)
    /\ UNCHANGED <<content, offset>>

(* The first n pieces p has got into a file of its own, and all of them.   *)
Part(p, n) == [i \in 1 .. n |-> p]
Text(q)    == Part(q, Size[q])

(* What gcc can make of the file the path names now.                       *)
Compilable == IF path = None \/ content[path] = <<>> THEN {}
              ELSE LET whole == {q \in Proc : content[path] = Text(q)}
                   IN  IF whole = {} THEN {Garbled} ELSE whole

GccSucceeds(p) ==
    /\ pc[p] = "gcc"
    /\ \E q \in Compilable : binary' = [binary EXCEPT ![p] = q]
    /\ res' = [res EXCEPT ![p] = 0]
    /\ pc' = [pc EXCEPT ![p] = "remove"]
    /\ UNCHANGED <<path, content, file, written, offset, message, exited, alone>>

(* Mutant: a failed build returns without removing its text.               *)
GccFails_Returns(p) ==
    /\ pc[p] = "gcc"
    /\ \E status \in FailStatus : res' = [res EXCEPT ![p] = status]
    /\ pc' = [pc EXCEPT ![p] = "report"]
    /\ UNCHANGED <<path, content, file, written, offset, binary, message, exited, alone>>

(* A text gcc rejects, a missing file, no gcc at all, a signal; or system  *)
(* itself fails.                                                           *)
GccFails(p) ==
    /\ pc[p] = "gcc"
    /\ \E status \in FailStatus \cup {NoChild} : res' = [res EXCEPT ![p] = status]
    /\ pc' = [pc EXCEPT ![p] = "remove"]
    /\ UNCHANGED <<path, content, file, written, offset, binary, message, exited, alone>>

(* The name is removed, whichever file it has come to be the name of.      *)
Remove(p) ==
    /\ pc[p] = "remove"
    /\ path' = None
    /\ pc' = [pc EXCEPT ![p] = "report"]
    /\ UNCHANGED <<content, file, written, offset, res, binary, message, exited, alone>>

(* main returns the result; the kernel keeps its low eight bits.           *)
Report(p) ==
    /\ pc[p] = "report"
    /\ message' = [message EXCEPT ![p] = IF res[p] = 0 THEN "built" ELSE "failed"]
    /\ exited' = [exited EXCEPT ![p] = res[p] % 256]
    /\ pc' = [pc EXCEPT ![p] = "exited"]
    /\ UNCHANGED <<path, content, file, written, offset, res, binary, alone>>

(* The process is killed: its temporary file stays as it is.               *)
Kill(p) ==
    /\ p \in Mortal /\ pc[p] \notin {"exited", "killed"}
    /\ pc' = [pc EXCEPT ![p] = "killed"]
    /\ UNCHANGED <<path, content, file, written, offset, res, binary, message, exited,
                   alone>>

Step == \E p \in Proc : \/ Open(p) \/ OpenFails(p) \/ Flush(p) \/ FlushFails(p)
                        \/ GccSucceeds(p) \/ GccFails(p) \/ Remove(p) \/ Report(p)
                        \/ Kill(p)

Ended == (\A p \in Proc : pc[p] \in {"exited", "killed"}) /\ UNCHANGED vars

Next == Step \/ Ended

Spec == Init /\ [][Next]_vars

-----------------------------------------------------------------------------
(* Properties.                                                             *)

Result == {0, 1, NoChild} \cup FailStatus

PC == {"start", "write", "gcc", "remove", "report", "exited", "killed"}

(* Types of the processes' state: whatever fails, the function's result is *)
(* 0, 1, a wait status or system's -1, and nothing is written but to a     *)
(* file that was opened.                                                   *)
TypeOK ==
    /\ pc \in [Proc -> PC]
    /\ path \in Proc \cup {None}
    /\ content \in [Proc -> Seq(Proc \cup {Hole})]
    /\ file \in [Proc -> Proc \cup {None}]
    /\ written \in [Proc -> Nat] /\ offset \in [Proc -> Nat]
    /\ \A p \in Proc : pc[p] = "write" => file[p] \in Proc
    /\ res \in [Proc -> Result]
    /\ binary \in [Proc -> Proc \cup {None, Garbled}]
    /\ message \in [Proc -> {"none", "built", "failed"}]
    /\ exited \in [Proc -> 0 .. 255]
    /\ alone \in [Proc -> BOOLEAN]

(* A temporary file is left behind only by a process that was killed:      *)
(* however builds overlap, failing ones included, the name is removed by   *)
(* the time the last of them reports.                                      *)
TempRemoved == path # None => Building \cup Killed # {}

(* A build with no other under way at the same time gives gcc its own      *)
(* pieces of text and nothing else, also where a killed build has left a   *)
(* file under the same name; if it reports success, the output runs its    *)
(* own program, unless a write has failed, and then never another's.       *)
AloneBuildsOwn ==
    \A p \in Proc : alone[p] =>
       /\ pc[p] = "gcc" => path # None /\ content[path] = Part(p, offset[p])
       /\ message[p] = "built" =>
             binary[p] = IF offset[p] = Size[p] THEN p ELSE Garbled

(* c_backend.h: the AST is compiled into a binary, 0 is returned on        *)
(* success; so a build that reports success has built its own program.     *)
BuildsOwn == \A p \in Proc : message[p] = "built" => binary[p] = p

(* main returns the result of the build, so that a shell can tell a build  *)
(* that has failed from one that has not.                                  *)
ExitTellsFailure == \A p \in Proc : message[p] = "failed" => exited[p] # 0
=============================================================================
