----------------------------- MODULE LumisCalls -----------------------------
(***************************************************************************)
(* What the interpreter promises about function calls, without its stack,  *)
(* environments or the flag that unwinds them: an activation either goes   *)
(* on computing or has returned a value, once; from then on nothing        *)
(* happens but its end, and whoever called it is handed that value, or     *)
(* INT 0 if it ended without one, whatever calls were made in between.     *)
(***************************************************************************)
EXTENDS Integers, Sequences

CONSTANTS
    Val,        \* the values
    Zero,       \* INT 0
    NoValue,
    ExitOf(_)   \* the exit code main's value gives

VARIABLES
    stage,      \* "start", "running", "done", "crashed"
    code,       \* the exit code
    active,     \* the activations: a greater number is a more recent one
    returned,   \* what the most recent one has returned, or NoValue
    result,     \* the value last computed or handed over
    output

callVars == <<stage, code, active, returned, result, output>>

Init ==
    /\ stage = "start" /\ code = 0 /\ active = {}
    /\ returned = NoValue /\ result = Zero /\ output = <<>>

Outcome == IF returned = NoValue THEN Zero ELSE returned

(* No main: exit code 1.                                                   *)
NoProgram == /\ stage = "start" /\ stage' = "done" /\ code' = 1
             /\ UNCHANGED <<active, returned, result, output>>

Start == /\ stage = "start" /\ stage' = "running"
         /\ \E main \in active' : active' = {main}
         /\ UNCHANGED <<code, returned, result, output>>

(* The most recent activation works: it has not returned.                  *)
Working == stage = "running" /\ returned = NoValue /\ UNCHANGED <<stage, code>>

Compute == Working /\ result' \in Val /\ UNCHANGED <<active, returned, output>>

Write == Working /\ output' = Append(output, result)
         /\ UNCHANGED <<active, returned, result>>

Invoke ==
    /\ Working
    /\ \E new \in active' : /\ \A a \in active : a < new
                            /\ active' = active \cup {new}
    /\ UNCHANGED <<returned, result, output>>

(* A return statement: of the value just computed, or of none.             *)
ReturnValue == Working /\ returned' \in {result, Zero}
               /\ UNCHANGED <<active, result, output>>

(* The most recent of several activations ends.                            *)
Resume ==
    /\ stage = "running"
    /\ \E last \in active :
          /\ \A a \in active : a <= last
          /\ active' = active \ {last} /\ active' # {}
    /\ result' = Outcome /\ returned' = NoValue
    /\ UNCHANGED <<stage, code, output>>

(* The only one, main's, ends.                                             *)
Exit ==
    /\ stage = "running" /\ stage' = "done"
    /\ \E main \in active : active = {main}
    /\ code' = ExitOf(Outcome)
    /\ active' = {} /\ returned' = NoValue
    /\ UNCHANGED <<result, output>>

(* The process dies: of a fault or for want of memory.                     *)
Crash == /\ stage = "running" /\ returned = NoValue /\ stage' = "crashed"
         /\ UNCHANGED <<code, active, returned, result, output>>

Next == \/ NoProgram \/ Start \/ Compute \/ Write \/ Invoke \/ ReturnValue
        \/ Resume \/ Exit \/ Crash

Spec == Init /\ [][Next]_callVars
=============================================================================
