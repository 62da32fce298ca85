----------------------------- MODULE InterpCalls -----------------------------
(***************************************************************************)
(* The interpreter implements LumisCalls: the activations are the places   *)
(* of the C stack where eval_expr or interp_execute runs a function's      *)
(* statements, and the returned value is return_val while `returning' is   *)
(* set.                                                                    *)
(***************************************************************************)
EXTENDS Interp

NoReturn == [type |-> "NONE", num |-> 0]

ExitCode(v) == IF v.type = "INT" THEN v.num ELSE 0

Activations ==
    IF status = "done" THEN {}
    ELSE {i \in 1 .. Len(ctl) : ctl[i].k \in {"body", "main"}}

Returned == IF status = "running" /\ returning THEN return_val ELSE NoReturn

Calls == INSTANCE LumisCalls
            WITH Val <- Value, Zero <- IntZero, NoValue <- NoReturn,
                 ExitOf <- ExitCode,
                 stage <- status, code <- exit_code, active <- Activations,
                 returned <- Returned, result <- val, output <- out

(* Every call hands its caller the value its own return statement named,   *)
(* or INT 0 if it had none: nested calls, loops left half-way, and the     *)
(* saving and restoring of returning and return_val (interp.c:256-272)     *)
(* neither lose nor replace it, and the exit code is main's.               *)
CallsAsPromised == Calls!Spec
=============================================================================
