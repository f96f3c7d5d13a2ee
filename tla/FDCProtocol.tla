----------------------------- MODULE FDCProtocol -----------------------------
(***************************************************************************)
(* What a program that talks to the floppy controller may rely on, without *)
(* any of the reasons: after the first byte of a command the controller    *)
(* takes exactly the parameters that command has, then it may transfer     *)
(* data, then it hands out exactly the result bytes that command has, and  *)
(* only then does it take the next command.  A byte that is no command, or *)
(* a status request with nothing to report, is answered with one byte.     *)
(* Only a reset, after which no command is remembered, cuts this short.    *)
(***************************************************************************)
EXTENDS Naturals

CONSTANT Shapes   \* for each command, <<its parameters, its result bytes>>

VARIABLES mode,   \* "idle", "params", "exec" or "result"
          left,   \* bytes the current phase still needs, in params and result
          owed,   \* result bytes of the command at work
          fresh   \* no command has been taken since the last reset

state == <<mode, left, owed, fresh>>

Init == mode = "idle" /\ left = 0 /\ owed = 0 /\ fresh = TRUE

Become(m, n, o) == mode' = m /\ left' = n /\ owed' = o
Idle      == Become("idle", 0, 0)
Answer(n) == IF n = 0 THEN Idle ELSE Become("result", n, 0)

Reject  == mode = "idle" /\ Answer(1)
Accept  == /\ mode = "idle" /\ fresh' = FALSE
           /\ \E shape \in Shapes : IF shape[1] = 0 THEN Answer(1) \/ Answer(shape[2])
                                    ELSE Become("params", shape[1], shape[2])
Param   == /\ mode = "params"
           /\ IF left > 1 THEN Become("params", left - 1, owed)
              ELSE Answer(owed) \/ (owed > 0 /\ Become("exec", 0, owed))
EndExec == mode = "exec" /\ Answer(owed)
Result  == mode = "result" /\ Answer(left - 1)
Reset   == Idle /\ fresh' = TRUE

Next == \/ Accept \/ Reset
        \/ UNCHANGED fresh /\ (Reject \/ Param \/ EndExec \/ Result)

Spec == Init /\ [][Next]_state
=============================================================================
