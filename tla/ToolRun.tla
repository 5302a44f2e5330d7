------------------------------ MODULE ToolRun ------------------------------
(***************************************************************************)
(* A tool that is run once: a pure function of its input and of what the   *)
(* system calls return.                                                    *)
(***************************************************************************)
EXTENDS Naturals

VARIABLES
    tool,     \* the tool that is run
    input,    \* what it is given
    result,   \* what it returned
    done      \* whether it has returned

vars == <<tool, input, result, done>>

Return(t, value) ==
    /\ tool = t /\ ~done
    /\ result' = value
    /\ done' = TRUE
    /\ UNCHANGED <<tool, input>>

Returned(t) == done /\ tool = t
=============================================================================
