--------------------------- MODULE CommandChannel ---------------------------
(***************************************************************************)
(* What a program that runs SQL commands one after another over a          *)
(* connection may rely on, when the connection may break at any moment:    *)
(* commands execute in order, each at most once and before the program     *)
(* learns that it has; after a failure, the last one may still execute.    *)
(***************************************************************************)
EXTENDS Naturals, Sequences

CONSTANT LastCommand  \* the commands are 1..LastCommand

VARIABLES
    issued,   \* commands handed to the connection
    returned, \* commands that the program knows to have executed
    executed, \* commands the database has committed, in that order
    outcome   \* "open", "succeeded" or "failed"

vars == <<issued, returned, executed, outcome>>

Init ==
    /\ issued = 0 /\ returned = 0 /\ executed = <<>> /\ outcome = "open"

Issue ==
    /\ outcome = "open"
    /\ issued = returned /\ issued < LastCommand
    /\ issued' = issued + 1
    /\ UNCHANGED <<returned, executed, outcome>>

\* At once, or long after the program has given up.
Execute ==
    /\ Len(executed) < issued
    /\ executed' = Append(executed, issued)
    /\ UNCHANGED <<issued, returned, outcome>>

Return ==
    /\ outcome = "open"
    /\ returned < issued /\ Len(executed) = issued
    /\ returned' = returned + 1
    /\ UNCHANGED <<issued, executed, outcome>>

Succeed ==
    /\ outcome = "open"
    /\ returned = LastCommand
    /\ outcome' = "succeeded"
    /\ UNCHANGED <<issued, returned, executed>>

Fail ==
    /\ outcome = "open"
    /\ outcome' = "failed"
    /\ UNCHANGED <<issued, returned, executed>>

Next == Issue \/ Execute \/ Return \/ Succeed \/ Fail

Spec == Init /\ [][Next]_vars

-----------------------------------------------------------------------------
\* The commands that have executed are the first ones, in order, each once:
\* those known to have, and at most one more.
ExecutedInOrder ==
    /\ \A k \in 1..Len(executed) : executed[k] = k
    /\ Len(executed) \in {returned, returned + 1}
=============================================================================
