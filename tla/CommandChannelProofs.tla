------------------------ MODULE CommandChannelProofs ------------------------
(***************************************************************************)
(* What CommandChannel promises, for any number of commands.  With the     *)
(* refinement that PgConnection states, it holds of the lambda's           *)
(* connection.                                                             *)
(***************************************************************************)
EXTENDS CommandChannel, TLAPS

\* A command is issued when the one before has returned, so at most one is
\* under way, and it is the next to execute.
IInv ==
    /\ issued \in Nat /\ returned \in Nat
    /\ executed \in Seq(Nat)
    /\ \A k \in 1..Len(executed) : executed[k] = k
    /\ returned <= Len(executed) /\ Len(executed) <= issued /\ issued <= returned + 1

LEMMA InitIInv == Init => IInv
BY DEF Init, IInv

LEMMA NextIInv ==
    ASSUME IInv, [Next]_vars
    PROVE  IInv'
<1> USE DEF IInv
<1>1. CASE Issue
  BY <1>1 DEF Issue
<1>2. CASE Execute
  <2>1. executed' = Append(executed, issued) /\ issued = Len(executed) + 1
    BY <1>2 DEF Execute
  <2>2. /\ executed' \in Seq(Nat) /\ Len(executed') = Len(executed) + 1
        /\ \A k \in 1..Len(executed') : executed'[k] = k
    BY <2>1
  <2> QED
    BY <1>2, <2>1, <2>2 DEF Execute
<1>3. CASE Return
  BY <1>3 DEF Return
<1>4. CASE Succeed \/ Fail \/ UNCHANGED vars
  BY <1>4 DEF Succeed, Fail, vars
<1> QED
  BY <1>1, <1>2, <1>3, <1>4 DEF Next

\* Whatever fails when, the commands that have executed are the first ones, in
\* order and each once, and at most one that the program does not know of.
THEOREM ExecutedInOrderHolds == Spec => []ExecutedInOrder
<1>1. IInv => ExecutedInOrder
  BY DEF IInv, ExecutedInOrder
<1> QED
  BY <1>1, InitIInv, NextIInv, PTL DEF Spec
=============================================================================
