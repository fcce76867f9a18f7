------------------------------ MODULE Delivery ------------------------------
(***************************************************************************)
(* What the direct-message path promises, without workers, receipts and    *)
(* timeouts: messages of a group are handed out in order, a bounded number *)
(* of times; each hand-out may leave one effect, a row in direct_messages  *)
(* or a copy for the dead-letter queue, at any later time; a message is    *)
(* removed when an effect accounts for it, or when its attempts are used   *)
(* up.  DirectMessagePipeline implements it.                               *)
(***************************************************************************)
EXTENDS Integers, FiniteSets

CONSTANTS
    Msgs,       \* messages, ordered by the time they were sent
    GroupOf,    \* FIFO message group of a message
    KeyOf,      \* messageId of a message, or NoKey
    NoKey,      \* no messageId
    MaxReceive  \* maxReceiveCount of the redrive policy

VARIABLES
    attempts, \* times each message has been handed out
    status,   \* is the message in the queue, deleted from it or redriven?
    stored,   \* rows inserted for each message
    buried,   \* copies of each message in the dead-letter queue
    dropped   \* messages the dead-letter queue took for duplicates of others

vars == <<attempts, status, stored, buried, dropped>>

Init ==
    /\ attempts = [m \in Msgs |-> 0]
    /\ status = [m \in Msgs |-> "queued"]
    /\ stored = [m \in Msgs |-> 0]
    /\ buried = [m \in Msgs |-> 0]
    /\ dropped = {}

\* A row under the message's own id, or one of its own if it has none.
IsStored(m) ==
    \/ stored[m] > 0
    \/ KeyOf[m] # NoKey /\ \E n \in Msgs : KeyOf[n] = KeyOf[m] /\ stored[n] > 0

Accounted(m) == IsStored(m) \/ buried[m] > 0 \/ m \in dropped

\* A hand-out of m is left that has had no effect yet.
EffectDue(m) == stored[m] + buried[m] < attempts[m]

\* Hand out messages of one group, with every earlier one still in the queue.
HandOut(batch) ==
    /\ batch # {}
    /\ \A m \in batch :
          /\ status[m] = "queued" /\ attempts[m] < MaxReceive
          /\ \A n \in batch : GroupOf[n] = GroupOf[m]
          /\ \A n \in Msgs :
                GroupOf[n] = GroupOf[m] /\ n < m /\ status[n] = "queued" => n \in batch
    /\ attempts' = [m \in Msgs |-> IF m \in batch THEN attempts[m] + 1 ELSE attempts[m]]
    /\ UNCHANGED <<status, stored, buried, dropped>>

Store(m) ==
    /\ EffectDue(m)
    /\ KeyOf[m] # NoKey => ~IsStored(m)
    /\ stored' = [stored EXCEPT ![m] = @ + 1]
    /\ UNCHANGED <<attempts, status, buried, dropped>>

Bury(m) ==
    /\ EffectDue(m)
    /\ \/ buried' = [buried EXCEPT ![m] = @ + 1] /\ UNCHANGED dropped
       \/ dropped' = dropped \cup {m} /\ UNCHANGED buried
    /\ UNCHANGED <<attempts, status, stored>>

Complete(m) ==
    /\ status[m] = "queued"
    /\ Accounted(m)
    /\ status' = [status EXCEPT ![m] = "deleted"]
    /\ UNCHANGED <<attempts, stored, buried, dropped>>

Exhaust(m) ==
    /\ status[m] = "queued"
    /\ attempts[m] = MaxReceive
    /\ status' = [status EXCEPT ![m] = "redriven"]
    /\ UNCHANGED <<attempts, stored, buried, dropped>>

Next ==
    \/ \E batch \in SUBSET Msgs : HandOut(batch)
    \/ \E m \in Msgs : Store(m) \/ Bury(m) \/ Complete(m) \/ Exhaust(m)

Spec == Init /\ [][Next]_vars
=============================================================================
