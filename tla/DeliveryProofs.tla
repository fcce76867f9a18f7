--------------------------- MODULE DeliveryProofs ---------------------------
(***************************************************************************)
(* DirectMessagePipeline implements Delivery, for any messages, groups,    *)
(* keys, workers, tasks and limits.                                        *)
(***************************************************************************)
EXTENDS DirectMessagePipelineProofs

Statuses == [m \in Msgs |-> Status(m)]

\* What the rest of the state of Delivery is while the records stay.
SameRecords == rows' = rows /\ dlq' = dlq /\ swallowed' = swallowed

-----------------------------------------------------------------------------
\* Going from visible to in flight, or back, is no change of status.
LEMMA StatusKept ==
    ASSUME TypeOK, \A m \in Msgs : mq'[m] = mq[m] \/ (~Settled(m) /\ ~Settled(m)')
    PROVE  Statuses' = Statuses
  <1>1. \A m \in Msgs : Status(m)' = Status(m)
    BY DEF Status, Settled
  <1> QED
    BY <1>1 DEF Statuses

\* A message that is settled by a step, and no other, changes its status.
LEMMA StatusSettles ==
    ASSUME TypeOK, NEW m \in Msgs, NEW s \in {"deleted", "redriven"}, ~Settled(m),
           mq' = [mq EXCEPT ![m] = s]
    PROVE  Statuses[m] = "queued" /\ Statuses' = [Statuses EXCEPT ![m] = s]
  <1>1. \A n \in Msgs : Status(n)' = IF n = m THEN s ELSE Status(n)
    BY DEF TypeOK, Status, Settled
  <1>2. Status(m) = "queued"
    BY DEF Status
  <1> QED
    BY <1>1, <1>2 DEF Statuses

\* A worker whose call can still have an effect: a hand-out without one is left.
LEMMA CallLeavesEffectDue ==
    ASSUME TypeOK, EffectsCounted, NEW w \in Workers, NEW m \in Msgs,
           IsCurrent(w, m), pc[w] \in {"save", "sendToDLQ"}
    PROVE  rows[m] + dlq[m] < recv[m]
  <1> DEFINE P == Pending(m)  I == InCall(m)
  <1>1. P \in SUBSET Workers /\ I \in SUBSET Workers /\ {} \in SUBSET Workers
    BY DEF Pending, InCall
  <1>2. w \in I
    BY DEF InCall
  <1>3. calls[m] + Cardinality(P) <= recv[m] /\ rows[m] + dlq[m] + Cardinality(I) <= calls[m]
    BY DEF EffectsCounted
  <1>4. calls[m] \in Nat /\ rows[m] \in Nat /\ dlq[m] \in Nat /\ recv[m] \in Nat
    BY MaxReceiveAssumption DEF TypeOK
  <1> HIDE DEF P, I
  <1>5. {} \subseteq I \ {w}
    OBVIOUS
  <1>6. Cardinality(P) \in Nat /\ Cardinality(I) \in Nat /\ Cardinality({}) + 1 <= Cardinality(I)
    BY <1>1, <1>2, <1>5, WorkerSets
  <1>7. Cardinality({}) = 0
    BY FS_EmptySet
  <1> QED
    BY <1>3, <1>4, <1>6, <1>7

-----------------------------------------------------------------------------
(***************************************************************************)
(* Each kind of step, as a step of Delivery.                               *)
(***************************************************************************)

\* A poll hands out.
LEMMA ReceiveHandsOut ==
    ASSUME TypeOK, NEW w \in Workers, NEW batch \in SUBSET Msgs, Receive(w, batch)
    PROVE  Abstract!HandOut(batch)
  <1>1. Statuses' = Statuses
    <2>1. \A m \in Msgs : mq'[m] = mq[m] \/ (~Settled(m) /\ ~Settled(m)')
      BY DEF Receive, Deliverable, Settled
    <2> QED
      BY <2>1, StatusKept
  <1>2. \A m \in batch : Status(m) = "queued" /\ recv[m] < MaxReceive
    BY DEF Receive, Deliverable, Status, Settled
  <1>3. \A m \in batch : \A n \in batch : GroupOf[n] = GroupOf[m]
    BY DEF Receive, Deliverable, SameGroup
  <1>4. ASSUME NEW m \in batch, NEW n \in Msgs, GroupOf[n] = GroupOf[m], n < m,
               Status(n) = "queued"
        PROVE  n \in batch
    BY <1>4 DEF Receive, Deliverable, SameGroup, Status, Settled
  <1>5. /\ batch # {}
        /\ recv' = [m \in Msgs |-> IF m \in batch THEN recv[m] + 1 ELSE recv[m]]
        /\ SameRecords
    BY DEF Receive, dlqVars, SameRecords
  <1> QED
    BY <1>1, <1>2, <1>3, <1>4, <1>5 DEF Abstract!HandOut, Statuses, SameRecords

\* An insert stores.
LEMMA InsertStores ==
    ASSUME NEW m \in Msgs, Insert(m), rows[m] + dlq[m] < recv[m],
           recv' = recv, Statuses' = Statuses, dlq' = dlq, swallowed' = swallowed
    PROVE  Abstract!Store(m)
  <1>1. KeyOf[m] # NoKey => ~Abstract!IsStored(m)
    BY DEF Insert, Exists, Abstract!IsStored
  <1> QED
    BY <1>1 DEF Insert, Abstract!Store, Abstract!EffectDue, Statuses

\* An accepted request to the dead-letter queue buries.
LEMMA AcceptedBuries ==
    ASSUME TypeOK, NEW w \in Workers, NEW m \in Msgs, DLQAccepts(w, m),
           rows[m] + dlq[m] < recv[m], recv' = recv, Statuses' = Statuses, rows' = rows
    PROVE  Abstract!Bury(m)
  <1>1. CASE idUsed
    <2>1. dlq' = dlq /\ swallowed' = swallowed \cup {m}
      BY <1>1 DEF TypeOK, DLQAccepts
    <2> QED
      BY <2>1 DEF Abstract!Bury, Abstract!EffectDue, Statuses
  <1>2. CASE ~idUsed
    <2>1. dlq' = [dlq EXCEPT ![m] = @ + 1] /\ swallowed' = swallowed
      BY <1>2 DEF TypeOK, DLQAccepts
    <2> QED
      BY <2>1 DEF Abstract!Bury, Abstract!EffectDue, Statuses
  <1> QED
    BY <1>1, <1>2

\* A deletion completes.
LEMMA DeleteCompletes ==
    ASSUME TypeOK, NEW w \in Workers, NEW m \in Msgs, Delete(w, m), Accounted(m), SameRecords
    PROVE  Abstract!Complete(m)
  <1>1. ~Settled(m) /\ mq' = [mq EXCEPT ![m] = "deleted"] /\ recv' = recv
    BY DEF Delete, LiveReceipt, Settled
  <1>2. Statuses[m] = "queued" /\ Statuses' = [Statuses EXCEPT ![m] = "deleted"]
    BY <1>1, StatusSettles
  <1>3. Abstract!Accounted(m)
    BY DEF Accounted, Stored, Exists, Abstract!Accounted, Abstract!IsStored
  <1> QED
    BY <1>1, <1>2, <1>3 DEF Abstract!Complete, Statuses, SameRecords

\* A redrive exhausts.
LEMMA RedriveExhausts ==
    ASSUME TypeOK, NEW m \in Msgs, Redrive(m)
    PROVE  Abstract!Exhaust(m)
  <1>1. /\ ~Settled(m) /\ mq' = [mq EXCEPT ![m] = "redriven"]
        /\ recv' = recv /\ recv[m] = MaxReceive /\ SameRecords
    BY DEF Redrive, Settled, dlqVars, SameRecords
  <1>2. Statuses[m] = "queued" /\ Statuses' = [Statuses EXCEPT ![m] = "redriven"]
    BY <1>1, StatusSettles
  <1> QED
    BY <1>1, <1>2 DEF Abstract!Exhaust, Statuses, SameRecords

-----------------------------------------------------------------------------
\* A step that only moves workers, receipts and the clock stutters.
LEMMA Stutters ==
    ASSUME TypeOK, recv' = recv, SameRecords,
           \A m \in Msgs : mq'[m] = mq[m] \/ (~Settled(m) /\ ~Settled(m)')
    PROVE  UNCHANGED Abstract!vars
  <1>1. Statuses' = Statuses
    BY StatusKept
  <1> QED
    BY <1>1 DEF Abstract!vars, Statuses, SameRecords

LEMMA HandleImplements ==
    ASSUME TypeOK, EffectsCounted, AcknowledgesAccounted,
           NEW w \in Workers, NEW m \in Msgs, Handle(w, m)
    PROVE  [Abstract!Next]_(Abstract!vars)
  <1> DEFINE Effect == Abstract!Store(m) \/ Abstract!Bury(m) \/ Abstract!Complete(m)
             Stutter == UNCHANGED Abstract!vars
  <1>1. SUFFICES Effect \/ Stutter
    BY DEF Abstract!Next
  <1>2. ASSUME queueVars' = queueVars, SameRecords PROVE Stutter
    BY <1>2, Stutters DEF queueVars
  <1>3. ASSUME queueVars' = queueVars PROVE recv' = recv /\ Statuses' = Statuses
    BY <1>3, StatusKept DEF queueVars
  <1>4. CASE \/ CheckDuplicate(w, m) \/ CheckNew(w, m) \/ CheckFails(w, m)
             \/ WeatherFound(w, m) \/ WeatherFails(w, m) \/ WeatherRefuses(w, m)
    <2>1. queueVars' = queueVars /\ SameRecords
      BY <1>4 DEF CheckDuplicate, CheckNew, CheckFails, WeatherFound, WeatherFails,
         WeatherRefuses, queueVars, dlqVars, SameRecords
    <2> QED
      BY <1>2, <2>1
  <1>5. CASE SaveSucceeds(w, m) \/ SaveFails(w, m)
    <2>1. /\ IsCurrent(w, m) /\ pc[w] = "save" /\ queueVars' = queueVars
          /\ dlq' = dlq /\ swallowed' = swallowed
          /\ Insert(m) \/ rows' = rows
      BY <1>5 DEF SaveSucceeds, SaveFails, queueVars, dlqVars
    <2>2. rows[m] + dlq[m] < recv[m]
      BY <2>1, CallLeavesEffectDue
    <2>3. CASE Insert(m)
      BY <1>3, <2>1, <2>2, <2>3, InsertStores
    <2>4. CASE rows' = rows
      BY <1>2, <2>1, <2>4 DEF SameRecords
    <2> QED
      BY <2>1, <2>3, <2>4
  <1>6. CASE SendToDLQ(w, m) \/ SendToDLQFails(w, m) \/ SendToDLQThrows(w, m)
    <2>1. /\ IsCurrent(w, m) /\ pc[w] = "sendToDLQ" /\ queueVars' = queueVars /\ rows' = rows
          /\ DLQAccepts(w, m) \/ DLQRefuses(w)
      BY <1>6 DEF SendToDLQ, SendToDLQFails, SendToDLQThrows, queueVars
    <2>2. rows[m] + dlq[m] < recv[m]
      BY <2>1, CallLeavesEffectDue
    <2>3. CASE DLQAccepts(w, m)
      BY <1>3, <2>1, <2>2, <2>3, AcceptedBuries
    <2>4. CASE DLQRefuses(w)
      BY <1>2, <2>1, <2>4 DEF DLQRefuses, SameRecords
    <2> QED
      BY <2>1, <2>3, <2>4
  <1>7. CASE Acknowledge(w, m) \/ AcknowledgeDLQ(w, m) \/ AcknowledgeDLQFails(w, m)
    <2>1. /\ IsCurrent(w, m) /\ pc[w] \in {"ack", "ackDLQ"} /\ SameRecords
          /\ Delete(w, m) \/ queueVars' = queueVars
      BY <1>7 DEF Acknowledge, AcknowledgeDLQ, AcknowledgeDLQFails, queueVars, dlqVars, SameRecords
    <2>2. Accounted(m)
      BY <2>1 DEF AcknowledgesAccounted
    <2>3. CASE Delete(w, m)
      BY <2>1, <2>2, <2>3, DeleteCompletes
    <2>4. CASE queueVars' = queueVars
      BY <1>2, <2>1, <2>4
    <2> QED
      BY <2>1, <2>3, <2>4
  <1> QED
    BY <1>4, <1>5, <1>6, <1>7 DEF Handle

LEMMA StepImplements ==
    TypeOK /\ EffectsCounted /\ AcknowledgesAccounted /\ [Next]_vars
        => [Abstract!Next]_(Abstract!vars)
  <1> SUFFICES ASSUME TypeOK, EffectsCounted, AcknowledgesAccounted, [Next]_vars
               PROVE  [Abstract!Next]_(Abstract!vars)
    OBVIOUS
  <1>1. ASSUME NEW w \in Workers, NEW batch \in SUBSET Msgs, Receive(w, batch)
        PROVE  [Abstract!Next]_(Abstract!vars)
    BY <1>1, ReceiveHandsOut DEF Abstract!Next
  <1>2. ASSUME NEW w \in Workers, NEW m \in Msgs, Handle(w, m)
        PROVE  [Abstract!Next]_(Abstract!vars)
    BY <1>2, HandleImplements
  <1>3. ASSUME NEW m \in Msgs, Redrive(m)
        PROVE  [Abstract!Next]_(Abstract!vars)
    BY <1>3, RedriveExhausts DEF Abstract!Next
  <1>4. ASSUME NEW m \in Msgs, VisibilityTimeout(m)
        PROVE  [Abstract!Next]_(Abstract!vars)
    <2>1. \A n \in Msgs : mq'[n] = mq[n] \/ (~Settled(n) /\ ~Settled(n)')
      BY <1>4 DEF VisibilityTimeout, Settled
    <2>2. recv' = recv /\ SameRecords
      BY <1>4 DEF VisibilityTimeout, dlqVars, SameRecords
    <2> QED
      BY <2>1, <2>2, Stutters
  <1>5. ASSUME UNCHANGED <<mq, recv, rows, dlq, swallowed>>
        PROVE  [Abstract!Next]_(Abstract!vars)
    BY <1>5, Stutters DEF SameRecords
  <1>6. \/ UNCHANGED <<mq, recv, rows, dlq, swallowed>>
        \/ \E w \in Workers : Poll(w) \/ \E m \in Msgs : Handle(w, m)
        \/ \E m \in Msgs : VisibilityTimeout(m) \/ Redrive(m)
    BY DEF Next, Step, ConversionFails, Crash, NextMillisecond, vars, queueVars, dlqVars
  <1> QED
    BY <1>1, <1>2, <1>3, <1>4, <1>5, <1>6 DEF Poll

\* For any messages, workers, tasks, limits and failures, the direct-message
\* path is an implementation of Delivery: every row, DLQ copy, deletion and
\* redrive of a run of DirectMessagePipeline is one that Delivery allows there.
THEOREM PipelineImplementsDelivery == Spec => ImplementsDelivery
  <1>1. Init => Abstract!Init
    <2> SUFFICES ASSUME Init PROVE Abstract!Init
      OBVIOUS
    <2>1. \A m \in Msgs : Status(m) = "queued"
      BY DEF Init, Status, Settled
    <2> QED
      BY <2>1 DEF Init, Abstract!Init
  <1>2. Init => EffectsCounted /\ AcknowledgesAccounted
    BY InitEffectsCounted DEF Init, AcknowledgesAccounted
  <1> QED
    BY <1>1, <1>2, EffectsStep, AcknowledgesAccountedStep, StepImplements, TypeCorrect, PTL
       DEF Spec, ImplementsDelivery, Abstract!Spec
=============================================================================
