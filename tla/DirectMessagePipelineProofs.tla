-------------------- MODULE DirectMessagePipelineProofs --------------------
(***************************************************************************)
(* Proofs about DirectMessagePipeline, for any messages, groups, keys,     *)
(* workers, tasks and limits.                                              *)
(***************************************************************************)
EXTENDS DirectMessagePipeline, FiniteSetTheorems, TLAPS

-----------------------------------------------------------------------------
(***************************************************************************)
(* Type correctness.                                                       *)
(***************************************************************************)

\* A handler that returns, throws or goes on keeps the types of its state.
LEMMA HandlerExitTypes ==
    ASSUME TypeOK, NEW w \in Workers, NEW m \in Msgs,
           NEW step \in {"idle", "check", "weather", "save", "ack", "sendToDLQ", "ackDLQ"},
           Return(w, m) \/ Throw(w) \/ GoTo(w, step)
    PROVE  /\ receipt' \in [Workers -> [Msgs -> 0..MaxReceive]]
           /\ pc' \in [Workers -> {"idle", "check", "weather", "save", "ack", "sendToDLQ", "ackDLQ"}]
  <1> DEFINE Receipts == [Msgs -> 0..MaxReceive]
  <1>1. 0 \in 0..MaxReceive
    BY MaxReceiveAssumption
  <1>2. receipt \in [Workers -> Receipts]
    BY DEF TypeOK
  <1>3. CASE Return(w, m)
    <2>1. [receipt[w] EXCEPT ![m] = 0] \in Receipts
      BY <1>1, <1>2
    <2>2. receipt' = [receipt EXCEPT ![w] = [receipt[w] EXCEPT ![m] = 0]]
      BY <1>3 DEF Return
    <2>3. receipt' \in [Workers -> Receipts]
      BY <1>2, <2>1, <2>2
    <2> QED  BY <1>3, <2>3 DEF TypeOK, Return
  <1>4. CASE Throw(w)
    <2>1. [n \in Msgs |-> 0] \in Receipts
      BY <1>1
    <2> QED  BY <1>2, <1>4, <2>1 DEF TypeOK, Throw
  <1>5. CASE GoTo(w, step)
    BY <1>5 DEF TypeOK, GoTo
  <1> QED  BY <1>3, <1>4, <1>5

\* The dead-letter queue's answers keep the types of its state.
LEMMA DLQTypes ==
    ASSUME TypeOK, NEW w \in Workers, NEW m \in Msgs,
           DLQAccepts(w, m) \/ DLQRefuses(w)
    PROVE  /\ dlq' \in [Msgs -> Nat]
           /\ swallowed' \subseteq Msgs
           /\ sentNow' \subseteq Workers
           /\ idUsed' \in BOOLEAN
  <1>1. CASE DLQAccepts(w, m)
    BY <1>1 DEF TypeOK, DLQAccepts
  <1>2. CASE DLQRefuses(w)
    BY <1>2 DEF TypeOK, DLQRefuses
  <1> QED  BY <1>1, <1>2

\* Every step of a handler keeps the types.
LEMMA HandleTypes ==
    ASSUME TypeOK, NEW w \in Workers, NEW m \in Msgs, Handle(w, m)
    PROVE  TypeOK'
  <1>1. CASE CheckDuplicate(w, m)
    BY <1>1, HandlerExitTypes DEF TypeOK, CheckDuplicate, queueVars, dlqVars
  <1>2. CASE CheckNew(w, m)
    BY <1>2, HandlerExitTypes DEF TypeOK, CheckNew, queueVars, dlqVars
  <1>3. CASE CheckFails(w, m)
    BY <1>3, HandlerExitTypes DEF TypeOK, CheckFails, queueVars, dlqVars
  <1>4. CASE WeatherFound(w, m)
    BY <1>4, HandlerExitTypes DEF TypeOK, WeatherFound, queueVars, dlqVars
  <1>5. CASE WeatherFails(w, m)
    BY <1>5, HandlerExitTypes DEF TypeOK, WeatherFails, queueVars, dlqVars
  <1>6. CASE WeatherRefuses(w, m)
    BY <1>6, HandlerExitTypes DEF TypeOK, WeatherRefuses, queueVars, dlqVars
  <1>7. CASE SaveSucceeds(w, m)
    BY <1>7, HandlerExitTypes DEF TypeOK, SaveSucceeds, Insert, queueVars, dlqVars
  <1>8. CASE SaveFails(w, m)
    BY <1>8, HandlerExitTypes DEF TypeOK, SaveFails, Insert, queueVars, dlqVars
  <1>9. CASE SendToDLQ(w, m)
    BY <1>9, HandlerExitTypes, DLQTypes DEF TypeOK, SendToDLQ, queueVars
  <1>10. CASE SendToDLQFails(w, m)
    BY <1>10, HandlerExitTypes, DLQTypes DEF TypeOK, SendToDLQFails, queueVars
  <1>11. CASE SendToDLQThrows(w, m)
    BY <1>11, HandlerExitTypes, DLQTypes DEF TypeOK, SendToDLQThrows, queueVars
  <1>12. CASE Acknowledge(w, m)
    BY <1>12, HandlerExitTypes DEF TypeOK, Acknowledge, Delete, queueVars, dlqVars
  <1>13. CASE AcknowledgeDLQ(w, m)
    BY <1>13, HandlerExitTypes DEF TypeOK, AcknowledgeDLQ, Delete, queueVars, dlqVars
  <1>14. CASE AcknowledgeDLQFails(w, m)
    BY <1>14, HandlerExitTypes DEF TypeOK, AcknowledgeDLQFails, Delete, queueVars, dlqVars
  <1> QED
    BY <1>1, <1>2, <1>3, <1>4, <1>5, <1>6, <1>7, <1>8, <1>9, <1>10, <1>11, <1>12,
       <1>13, <1>14 DEF Handle

\* TypeOK is preserved by every step.
LEMMA TypeStep == TypeOK /\ [Next]_vars => TypeOK'
  <1> SUFFICES ASSUME TypeOK, [Next]_vars PROVE TypeOK'
    OBVIOUS
  <1>1. ASSUME NEW w \in Workers, NEW batch \in SUBSET Msgs, Receive(w, batch)
        PROVE  TypeOK'
    <2>1. \A m \in batch : recv[m] + 1 \in 0..MaxReceive
      BY <1>1, MaxReceiveAssumption DEF TypeOK, Receive, Deliverable
    <2>2. recv' \in [Msgs -> 0..MaxReceive]
      BY <1>1, <2>1 DEF TypeOK, Receive
    <2>3. [m \in Msgs |-> IF m \in batch THEN recv[m] + 1 ELSE 0] \in [Msgs -> 0..MaxReceive]
      BY <2>1, MaxReceiveAssumption
    <2>4. receipt' \in [Workers -> [Msgs -> 0..MaxReceive]]
      BY <1>1, <2>3 DEF TypeOK, Receive
    <2> QED
      BY <1>1, <2>2, <2>4 DEF TypeOK, Receive, dlqVars
  <1>2. ASSUME NEW w \in Workers, ConversionFails(w)
        PROVE  TypeOK'
    BY <1>2, MaxReceiveAssumption DEF TypeOK, ConversionFails, Throw, queueVars, dlqVars
  <1>3. ASSUME NEW w \in Workers, NEW m \in Msgs, Handle(w, m)
        PROVE  TypeOK'
    BY <1>3, HandleTypes
  <1>4. ASSUME NEW m \in Msgs, VisibilityTimeout(m)
        PROVE  TypeOK'
    BY <1>4 DEF TypeOK, VisibilityTimeout, dlqVars
  <1>5. ASSUME NEW m \in Msgs, Redrive(m)
        PROVE  TypeOK'
    BY <1>5 DEF TypeOK, Redrive, dlqVars
  <1>6. ASSUME NEW w \in Workers, Crash(TaskOf[w])
        PROVE  TypeOK'
    BY <1>6, MaxReceiveAssumption DEF TypeOK, Crash, queueVars, dlqVars
  <1>7. CASE NextMillisecond
    BY <1>7 DEF TypeOK, NextMillisecond, queueVars
  <1>8. CASE UNCHANGED vars
    BY <1>8 DEF TypeOK, vars
  <1> QED
    BY <1>1, <1>2, <1>3, <1>4, <1>5, <1>6, <1>7, <1>8 DEF Next, Poll, Step

\* Every variable keeps its type: in particular no message is received more
\* than maxReceiveCount times.
THEOREM TypeCorrect == Spec => []TypeOK
  <1>1. Init => TypeOK
    <2> SUFFICES ASSUME Init PROVE TypeOK
      OBVIOUS
    <2>1. [m \in Msgs |-> 0] \in [Msgs -> 0..MaxReceive]
      BY MaxReceiveAssumption
    <2>2. receipt \in [Workers -> [Msgs -> 0..MaxReceive]]
      BY <2>1 DEF Init
    <2> QED
      BY <2>1, <2>2 DEF Init, TypeOK
  <1> QED
    BY <1>1, TypeStep, PTL DEF Spec

-----------------------------------------------------------------------------
(***************************************************************************)
(* What a step other than a receive can do to the queue and the receipts.  *)
(***************************************************************************)
OnlyReleases ==
    /\ recv' = recv
    /\ \A w \in Workers : \A m \in Msgs : receipt'[w][m] \in {0, receipt[w][m]}
    /\ \A m \in Msgs : mq'[m] = "inflight" => mq[m] = "inflight"
    /\ \A m \in Msgs : Settled(m) => mq'[m] = mq[m]

LEMMA ExitReleases ==
    ASSUME TypeOK, NEW w \in Workers, NEW m \in Msgs, NEW step,
           Return(w, m) \/ Throw(w) \/ GoTo(w, step)
    PROVE  \A v \in Workers : \A n \in Msgs : receipt'[v][n] \in {0, receipt[v][n]}
  BY DEF TypeOK, Return, Throw, GoTo

LEMMA DeleteReleases ==
    ASSUME TypeOK, NEW w \in Workers, NEW m \in Msgs,
           Delete(w, m) \/ UNCHANGED queueVars
    PROVE  /\ recv' = recv
           /\ \A n \in Msgs : mq'[n] = "inflight" => mq[n] = "inflight"
           /\ \A n \in Msgs : Settled(n) => mq'[n] = mq[n]
  BY DEF TypeOK, Delete, LiveReceipt, Settled, queueVars

LEMMA HandleReleases ==
    ASSUME TypeOK, NEW w \in Workers, NEW m \in Msgs, Handle(w, m)
    PROVE  OnlyReleases
  <1>1. CASE CheckDuplicate(w, m)
    BY <1>1, ExitReleases, DeleteReleases DEF OnlyReleases, CheckDuplicate
  <1>2. CASE CheckNew(w, m)
    BY <1>2, ExitReleases, DeleteReleases DEF OnlyReleases, CheckNew
  <1>3. CASE CheckFails(w, m)
    BY <1>3, ExitReleases, DeleteReleases DEF OnlyReleases, CheckFails
  <1>4. CASE WeatherFound(w, m)
    BY <1>4, ExitReleases, DeleteReleases DEF OnlyReleases, WeatherFound
  <1>5. CASE WeatherFails(w, m)
    BY <1>5, ExitReleases, DeleteReleases DEF OnlyReleases, WeatherFails
  <1>6. CASE WeatherRefuses(w, m)
    BY <1>6, ExitReleases, DeleteReleases DEF OnlyReleases, WeatherRefuses
  <1>7. CASE SaveSucceeds(w, m)
    BY <1>7, ExitReleases, DeleteReleases DEF OnlyReleases, SaveSucceeds
  <1>8. CASE SaveFails(w, m)
    BY <1>8, ExitReleases, DeleteReleases DEF OnlyReleases, SaveFails
  <1>9. CASE SendToDLQ(w, m)
    BY <1>9, ExitReleases, DeleteReleases DEF OnlyReleases, SendToDLQ
  <1>10. CASE SendToDLQFails(w, m)
    BY <1>10, ExitReleases, DeleteReleases DEF OnlyReleases, SendToDLQFails
  <1>11. CASE SendToDLQThrows(w, m)
    BY <1>11, ExitReleases, DeleteReleases DEF OnlyReleases, SendToDLQThrows
  <1>12. CASE Acknowledge(w, m)
    BY <1>12, ExitReleases, DeleteReleases DEF OnlyReleases, Acknowledge
  <1>13. CASE AcknowledgeDLQ(w, m)
    BY <1>13, ExitReleases, DeleteReleases DEF OnlyReleases, AcknowledgeDLQ
  <1>14. CASE AcknowledgeDLQFails(w, m)
    BY <1>14, ExitReleases, DeleteReleases DEF OnlyReleases, AcknowledgeDLQFails
  <1> QED
    BY <1>1, <1>2, <1>3, <1>4, <1>5, <1>6, <1>7, <1>8, <1>9, <1>10, <1>11, <1>12,
       <1>13, <1>14 DEF Handle

\* Every step is a receive or only releases messages and receipts.
LEMMA StepReceivesOrReleases ==
    ASSUME TypeOK, [Next]_vars
    PROVE  \/ \E w \in Workers : \E batch \in SUBSET Msgs : Receive(w, batch)
           \/ OnlyReleases
  <1>1. ASSUME NEW w \in Workers, ConversionFails(w)
        PROVE  OnlyReleases
    BY <1>1 DEF TypeOK, OnlyReleases, ConversionFails, Throw, queueVars
  <1>2. ASSUME NEW w \in Workers, NEW m \in Msgs, Handle(w, m)
        PROVE  OnlyReleases
    BY <1>2, HandleReleases
  <1>3. ASSUME NEW m \in Msgs, VisibilityTimeout(m)
        PROVE  OnlyReleases
    BY <1>3 DEF TypeOK, OnlyReleases, VisibilityTimeout, Settled
  <1>4. ASSUME NEW m \in Msgs, Redrive(m)
        PROVE  OnlyReleases
    BY <1>4 DEF TypeOK, OnlyReleases, Redrive, Settled
  <1>5. ASSUME NEW w \in Workers, Crash(TaskOf[w])
        PROVE  OnlyReleases
    BY <1>5 DEF TypeOK, OnlyReleases, Crash, queueVars
  <1>6. CASE NextMillisecond
    BY <1>6 DEF TypeOK, OnlyReleases, NextMillisecond, queueVars
  <1>7. CASE UNCHANGED vars
    BY <1>7 DEF TypeOK, OnlyReleases, vars
  <1> QED
    BY <1>1, <1>2, <1>3, <1>4, <1>5, <1>6, <1>7 DEF Next, Poll, Step

-----------------------------------------------------------------------------
(***************************************************************************)
(* The order of a FIFO group.  A receive hands out every unsettled message *)
(* before the ones it hands out, so an earlier message keeps its lead.     *)
(***************************************************************************)
LEMMA NoOvertakingStep ==
    TypeOK /\ NoOvertaking /\ [Next]_vars => NoOvertaking'
  <1> SUFFICES ASSUME TypeOK, NoOvertaking, [Next]_vars,
                      NEW m \in Msgs, NEW n \in SameGroup(m), m < n, ~Settled(m)'
               PROVE  recv'[n] <= recv'[m]
    BY DEF NoOvertaking, SameGroup
  <1>1. n \in Msgs /\ m \in SameGroup(n) /\ recv \in [Msgs -> Nat]
    BY MaxReceiveAssumption DEF SameGroup, TypeOK
  <1>2. ASSUME NEW w \in Workers, NEW batch \in SUBSET Msgs, Receive(w, batch)
        PROVE  recv'[n] <= recv'[m]
    <2>1. ~Settled(m)
      BY <1>2 DEF Receive, Deliverable, Settled
    <2>2. recv[n] <= recv[m]
      BY <2>1 DEF NoOvertaking
    <2>3. n \in batch => m \in batch
      BY <1>1, <1>2, <2>1 DEF Receive, Deliverable
    <2>4. \A k \in Msgs : recv'[k] = IF k \in batch THEN recv[k] + 1 ELSE recv[k]
      BY <1>2 DEF Receive
    <2>5. recv[m] \in Nat /\ recv[n] \in Nat
      BY <1>1
    <2> QED
      BY <1>1, <2>2, <2>3, <2>4, <2>5
  <1>3. CASE OnlyReleases
    BY <1>3 DEF OnlyReleases, NoOvertaking, Settled
  <1> QED
    BY <1>2, <1>3, StepReceivesOrReleases

\* For any number of groups, workers and receives: an unsettled message has
\* been received at least as often as every later message of its group.
THEOREM NoOvertakingHolds == Spec => []NoOvertaking
  <1>1. Init => NoOvertaking
    BY DEF Init, NoOvertaking, SameGroup
  <1> QED
    BY <1>1, NoOvertakingStep, TypeCorrect, PTL DEF Spec

-----------------------------------------------------------------------------
(***************************************************************************)
(* One owner per group.  The invariant is not inductive alone: a worker    *)
(* must not hold a receipt of the next receive before it happens.          *)
(***************************************************************************)
ReceiptsAreOld ==
    \A w \in Workers : \A m \in Msgs : receipt[w][m] <= recv[m]

LEMMA ReceiptsAreOldStep ==
    TypeOK /\ ReceiptsAreOld /\ [Next]_vars => ReceiptsAreOld'
  <1> SUFFICES ASSUME TypeOK, ReceiptsAreOld, [Next]_vars,
                      NEW v \in Workers, NEW m \in Msgs
               PROVE  receipt'[v][m] <= recv'[m]
    BY DEF ReceiptsAreOld
  <1>1. recv[m] \in Nat /\ receipt[v][m] \in Nat /\ receipt[v][m] <= recv[m]
    BY MaxReceiveAssumption DEF TypeOK, ReceiptsAreOld
  <1>2. ASSUME NEW w \in Workers, NEW batch \in SUBSET Msgs, Receive(w, batch)
        PROVE  receipt'[v][m] <= recv'[m]
    BY <1>1, <1>2 DEF TypeOK, Receive
  <1>3. CASE OnlyReleases
    BY <1>1, <1>3 DEF OnlyReleases
  <1> QED
    BY <1>2, <1>3, StepReceivesOrReleases

LEMMA OneOwnerStep ==
    TypeOK /\ ReceiptsAreOld /\ OneOwnerPerGroup /\ [Next]_vars => OneOwnerPerGroup'
  <1> SUFFICES ASSUME TypeOK, ReceiptsAreOld, OneOwnerPerGroup, [Next]_vars,
                      NEW w \in Workers, NEW v \in Workers,
                      NEW m \in Msgs, NEW n \in Msgs, GroupOf[n] = GroupOf[m],
                      receipt'[w][m] # 0, receipt'[v][n] # 0,
                      LiveReceipt(w, m)', LiveReceipt(v, n)'
               PROVE  w = v
    BY DEF OneOwnerPerGroup, Held, SameGroup
  <1>1. ASSUME NEW u \in Workers, NEW batch \in SUBSET Msgs, Receive(u, batch)
        PROVE  w = v
    <2>1. PICK b \in batch : b \in Msgs
      BY <1>1 DEF Receive
    <2>2. ASSUME NEW x \in Workers, NEW k \in Msgs, x # u,
                 receipt'[x][k] # 0, LiveReceipt(x, k)'
          PROVE  k \notin batch /\ mq[k] = "inflight" /\ LiveReceipt(x, k) /\ receipt[x][k] # 0
      <3>1. receipt'[x][k] = receipt[x][k] /\ receipt[x][k] <= recv[k] /\ recv[k] \in Nat
        BY <1>1, <2>2, MaxReceiveAssumption DEF TypeOK, Receive, ReceiptsAreOld
      <3>2. k \notin batch
        BY <1>1, <2>2, <3>1 DEF Receive, LiveReceipt
      <3> QED
        BY <1>1, <2>2, <3>1, <3>2 DEF Receive, LiveReceipt
    <2>3. \A k \in batch : ~Locked(k)
      BY <1>1 DEF Receive, Deliverable
    <2>4. \A k \in Msgs : receipt'[u][k] # 0 => k \in batch
      BY <1>1 DEF TypeOK, Receive
    <2>5. CASE w # u /\ v = u
      BY <2>2, <2>3, <2>4, <2>5 DEF Locked, SameGroup
    <2>6. CASE w = u /\ v # u
      BY <2>2, <2>3, <2>4, <2>6 DEF Locked, SameGroup
    <2>7. CASE w # u /\ v # u
      BY <2>2, <2>7 DEF OneOwnerPerGroup, Held, SameGroup
    <2> QED
      BY <2>5, <2>6, <2>7
  <1>2. CASE OnlyReleases
    BY <1>2 DEF OnlyReleases, OneOwnerPerGroup, Held, SameGroup, LiveReceipt
  <1> QED
    BY <1>1, <1>2, StepReceivesOrReleases

\* However many workers and tasks poll and however many receives have expired
\* under their handlers, two workers never hold valid receipts of one group.
THEOREM OneOwnerPerGroupHolds == Spec => []OneOwnerPerGroup
  <1>1. Init => ReceiptsAreOld /\ OneOwnerPerGroup
    BY DEF Init, ReceiptsAreOld, OneOwnerPerGroup, Held
  <1> QED
    BY <1>1, ReceiptsAreOldStep, OneOwnerStep, TypeCorrect, PTL DEF Spec

-----------------------------------------------------------------------------
(***************************************************************************)
(* What a step can do to the records of a message: direct_messages and the *)
(* dead-letter queue only grow, and rows grow by inserts that the UNIQUE   *)
(* constraint lets through.                                                *)
(***************************************************************************)
RecordsGrow ==
    /\ rows' = rows \/ \E m \in Msgs : Insert(m)
    /\ \A m \in Msgs : dlq[m] <= dlq'[m]
    /\ swallowed \subseteq swallowed'

LEMMA DLQGrows ==
    ASSUME TypeOK, NEW w \in Workers, NEW m \in Msgs,
           DLQAccepts(w, m) \/ DLQRefuses(w) \/ UNCHANGED dlqVars
    PROVE  /\ \A n \in Msgs : dlq[n] <= dlq'[n]
           /\ swallowed \subseteq swallowed'
  BY DEF TypeOK, DLQAccepts, DLQRefuses, dlqVars

LEMMA HandleRecordsGrow ==
    ASSUME TypeOK, NEW w \in Workers, NEW m \in Msgs, Handle(w, m)
    PROVE  RecordsGrow
  <1>1. CASE CheckDuplicate(w, m)
    BY <1>1, DLQGrows DEF CheckDuplicate, RecordsGrow
  <1>2. CASE CheckNew(w, m)
    BY <1>2, DLQGrows DEF CheckNew, RecordsGrow
  <1>3. CASE CheckFails(w, m)
    BY <1>3, DLQGrows DEF CheckFails, RecordsGrow
  <1>4. CASE WeatherFound(w, m)
    BY <1>4, DLQGrows DEF WeatherFound, RecordsGrow
  <1>5. CASE WeatherFails(w, m)
    BY <1>5, DLQGrows DEF WeatherFails, RecordsGrow
  <1>6. CASE WeatherRefuses(w, m)
    BY <1>6, DLQGrows DEF WeatherRefuses, RecordsGrow
  <1>7. CASE SaveSucceeds(w, m)
    BY <1>7, DLQGrows DEF SaveSucceeds, RecordsGrow
  <1>8. CASE SaveFails(w, m)
    BY <1>8, DLQGrows DEF SaveFails, RecordsGrow
  <1>9. CASE SendToDLQ(w, m)
    BY <1>9, DLQGrows DEF SendToDLQ, RecordsGrow
  <1>10. CASE SendToDLQFails(w, m)
    BY <1>10, DLQGrows DEF SendToDLQFails, RecordsGrow
  <1>11. CASE SendToDLQThrows(w, m)
    BY <1>11, DLQGrows DEF SendToDLQThrows, RecordsGrow
  <1>12. CASE Acknowledge(w, m)
    BY <1>12, DLQGrows DEF Acknowledge, RecordsGrow
  <1>13. CASE AcknowledgeDLQ(w, m)
    BY <1>13, DLQGrows DEF AcknowledgeDLQ, RecordsGrow
  <1>14. CASE AcknowledgeDLQFails(w, m)
    BY <1>14, DLQGrows DEF AcknowledgeDLQFails, RecordsGrow
  <1> QED
    BY <1>1, <1>2, <1>3, <1>4, <1>5, <1>6, <1>7, <1>8, <1>9, <1>10, <1>11, <1>12,
       <1>13, <1>14 DEF Handle

LEMMA StepRecordsGrow ==
    ASSUME TypeOK, [Next]_vars
    PROVE  RecordsGrow
  <1>1. ASSUME NEW w \in Workers, NEW m \in Msgs, Handle(w, m)
        PROVE  RecordsGrow
    BY <1>1, HandleRecordsGrow
  <1>2. ASSUME UNCHANGED <<rows, dlq, swallowed>>
        PROVE  RecordsGrow
    BY <1>2 DEF TypeOK, RecordsGrow
  <1> QED
    BY <1>1, <1>2 DEF Next, Poll, Step, Receive, ConversionFails, VisibilityTimeout,
       Redrive, Crash, NextMillisecond, vars, dlqVars

-----------------------------------------------------------------------------
(***************************************************************************)
(* Idempotency.                                                            *)
(***************************************************************************)
LEMMA OneRowStep ==
    TypeOK /\ OneRowPerKey /\ [Next]_vars => OneRowPerKey'
  <1> SUFFICES ASSUME TypeOK, OneRowPerKey, [Next]_vars PROVE OneRowPerKey'
    OBVIOUS
  <1>1. ASSUME NEW m \in Msgs, Insert(m)
        PROVE  OneRowPerKey'
    <2> SUFFICES ASSUME NEW a \in Msgs, NEW b \in Msgs,
                        KeyOf[a] # NoKey, KeyOf[a] = KeyOf[b], rows'[a] > 0, rows'[b] > 0
                 PROVE  a = b /\ rows'[a] = 1
      BY DEF OneRowPerKey
    <2>1. rows \in [Msgs -> Nat] /\ rows' = [rows EXCEPT ![m] = @ + 1]
      BY <1>1 DEF TypeOK, Insert
    <2>2. KeyOf[a] = KeyOf[m] => \A n \in Msgs : KeyOf[n] = KeyOf[m] => rows[n] = 0
      BY <1>1, <2>1 DEF Insert, Exists
    <2>3. CASE KeyOf[a] = KeyOf[m]
      <3>1. rows[a] = 0 /\ rows[b] = 0 /\ rows[m] = 0
        BY <2>2, <2>3
      <3>2. \A n \in Msgs : n # m => rows'[n] = rows[n]
        BY <2>1
      <3>3. rows'[m] = 1
        BY <2>1, <3>1
      <3> QED
        BY <3>1, <3>2, <3>3
    <2>4. CASE KeyOf[a] # KeyOf[m]
      BY <2>1, <2>4 DEF OneRowPerKey
    <2> QED
      BY <2>3, <2>4
  <1>2. CASE rows' = rows
    BY <1>2 DEF OneRowPerKey
  <1> QED
    BY <1>1, <1>2, StepRecordsGrow DEF RecordsGrow

\* For any number of duplicates, redeliveries, workers and crashes, a
\* messageId has at most one row in direct_messages.
THEOREM OneRowPerKeyHolds == Spec => []OneRowPerKey
  <1>1. Init => OneRowPerKey
    BY DEF Init, OneRowPerKey
  <1> QED
    BY <1>1, OneRowStep, TypeCorrect, PTL DEF Spec

-----------------------------------------------------------------------------
(***************************************************************************)
(* A deleted message is accounted for.  The strengthening says why: when a *)
(* worker is about to acknowledge, it has dealt with the message.          *)
(***************************************************************************)
Accounted(m) == Stored(m) \/ dlq[m] > 0 \/ m \in swallowed

AcknowledgesAccounted ==
    \A w \in Workers : \A m \in Msgs :
        IsCurrent(w, m) /\ pc[w] \in {"ack", "ackDLQ"} => Accounted(m)

\* What is accounted for stays so.
LEMMA AccountedStays ==
    ASSUME TypeOK, TypeOK', RecordsGrow, NEW m \in Msgs, Accounted(m)
    PROVE  Accounted(m)'
  <1>1. \A n \in Msgs : rows[n] > 0 => rows'[n] > 0
    BY DEF TypeOK, RecordsGrow, Insert
  <1>2. Exists(m) => Exists(m)'
    BY <1>1 DEF Exists
  <1>3. dlq[m] > 0 => dlq'[m] > 0
    BY DEF TypeOK, RecordsGrow
  <1> QED
    BY <1>1, <1>2, <1>3 DEF Accounted, Stored, RecordsGrow

\* A worker has one current message.
LEMMA OneCurrent ==
    ASSUME NEW w, NEW m \in Msgs, NEW n \in Msgs, IsCurrent(w, m), IsCurrent(w, n)
    PROVE  m = n
  <1>1. m \in Nat /\ n \in Nat
    BY MsgsAssumption
  <1>2. m <= n /\ n <= m
    BY DEF IsCurrent
  <1> QED
    BY <1>1, <1>2

\* Leaving the handler reaches no acknowledgement, and going on to one keeps
\* the current message.
LEMMA NextAcknowledgement ==
    ASSUME TypeOK, NEW w \in Workers, NEW m \in Msgs, IsCurrent(w, m), NEW step,
           Return(w, m) \/ Throw(w) \/ GoTo(w, step),
           NEW v \in Workers, NEW n \in Msgs, IsCurrent(v, n)', pc'[v] \in {"ack", "ackDLQ"}
    PROVE  \/ v # w /\ IsCurrent(v, n) /\ pc[v] = pc'[v]
           \/ v = w /\ n = m /\ GoTo(w, step) /\ pc'[w] = step
  <1>1. CASE v # w
    <2>1. pc'[v] = pc[v] /\ receipt'[v] = receipt[v]
      BY <1>1 DEF TypeOK, Return, Throw, GoTo
    <2> QED
      BY <1>1, <2>1 DEF IsCurrent, Held
  <1>2. CASE v = w
    <2>1. GoTo(w, step)
      BY <1>2 DEF TypeOK, Return, Throw
    <2>2. IsCurrent(w, n)
      BY <1>2, <2>1 DEF GoTo, IsCurrent, Held
    <2> QED
      BY <1>2, <2>1, <2>2, OneCurrent DEF TypeOK, GoTo
  <1> QED
    BY <1>1, <1>2

LEMMA HandleAcknowledges ==
    ASSUME TypeOK, TypeOK', AcknowledgesAccounted, RecordsGrow,
           NEW w \in Workers, NEW m \in Msgs, Handle(w, m)
    PROVE  AcknowledgesAccounted'
  <1> SUFFICES ASSUME NEW v \in Workers, NEW n \in Msgs,
                      IsCurrent(v, n)', pc'[v] \in {"ack", "ackDLQ"}
               PROVE  Accounted(n)'
    BY DEF AcknowledgesAccounted
  <1>1. ASSUME IsCurrent(v, n), pc[v] \in {"ack", "ackDLQ"}
        PROVE  Accounted(n)'
    BY <1>1, AccountedStays DEF AcknowledgesAccounted
  <1>2. CASE CheckDuplicate(w, m)
    <2>1. IsCurrent(w, m) /\ Accounted(m) /\ GoTo(w, "ack")
      BY <1>2 DEF CheckDuplicate, Accounted, Stored
    <2> QED
      BY <1>1, <2>1, NextAcknowledgement, AccountedStays
  <1>3. CASE SaveSucceeds(w, m)
    <2>1. IsCurrent(w, m) /\ GoTo(w, "ack")
      BY <1>3 DEF SaveSucceeds
    <2>2. rows'[m] > 0
      BY <1>3 DEF TypeOK, SaveSucceeds, Insert
    <2>3. Accounted(m)'
      BY <2>2 DEF Accounted, Stored
    <2> QED
      BY <1>1, <2>1, <2>3, NextAcknowledgement
  <1>4. CASE SendToDLQ(w, m)
    <2>1. IsCurrent(w, m) /\ GoTo(w, "ackDLQ")
      BY <1>4 DEF SendToDLQ
    <2>2. dlq'[m] > 0 \/ m \in swallowed'
      BY <1>4 DEF TypeOK, SendToDLQ, DLQAccepts
    <2>3. Accounted(m)'
      BY <2>2 DEF Accounted
    <2> QED
      BY <1>1, <2>1, <2>3, NextAcknowledgement
  <1>5. CASE /\ IsCurrent(w, m)
             /\ \/ Return(w, m) \/ Throw(w)
                \/ GoTo(w, "weather") \/ GoTo(w, "save") \/ GoTo(w, "sendToDLQ")
    <2>1. PICK step \in {"weather", "save", "sendToDLQ"} :
              Return(w, m) \/ Throw(w) \/ GoTo(w, step)
      BY <1>5
    <2> QED
      BY <1>1, <1>5, <2>1, NextAcknowledgement
  <1> QED
    BY <1>2, <1>3, <1>4, <1>5 DEF Handle, CheckNew, CheckFails, WeatherFound,
       WeatherFails, WeatherRefuses, SaveFails, SendToDLQFails, SendToDLQThrows,
       Acknowledge, AcknowledgeDLQ, AcknowledgeDLQFails

LEMMA AcknowledgesAccountedStep ==
    TypeOK /\ TypeOK' /\ AcknowledgesAccounted /\ [Next]_vars => AcknowledgesAccounted'
  <1> SUFFICES ASSUME TypeOK, TypeOK', AcknowledgesAccounted, [Next]_vars
               PROVE  AcknowledgesAccounted'
    OBVIOUS
  <1>1. RecordsGrow
    BY StepRecordsGrow
  <1>2. ASSUME NEW w \in Workers, NEW m \in Msgs, Handle(w, m)
        PROVE  AcknowledgesAccounted'
    BY <1>1, <1>2, HandleAcknowledges
  <1>3. ASSUME \A v \in Workers : pc'[v] \in {"ack", "ackDLQ"} =>
                   pc'[v] = pc[v] /\ receipt'[v] = receipt[v]
        PROVE  AcknowledgesAccounted'
    <2> SUFFICES ASSUME NEW v \in Workers, NEW n \in Msgs,
                        IsCurrent(v, n)', pc'[v] \in {"ack", "ackDLQ"}
                 PROVE  Accounted(n)'
      BY DEF AcknowledgesAccounted
    <2>1. IsCurrent(v, n) /\ pc[v] \in {"ack", "ackDLQ"}
      BY <1>3 DEF IsCurrent, Held
    <2> QED
      BY <1>1, <2>1, AccountedStays DEF AcknowledgesAccounted
  <1>4. ASSUME NEW w \in Workers, NEW batch \in SUBSET Msgs, Receive(w, batch)
        PROVE  AcknowledgesAccounted'
    BY <1>3, <1>4 DEF TypeOK, Receive
  <1>5. ASSUME NEW w \in Workers, ConversionFails(w)
        PROVE  AcknowledgesAccounted'
    BY <1>3, <1>5 DEF TypeOK, ConversionFails, Throw
  <1>6. ASSUME NEW w \in Workers, Crash(TaskOf[w])
        PROVE  AcknowledgesAccounted'
    BY <1>3, <1>6 DEF TypeOK, Crash
  <1>7. ASSUME UNCHANGED <<pc, receipt>>
        PROVE  AcknowledgesAccounted'
    BY <1>3, <1>7
  <1> QED
    BY <1>2, <1>4, <1>5, <1>6, <1>7 DEF Next, Poll, Step, VisibilityTimeout, Redrive,
       NextMillisecond, vars

\* A step deletes only a message that a worker is acknowledging.
LEMMA OnlyAcknowledgedDeleted ==
    ASSUME TypeOK, [Next]_vars, NEW m \in Msgs, mq'[m] = "deleted", mq[m] # "deleted"
    PROVE  \E w \in Workers : IsCurrent(w, m) /\ pc[w] \in {"ack", "ackDLQ"}
  <1>1. ASSUME NEW w \in Workers, NEW n \in Msgs, Handle(w, n), queueVars' # queueVars
        PROVE  /\ Delete(w, n)
               /\ IsCurrent(w, n) /\ pc[w] \in {"ack", "ackDLQ"}
    BY <1>1 DEF Handle, CheckDuplicate, CheckNew, CheckFails, WeatherFound, WeatherFails,
       WeatherRefuses, SaveSucceeds, SaveFails, SendToDLQ, SendToDLQFails,
       SendToDLQThrows, Acknowledge, AcknowledgeDLQ, AcknowledgeDLQFails
  <1>2. ASSUME NEW w \in Workers, NEW n \in Msgs, Handle(w, n)
        PROVE  IsCurrent(w, m) /\ pc[w] \in {"ack", "ackDLQ"}
    <2>1. queueVars' # queueVars
      BY DEF queueVars
    <2>2. n = m
      BY <1>1, <1>2, <2>1 DEF TypeOK, Delete
    <2> QED
      BY <1>1, <1>2, <2>1, <2>2
  <1>3. ~\E w \in Workers : \E batch \in SUBSET Msgs : Receive(w, batch)
    BY DEF Receive
  <1>4. ~\E n \in Msgs : VisibilityTimeout(n) \/ Redrive(n)
    BY DEF TypeOK, VisibilityTimeout, Redrive
  <1>5. queueVars' # queueVars
    BY DEF queueVars
  <1> QED
    BY <1>2, <1>3, <1>4, <1>5 DEF Next, Poll, Step, ConversionFails, Crash,
       NextMillisecond, vars, queueVars

LEMMA DeletedStep ==
    /\ TypeOK /\ TypeOK' /\ AcknowledgesAccounted /\ DeletedIsAccounted /\ [Next]_vars
    => DeletedIsAccounted'
  <1> SUFFICES ASSUME TypeOK, TypeOK', AcknowledgesAccounted, DeletedIsAccounted,
                      [Next]_vars, NEW m \in Msgs, mq'[m] = "deleted"
               PROVE  Accounted(m)'
    BY DEF DeletedIsAccounted, Accounted
  <1>1. Accounted(m)
    BY OnlyAcknowledgedDeleted DEF AcknowledgesAccounted, DeletedIsAccounted, Accounted
  <1> QED
    BY <1>1, StepRecordsGrow, AccountedStays

\* Whatever workers, receives, failures and crashes interleave, a message is
\* deleted only when it is stored, in the DLQ, or deduplicated away by it.
THEOREM DeletedIsAccountedHolds == Spec => []DeletedIsAccounted
  <1>1. Init => AcknowledgesAccounted /\ DeletedIsAccounted
    BY DEF Init, AcknowledgesAccounted, DeletedIsAccounted
  <1> QED
    BY <1>1, AcknowledgesAccountedStep, DeletedStep, TypeCorrect, PTL DEF Spec

-----------------------------------------------------------------------------
(***************************************************************************)
(* One effect per receive.  The strengthening counts the receipts that may *)
(* still lead to a call and the calls that may still lead to an effect.    *)
(***************************************************************************)
Pending(m) ==
    {w \in Workers : m \in Held(w) /\ ~(IsCurrent(w, m) /\ pc[w] \notin {"idle", "check"})}

InCall(m) ==
    {w \in Workers : IsCurrent(w, m) /\ pc[w] \in {"weather", "save", "sendToDLQ"}}

EffectsCounted ==
    \A m \in Msgs :
        /\ calls[m] + Cardinality(Pending(m)) <= recv[m]
        /\ rows[m] + dlq[m] + Cardinality(InCall(m)) <= calls[m]

\* Sizes of sets of workers.
LEMMA WorkerSets ==
    ASSUME NEW S \in SUBSET Workers, NEW T \in SUBSET Workers, NEW w \in Workers
    PROVE  /\ Cardinality(S) \in Nat
           /\ S \subseteq T => Cardinality(S) <= Cardinality(T)
           /\ S \subseteq T \cup {w} => Cardinality(S) <= Cardinality(T) + 1
           /\ S \subseteq T \ {w} /\ w \in T => Cardinality(S) + 1 <= Cardinality(T)
  <1>1. IsFiniteSet(S) /\ IsFiniteSet(T)
    BY WorkersAssumption, FS_Subset
  <1>2. Cardinality(S) \in Nat /\ Cardinality(T) \in Nat
    BY <1>1, FS_CardinalityType
  <1>3. S \subseteq T => Cardinality(S) <= Cardinality(T)
    BY <1>1, FS_Subset
  <1>4. ASSUME S \subseteq T \cup {w} PROVE Cardinality(S) <= Cardinality(T) + 1
    <2>1. /\ IsFiniteSet(T \cup {w})
          /\ Cardinality(T \cup {w}) = IF w \in T THEN Cardinality(T) ELSE Cardinality(T) + 1
      BY <1>1, FS_AddElement
    <2>2. S \in SUBSET (T \cup {w})
      BY <1>4
    <2>3. Cardinality(S) <= Cardinality(T \cup {w})
      BY <2>1, <2>2, FS_Subset
    <2>4. Cardinality(T \cup {w}) \in Nat
      BY <2>1, FS_CardinalityType
    <2> QED  BY <1>2, <2>1, <2>3, <2>4
  <1>5. ASSUME S \subseteq T \ {w}, w \in T PROVE Cardinality(S) + 1 <= Cardinality(T)
    <2>1. IsFiniteSet(T \ {w}) /\ Cardinality(T \ {w}) = Cardinality(T) - 1
      BY <1>1, <1>5, FS_RemoveElement
    <2>2. Cardinality(S) <= Cardinality(T \ {w})
      BY <1>5, <2>1, FS_Subset
    <2> QED  BY <1>2, <2>1, <2>2
  <1> QED  BY <1>2, <1>3, <1>4, <1>5

\* A handler step makes no receipt pending again, and enters a call only from
\* its check.
LEMMA ExitPending ==
    ASSUME TypeOK, NEW w \in Workers, NEW m \in Msgs, IsCurrent(w, m),
           NEW step \in {"weather", "save", "ack", "sendToDLQ", "ackDLQ"},
           Return(w, m) \/ Throw(w) \/ GoTo(w, step)
    PROVE  \A n \in Msgs :
               /\ Pending(n)' \subseteq Pending(n)
               /\ n # m => InCall(n)' \subseteq InCall(n)
               /\ InCall(m)' \subseteq InCall(m) \cup {w}
               /\ pc[w] \in {"weather", "save", "sendToDLQ"} => InCall(m)' \subseteq InCall(m)
               /\ ~(GoTo(w, step) /\ step \in {"weather", "save", "sendToDLQ"})
                    => InCall(m)' \subseteq InCall(m) \ {w}
  <1> SUFFICES ASSUME NEW n \in Msgs
               PROVE  /\ Pending(n)' \subseteq Pending(n)
                      /\ n # m => InCall(n)' \subseteq InCall(n)
                      /\ InCall(m)' \subseteq InCall(m) \cup {w}
                      /\ pc[w] \in {"weather", "save", "sendToDLQ"} =>
                             InCall(m)' \subseteq InCall(m)
                      /\ ~(GoTo(w, step) /\ step \in {"weather", "save", "sendToDLQ"})
                           => InCall(m)' \subseteq InCall(m) \ {w}
    OBVIOUS
  <1>1. \A v \in Workers : v # w =>
            /\ pc'[v] = pc[v]
            /\ \A k \in Msgs : receipt'[v][k] = receipt[v][k]
    BY DEF TypeOK, Return, Throw, GoTo
  <1>2. \A v \in Workers : v # w =>
            /\ v \in Pending(n)' <=> v \in Pending(n)
            /\ v \in InCall(n)' <=> v \in InCall(n)
            /\ v \in InCall(m)' <=> v \in InCall(m)
    BY <1>1 DEF Pending, InCall, IsCurrent, Held
  <1>3. \A k \in Msgs : k # m => ~IsCurrent(w, k)
    BY OneCurrent
  <1>7. Pending(n)' \subseteq Workers /\ InCall(n)' \subseteq Workers /\ InCall(m)' \subseteq Workers
    BY DEF Pending, InCall
  <1>4. CASE Return(w, m)
    <2>1. receipt'[w][m] = 0 /\ pc'[w] \in {"idle", "check"}
          /\ \A k \in Msgs : k # m => receipt'[w][k] = receipt[w][k]
      BY <1>4 DEF TypeOK, Return
    <2>2. w \in Pending(n)' => w \in Pending(n)
      BY <1>3, <2>1 DEF Pending, Held
    <2>3. w \notin InCall(n)' /\ w \notin InCall(m)'
      BY <2>1 DEF InCall
    <2>4. Pending(n)' \subseteq Pending(n)
      BY <1>2, <1>7, <2>2
    <2>5. InCall(n)' \subseteq InCall(n) \ {w} /\ InCall(m)' \subseteq InCall(m) \ {w}
      BY <1>2, <1>7, <2>3
    <2> QED
      BY <2>4, <2>5
  <1>5. CASE Throw(w)
    <2>1. pc'[w] = "idle" /\ \A k \in Msgs : receipt'[w][k] = 0
      BY <1>5 DEF TypeOK, Throw
    <2>2. w \notin InCall(n)' /\ w \notin InCall(m)' /\ w \notin Pending(n)'
      BY <2>1 DEF InCall, Pending, Held
    <2>3. Pending(n)' \subseteq Pending(n)
      BY <1>2, <1>7, <2>2
    <2>4. InCall(n)' \subseteq InCall(n) \ {w} /\ InCall(m)' \subseteq InCall(m) \ {w}
      BY <1>2, <1>7, <2>2
    <2> QED
      BY <2>3, <2>4
  <1>6. CASE GoTo(w, step)
    <2>1. pc'[w] = step /\ receipt' = receipt
      BY <1>6 DEF TypeOK, GoTo
    <2>2. /\ IsCurrent(w, n)' <=> IsCurrent(w, n)
          /\ IsCurrent(w, m)' <=> IsCurrent(w, m)
      BY <2>1 DEF IsCurrent, Held
    <2>3. w \in Pending(n)' => w \in Pending(n)
      BY <1>3, <2>1, <2>2 DEF Pending, Held
    <2>4. n # m => w \notin InCall(n)'
      BY <1>3, <2>2 DEF InCall
    <2>5. pc[w] \in {"weather", "save", "sendToDLQ"} => w \in InCall(m)
      BY DEF InCall
    <2>6. step \notin {"weather", "save", "sendToDLQ"} => w \notin InCall(m)'
      BY <2>1 DEF InCall
    <2>7. Pending(n)' \subseteq Pending(n)
      BY <1>2, <1>7, <2>3
    <2>8. n # m => InCall(n)' \subseteq InCall(n)
      BY <1>2, <1>7, <2>4
    <2>9. InCall(m)' \subseteq InCall(m) \cup {w}
      BY <1>2, <1>7
    <2>10. pc[w] \in {"weather", "save", "sendToDLQ"} => InCall(m)' \subseteq InCall(m)
      BY <1>2, <1>7, <2>5
    <2>11. step \notin {"weather", "save", "sendToDLQ"} => InCall(m)' \subseteq InCall(m) \ {w}
      BY <1>2, <1>7, <2>6
    <2> QED
      BY <1>6, <2>7, <2>8, <2>9, <2>10, <2>11
  <1> QED
    BY <1>4, <1>5, <1>6

\* The three ways a handler step moves the counts of its message: it starts a
\* call, it ends one with a record, or it leaves the counts alone.
LEMMA HandleCounts ==
    ASSUME TypeOK, NEW w \in Workers, NEW m \in Msgs, Handle(w, m)
    PROVE  /\ IsCurrent(w, m)
           /\ \A n \in Msgs : n # m =>
                 calls'[n] = calls[n] /\ rows'[n] = rows[n] /\ dlq'[n] = dlq[n]
           /\ \/ /\ CheckNew(w, m)
                 /\ calls'[m] = calls[m] + 1 /\ rows' = rows /\ dlq' = dlq
              \/ /\ pc[w] \in {"save", "sendToDLQ"}
                 /\ Return(w, m) \/ Throw(w) \/ GoTo(w, "ack") \/ GoTo(w, "ackDLQ")
                 /\ calls' = calls /\ rows'[m] + dlq'[m] <= rows[m] + dlq[m] + 1
              \/ /\ \/ Return(w, m) \/ Throw(w) \/ GoTo(w, "ack")
                    \/ /\ pc[w] = "weather"
                       /\ GoTo(w, "save") \/ GoTo(w, "sendToDLQ")
                 /\ calls' = calls /\ rows' = rows /\ dlq' = dlq
  <1> USE DEF TypeOK
  <1>1. CASE CheckDuplicate(w, m)
    BY <1>1 DEF CheckDuplicate, dlqVars
  <1>2. CASE CheckNew(w, m)
    BY <1>2 DEF CheckNew, dlqVars
  <1>3. CASE CheckFails(w, m)
    BY <1>3 DEF CheckFails, dlqVars
  <1>4. CASE WeatherFound(w, m)
    BY <1>4 DEF WeatherFound, dlqVars
  <1>5. CASE WeatherFails(w, m)
    BY <1>5 DEF WeatherFails, dlqVars
  <1>6. CASE WeatherRefuses(w, m)
    BY <1>6 DEF WeatherRefuses, dlqVars
  <1>7. CASE SaveSucceeds(w, m)
    BY <1>7 DEF SaveSucceeds, Insert, dlqVars
  <1>8. CASE SaveFails(w, m)
    BY <1>8 DEF SaveFails, Insert, dlqVars
  <1>9. CASE SendToDLQ(w, m)
    BY <1>9 DEF SendToDLQ, DLQAccepts
  <1>10. CASE SendToDLQFails(w, m)
    BY <1>10 DEF SendToDLQFails, DLQAccepts, DLQRefuses
  <1>11. CASE SendToDLQThrows(w, m)
    BY <1>11 DEF SendToDLQThrows, DLQRefuses
  <1>12. CASE Acknowledge(w, m)
    BY <1>12 DEF Acknowledge, dlqVars
  <1>13. CASE AcknowledgeDLQ(w, m)
    BY <1>13 DEF AcknowledgeDLQ, dlqVars
  <1>14. CASE AcknowledgeDLQFails(w, m)
    BY <1>14 DEF AcknowledgeDLQFails, dlqVars
  <1> QED
    BY <1>1, <1>2, <1>3, <1>4, <1>5, <1>6, <1>7, <1>8, <1>9, <1>10, <1>11, <1>12,
       <1>13, <1>14 DEF Handle

\* When no effect is recorded for n and no worker enters one of the counted
\* sets, the counts of n keep their order.
LEMMA CountsKept ==
    ASSUME TypeOK, EffectsCounted, NEW n \in Msgs, recv'[n] = recv[n],
           calls'[n] = calls[n], rows'[n] = rows[n], dlq'[n] = dlq[n],
           Pending(n)' \subseteq Pending(n), InCall(n)' \subseteq InCall(n)
    PROVE  /\ calls'[n] + Cardinality(Pending(n)') <= recv'[n]
           /\ rows'[n] + dlq'[n] + Cardinality(InCall(n)') <= calls'[n]
  <1> DEFINE P == Pending(n)  Q == Pending(n)'  I == InCall(n)  J == InCall(n)'
  <1>1. P \in SUBSET Workers /\ Q \in SUBSET Workers /\ I \in SUBSET Workers /\ J \in SUBSET Workers
    BY DEF Pending, InCall
  <1>2. /\ calls[n] + Cardinality(P) <= recv[n]
        /\ rows[n] + dlq[n] + Cardinality(I) <= calls[n]
    BY DEF EffectsCounted
  <1>3. calls[n] \in Nat /\ rows[n] \in Nat /\ dlq[n] \in Nat /\ recv[n] \in Nat
    BY MaxReceiveAssumption DEF TypeOK
  <1>4. Q \subseteq P /\ J \subseteq I
    OBVIOUS
  <1> HIDE DEF P, Q, I, J
  <1>5. CASE Workers = {}
    <2>1. P = {} /\ Q = {} /\ I = {} /\ J = {}
      BY <1>1, <1>5
    <2>2. calls[n] + Cardinality(Q) <= recv[n] /\ rows[n] + dlq[n] + Cardinality(J) <= calls[n]
      BY <1>2, <2>1
    <2> QED  BY <2>2 DEF Q, J
  <1>6. CASE Workers # {}
    <2>1. PICK w \in Workers : TRUE
      BY <1>6
    <2>2. /\ Cardinality(P) \in Nat /\ Cardinality(Q) \in Nat
          /\ Cardinality(I) \in Nat /\ Cardinality(J) \in Nat
      BY <1>1, <2>1, WorkerSets
    <2>3. Cardinality(Q) <= Cardinality(P) /\ Cardinality(J) <= Cardinality(I)
      BY <1>1, <1>4, <2>1, WorkerSets
    <2>4. calls[n] + Cardinality(Q) <= recv[n] /\ rows[n] + dlq[n] + Cardinality(J) <= calls[n]
      BY <1>2, <1>3, <2>2, <2>3
    <2> QED  BY <2>4 DEF Q, J
  <1> QED  BY <1>5, <1>6

LEMMA HandleEffects ==
    ASSUME TypeOK, TypeOK', EffectsCounted, NEW w \in Workers, NEW m \in Msgs, Handle(w, m),
           NEW n \in Msgs
    PROVE  /\ calls'[n] + Cardinality(Pending(n)') <= recv'[n]
           /\ rows'[n] + dlq'[n] + Cardinality(InCall(n)') <= calls'[n]
  <1>1. recv' = recv
    BY HandleReleases DEF OnlyReleases
  <1>2. IsCurrent(w, m)
    BY HandleCounts
  <1>3. CASE n # m
    <2>1. calls'[n] = calls[n] /\ rows'[n] = rows[n] /\ dlq'[n] = dlq[n]
      BY <1>3, HandleCounts
    <2>2. \E step \in {"weather", "save", "ack", "sendToDLQ", "ackDLQ"} :
              Return(w, m) \/ Throw(w) \/ GoTo(w, step)
      BY HandleCounts DEF CheckNew
    <2>3. Pending(n)' \subseteq Pending(n) /\ InCall(n)' \subseteq InCall(n)
      BY <1>2, <1>3, <2>2, ExitPending
    <2> QED
      BY <1>1, <2>1, <2>3, CountsKept
  <1>4. CASE n = m
    <2> DEFINE P == Pending(m)  Q == Pending(m)'  I == InCall(m)  J == InCall(m)'
    <2>1. /\ P \in SUBSET Workers /\ Q \in SUBSET Workers
          /\ I \in SUBSET Workers /\ J \in SUBSET Workers
      BY DEF Pending, InCall
    <2>2. /\ calls[m] + Cardinality(P) <= recv[m]
          /\ rows[m] + dlq[m] + Cardinality(I) <= calls[m]
      BY DEF EffectsCounted
    <2>3. /\ calls[m] \in Nat /\ rows[m] \in Nat /\ dlq[m] \in Nat /\ recv[m] \in Nat
          /\ calls'[m] \in Nat /\ rows'[m] \in Nat /\ dlq'[m] \in Nat
      BY MaxReceiveAssumption DEF TypeOK
    <2>4. /\ Cardinality(P) \in Nat /\ Cardinality(Q) \in Nat
          /\ Cardinality(I) \in Nat /\ Cardinality(J) \in Nat
      BY <2>1, WorkerSets
    <2>5. CASE /\ CheckNew(w, m)
               /\ calls'[m] = calls[m] + 1 /\ rows' = rows /\ dlq' = dlq
      <3>1. GoTo(w, "weather") /\ pc[w] = "check"
        BY <2>5 DEF CheckNew
      <3>2. w \in P
        BY <1>2, <3>1 DEF Pending, IsCurrent
      <3>3. w \notin Q
        BY <1>2, <3>1 DEF TypeOK, Pending, GoTo, IsCurrent, Held
      <3>4. Q \subseteq P \ {w} /\ J \subseteq I \cup {w}
        BY <1>2, <3>1, <3>3, ExitPending
      <3> HIDE DEF P, Q, I, J
      <3>5. Cardinality(Q) + 1 <= Cardinality(P) /\ Cardinality(J) <= Cardinality(I) + 1
        BY <2>1, <3>2, <3>4, WorkerSets
      <3>6. /\ calls'[m] + Cardinality(Q) <= recv[m]
            /\ rows'[m] + dlq'[m] + Cardinality(J) <= calls'[m]
        BY <2>2, <2>3, <2>4, <2>5, <3>5
      <3> QED
        BY <1>1, <1>4, <3>6 DEF Q, J
    <2>6. CASE /\ pc[w] \in {"save", "sendToDLQ"}
               /\ Return(w, m) \/ Throw(w) \/ GoTo(w, "ack") \/ GoTo(w, "ackDLQ")
               /\ calls' = calls /\ rows'[m] + dlq'[m] <= rows[m] + dlq[m] + 1
      <3>1. w \in I
        BY <1>2, <2>6 DEF InCall
      <3>2. PICK step \in {"ack", "ackDLQ"} : Return(w, m) \/ Throw(w) \/ GoTo(w, step)
        BY <2>6
      <3>3. Q \subseteq P /\ J \subseteq I \ {w}
        BY <1>2, <3>2, ExitPending
      <3> HIDE DEF P, Q, I, J
      <3>4. Cardinality(Q) <= Cardinality(P) /\ Cardinality(J) + 1 <= Cardinality(I)
        BY <2>1, <3>1, <3>3, WorkerSets
      <3>5. /\ calls'[m] + Cardinality(Q) <= recv[m]
            /\ rows'[m] + dlq'[m] + Cardinality(J) <= calls'[m]
        BY <2>2, <2>3, <2>4, <2>6, <3>4
      <3> QED
        BY <1>1, <1>4, <3>5 DEF Q, J
    <2>7. CASE /\ \/ Return(w, m) \/ Throw(w) \/ GoTo(w, "ack")
                  \/ /\ pc[w] = "weather"
                     /\ GoTo(w, "save") \/ GoTo(w, "sendToDLQ")
               /\ calls' = calls /\ rows' = rows /\ dlq' = dlq
      <3>1. \/ Return(w, m) \/ Throw(w) \/ GoTo(w, "ack")
            \/ \E step \in {"save", "sendToDLQ"} : pc[w] = "weather" /\ GoTo(w, step)
        BY <2>7
      <3>2. Pending(m)' \subseteq Pending(m) /\ InCall(m)' \subseteq InCall(m)
        BY <1>2, <3>1, ExitPending
      <3> QED
        BY <1>1, <1>4, <2>7, <3>2, CountsKept
    <2> QED
      BY <2>5, <2>6, <2>7, HandleCounts
  <1> QED
    BY <1>3, <1>4

LEMMA EffectsStep ==
    TypeOK /\ TypeOK' /\ EffectsCounted /\ [Next]_vars => EffectsCounted'
  <1> SUFFICES ASSUME TypeOK, TypeOK', EffectsCounted, [Next]_vars, NEW n \in Msgs
               PROVE  /\ calls'[n] + Cardinality(Pending(n)') <= recv'[n]
                      /\ rows'[n] + dlq'[n] + Cardinality(InCall(n)') <= calls'[n]
    BY DEF EffectsCounted
  <1>1. ASSUME NEW w \in Workers, NEW m \in Msgs, Handle(w, m)
        PROVE  /\ calls'[n] + Cardinality(Pending(n)') <= recv'[n]
               /\ rows'[n] + dlq'[n] + Cardinality(InCall(n)') <= calls'[n]
    BY <1>1, HandleEffects
  <1>2. ASSUME NEW u \in Workers, NEW batch \in SUBSET Msgs, Receive(u, batch)
        PROVE  /\ calls'[n] + Cardinality(Pending(n)') <= recv'[n]
               /\ rows'[n] + dlq'[n] + Cardinality(InCall(n)') <= calls'[n]
    <2>1. \A v \in Workers : v # u =>
              /\ pc'[v] = pc[v]
              /\ \A k \in Msgs : receipt'[v][k] = receipt[v][k]
      BY <1>2 DEF TypeOK, Receive
    <2>2. InCall(n)' \subseteq InCall(n)
      BY <1>2, <2>1 DEF TypeOK, Receive, InCall, IsCurrent, Held
    <2>3. calls'[n] = calls[n] /\ rows'[n] = rows[n] /\ dlq'[n] = dlq[n]
      BY <1>2 DEF Receive, dlqVars
    <2>4. CASE n \notin batch
      <3>1. Pending(n)' \subseteq Pending(n)
        BY <1>2, <2>1, <2>4 DEF TypeOK, Receive, Pending, IsCurrent, Held
      <3>2. recv'[n] = recv[n]
        BY <1>2, <2>4 DEF Receive
      <3> QED
        BY <2>2, <2>3, <3>1, <3>2, CountsKept
    <2>5. CASE n \in batch
      <3> DEFINE P == Pending(n)  Q == Pending(n)'  I == InCall(n)  J == InCall(n)'
      <3>1. /\ P \in SUBSET Workers /\ Q \in SUBSET Workers
            /\ I \in SUBSET Workers /\ J \in SUBSET Workers
        BY DEF Pending, InCall
      <3>2. Q \subseteq P \cup {u} /\ J \subseteq I
        BY <2>1, <2>2 DEF Pending, IsCurrent, Held
      <3>3. /\ calls[n] + Cardinality(P) <= recv[n]
            /\ rows[n] + dlq[n] + Cardinality(I) <= calls[n]
        BY DEF EffectsCounted
      <3>4. recv'[n] = recv[n] + 1
        BY <1>2, <2>5 DEF Receive
      <3>5. /\ calls[n] \in Nat /\ rows[n] \in Nat /\ dlq[n] \in Nat /\ recv[n] \in Nat
        BY MaxReceiveAssumption DEF TypeOK
      <3> HIDE DEF P, Q, I, J
      <3>6. /\ Cardinality(P) \in Nat /\ Cardinality(Q) \in Nat
            /\ Cardinality(I) \in Nat /\ Cardinality(J) \in Nat
            /\ Cardinality(Q) <= Cardinality(P) + 1 /\ Cardinality(J) <= Cardinality(I)
        BY <3>1, <3>2, WorkerSets
      <3>7. /\ calls'[n] + Cardinality(Q) <= recv'[n]
            /\ rows'[n] + dlq'[n] + Cardinality(J) <= calls'[n]
        BY <2>3, <3>3, <3>4, <3>5, <3>6
      <3> QED
        BY <3>7 DEF Q, J
    <2> QED
      BY <2>4, <2>5
  <1>3. ASSUME UNCHANGED <<recv, rows, calls, dlq>>,
               \A v \in Workers :
                   \/ pc'[v] = pc[v] /\ receipt'[v] = receipt[v]
                   \/ pc'[v] = "idle" /\ \A k \in Msgs : receipt'[v][k] = 0
        PROVE  /\ calls'[n] + Cardinality(Pending(n)') <= recv'[n]
               /\ rows'[n] + dlq'[n] + Cardinality(InCall(n)') <= calls'[n]
    <2>1. Pending(n)' \subseteq Pending(n)
      BY <1>3 DEF Pending, IsCurrent, Held
    <2>2. InCall(n)' \subseteq InCall(n)
      BY <1>3 DEF InCall, IsCurrent, Held
    <2> QED
      BY <1>3, <2>1, <2>2, CountsKept
  <1>4. ASSUME NEW w \in Workers, ConversionFails(w)
        PROVE  /\ calls'[n] + Cardinality(Pending(n)') <= recv'[n]
               /\ rows'[n] + dlq'[n] + Cardinality(InCall(n)') <= calls'[n]
    <2>1. UNCHANGED <<recv, rows, calls, dlq>>
      BY <1>4 DEF ConversionFails, queueVars, dlqVars
    <2>2. \A v \in Workers :
              \/ pc'[v] = pc[v] /\ receipt'[v] = receipt[v]
              \/ pc'[v] = "idle" /\ \A k \in Msgs : receipt'[v][k] = 0
      <3>1. \A v \in Workers : v # w => pc'[v] = pc[v] /\ receipt'[v] = receipt[v]
        BY <1>4 DEF TypeOK, ConversionFails, Throw
      <3>2. pc'[w] = "idle" /\ \A k \in Msgs : receipt'[w][k] = 0
        BY <1>4 DEF TypeOK, ConversionFails, Throw
      <3> QED  BY <3>1, <3>2
    <2> QED  BY <1>3, <2>1, <2>2
  <1>5. ASSUME NEW w \in Workers, Crash(TaskOf[w])
        PROVE  /\ calls'[n] + Cardinality(Pending(n)') <= recv'[n]
               /\ rows'[n] + dlq'[n] + Cardinality(InCall(n)') <= calls'[n]
    <2>1. UNCHANGED <<recv, rows, calls, dlq>>
      BY <1>5 DEF Crash, queueVars, dlqVars
    <2>2. \A v \in Workers :
              \/ pc'[v] = pc[v] /\ receipt'[v] = receipt[v]
              \/ pc'[v] = "idle" /\ \A k \in Msgs : receipt'[v][k] = 0
      <3> SUFFICES ASSUME NEW v \in Workers
                   PROVE  \/ pc'[v] = pc[v] /\ receipt'[v] = receipt[v]
                          \/ pc'[v] = "idle" /\ \A k \in Msgs : receipt'[v][k] = 0
        OBVIOUS
      <3>1. CASE TaskOf[v] = TaskOf[w]
        BY <1>5, <3>1 DEF Crash
      <3>2. CASE TaskOf[v] # TaskOf[w]
        BY <1>5, <3>2 DEF Crash
      <3> QED  BY <3>1, <3>2
    <2> QED  BY <1>3, <2>1, <2>2
  <1>6. ASSUME UNCHANGED <<recv, receipt, pc, rows, calls, dlq>>
        PROVE  /\ calls'[n] + Cardinality(Pending(n)') <= recv'[n]
               /\ rows'[n] + dlq'[n] + Cardinality(InCall(n)') <= calls'[n]
    <2>1. /\ UNCHANGED <<recv, rows, calls, dlq>>
          /\ \A v \in Workers : pc'[v] = pc[v] /\ receipt'[v] = receipt[v]
      BY <1>6
    <2> QED  BY <1>3, <2>1
  <1>7. \/ UNCHANGED <<recv, receipt, pc, rows, calls, dlq>>
        \/ \E w \in Workers : Poll(w) \/ Step(w) \/ Crash(TaskOf[w])
    BY DEF Next, VisibilityTimeout, Redrive, NextMillisecond, vars, queueVars, dlqVars
  <1> QED
    BY <1>1, <1>2, <1>4, <1>5, <1>6, <1>7 DEF Poll, Step

LEMMA InitEffectsCounted == Init => EffectsCounted
  <1> SUFFICES ASSUME Init, NEW m \in Msgs
               PROVE  /\ calls[m] + Cardinality(Pending(m)) <= recv[m]
                      /\ rows[m] + dlq[m] + Cardinality(InCall(m)) <= calls[m]
    BY DEF EffectsCounted
  <1>1. Pending(m) = {} /\ InCall(m) = {}
    BY DEF Init, Pending, InCall, Held
  <1> QED
    BY <1>1, FS_EmptySet DEF Init

\* For any messages, workers and failures: a message has no more rows and DLQ
\* copies than weather lookups, and no more lookups than receives.
THEOREM OneEffectPerReceiveHolds == Spec => []OneEffectPerReceive
  <1>1. Init => EffectsCounted
    BY InitEffectsCounted
  <1>2. TypeOK /\ EffectsCounted => OneEffectPerReceive
    <2> SUFFICES ASSUME TypeOK, EffectsCounted, NEW m \in Msgs
                 PROVE  rows[m] + dlq[m] <= calls[m] /\ calls[m] <= recv[m]
      BY DEF OneEffectPerReceive
    <2>1. IsFiniteSet(Pending(m)) /\ IsFiniteSet(InCall(m))
      BY WorkersAssumption, FS_Subset DEF Pending, InCall
    <2>2. Cardinality(Pending(m)) \in Nat /\ Cardinality(InCall(m)) \in Nat
      BY <2>1, FS_CardinalityType
    <2> QED
      BY <2>2, MaxReceiveAssumption DEF TypeOK, EffectsCounted
  <1> QED
    BY <1>1, <1>2, EffectsStep, TypeCorrect, PTL DEF Spec
=============================================================================
