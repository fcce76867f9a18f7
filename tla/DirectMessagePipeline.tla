----------------------- MODULE DirectMessagePipeline -----------------------
(***************************************************************************)
(* The direct-message path: the FIFO queue with its redrive policy         *)
(* (iac/modules/sqs/main.tf), the SQS listener container's workers, the    *)
(* handler DirectMessageListener.onMessage with the service, weather call  *)
(* and repository calls it makes, the table direct_messages with its       *)
(* UNIQUE message_id, and the FIFO dead-letter queue.                      *)
(*                                                                         *)
(* Msgs are the positions at which messages were sent.  All of them are in *)
(* the queue initially: a poll may return fewer messages than the queue    *)
(* holds, so a message sent later behaves as one a poll left out.          *)
(***************************************************************************)
EXTENDS Integers, FiniteSets

CONSTANTS
    Msgs,          \* messages of the queue, ordered by the time they were sent
    GroupOf,       \* FIFO message group of a message
    KeyOf,         \* messageId in a message's payload, or NoKey
    NoKey,         \* the payload has no messageId (SQL NULL)
    Unparseable,   \* messages whose body is not a DirectMessagePayload
    Workers,       \* listener threads, over all running tasks
    TaskOf,        \* the ECS task a thread belongs to
    MaxReceive,    \* maxReceiveCount of the redrive policy
    MaxPoll,       \* max-messages-per-poll
    MaxConcurrent  \* max-concurrent-messages, per task

ASSUME MsgsAssumption == Msgs \subseteq Nat /\ IsFiniteSet(Msgs)
ASSUME WorkersAssumption == IsFiniteSet(Workers)
ASSUME UnparseableAssumption == Unparseable \subseteq Msgs
ASSUME MaxReceiveAssumption == MaxReceive \in Nat \ {0}
ASSUME PollAssumption == MaxPoll \in Nat \ {0} /\ MaxConcurrent \in Nat \ {0}

VARIABLES
    mq,        \* where each message of the queue is
    recv,      \* ApproximateReceiveCount of each message
    receipt,   \* receipt[w][m]: the receive that handed m to worker w, 0 if w does not hold m
    pc,        \* the next step of the handler a worker runs
    rows,      \* rows of direct_messages inserted for each message
    calls,     \* getWeatherForCity calls made for each message
    dlq,       \* copies of each message sendToDLQ put in the dead-letter queue
    swallowed, \* messages whose send to the dead-letter queue was deduplicated away
    sentNow,   \* workers that called sendToDLQ in the current millisecond
    idUsed     \* has the DLQ accepted the current millisecond as deduplication id?

queueVars == <<mq, recv>>
dlqVars   == <<dlq, swallowed, sentNow, idUsed>>
vars == <<mq, recv, receipt, pc, rows, calls, dlq, swallowed, sentNow, idUsed>>

(***************************************************************************)
(* Derived state.                                                          *)
(***************************************************************************)
Held(w) == {m \in Msgs : receipt[w][m] # 0}

\* The messages of a group are handled one at a time, in the order sent.
IsCurrent(w, m) == m \in Held(w) /\ \A n \in Held(w) : m <= n

SameGroup(m) == {n \in Msgs : GroupOf[n] = GroupOf[m]}

\* SQS returns nothing of a group while one of its messages is in flight.
Locked(m) == \E n \in SameGroup(m) : mq[n] = "inflight"

Settled(m) == mq[m] \in {"deleted", "redriven"}

\* A receipt handle deletes only the receive it came with, while it lasts.
LiveReceipt(w, m) == mq[m] = "inflight" /\ recv[m] = receipt[w][m]

\* existsByMessageId: "= NULL" matches no row, so a null id never exists.
Exists(m) ==
    /\ KeyOf[m] # NoKey
    /\ \E n \in Msgs : KeyOf[n] = KeyOf[m] /\ rows[n] > 0

Permits(k) ==
    MaxConcurrent
      - Cardinality({p \in Workers \X Msgs : TaskOf[p[1]] = k /\ receipt[p[1]][p[2]] # 0})

-----------------------------------------------------------------------------
Init ==
    /\ mq = [m \in Msgs |-> "visible"]
    /\ recv = [m \in Msgs |-> 0]
    /\ receipt = [w \in Workers |-> [m \in Msgs |-> 0]]
    /\ pc = [w \in Workers |-> "idle"]
    /\ rows = [m \in Msgs |-> 0]
    /\ calls = [m \in Msgs |-> 0]
    /\ dlq = [m \in Msgs |-> 0]
    /\ swallowed = {}
    /\ sentNow = {}
    /\ idUsed = FALSE

-----------------------------------------------------------------------------
(***************************************************************************)
(* The queue.                                                              *)
(***************************************************************************)

\* Faulty variant: a standard queue, as s3_event_queue is declared.
DeliverableStandardQueue(batch) ==
    \A m \in batch : mq[m] = "visible" /\ recv[m] < MaxReceive

\* Faulty variant: exhausted messages are delivered once more.
DeliverableOnceMore(batch) ==
    \A m \in batch :
        /\ mq[m] = "visible" /\ recv[m] <= MaxReceive /\ ~Locked(m)
        /\ batch \subseteq SameGroup(m)
        /\ \A n \in SameGroup(m) : n < m /\ ~Settled(n) => n \in batch

\* What a FIFO queue may return: the oldest unsettled messages of one
\* unlocked group, none of them due for the dead-letter queue.
Deliverable(batch) ==
    \A m \in batch :
        /\ mq[m] = "visible" /\ recv[m] < MaxReceive /\ ~Locked(m)
        /\ batch \subseteq SameGroup(m)
        /\ \A n \in SameGroup(m) : n < m /\ ~Settled(n) => n \in batch

\* One group's share of a poll, as far as the poll's size and the task's
\* permits allow.
Receive(w, batch) ==
    /\ pc[w] = "idle"
    /\ batch # {}
    /\ Cardinality(batch) <= MaxPoll
    /\ Cardinality(batch) <= Permits(TaskOf[w])
    /\ Deliverable(batch)
    /\ mq' = [m \in Msgs |-> IF m \in batch THEN "inflight" ELSE mq[m]]
    /\ recv' = [m \in Msgs |-> IF m \in batch THEN recv[m] + 1 ELSE recv[m]]
    /\ receipt' = [receipt EXCEPT ![w] = [m \in Msgs |-> IF m \in batch THEN recv[m] + 1 ELSE 0]]
    /\ pc' = [pc EXCEPT ![w] = "check"]
    /\ UNCHANGED <<rows, calls, dlqVars>>

\* The visibility timeout of a receive ends: what is left of the batch in
\* flight returns to the queue.  The worker is not told.
VisibilityTimeout(m) ==
    /\ mq[m] = "inflight"
    /\ mq' = [n \in Msgs |-> IF n \in SameGroup(m) /\ mq[n] = "inflight"
                             THEN "visible" ELSE mq[n]]
    /\ UNCHANGED <<recv, receipt, pc, rows, calls, dlqVars>>

\* Faulty variant: off by one, so that nothing is ever due.
RedriveTooLate(m) ==
    /\ mq[m] = "visible" /\ recv[m] > MaxReceive /\ ~Locked(m)
    /\ mq' = [mq EXCEPT ![m] = "redriven"]
    /\ UNCHANGED <<recv, receipt, pc, rows, calls, dlqVars>>

\* The redrive policy: the receive after the last moves the message away.
Redrive(m) ==
    /\ mq[m] = "visible" /\ recv[m] = MaxReceive /\ ~Locked(m)
    /\ mq' = [mq EXCEPT ![m] = "redriven"]
    /\ UNCHANGED <<recv, receipt, pc, rows, calls, dlqVars>>

-----------------------------------------------------------------------------
(***************************************************************************)
(* The handler.  It ends by returning, and the container goes on with the  *)
(* batch, or by an exception that leaves it, and the container drops the   *)
(* rest of the batch.                                                      *)
(***************************************************************************)
Return(w, m) ==
    /\ receipt' = [receipt EXCEPT ![w][m] = 0]
    /\ pc' = [pc EXCEPT ![w] = IF Held(w) = {m} THEN "idle" ELSE "check"]

Throw(w) ==
    /\ receipt' = [receipt EXCEPT ![w] = [m \in Msgs |-> 0]]
    /\ pc' = [pc EXCEPT ![w] = "idle"]

GoTo(w, step) ==
    /\ pc' = [pc EXCEPT ![w] = step]
    /\ UNCHANGED receipt

\* The container cannot convert a body: the batch never reaches the handler.
ConversionFails(w) ==
    /\ pc[w] = "check"
    /\ Held(w) \cap Unparseable # {}
    /\ Throw(w)
    /\ UNCHANGED <<queueVars, rows, calls, dlqVars>>

\* onMessage begins; processMessage asks existsByMessageId first.
CheckDuplicate(w, m) ==
    /\ pc[w] = "check" /\ IsCurrent(w, m) /\ m \notin Unparseable
    /\ Exists(m)
    /\ GoTo(w, "ack")
    /\ UNCHANGED <<queueVars, rows, calls, dlqVars>>

CheckNew(w, m) ==
    /\ pc[w] = "check" /\ IsCurrent(w, m) /\ m \notin Unparseable
    /\ ~Exists(m)
    /\ GoTo(w, "weather")
    /\ calls' = [calls EXCEPT ![m] = @ + 1]
    /\ UNCHANGED <<queueVars, rows, dlqVars>>

\* The query fails: no DatabaseException, so "catch (Exception e)" takes it.
CheckFails(w, m) ==
    /\ pc[w] = "check" /\ IsCurrent(w, m) /\ m \notin Unparseable
    /\ Return(w, m)
    /\ UNCHANGED <<queueVars, rows, calls, dlqVars>>

\* Both requests of getWeatherForCity, for the place and for its weather.
WeatherFound(w, m) ==
    /\ pc[w] = "weather" /\ IsCurrent(w, m)
    /\ GoTo(w, "save")
    /\ UNCHANGED <<queueVars, rows, calls, dlqVars>>

\* Faulty variant: the handler starts over instead of leaving the retry to SQS.
WeatherFailsTryAgain(w, m) ==
    /\ pc[w] = "weather" /\ IsCurrent(w, m)
    /\ GoTo(w, "check")
    /\ UNCHANGED <<queueVars, rows, calls, dlqVars>>

\* RecoverableApiException, from the geocoding or the weather request, or a
\* response without "current": no acknowledgement.  getWeatherForCity makes
\* each request once: the aspects behind its @Retry and @CircuitBreaker are
\* not among the beans of this build.
WeatherFails(w, m) ==
    /\ pc[w] = "weather" /\ IsCurrent(w, m)
    /\ Return(w, m)
    /\ UNCHANGED <<queueVars, rows, calls, dlqVars>>

\* IrrecoverableApiException: a 4xx, or no such city.  On to sendToDLQ.
WeatherRefuses(w, m) ==
    /\ pc[w] = "weather" /\ IsCurrent(w, m)
    /\ GoTo(w, "sendToDLQ")
    /\ UNCHANGED <<queueVars, rows, calls, dlqVars>>

\* Faulty variant: migration V2 adds the column without UNIQUE.
InsertUnchecked(m) == rows' = [rows EXCEPT ![m] = @ + 1]

\* UNIQUE (message_id) refuses a second row with a non-null key.
Insert(m) ==
    /\ ~Exists(m)
    /\ rows' = [rows EXCEPT ![m] = @ + 1]

SaveSucceeds(w, m) ==
    /\ pc[w] = "save" /\ IsCurrent(w, m)
    /\ Insert(m)
    /\ GoTo(w, "ack")
    /\ UNCHANGED <<queueVars, calls, dlqVars>>

\* DatabaseException: a constraint refused the row, or the database failed
\* before the insert committed, or after it.
SaveFails(w, m) ==
    /\ pc[w] = "save" /\ IsCurrent(w, m)
    /\ Insert(m) \/ UNCHANGED rows
    /\ Return(w, m)
    /\ UNCHANGED <<queueVars, calls, dlqVars>>

\* sendMessage with the current millisecond as deduplication id.  Two
\* requests of one worker are more than a millisecond apart.
DLQAccepts(w, m) ==
    /\ w \notin sentNow
    /\ sentNow' = sentNow \cup {w}
    /\ idUsed' = TRUE
    /\ dlq' = [dlq EXCEPT ![m] = IF idUsed THEN @ ELSE @ + 1]
    /\ swallowed' = IF idUsed THEN swallowed \cup {m} ELSE swallowed

DLQRefuses(w) ==
    /\ w \notin sentNow
    /\ sentNow' = sentNow \cup {w}
    /\ UNCHANGED <<dlq, swallowed, idUsed>>

SendToDLQ(w, m) ==
    /\ pc[w] = "sendToDLQ" /\ IsCurrent(w, m)
    /\ DLQAccepts(w, m)
    /\ GoTo(w, "ackDLQ")
    /\ UNCHANGED <<queueVars, rows, calls>>

\* Faulty variant: the result of sendToDLQ is ignored (docs/faq.md:354).
SendToDLQFailsIgnored(w, m) ==
    /\ pc[w] = "sendToDLQ" /\ IsCurrent(w, m)
    /\ DLQAccepts(w, m) \/ DLQRefuses(w)
    /\ GoTo(w, "ackDLQ")
    /\ UNCHANGED <<queueVars, rows, calls>>

\* Faulty variant: a failed send is retried in the handler, as @Retryable would.
SendToDLQFailsRetried(w, m) ==
    /\ pc[w] = "sendToDLQ" /\ IsCurrent(w, m)
    /\ DLQAccepts(w, m) \/ DLQRefuses(w)
    /\ GoTo(w, "sendToDLQ")
    /\ UNCHANGED <<queueVars, rows, calls>>

\* join() throws CompletionException, so sendToDLQ returns false; the request
\* may have been accepted all the same.
SendToDLQFails(w, m) ==
    /\ pc[w] = "sendToDLQ" /\ IsCurrent(w, m)
    /\ DLQAccepts(w, m) \/ DLQRefuses(w)
    /\ Return(w, m)
    /\ UNCHANGED <<queueVars, rows, calls>>

\* sendMessage itself throws SdkClientException: rethrown out of onMessage.
SendToDLQThrows(w, m) ==
    /\ pc[w] = "sendToDLQ" /\ IsCurrent(w, m)
    /\ DLQRefuses(w)
    /\ Throw(w)
    /\ UNCHANGED <<queueVars, rows, calls>>

Delete(w, m) ==
    /\ LiveReceipt(w, m)
    /\ mq' = [mq EXCEPT ![m] = "deleted"]
    /\ UNCHANGED recv

\* acknowledge() after processMessage.  A failed acknowledgement (a stale
\* receipt, a lost request or response) is caught by onMessage.
Acknowledge(w, m) ==
    /\ pc[w] = "ack" /\ IsCurrent(w, m)
    /\ Delete(w, m) \/ UNCHANGED queueVars
    /\ Return(w, m)
    /\ UNCHANGED <<rows, calls, dlqVars>>

\* acknowledge() in the catch block after a successful sendToDLQ.
AcknowledgeDLQ(w, m) ==
    /\ pc[w] = "ackDLQ" /\ IsCurrent(w, m)
    /\ Delete(w, m)
    /\ Return(w, m)
    /\ UNCHANGED <<rows, calls, dlqVars>>

\* There a failed acknowledgement leaves onMessage.
AcknowledgeDLQFails(w, m) ==
    /\ pc[w] = "ackDLQ" /\ IsCurrent(w, m)
    /\ Delete(w, m) \/ UNCHANGED queueVars
    /\ Throw(w)
    /\ UNCHANGED <<rows, calls, dlqVars>>

-----------------------------------------------------------------------------
\* A task is killed or its shutdown timeout ends, and another takes its place.
Crash(k) ==
    /\ \E w \in Workers : TaskOf[w] = k /\ pc[w] # "idle"
    /\ receipt' = [w \in Workers |-> IF TaskOf[w] = k THEN [m \in Msgs |-> 0] ELSE receipt[w]]
    /\ pc' = [w \in Workers |-> IF TaskOf[w] = k THEN "idle" ELSE pc[w]]
    /\ UNCHANGED <<queueVars, rows, calls, dlqVars>>

\* System.currentTimeMillis() moves on.
NextMillisecond ==
    /\ sentNow # {}
    /\ sentNow' = {}
    /\ idUsed' = FALSE
    /\ UNCHANGED <<queueVars, receipt, pc, rows, calls, dlq, swallowed>>

\* What worker w does about message m.
Handle(w, m) ==
    \/ CheckDuplicate(w, m)
    \/ CheckNew(w, m)
    \/ CheckFails(w, m)
    \/ WeatherFound(w, m)
    \/ WeatherFails(w, m)
    \/ WeatherRefuses(w, m)
    \/ SaveSucceeds(w, m)
    \/ SaveFails(w, m)
    \/ SendToDLQ(w, m)
    \/ SendToDLQFails(w, m)
    \/ SendToDLQThrows(w, m)
    \/ Acknowledge(w, m)
    \/ AcknowledgeDLQ(w, m)
    \/ AcknowledgeDLQFails(w, m)

Poll(w) == \E batch \in SUBSET Msgs : Receive(w, batch)

Step(w) == ConversionFails(w) \/ \E m \in Msgs : Handle(w, m)

Next ==
    \/ \E w \in Workers : Poll(w) \/ Step(w)
    \/ \E m \in Msgs : VisibilityTimeout(m) \/ Redrive(m)
    \/ \E w \in Workers : Crash(TaskOf[w])
    \/ NextMillisecond

Spec == Init /\ [][Next]_vars

-----------------------------------------------------------------------------
(***************************************************************************)
(* Fairness: SQS answers polls and ends visibility timeouts, the redrive   *)
(* policy is applied, time passes, and every call a worker makes returns   *)
(* or fails.  Nothing is assumed of which way a call comes out.            *)
(***************************************************************************)
QueueFairness ==
    /\ WF_vars(\E w \in Workers : Poll(w))
    /\ \A m \in Msgs : WF_vars(VisibilityTimeout(m)) /\ WF_vars(Redrive(m))
    /\ WF_vars(NextMillisecond)

FairSpec == Spec /\ QueueFairness /\ \A w \in Workers : WF_vars(Step(w))

-----------------------------------------------------------------------------
TypeOK ==
    /\ mq \in [Msgs -> {"visible", "inflight", "deleted", "redriven"}]
    /\ recv \in [Msgs -> 0..MaxReceive]
    /\ receipt \in [Workers -> [Msgs -> 0..MaxReceive]]
    /\ pc \in [Workers -> {"idle", "check", "weather", "save", "ack", "sendToDLQ", "ackDLQ"}]
    /\ rows \in [Msgs -> Nat]
    /\ calls \in [Msgs -> Nat]
    /\ dlq \in [Msgs -> Nat]
    /\ swallowed \subseteq Msgs
    /\ sentNow \subseteq Workers
    /\ idUsed \in BOOLEAN

\* Idempotency: whatever redeliveries, duplicates and stale workers do between
\* existsByMessageId and save, a messageId has at most one row.
OneRowPerKey ==
    \A m, n \in Msgs :
        /\ KeyOf[m] # NoKey
        /\ KeyOf[m] = KeyOf[n]
        /\ rows[m] > 0
        /\ rows[n] > 0
        => m = n /\ rows[m] = 1

\* A message is recorded in direct_messages: under its own id, or, without
\* one, by a row of its own.
Stored(m) == Exists(m) \/ rows[m] > 0

\* onMessage acknowledges only what it has dealt with: a message deleted from
\* the queue is stored, or sendToDLQ was told that the DLQ took it (and the
\* DLQ has it, or dropped it as a duplicate of another worker's message).
DeletedIsAccounted ==
    \A m \in Msgs : mq[m] = "deleted" => Stored(m) \/ dlq[m] > 0 \/ m \in swallowed

\* One receive of a message leads to at most one weather lookup, and one
\* lookup to a row or to a copy in the DLQ but never to both, although
\* handlers of several receives of the message may be running at once.
OneEffectPerReceive ==
    \A m \in Msgs : rows[m] + dlq[m] <= calls[m] /\ calls[m] <= recv[m]

\* Order of the FIFO queue: while a message is unsettled, no later message of
\* its group has been received more often than it.
NoOvertaking ==
    \A m \in Msgs : \A n \in SameGroup(m) :
        m < n /\ ~Settled(m) => recv[n] <= recv[m]

\* At any time at most one worker holds receipts of a group that it can still
\* delete with; handlers left over from an expired receive cannot.
OneOwnerPerGroup ==
    \A w, v \in Workers : \A m \in Held(w) : \A n \in Held(v) \cap SameGroup(m) :
        LiveReceipt(w, m) /\ LiveReceipt(v, n) => w = v

\* Every message leaves the queue in the end, acknowledged or redriven,
\* whatever fails and however often tasks crash.
EveryMessageSettles == \A m \in Msgs : <>Settled(m)

-----------------------------------------------------------------------------
Status(m) == IF Settled(m) THEN mq[m] ELSE "queued"

Abstract == INSTANCE Delivery WITH
    attempts <- recv,
    status <- [m \in Msgs |-> Status(m)],
    stored <- rows,
    buried <- dlq,
    dropped <- swallowed

\* The path keeps the promise of Delivery, whatever workers of expired
\* receives, crashed tasks and lost answers do: every row, copy and deletion
\* is due to a hand-out of its own, in the order and the number of Delivery.
ImplementsDelivery == Abstract!Spec
=============================================================================
