-------------------------- MODULE S3EventPipeline --------------------------
(***************************************************************************)
(* The S3 path: uploads to the bucket and the events they send, the        *)
(* standard queue s3_event_queue (no redrive policy), the handler          *)
(* S3EventListener.onS3Event, which downloads every record's object and    *)
(* saves it, and the container's acknowledgement of every event whose      *)
(* handler returns.                                                        *)
(*                                                                         *)
(* An object's content is the number of its upload; 0 is no object.        *)
(***************************************************************************)
EXTENDS Integers, Sequences, FiniteSets

CONSTANTS
    Events,       \* event notifications the bucket sends
    RecordsOf,    \* the keys of an event's records, in order
    Keys,         \* objects of the bucket
    EncodedKeys,  \* keys whose name in an event is URL-encoded, so another name
    Workers,      \* listener threads
    MaxExpiries,  \* bound: receives that expire while their handler runs
    MaxCrashes,   \* bound: crashes of the task
    MaxDeletes    \* bound: objects deleted from the bucket

ASSUME KeysAssumption ==
    /\ EncodedKeys \subseteq Keys
    /\ RecordsOf \in [Events -> Seq(Keys)]
ASSUME WorkersAssumption == IsFiniteSet(Workers)
ASSUME BoundsAssumption ==
    MaxExpiries \in Nat /\ MaxCrashes \in Nat /\ MaxDeletes \in Nat

VARIABLES
    uploads,   \* uploads of each key so far
    object,    \* content of each key in the bucket
    sent,      \* content each record of an event announced, once it is sent
    mq,        \* where the event's message is
    recv,      \* receives of the event
    job,       \* event a worker handles, or None
    next,      \* the record the worker is at
    content,   \* what the worker has downloaded and not yet saved of it
    pc,        \* the worker's next step
    toAck,     \* events whose acknowledgement the container has queued
    rows,      \* contents saved in s3_file_uploads for each record, in order
    failed,    \* events in whose handling a download or save failed
    bounds     \* [expiries, crashes, deletes] so far

bucketVars == <<uploads, object, sent>>
workerVars == <<job, next, content, pc>>
vars == <<bucketVars, mq, recv, workerVars, toAck, rows, failed, bounds>>

None == "none"

Records(e) == DOMAIN RecordsOf[e]

\* How often key k occurs among the first i records of e.
Occurrences(e, k, i) == Cardinality({j \in 1..i : RecordsOf[e][j] = k})

Handling(e) == \E w \in Workers : job[w] = e

Init ==
    /\ uploads = [k \in Keys |-> 0]
    /\ object = [k \in Keys |-> 0]
    /\ sent = [e \in Events |-> <<>>]
    /\ mq = [e \in Events |-> "none"]
    /\ recv = [e \in Events |-> 0]
    /\ job = [w \in Workers |-> None]
    /\ next = [w \in Workers |-> 0]
    /\ content = [w \in Workers |-> 0]
    /\ pc = [w \in Workers |-> "idle"]
    /\ toAck = {}
    /\ rows = [e \in Events |-> [i \in Records(e) |-> <<>>]]
    /\ failed = {}
    /\ bounds = [expiries |-> 0, crashes |-> 0, deletes |-> 0]

-----------------------------------------------------------------------------
(***************************************************************************)
(* The bucket and the queue.                                               *)
(***************************************************************************)

\* The objects of an event's records are uploaded, and the event is sent.
Upload(e) ==
    /\ mq[e] = "none"
    /\ uploads' = [k \in Keys |-> uploads[k] + Occurrences(e, k, Len(RecordsOf[e]))]
    /\ object' = [k \in Keys |-> IF \E i \in Records(e) : RecordsOf[e][i] = k
                                 THEN uploads'[k] ELSE object[k]]
    /\ sent' = [sent EXCEPT ![e] = [i \in Records(e) |->
                    uploads[RecordsOf[e][i]] + Occurrences(e, RecordsOf[e][i], i)]]
    /\ mq' = [mq EXCEPT ![e] = "visible"]
    /\ UNCHANGED <<recv, workerVars, toAck, rows, failed, bounds>>

DeleteObject(k) ==
    /\ object[k] # 0
    /\ bounds.deletes < MaxDeletes
    /\ object' = [object EXCEPT ![k] = 0]
    /\ bounds' = [bounds EXCEPT !.deletes = @ + 1]
    /\ UNCHANGED <<uploads, sent, mq, recv, workerVars, toAck, rows, failed>>

\* A receive ends without acknowledgement; the handler may still be running.
VisibilityTimeout(e) ==
    /\ mq[e] = "inflight"
    /\ IF Handling(e) \/ e \in toAck
       THEN /\ bounds.expiries < MaxExpiries
            /\ bounds' = [bounds EXCEPT !.expiries = @ + 1]
       ELSE UNCHANGED bounds
    /\ mq' = [mq EXCEPT ![e] = "visible"]
    /\ UNCHANGED <<bucketVars, recv, workerVars, toAck, rows, failed>>

-----------------------------------------------------------------------------
(***************************************************************************)
(* The handler.                                                            *)
(***************************************************************************)

\* Faulty variant: the loop goes one record too far.
AtOneTooFar(w, e, i) ==
    IF i - 1 \in Records(e)
    THEN /\ next' = [next EXCEPT ![w] = i]
         /\ pc' = [pc EXCEPT ![w] = "download"]
         /\ UNCHANGED <<job, toAck>>
    ELSE /\ job' = [job EXCEPT ![w] = None]
         /\ next' = [next EXCEPT ![w] = 0]
         /\ pc' = [pc EXCEPT ![w] = "idle"]
         /\ toAck' = toAck \cup {e}

\* The handler goes to record i of event e, or returns after the last one.
At(w, e, i) ==
    IF i \in Records(e)
    THEN /\ next' = [next EXCEPT ![w] = i]
         /\ pc' = [pc EXCEPT ![w] = "download"]
         /\ UNCHANGED <<job, toAck>>
    ELSE /\ job' = [job EXCEPT ![w] = None]
         /\ next' = [next EXCEPT ![w] = 0]
         /\ pc' = [pc EXCEPT ![w] = "idle"]
         /\ toAck' = toAck \cup {e}

\* Faulty variant: try and catch inside the loop, so that it goes on.
CaughtPerRecord(w) ==
    /\ failed' = failed \cup {job[w]}
    /\ content' = [content EXCEPT ![w] = 0]
    /\ At(w, job[w], next[w] + 1)

\* A catch block of onS3Event: the loop ends and the handler returns, which
\* acknowledges the event.
Caught(w) ==
    /\ failed' = failed \cup {job[w]}
    /\ content' = [content EXCEPT ![w] = 0]
    /\ toAck' = toAck \cup {job[w]}
    /\ job' = [job EXCEPT ![w] = None]
    /\ next' = [next EXCEPT ![w] = 0]
    /\ pc' = [pc EXCEPT ![w] = "idle"]

\* A poll hands the event to a worker.  An event without records (getRecords()
\* is null) ends in the last catch block.
Receive(w, e) ==
    /\ pc[w] = "idle"
    /\ mq[e] = "visible"
    /\ mq' = [mq EXCEPT ![e] = "inflight"]
    /\ recv' = [recv EXCEPT ![e] = @ + 1]
    /\ IF Records(e) = {}
       THEN /\ failed' = failed \cup {e}
            /\ toAck' = toAck \cup {e}
            /\ UNCHANGED <<job, next, pc>>
       ELSE /\ job' = [job EXCEPT ![w] = e]
            /\ next' = [next EXCEPT ![w] = 1]
            /\ pc' = [pc EXCEPT ![w] = "download"]
            /\ UNCHANGED <<failed, toAck>>
    /\ UNCHANGED <<bucketVars, content, rows, bounds>>

\* Faulty variant: the key is read before the loop.
DownloadFirst(w) ==
    /\ pc[w] = "download"
    /\ LET k == RecordsOf[job[w]][1]
       IN  /\ k \notin EncodedKeys /\ object[k] # 0
           /\ content' = [content EXCEPT ![w] = object[k]]
    /\ pc' = [pc EXCEPT ![w] = "save"]
    /\ UNCHANGED <<bucketVars, mq, recv, job, next, toAck, rows, failed, bounds>>

\* download(bucket, key) returns the object as it is now.
Download(w) ==
    /\ pc[w] = "download"
    /\ LET k == RecordsOf[job[w]][next[w]]
       IN  /\ k \notin EncodedKeys /\ object[k] # 0
           /\ content' = [content EXCEPT ![w] = object[k]]
    /\ pc' = [pc EXCEPT ![w] = "save"]
    /\ UNCHANGED <<bucketVars, mq, recv, job, next, toAck, rows, failed, bounds>>

\* Faulty variant: the handler asks again for an object that is not there.
DownloadFailsTryAgain(w) ==
    /\ pc[w] = "download"
    /\ UNCHANGED vars

\* NoSuchKeyException, another S3Exception, or a failed connection.
DownloadFails(w) ==
    /\ pc[w] = "download"
    /\ Caught(w)
    /\ UNCHANGED <<bucketVars, mq, recv, rows, bounds>>

Insert(w) ==
    rows' = [rows EXCEPT ![job[w]][next[w]] = Append(@, content[w])]

\* Faulty variant: the loop leaves out the last record.
SaveStopsEarly(w) ==
    /\ pc[w] = "save"
    /\ Insert(w)
    /\ At(w, job[w], IF next[w] + 1 = Len(RecordsOf[job[w]]) THEN next[w] + 2 ELSE next[w] + 1)
    /\ content' = [content EXCEPT ![w] = 0]
    /\ UNCHANGED <<bucketVars, mq, recv, failed, bounds>>

Save(w) ==
    /\ pc[w] = "save"
    /\ Insert(w)
    /\ At(w, job[w], next[w] + 1)
    /\ content' = [content EXCEPT ![w] = 0]
    /\ UNCHANGED <<bucketVars, mq, recv, failed, bounds>>

\* The insert fails, before or after it took effect.
SaveFails(w) ==
    /\ pc[w] = "save"
    /\ Insert(w) \/ UNCHANGED rows
    /\ Caught(w)
    /\ UNCHANGED <<bucketVars, mq, recv, bounds>>

\* The container deletes an event whose handler returned: acknowledgements of
\* a standard queue are collected and sent later, and the request may be lost.
Acknowledge(e) ==
    /\ e \in toAck
    /\ toAck' = toAck \ {e}
    /\ mq' = [mq EXCEPT ![e] = "deleted"]
    /\ UNCHANGED <<bucketVars, recv, workerVars, rows, failed, bounds>>

AcknowledgeFails(e) ==
    /\ e \in toAck
    /\ bounds.crashes < MaxCrashes
    /\ toAck' = toAck \ {e}
    /\ bounds' = [bounds EXCEPT !.crashes = @ + 1]
    /\ UNCHANGED <<bucketVars, mq, recv, workerVars, rows, failed>>

\* The task is killed and started again: handlers and queued acknowledgements
\* are gone.
Crash ==
    /\ bounds.crashes < MaxCrashes
    /\ toAck # {} \/ \E w \in Workers : pc[w] # "idle"
    /\ bounds' = [bounds EXCEPT !.crashes = @ + 1]
    /\ job' = [w \in Workers |-> None]
    /\ next' = [w \in Workers |-> 0]
    /\ content' = [w \in Workers |-> 0]
    /\ pc' = [w \in Workers |-> "idle"]
    /\ toAck' = {}
    /\ UNCHANGED <<bucketVars, mq, recv, rows, failed>>

Handle(w) == Download(w) \/ DownloadFails(w) \/ Save(w) \/ SaveFails(w)

Next ==
    \/ \E e \in Events : Upload(e) \/ VisibilityTimeout(e) \/ Acknowledge(e) \/ AcknowledgeFails(e)
    \/ \E k \in Keys : DeleteObject(k)
    \/ \E w \in Workers : Handle(w) \/ \E e \in Events : Receive(w, e)
    \/ Crash

Spec == Init /\ [][Next]_vars

\* SQS answers polls and ends visibility timeouts, every call a handler makes
\* returns or fails, and the container sends the acknowledgements it queued.
Fairness ==
    /\ WF_vars(\E w \in Workers, e \in Events : Receive(w, e))
    /\ \A w \in Workers : WF_vars(Handle(w))
    /\ \A e \in Events : WF_vars(VisibilityTimeout(e)) /\ WF_vars(Acknowledge(e))

FairSpec == Spec /\ Fairness

-----------------------------------------------------------------------------
TypeOK ==
    /\ uploads \in [Keys -> Nat] /\ object \in [Keys -> Nat]
    /\ sent \in [Events -> Seq(Nat)]
    /\ mq \in [Events -> {"none", "visible", "inflight", "deleted"}]
    /\ recv \in [Events -> Nat]
    /\ job \in [Workers -> Events \cup {None}]
    /\ next \in [Workers -> Nat] /\ content \in [Workers -> Nat]
    /\ pc \in [Workers -> {"idle", "download", "save"}]
    /\ \A w \in Workers : IF pc[w] = "idle" THEN job[w] = None /\ next[w] = 0
                                            ELSE next[w] \in Records(job[w])
    /\ toAck \subseteq Events /\ failed \subseteq Events
    /\ \A e \in Events : rows[e] \in [Records(e) -> Seq(Nat)]
    /\ bounds \in [expiries : 0..MaxExpiries, crashes : 0..MaxCrashes, deletes : 0..MaxDeletes]

\* A row of s3_file_uploads never holds content older than the event that led
\* to it announced, nor content of another object, however the download is
\* delayed, repeated or interleaved with uploads.
RowsAreCurrent ==
    \A e \in Events : \A i \in Records(e) : \A j \in DOMAIN rows[e][i] :
        /\ rows[e][i][j] >= sent[e][i]
        /\ rows[e][i][j] <= uploads[RecordsOf[e][i]]

\* onS3Event saves the records of an event in order and stops at the first
\* failure: over all deliveries, a record has no more rows than an earlier one
\* of its event, and none has more rows than deliveries.
RowsFollowRecords ==
    \A e \in Events : \A i \in Records(e) :
        /\ Len(rows[e][i]) <= recv[e]
        /\ \A j \in 1..(i - 1) : Len(rows[e][i]) <= Len(rows[e][j])

\* An event that has left the queue has a row for every record, unless a
\* download or a save failed while it was handled.
LostOnlyByFailure ==
    \A e \in Events : mq[e] = "deleted" /\ e \notin failed =>
        \A i \in Records(e) : rows[e][i] # <<>>

\* Every event that is sent leaves the queue.  There is no redrive policy:
\* only the acknowledgement takes it out.
EveryEventLeaves == \A e \in Events : mq[e] = "visible" ~> mq[e] = "deleted"

\* README.md:18 "All events are persisted to PostgreSQL": an event that has
\* left the queue has a row for every record.
DeletedIsPersisted ==
    \A e \in Events : mq[e] = "deleted" => \A i \in Records(e) : rows[e][i] # <<>>
=============================================================================
