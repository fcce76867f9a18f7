----------------------- MODULE S3EventPipelineProofs -----------------------
(***************************************************************************)
(* What the S3 path keeps, for any events, records, objects and workers    *)
(* and any number of failures.                                             *)
(*                                                                         *)
(* The rows of an event are counted together with the workers that are at  *)
(* its records: of a record i and a later one j, j has no more rows than i *)
(* less the workers between the two.  Record 0 stands for the receives.    *)
(***************************************************************************)
EXTENDS S3EventPipeline, FiniteSetTheorems, TLAPS

-----------------------------------------------------------------------------
(* Types. *)

Busy(w) == pc[w] # "idle"

Types ==
    /\ TypeOK
    /\ DOMAIN rows = Events
    /\ \A w \in Workers : Busy(w) => job[w] \in Events

\* TypeOK by the parts that steps change together.
BucketTypes ==
    /\ uploads \in [Keys -> Nat] /\ object \in [Keys -> Nat]
    /\ sent \in [Events -> Seq(Nat)]
QueueTypes ==
    /\ mq \in [Events -> {"none", "visible", "inflight", "deleted"}]
    /\ recv \in [Events -> Nat]
WorkerTypes ==
    /\ job \in [Workers -> Events \cup {None}]
    /\ next \in [Workers -> Nat] /\ content \in [Workers -> Nat]
    /\ pc \in [Workers -> {"idle", "download", "save"}]
    /\ \A w \in Workers : IF pc[w] = "idle" THEN job[w] = None /\ next[w] = 0
                                            ELSE next[w] \in Records(job[w])
    /\ \A w \in Workers : Busy(w) => job[w] \in Events
ResultTypes ==
    /\ toAck \subseteq Events /\ failed \subseteq Events
    /\ DOMAIN rows = Events
    /\ \A e \in Events : rows[e] \in [Records(e) -> Seq(Nat)]
BoundTypes == bounds \in [expiries : 0..MaxExpiries, crashes : 0..MaxCrashes, deletes : 0..MaxDeletes]

LEMMA TypesParts == Types <=> BucketTypes /\ QueueTypes /\ WorkerTypes /\ ResultTypes /\ BoundTypes
BY DEF Types, TypeOK, BucketTypes, QueueTypes, WorkerTypes, ResultTypes, BoundTypes

LEMMA RecordsAre ==
    ASSUME NEW e \in Events
    PROVE  /\ Len(RecordsOf[e]) \in Nat /\ Records(e) = 1..Len(RecordsOf[e])
           /\ \A i \in Records(e) : RecordsOf[e][i] \in Keys
BY KeysAssumption DEF Records

LEMMA OccurrencesAre ==
    ASSUME NEW e \in Events, NEW k \in Keys, NEW i \in Nat
    PROVE  /\ IsFiniteSet({j \in 1..i : RecordsOf[e][j] = k})
           /\ Occurrences(e, k, i) \in Nat
<1>1. IsFiniteSet({j \in 1..i : RecordsOf[e][j] = k})
  <2>1. IsFiniteSet(1..i)
    BY FS_Interval
  <2>2. {j \in 1..i : RecordsOf[e][j] = k} \subseteq 1..i
    OBVIOUS
  <2> QED
    BY <2>1, <2>2, FS_Subset
<1> QED
  BY <1>1, FS_CardinalityType DEF Occurrences

-----------------------------------------------------------------------------
(* What a worker's step does. *)

Returns(w) ==
    /\ job' = [job EXCEPT ![w] = None]
    /\ next' = [next EXCEPT ![w] = 0]
    /\ content' = [content EXCEPT ![w] = 0]
    /\ pc' = [pc EXCEPT ![w] = "idle"]
    /\ toAck' = toAck \cup {job[w]}

Advances(w) ==
    /\ next[w] + 1 \in Records(job[w])
    /\ next' = [next EXCEPT ![w] = next[w] + 1]
    /\ pc' = [pc EXCEPT ![w] = "download"]
    /\ content' = [content EXCEPT ![w] = 0]
    /\ UNCHANGED <<job, toAck>>

Downloads(w) ==
    /\ object[RecordsOf[job[w]][next[w]]] # 0
    /\ content' = [content EXCEPT ![w] = object[RecordsOf[job[w]][next[w]]]]
    /\ pc' = [pc EXCEPT ![w] = "save"]
    /\ UNCHANGED <<job, next, toAck, rows, failed>>

Saves(w) ==
    /\ pc[w] = "save" /\ Insert(w) /\ failed' = failed
    /\ Advances(w) \/ (Returns(w) /\ next[w] + 1 \notin Records(job[w]))

Fails(w) ==
    /\ rows' = rows \/ (pc[w] = "save" /\ Insert(w))
    /\ failed' = failed \cup {job[w]}
    /\ Returns(w)

LEMMA HandleIs ==
    ASSUME NEW w \in Workers, Handle(w)
    PROVE  /\ Busy(w)
           /\ UNCHANGED <<uploads, object, sent, mq, recv, bounds>>
           /\ Downloads(w) \/ Saves(w) \/ Fails(w)
<1>1. CASE Download(w)
  BY <1>1 DEF Download, Downloads, Busy, bucketVars
<1>2. CASE DownloadFails(w) \/ SaveFails(w)
  BY <1>2 DEF DownloadFails, SaveFails, Caught, Fails, Returns, Busy, bucketVars
<1>3. CASE Save(w)
  BY <1>3 DEF Save, Saves, At, Advances, Returns, Busy, bucketVars
<1> QED
  BY <1>1, <1>2, <1>3 DEF Handle

LEMMA BusyIs ==
    ASSUME Types, NEW w \in Workers, Busy(w)
    PROVE  /\ job[w] \in Events /\ next[w] \in Records(job[w]) /\ next[w] \in Nat \ {0}
           /\ RecordsOf[job[w]][next[w]] \in Keys
<1>1. job[w] \in Events /\ next[w] \in Records(job[w])
  BY DEF Types, TypeOK, Busy
<1> QED
  BY <1>1, RecordsAre

LEMMA InsertIs ==
    ASSUME Types, NEW w \in Workers, Busy(w), Insert(w)
    PROVE  /\ DOMAIN rows' = Events
           /\ \A e \in Events : rows'[e] \in [Records(e) -> Seq(Nat)]
           /\ \A e \in Events : \A i \in Records(e) :
                 rows'[e][i] = IF e = job[w] /\ i = next[w] THEN Append(rows[e][i], content[w])
                               ELSE rows[e][i]
<1> DEFINE f == job[w]
           n == next[w]
<1>1. f \in Events /\ n \in Records(f) /\ content[w] \in Nat
  BY BusyIs DEF Types, TypeOK
<1>2. DOMAIN rows = Events /\ \A e \in Events : rows[e] \in [Records(e) -> Seq(Nat)]
  BY DEF Types, TypeOK
<1>3. rows' = [rows EXCEPT ![f] = [rows[f] EXCEPT ![n] = Append(rows[f][n], content[w])]]
  BY <1>1, <1>2 DEF Insert
<1> HIDE DEF f, n
<1>4. Append(rows[f][n], content[w]) \in Seq(Nat)
  BY <1>1, <1>2
<1>5. DOMAIN rows' = Events
  BY <1>2, <1>3
<1>6. \A e \in Events : rows'[e] = IF e = f THEN [rows[f] EXCEPT ![n] = Append(rows[f][n], content[w])]
                                   ELSE rows[e]
  BY <1>2, <1>3
<1>7. [rows[f] EXCEPT ![n] = Append(rows[f][n], content[w])] \in [Records(f) -> Seq(Nat)]
  BY <1>1, <1>2, <1>4
<1>8. \A e \in Events : rows'[e] \in [Records(e) -> Seq(Nat)]
  BY <1>2, <1>6, <1>7
<1>9. \A e \in Events : \A i \in Records(e) :
        rows'[e][i] = IF e = f /\ i = n THEN Append(rows[e][i], content[w]) ELSE rows[e][i]
  <2> SUFFICES ASSUME NEW e \in Events, NEW i \in Records(e)
               PROVE  rows'[e][i] = IF e = f /\ i = n THEN Append(rows[e][i], content[w]) ELSE rows[e][i]
    OBVIOUS
  <2>1. CASE e # f
    BY <1>6, <2>1
  <2>2. CASE e = f
    <3>1. rows'[e] = [rows[f] EXCEPT ![n] = Append(rows[f][n], content[w])] /\ DOMAIN rows[f] = Records(f)
      BY <1>1, <1>2, <1>6, <2>2
    <3> QED
      BY <1>1, <2>2, <3>1
  <2> QED
    BY <2>1, <2>2
<1> QED
  BY <1>5, <1>8, <1>9 DEF f, n

LEMMA HandleTypes ==
    ASSUME Types, NEW w \in Workers, Handle(w)
    PROVE  Types'
<1>1. /\ Busy(w) /\ UNCHANGED <<uploads, object, sent, mq, recv, bounds>>
      /\ Downloads(w) \/ Saves(w) \/ Fails(w)
  BY HandleIs
<1>2. BucketTypes' /\ QueueTypes' /\ BoundTypes'
  BY <1>1, TypesParts DEF BucketTypes, QueueTypes, BoundTypes
<1>3. WorkerTypes
  BY TypesParts
<1>4. job[w] \in Events /\ next[w] \in Records(job[w]) /\ next[w] \in Nat \ {0}
  BY <1>1, BusyIs
<1>5. WorkerTypes'
  <2>1. CASE Downloads(w)
    <3>1. object[RecordsOf[job[w]][next[w]]] \in Nat
      BY <1>1, BusyIs DEF Types, TypeOK
    <3> QED
      BY <1>1, <1>3, <2>1, <3>1 DEF Downloads, WorkerTypes, Busy
  <2>2. CASE Returns(w)
    BY <1>3, <2>2 DEF Returns, WorkerTypes, Busy
  <2>3. CASE Advances(w)
    BY <1>1, <1>3, <1>4, <2>3 DEF Advances, WorkerTypes, Busy
  <2> QED
    BY <1>1, <2>1, <2>2, <2>3 DEF Saves, Fails
<1>6. ResultTypes'
  <2>1. toAck' \subseteq Events /\ failed' \subseteq Events
    BY <1>1, <1>4 DEF Types, TypeOK, Downloads, Saves, Fails, Returns, Advances
  <2>2. rows' = rows \/ Insert(w)
    BY <1>1 DEF Downloads, Saves, Fails
  <2>3. DOMAIN rows' = Events /\ \A e \in Events : rows'[e] \in [Records(e) -> Seq(Nat)]
    BY <1>1, <2>2, InsertIs DEF Types, TypeOK
  <2> QED
    BY <2>1, <2>3 DEF ResultTypes, Records
<1> QED
  BY <1>2, <1>5, <1>6
     DEF Types, TypeOK, BucketTypes, QueueTypes, WorkerTypes, ResultTypes, BoundTypes

\* The content that record i of e announces when the event is sent.
Announced(e, i) == uploads[RecordsOf[e][i]] + Occurrences(e, RecordsOf[e][i], i)

LEMMA UploadIs ==
    ASSUME Types, NEW e \in Events, Upload(e)
    PROVE  /\ mq[e] = "none" /\ mq' = [mq EXCEPT ![e] = "visible"]
           /\ uploads' \in [Keys -> Nat]
           /\ \A k \in Keys : uploads'[k] = uploads[k] + Occurrences(e, k, Len(RecordsOf[e]))
           /\ \A k \in Keys : object'[k] = uploads'[k]
                              \/ (object'[k] = object[k] /\ \A i \in Records(e) : RecordsOf[e][i] # k)
           /\ object' \in [Keys -> Nat]
           /\ sent' = [sent EXCEPT ![e] = [i \in Records(e) |-> Announced(e, i)]]
           /\ [i \in Records(e) |-> Announced(e, i)] \in Seq(Nat)
           /\ UNCHANGED <<recv, job, next, content, pc, toAck, rows, failed, bounds>>
<1>1. Len(RecordsOf[e]) \in Nat /\ Records(e) = 1..Len(RecordsOf[e])
      /\ \A i \in Records(e) : RecordsOf[e][i] \in Keys
  BY RecordsAre
<1>2. \A k \in Keys : uploads[k] \in Nat /\ object[k] \in Nat /\ Occurrences(e, k, Len(RecordsOf[e])) \in Nat
  BY <1>1, OccurrencesAre DEF Types, TypeOK
<1>3. /\ uploads' = [k \in Keys |-> uploads[k] + Occurrences(e, k, Len(RecordsOf[e]))]
      /\ object' = [k \in Keys |-> IF \E i \in Records(e) : RecordsOf[e][i] = k
                                   THEN uploads'[k] ELSE object[k]]
  BY DEF Upload
<1>4. uploads' \in [Keys -> Nat]
  BY <1>2, <1>3
<1>5. object' \in [Keys -> Nat]
  BY <1>2, <1>3, <1>4
<1>6. \A i \in Records(e) : Announced(e, i) \in Nat
  <2> SUFFICES ASSUME NEW i \in Records(e) PROVE Announced(e, i) \in Nat
    OBVIOUS
  <2>1. RecordsOf[e][i] \in Keys /\ i \in Nat
    BY <1>1
  <2>2. Occurrences(e, RecordsOf[e][i], i) \in Nat
    BY <2>1, OccurrencesAre
  <2> QED
    BY <1>2, <2>1, <2>2 DEF Announced
<1>7. [i \in Records(e) |-> Announced(e, i)] \in Seq(Nat)
  <2> DEFINE f == [i \in Records(e) |-> Announced(e, i)]
  <2>1. f \in [1..Len(RecordsOf[e]) -> Nat]
    BY <1>1, <1>6
  <2> HIDE DEF f
  <2>2. f \in Seq(Nat)
    BY <1>1, <2>1
  <2> QED
    BY <2>2 DEF f
<1>8. sent' = [sent EXCEPT ![e] = [i \in Records(e) |-> Announced(e, i)]]
  BY DEF Upload, Announced
<1>9. \A k \in Keys : object'[k] = uploads'[k]
                      \/ (object'[k] = object[k] /\ \A i \in Records(e) : RecordsOf[e][i] # k)
  BY <1>3
<1> QED
  BY <1>3, <1>4, <1>5, <1>7, <1>8, <1>9 DEF Upload, workerVars

LEMMA ReceiveIs ==
    ASSUME NEW w \in Workers, NEW e \in Events, Receive(w, e)
    PROVE  /\ ~Busy(w) /\ mq[e] = "visible" /\ mq' = [mq EXCEPT ![e] = "inflight"]
           /\ recv' = [recv EXCEPT ![e] = recv[e] + 1]
           /\ UNCHANGED <<uploads, object, sent, content, rows, bounds>>
           /\ \/ /\ Records(e) = {} /\ failed' = failed \cup {e} /\ toAck' = toAck \cup {e}
                 /\ UNCHANGED <<job, next, pc>>
              \/ /\ Records(e) # {} /\ UNCHANGED <<failed, toAck>>
                 /\ job' = [job EXCEPT ![w] = e]
                 /\ next' = [next EXCEPT ![w] = 1]
                 /\ pc' = [pc EXCEPT ![w] = "download"]
BY DEF Receive, Busy, bucketVars

LEMMA ReceiveTypes ==
    ASSUME Types, NEW w \in Workers, NEW e \in Events, Receive(w, e)
    PROVE  Types'
<1>1. /\ mq' = [mq EXCEPT ![e] = "inflight"] /\ recv' = [recv EXCEPT ![e] = recv[e] + 1]
      /\ UNCHANGED <<uploads, object, sent, content, rows, bounds>>
  BY ReceiveIs
<1>2. BucketTypes' /\ QueueTypes' /\ BoundTypes'
  BY <1>1 DEF Types, TypeOK, BucketTypes, QueueTypes, BoundTypes
<1>3. ResultTypes'
  <2>1. toAck' \subseteq Events /\ failed' \subseteq Events
    <3>1. toAck' \subseteq toAck \cup {e} /\ failed' \subseteq failed \cup {e}
      BY ReceiveIs
    <3> QED
      BY <3>1 DEF Types, TypeOK
  <2> QED
    BY <1>1, <2>1 DEF Types, TypeOK, ResultTypes, Records
<1>4. WorkerTypes'
  <2>1. CASE UNCHANGED <<job, next, pc>>
    BY <1>1, <2>1 DEF Types, TypeOK, WorkerTypes, Busy, Records
  <2>2. CASE /\ Records(e) # {} /\ job' = [job EXCEPT ![w] = e]
             /\ next' = [next EXCEPT ![w] = 1] /\ pc' = [pc EXCEPT ![w] = "download"]
    <3>1. 1 \in Records(e)
      BY <2>2, RecordsAre
    <3> QED
      BY <1>1, <2>2, <3>1 DEF Types, TypeOK, WorkerTypes, Busy, Records
  <2> QED
    BY <2>1, <2>2, ReceiveIs
<1> QED
  BY <1>2, <1>3, <1>4
     DEF Types, TypeOK, BucketTypes, QueueTypes, WorkerTypes, ResultTypes, BoundTypes

LEMMA BoundsCountUp ==
    ASSUME Types
    PROVE  LET B == [expiries : 0..MaxExpiries, crashes : 0..MaxCrashes, deletes : 0..MaxDeletes]
           IN  /\ bounds.expiries < MaxExpiries => [bounds EXCEPT !.expiries = @ + 1] \in B
               /\ bounds.crashes < MaxCrashes => [bounds EXCEPT !.crashes = @ + 1] \in B
               /\ bounds.deletes < MaxDeletes => [bounds EXCEPT !.deletes = @ + 1] \in B
<1>1. bounds \in [expiries : 0..MaxExpiries, crashes : 0..MaxCrashes, deletes : 0..MaxDeletes]
  BY DEF Types, TypeOK
<1>2. /\ bounds.expiries < MaxExpiries => bounds.expiries + 1 \in 0..MaxExpiries
      /\ bounds.crashes < MaxCrashes => bounds.crashes + 1 \in 0..MaxCrashes
      /\ bounds.deletes < MaxDeletes => bounds.deletes + 1 \in 0..MaxDeletes
  BY <1>1, BoundsAssumption
<1> QED
  BY <1>1, <1>2

LEMMA InitTypes == Init => Types
<1> SUFFICES ASSUME Init PROVE Types
  OBVIOUS
<1>1. \A e \in Events : rows[e] \in [Records(e) -> Seq(Nat)]
  BY DEF Init
<1>2. bounds \in [expiries : 0..MaxExpiries, crashes : 0..MaxCrashes, deletes : 0..MaxDeletes]
  BY BoundsAssumption DEF Init
<1> QED
  BY <1>1, <1>2 DEF Init, Types, TypeOK, Busy

LEMMA NextTypes == Types /\ [Next]_vars => Types'
<1> SUFFICES ASSUME Types, [Next]_vars PROVE Types'
  OBVIOUS
<1> USE DEF bucketVars, workerVars
<1>1. ASSUME NEW e \in Events, Upload(e)
      PROVE  Types'
  <2> DEFINE announced == [i \in Records(e) |-> Announced(e, i)]
  <2>0. /\ uploads' \in [Keys -> Nat] /\ object' \in [Keys -> Nat]
        /\ sent' = [sent EXCEPT ![e] = announced] /\ announced \in Seq(Nat)
        /\ mq' = [mq EXCEPT ![e] = "visible"] /\ UNCHANGED <<recv, bounds>>
    BY <1>1, UploadIs
  <2> HIDE DEF announced
  <2>1. BucketTypes'
    BY <2>0 DEF Types, TypeOK, BucketTypes
  <2>2. QueueTypes' /\ BoundTypes'
    BY <2>0 DEF Types, TypeOK, QueueTypes, BoundTypes
  <2>3. UNCHANGED <<job, next, content, pc, toAck, rows, failed>>
    BY <1>1, UploadIs
  <2>4. WorkerTypes' /\ ResultTypes'
    BY <2>3 DEF Types, TypeOK, WorkerTypes, ResultTypes, Busy, Records
  <2> QED
    BY <2>1, <2>2, <2>4
       DEF Types, TypeOK, BucketTypes, QueueTypes, WorkerTypes, ResultTypes, BoundTypes
<1>2. ASSUME NEW e \in Events, VisibilityTimeout(e)
      PROVE  Types'
  <2>1. bounds' = bounds \/ (bounds.expiries < MaxExpiries /\ bounds' = [bounds EXCEPT !.expiries = @ + 1])
    BY <1>2 DEF VisibilityTimeout
  <2>2. BoundTypes'
    BY <2>1, BoundsCountUp DEF Types, TypeOK, BoundTypes
  <2>3. QueueTypes'
    BY <1>2 DEF VisibilityTimeout, Types, TypeOK, QueueTypes
  <2> QED
    BY <1>2, <2>2, <2>3 DEF VisibilityTimeout, Types, TypeOK, QueueTypes, BoundTypes, Busy, Records
<1>3. ASSUME NEW e \in Events, Acknowledge(e)
      PROVE  Types'
  <2>1. QueueTypes'
    BY <1>3 DEF Acknowledge, Types, TypeOK, QueueTypes
  <2> QED
    BY <1>3, <2>1 DEF Acknowledge, Types, TypeOK, QueueTypes, Busy, Records
<1>4. ASSUME NEW e \in Events, AcknowledgeFails(e)
      PROVE  Types'
  <2>1. BoundTypes'
    BY <1>4, BoundsCountUp DEF AcknowledgeFails, BoundTypes
  <2> QED
    BY <1>4, <2>1 DEF AcknowledgeFails, Types, TypeOK, BoundTypes, Busy, Records
<1>5. ASSUME NEW k \in Keys, DeleteObject(k)
      PROVE  Types'
  <2>1. BoundTypes'
    BY <1>5, BoundsCountUp DEF DeleteObject, BoundTypes
  <2>2. object' \in [Keys -> Nat]
    BY <1>5 DEF DeleteObject, Types, TypeOK
  <2> QED
    BY <1>5, <2>1, <2>2 DEF DeleteObject, Types, TypeOK, BoundTypes, Busy, Records
<1>6. ASSUME NEW w \in Workers, NEW e \in Events, Receive(w, e)
      PROVE  Types'
  BY <1>6, ReceiveTypes
<1>7. CASE Crash
  <2>1. BoundTypes'
    BY <1>7, BoundsCountUp DEF Crash, BoundTypes
  <2>2. WorkerTypes'
    BY <1>7 DEF Crash, WorkerTypes, Busy
  <2> QED
    BY <1>7, <2>1, <2>2 DEF Crash, Types, TypeOK, BoundTypes, WorkerTypes, Records
<1>8. CASE UNCHANGED vars
  BY <1>8 DEF vars, Types, TypeOK, Busy, Records
<1> QED
  BY <1>1, <1>2, <1>3, <1>4, <1>5, <1>6, <1>7, <1>8, HandleTypes DEF Next

\* The types, for any events and workers: a handler stays within the records
\* of its event.
THEOREM TypeCorrect == Spec => []TypeOK
<1>1. Types => TypeOK
  BY DEF Types
<1> QED
  BY <1>1, InitTypes, NextTypes, PTL DEF Spec

-----------------------------------------------------------------------------
(* What has been saved when an event is acknowledged. *)

Stored(e, i) == rows[e][i] # <<>>

Handled ==
    /\ \A w \in Workers : Busy(w) => \A i \in Records(job[w]) : i < next[w] => Stored(job[w], i)
    /\ \A e \in Events : (e \in toAck \/ mq[e] = "deleted") /\ e \notin failed =>
          \A i \in Records(e) : Stored(e, i)

LEMMA HandleHandled ==
    ASSUME Types, Handled, NEW w \in Workers, Handle(w)
    PROVE  Handled'
<1>1. /\ Busy(w) /\ mq' = mq
      /\ Downloads(w) \/ Saves(w) \/ Fails(w)
  BY HandleIs
<1>2. /\ job[w] \in Events /\ next[w] \in Records(job[w]) /\ next[w] \in Nat
      /\ Records(job[w]) = 1..Len(RecordsOf[job[w]]) /\ Len(RecordsOf[job[w]]) \in Nat
  <2>1. job[w] \in Events /\ next[w] \in Records(job[w]) /\ next[w] \in Nat
    BY <1>1, BusyIs
  <2> QED
    BY <2>1, RecordsAre
<1>3. \A e \in Events : \A i \in Records(e) : Stored(e, i) => Stored(e, i)'
  <2>1. CASE rows' = rows
    BY <2>1 DEF Stored
  <2>2. CASE Insert(w)
    <3> SUFFICES ASSUME NEW e \in Events, NEW i \in Records(e), Stored(e, i)
                 PROVE  rows'[e][i] # <<>>
      BY DEF Stored
    <3>1. rows[e][i] \in Seq(Nat) /\ content[w] \in Nat
      BY DEF Types, TypeOK
    <3>2. Append(rows[e][i], content[w]) # <<>>
      BY <3>1
    <3>3. rows'[e][i] = IF e = job[w] /\ i = next[w] THEN Append(rows[e][i], content[w]) ELSE rows[e][i]
      BY <1>1, <2>2, InsertIs
    <3> QED
      BY <3>2, <3>3 DEF Stored
  <2> QED
    BY <1>1, <2>1, <2>2 DEF Downloads, Saves, Fails
<1>4. Saves(w) => rows'[job[w]][next[w]] # <<>>
  <2> SUFFICES ASSUME Saves(w) PROVE rows'[job[w]][next[w]] # <<>>
    OBVIOUS
  <2>1. rows'[job[w]][next[w]] = Append(rows[job[w]][next[w]], content[w])
    <3>1. Insert(w)
      BY DEF Saves
    <3>2. \A e \in Events : \A i \in Records(e) :
            rows'[e][i] = IF e = job[w] /\ i = next[w] THEN Append(rows[e][i], content[w]) ELSE rows[e][i]
      BY <1>1, <3>1, InsertIs
    <3> QED
      BY <1>2, <3>2
  <2>2. rows[job[w]][next[w]] \in Seq(Nat) /\ content[w] \in Nat
    BY <1>2 DEF Types, TypeOK
  <2> QED
    BY <2>1, <2>2, SMTT(30)
\* The worker.
<1>5. ASSUME Busy(w)', NEW i \in Records(job'[w]), i < next'[w]
      PROVE  rows'[job'[w]][i] # <<>>
  <2>1. ~Returns(w)
    <3>1. pc \in [Workers -> {"idle", "download", "save"}]
      BY DEF Types, TypeOK
    <3> QED
      BY <1>5, <3>1 DEF Returns, Busy
  <2>2. CASE Downloads(w)
    BY <1>1, <1>2, <1>5, <2>2 DEF Downloads, Handled, Stored
  <2>3. CASE Saves(w)
    <3>1. job' = job /\ next'[w] = next[w] + 1
      BY <2>1, <2>3 DEF Saves, Advances, Types, TypeOK
    <3>2. CASE i = next[w]
      BY <1>4, <2>3, <3>1, <3>2
    <3>3. CASE i # next[w]
      <4>1. i < next[w]
        BY <1>2, <1>5, <3>1, <3>3
      <4> QED
        <5>1. i \in Records(job[w]) /\ Stored(job[w], i)
          BY <1>1, <1>5, <3>1, <4>1 DEF Handled
        <5> QED
          BY <1>2, <1>3, <3>1, <5>1 DEF Stored
    <3> QED
      BY <3>2, <3>3
  <2> QED
    BY <1>1, <2>1, <2>2, <2>3 DEF Fails
\* The other workers.
<1>6. ASSUME NEW v \in Workers, v # w, Busy(v)', NEW i \in Records(job'[v]), i < next'[v]
      PROVE  rows'[job'[v]][i] # <<>>
  <2>1. Busy(v) /\ job'[v] = job[v] /\ next'[v] = next[v] /\ job[v] \in Events
    BY <1>1, <1>6 DEF Downloads, Saves, Fails, Returns, Advances, Busy, Types, TypeOK
  <2> QED
    BY <1>3, <1>6, <2>1 DEF Handled, Stored
<1>7. ASSUME NEW e \in Events, e \in toAck' \/ mq'[e] = "deleted", e \notin failed', NEW i \in Records(e)
      PROVE  rows'[e][i] # <<>>
  <2>1. e \notin failed
    BY <1>1, <1>7 DEF Downloads, Saves, Fails
  <2>2. CASE e \in toAck \/ mq[e] = "deleted"
    BY <1>3, <1>7, <2>1, <2>2 DEF Handled, Stored
  <2>3. CASE ~(e \in toAck \/ mq[e] = "deleted")
    <3>1. e \in toAck' /\ e \notin toAck
      BY <1>1, <1>7, <2>3
    <3>2. Returns(w) /\ e = job[w]
      BY <1>1, <3>1 DEF Downloads, Saves, Fails, Returns, Advances
    <3>3. ~Fails(w) /\ ~Downloads(w)
      BY <1>7, <3>1, <3>2 DEF Fails, Downloads
    <3>4. next[w] + 1 \notin Records(job[w])
      <4>1. pc'[w] = "idle"
        BY <3>2 DEF Returns, Types, TypeOK
      <4>2. ~Advances(w)
        BY <4>1 DEF Advances, Types, TypeOK
      <4> QED
        BY <1>1, <3>3, <4>2 DEF Saves
    <3>5. Saves(w)
      BY <1>1, <3>3
    <3>6. i <= next[w]
      BY <1>2, <1>7, <3>2, <3>4
    <3>7. CASE i = next[w]
      BY <1>4, <3>2, <3>5, <3>7
    <3>8. CASE i # next[w]
      <4>1. i < next[w]
        BY <1>2, <1>7, <3>2, <3>6, <3>8
      <4>2. i \in Records(job[w]) /\ Stored(job[w], i)
        BY <1>1, <1>7, <3>2, <4>1 DEF Handled
      <4> QED
        BY <1>2, <1>3, <3>2, <4>2 DEF Stored
    <3> QED
      BY <3>7, <3>8
  <2> QED
    BY <2>2, <2>3
<1> QED
  BY <1>5, <1>6, <1>7 DEF Handled, Stored, Busy, Records

LEMMA NextHandled == Types /\ Handled /\ [Next]_vars => Handled'
<1> SUFFICES ASSUME Types, Handled, [Next]_vars PROVE Handled'
  OBVIOUS
<1> USE DEF workerVars
<1>1. ASSUME UNCHANGED <<job, next, pc, rows, failed>>,
             \A e \in Events : e \in toAck' \/ mq'[e] = "deleted" => e \in toAck \/ mq[e] = "deleted"
      PROVE  Handled'
  BY <1>1 DEF Handled, Stored, Busy, Records
<1>2. ASSUME NEW e \in Events, Upload(e)
      PROVE  Handled'
  <2>1. \A f \in Events : mq'[f] = "deleted" => mq[f] = "deleted"
    BY <1>2 DEF Upload, Types, TypeOK
  <2> QED
    BY <1>1, <1>2, <2>1 DEF Upload
<1>3. ASSUME NEW e \in Events, VisibilityTimeout(e)
      PROVE  Handled'
  <2>1. \A f \in Events : mq'[f] = "deleted" => mq[f] = "deleted"
    BY <1>3 DEF VisibilityTimeout, Types, TypeOK
  <2> QED
    BY <1>1, <1>3, <2>1 DEF VisibilityTimeout
<1>4. ASSUME NEW e \in Events, Acknowledge(e) \/ AcknowledgeFails(e)
      PROVE  Handled'
  <2>1. \A f \in Events : f \in toAck' \/ mq'[f] = "deleted" => f \in toAck \/ mq[f] = "deleted"
    BY <1>4 DEF Acknowledge, AcknowledgeFails, Types, TypeOK
  <2> QED
    BY <1>1, <1>4, <2>1 DEF Acknowledge, AcknowledgeFails
<1>5. ASSUME NEW k \in Keys, DeleteObject(k)
      PROVE  Handled'
  BY <1>1, <1>5 DEF DeleteObject
<1>6. ASSUME NEW w \in Workers, NEW e \in Events, Receive(w, e)
      PROVE  Handled'
  <2>1. /\ rows' = rows /\ \A f \in Events : mq'[f] = "deleted" => mq[f] = "deleted"
    BY <1>6, ReceiveIs DEF Types, TypeOK
  <2>2. CASE Records(e) = {} /\ failed' = failed \cup {e} /\ toAck' = toAck \cup {e}
             /\ UNCHANGED <<job, next, pc>>
    BY <2>1, <2>2 DEF Handled, Stored, Busy, Records
  <2>3. CASE /\ UNCHANGED <<failed, toAck>>
             /\ job' = [job EXCEPT ![w] = e]
             /\ next' = [next EXCEPT ![w] = 1]
             /\ pc' = [pc EXCEPT ![w] = "download"]
    <3>1. \A f \in Events : (f \in toAck' \/ mq'[f] = "deleted") /\ f \notin failed' =>
            \A i \in Records(f) : rows'[f][i] # <<>>
      BY <2>1, <2>3 DEF Handled, Stored
    <3>2. ASSUME NEW v \in Workers, pc'[v] # "idle", NEW i \in Records(job'[v]), i < next'[v]
          PROVE  rows'[job'[v]][i] # <<>>
      <4>1. CASE v = w
        <5>1. job'[v] = e /\ next'[v] = 1
          BY <2>3, <4>1 DEF Types, TypeOK
        <5>2. i \in Nat \ {0}
          BY <3>2, <5>1, RecordsAre
        <5> QED
          BY <3>2, <5>1, <5>2
      <4>2. CASE v # w
        BY <2>1, <2>3, <3>2, <4>2 DEF Handled, Stored, Busy, Types, TypeOK
      <4> QED
        BY <4>1, <4>2
    <3> QED
      BY <3>1, <3>2 DEF Handled, Stored, Busy, Records
  <2> QED
    BY <1>6, <2>2, <2>3, ReceiveIs
<1>7. CASE Crash
  BY <1>7 DEF Crash, Handled, Stored, Busy, Records
<1>8. CASE UNCHANGED vars
  BY <1>1, <1>8 DEF vars
<1> QED
  BY <1>2, <1>3, <1>4, <1>5, <1>6, <1>7, <1>8, HandleHandled DEF Next

\* However the listener's threads, timeouts, lost acknowledgements and crashes
\* interleave: an event that has left the queue has a row for every record,
\* unless a catch block of onS3Event has swallowed a failure of its handling.
THEOREM LostOnlyByFailureHolds == Spec => []LostOnlyByFailure
<1>1. Init => Handled
  BY DEF Init, Handled, Busy
<1>2. Handled => LostOnlyByFailure
  BY DEF Handled, Stored, LostOnlyByFailure
<1> QED
  BY <1>1, <1>2, InitTypes, NextTypes, NextHandled, PTL DEF Spec

-----------------------------------------------------------------------------
(* The count of rows. *)

\* The rows of record i, and the receives of the event for record 0.
Count(e, i) == IF i = 0 THEN recv[e] ELSE Len(rows[e][i])

\* The workers that have done with record i of e and not with record j.
Between(e, i, j) == {w \in Workers : job[w] = e /\ i < next[w] /\ next[w] <= j}

Counted ==
    \A e \in Events : \A j \in Records(e) : \A i \in 0..(j - 1) :
        Count(e, j) + Cardinality(Between(e, i, j)) <= Count(e, i)

LEMMA CountsAre ==
    ASSUME Types, NEW e \in Events, NEW j \in Records(e), NEW i \in 0..(j - 1)
    PROVE  /\ i \in Nat /\ j \in Nat \ {0} /\ i < j /\ (i # 0 => i \in Records(e))
           /\ Count(e, i) \in Nat /\ Count(e, j) \in Nat
<1>1. i \in Nat /\ j \in Nat \ {0} /\ i < j /\ (i # 0 => i \in Records(e))
  BY RecordsAre
<1>2. recv[e] \in Nat /\ rows[e] \in [Records(e) -> Seq(Nat)]
  BY DEF Types, TypeOK
<1>3. Len(rows[e][j]) \in Nat /\ (i # 0 => Len(rows[e][i]) \in Nat)
  BY <1>1, <1>2
<1> QED
  BY <1>1, <1>2, <1>3 DEF Count

LEMMA WorkerSets ==
    ASSUME NEW S \in SUBSET Workers
    PROVE  /\ IsFiniteSet(S) /\ Cardinality(S) \in Nat
           /\ \A T \in SUBSET S : Cardinality(T) <= Cardinality(S)
           /\ \A w \in S : \A T \in SUBSET (S \ {w}) : Cardinality(T) + 1 <= Cardinality(S)
           /\ \A w \in Workers : \A T \in SUBSET (S \cup {w}) : Cardinality(T) <= Cardinality(S) + 1
<1>1. \A T \in SUBSET Workers : IsFiniteSet(T) /\ Cardinality(T) \in Nat
  BY WorkersAssumption, FS_Subset, FS_CardinalityType
<1>2. \A U \in SUBSET Workers : \A T \in SUBSET U : Cardinality(T) <= Cardinality(U)
  BY <1>1, FS_Subset
<1>3. ASSUME NEW w \in S, NEW T \in SUBSET (S \ {w})
      PROVE  Cardinality(T) + 1 <= Cardinality(S)
  <2>1. Cardinality(S \ {w}) = Cardinality(S) - 1
    BY <1>1, FS_RemoveElement
  <2>2. Cardinality(T) <= Cardinality(S \ {w}) /\ Cardinality(S) \in Nat /\ Cardinality(T) \in Nat
        /\ Cardinality(S \ {w}) \in Nat
    BY <1>1, <1>2
  <2> QED
    BY <2>1, <2>2
<1>4. ASSUME NEW w \in Workers, NEW T \in SUBSET (S \cup {w})
      PROVE  Cardinality(T) <= Cardinality(S) + 1
  <2>1. Cardinality(S \cup {w}) = IF w \in S THEN Cardinality(S) ELSE Cardinality(S) + 1
    BY <1>1, FS_AddElement
  <2>2. Cardinality(T) <= Cardinality(S \cup {w}) /\ Cardinality(S) \in Nat /\ Cardinality(T) \in Nat
        /\ Cardinality(S \cup {w}) \in Nat
    BY <1>1, <1>2
  <2> QED
    BY <2>1, <2>2
<1> QED
  BY <1>1, <1>2, <1>3, <1>4

\* A worker that goes from record n of its event f to the next one, or leaves,
\* has been counted for n until then, and is counted for the next one after.
LEMMA HandleCounted ==
    ASSUME Types, Counted, NEW w \in Workers, Handle(w)
    PROVE  Counted'
<1> DEFINE f == job[w]
           n == next[w]
<1>1. /\ Busy(w) /\ recv' = recv
      /\ Downloads(w) \/ Saves(w) \/ Fails(w)
  BY HandleIs
<1>2. /\ job[w] \in Events /\ next[w] \in Records(job[w]) /\ next[w] \in Nat \ {0}
  BY <1>1, BusyIs
<1>3. /\ job \in [Workers -> Events \cup {None}] /\ next \in [Workers -> Nat]
      /\ \A e \in Events : rows[e] \in [Records(e) -> Seq(Nat)]
      /\ content[w] \in Nat
  BY DEF Types, TypeOK
<1>4. CASE Downloads(w)
  BY <1>1, <1>4 DEF Downloads, Counted, Count, Between, Records
<1>5. CASE Saves(w) \/ Fails(w)
  <2>1. /\ \A v \in Workers \ {w} : job'[v] = job[v] /\ next'[v] = next[v]
        /\ next'[w] = 0 \/ (Saves(w) /\ job'[w] = job[w] /\ next'[w] = next[w] + 1)
    BY <1>3, <1>5 DEF Saves, Fails, Returns, Advances
  <2>2. /\ rows' = rows \/ Insert(w)
        /\ Saves(w) => Insert(w)
    BY <1>5 DEF Saves, Fails
  <2>3. Insert(w) => \A e \in Events : \A i \in Records(e) :
          rows'[e][i] = IF e = f /\ i = n THEN Append(rows[e][i], content[w]) ELSE rows[e][i]
    BY <1>1, InsertIs
  <2>4. \A e \in Events : \A i \in Records(e) :
          /\ Len(rows[e][i]) \in Nat
          /\ Insert(w) /\ e = f /\ i = n => Len(rows'[e][i]) = Len(rows[e][i]) + 1
          /\ ~Insert(w) \/ e # f \/ i # n => Len(rows'[e][i]) = Len(rows[e][i])
    <3> SUFFICES ASSUME NEW e \in Events, NEW i \in Records(e)
                 PROVE  /\ Len(rows[e][i]) \in Nat
                        /\ Insert(w) /\ e = f /\ i = n => Len(rows'[e][i]) = Len(rows[e][i]) + 1
                        /\ ~Insert(w) \/ e # f \/ i # n => Len(rows'[e][i]) = Len(rows[e][i])
      OBVIOUS
    <3>1. rows[e][i] \in Seq(Nat)
      BY <1>3
    <3>2. Len(rows[e][i]) \in Nat /\ Len(Append(rows[e][i], content[w])) = Len(rows[e][i]) + 1
      BY <1>3, <3>1
    <3>3. CASE Insert(w)
      <4>1. rows'[e][i] = IF e = f /\ i = n THEN Append(rows[e][i], content[w]) ELSE rows[e][i]
        BY <2>3, <3>3
      <4> HIDE DEF f, n
      <4> QED
        BY <3>2, <3>3, <4>1
    <3>4. CASE ~Insert(w)
      BY <2>2, <3>2, <3>4
    <3> QED
      BY <3>3, <3>4
  <2> SUFFICES ASSUME NEW e \in Events, NEW j \in Records(e), NEW i \in 0..(j - 1)
               PROVE  (IF j = 0 THEN recv[e] ELSE Len(rows'[e][j]))
                      + Cardinality({v \in Workers : job'[v] = e /\ i < next'[v] /\ next'[v] <= j})
                      <= IF i = 0 THEN recv[e] ELSE Len(rows'[e][i])
    BY <1>1 DEF Counted, Count, Between, Records
  <2> DEFINE B == Between(e, i, j)
             C == {v \in Workers : job'[v] = e /\ i < next'[v] /\ next'[v] <= j}
             newj == Len(rows'[e][j])
             newi == IF i = 0 THEN recv[e] ELSE Len(rows'[e][i])
  <2>5. /\ i \in Nat /\ j \in Nat \ {0} /\ i < j /\ (i # 0 => i \in Records(e))
        /\ Count(e, i) \in Nat /\ Count(e, j) \in Nat
        /\ Count(e, j) + Cardinality(B) <= Count(e, i)
    BY CountsAre DEF Counted
  <2>6. /\ B \in SUBSET Workers /\ C \in SUBSET Workers
        /\ Cardinality(B) \in Nat /\ Cardinality(C) \in Nat
    <3>1. B \in SUBSET Workers /\ C \in SUBSET Workers
      BY DEF Between
    <3> HIDE DEF B, C
    <3> QED
      BY <3>1, WorkerSets
  <2>7. C \subseteq B \cup {w} /\ (w \in B <=> e = f /\ i < n /\ n <= j)
    BY <2>1 DEF Between
  <2>8. w \in C => Insert(w) /\ e = f /\ i <= n /\ n < j
    BY <1>2, <2>1, <2>2, <2>5
  <2>9. newj = Count(e, j) \/ (Insert(w) /\ e = f /\ j = n /\ newj = Count(e, j) + 1)
    BY <2>4, <2>5 DEF Count
  <2>10. newi = Count(e, i) \/ (Insert(w) /\ e = f /\ i = n /\ newi = Count(e, i) + 1)
    BY <2>4, <2>5 DEF Count
  <2>11. Insert(w) /\ e = f /\ i = n => newi = Count(e, i) + 1
    BY <1>2, <2>4, <2>5 DEF Count
  <2> HIDE DEF B, C, newi, newj, f
  <2>12. newj + Cardinality(C) <= newi
    <3>1. CASE e = f /\ j = n
      <4>1. w \in B /\ w \notin C /\ C \in SUBSET (B \ {w})
        BY <1>2, <2>5, <2>6, <2>7, <2>8, <3>1
      <4>2. Cardinality(C) + 1 <= Cardinality(B)
        BY <2>6, <4>1, WorkerSets
      <4>3. newi = Count(e, i)
        BY <2>5, <2>10, <3>1
      <4>4. newj <= Count(e, j) + 1 /\ newj \in Nat
        BY <2>5, <2>9
      <4> QED
        BY <2>5, <2>6, <4>2, <4>3, <4>4
    <3>2. CASE ~(e = f /\ j = n) /\ e = f /\ i = n /\ Insert(w)
      <4>1. newj = Count(e, j) /\ newi = Count(e, i) + 1
        BY <2>9, <2>11, <3>2
      <4>2. Cardinality(C) <= Cardinality(B) + 1
        BY <2>6, <2>7, WorkerSets
      <4> QED
        BY <2>5, <2>6, <4>1, <4>2
    <3>3. CASE ~(e = f /\ j = n) /\ ~(e = f /\ i = n /\ Insert(w))
      <4>1. newj = Count(e, j) /\ newi = Count(e, i)
        BY <2>9, <2>10, <3>3
      <4>2. w \in C => w \in B
        BY <1>2, <2>5, <2>7, <2>8, <3>3
      <4>3. C \in SUBSET B
        BY <2>7, <4>2
      <4>4. Cardinality(C) <= Cardinality(B)
        BY <2>6, <4>3, WorkerSets
      <4> QED
        BY <2>5, <2>6, <4>1, <4>4
    <3> QED
      BY <3>1, <3>2, <3>3
  <2> QED
    BY <2>5, <2>12 DEF newj, newi, C
<1> QED
  BY <1>1, <1>4, <1>5

\* A receive is counted, and the worker stands before record 1.
LEMMA ReceiveCounted ==
    ASSUME Types, Counted, NEW w \in Workers, NEW f \in Events, Receive(w, f)
    PROVE  Counted'
<1>1. /\ ~Busy(w) /\ recv' = [recv EXCEPT ![f] = recv[f] + 1] /\ rows' = rows
  BY ReceiveIs
<1>2. /\ next[w] = 0 /\ recv \in [Events -> Nat]
      /\ job \in [Workers -> Events \cup {None}] /\ next \in [Workers -> Nat]
  BY <1>1 DEF Types, TypeOK, Busy
<1>3. \/ UNCHANGED <<job, next>>
      \/ job' = [job EXCEPT ![w] = f] /\ next' = [next EXCEPT ![w] = 1]
  BY ReceiveIs
<1> SUFFICES ASSUME NEW e \in Events, NEW j \in Records(e), NEW i \in 0..(j - 1)
             PROVE  (IF j = 0 THEN recv'[e] ELSE Len(rows[e][j]))
                    + Cardinality({v \in Workers : job'[v] = e /\ i < next'[v] /\ next'[v] <= j})
                    <= IF i = 0 THEN recv'[e] ELSE Len(rows[e][i])
  BY <1>1 DEF Counted, Count, Between, Records
<1> DEFINE B == Between(e, i, j)
           C == {v \in Workers : job'[v] = e /\ i < next'[v] /\ next'[v] <= j}
           newi == IF i = 0 THEN recv'[e] ELSE Len(rows[e][i])
<1>4. /\ i \in Nat /\ j \in Nat \ {0} /\ i < j
      /\ Count(e, i) \in Nat /\ Count(e, j) \in Nat
      /\ Count(e, j) + Cardinality(B) <= Count(e, i)
  BY CountsAre DEF Counted
<1>5. /\ B \in SUBSET Workers /\ C \in SUBSET Workers
      /\ Cardinality(B) \in Nat /\ Cardinality(C) \in Nat
  <2>1. B \in SUBSET Workers /\ C \in SUBSET Workers
    BY DEF Between
  <2> HIDE DEF B, C
  <2> QED
    BY <2>1, WorkerSets
<1>6. C \subseteq B \cup {w} /\ (w \in C => e = f /\ i = 0)
  BY <1>2, <1>3, <1>4 DEF Between
<1>7. /\ Count(e, j) = Len(rows[e][j])
      /\ newi = IF e = f /\ i = 0 THEN Count(e, i) + 1 ELSE Count(e, i)
  BY <1>1, <1>2, <1>4 DEF Count
<1> HIDE DEF B, C, newi
<1>8. Count(e, j) + Cardinality(C) <= newi
  <2>1. CASE e = f /\ i = 0
    <3>1. Cardinality(C) <= Cardinality(B) + 1
      BY <1>5, <1>6, WorkerSets
    <3> QED
      BY <1>4, <1>5, <1>7, <2>1, <3>1
  <2>2. CASE ~(e = f /\ i = 0)
    <3>1. C \in SUBSET B
      BY <1>5, <1>6, <2>2
    <3>2. Cardinality(C) <= Cardinality(B)
      BY <1>5, <3>1, WorkerSets
    <3> QED
      BY <1>4, <1>5, <1>7, <2>2, <3>2
  <2> QED
    BY <2>1, <2>2
<1> QED
  BY <1>4, <1>7, <1>8 DEF newi, C

LEMMA NextCounted == Types /\ Counted /\ [Next]_vars => Counted'
<1> SUFFICES ASSUME Types, Counted, [Next]_vars PROVE Counted'
  OBVIOUS
<1> USE DEF workerVars
<1>1. ASSUME UNCHANGED <<job, next, recv, rows>>
      PROVE  Counted'
  BY <1>1 DEF Counted, Count, Between, Records
<1>2. ASSUME NEW e \in Events,
             Upload(e) \/ VisibilityTimeout(e) \/ Acknowledge(e) \/ AcknowledgeFails(e)
      PROVE  Counted'
  BY <1>1, <1>2 DEF Upload, VisibilityTimeout, Acknowledge, AcknowledgeFails
<1>3. ASSUME NEW k \in Keys, DeleteObject(k)
      PROVE  Counted'
  BY <1>1, <1>3 DEF DeleteObject
<1>4. CASE Crash
  <2>1. next' = [w \in Workers |-> 0] /\ UNCHANGED <<recv, rows>>
    BY <1>4 DEF Crash
  <2> SUFFICES ASSUME NEW e \in Events, NEW j \in Records(e), NEW i \in 0..(j - 1)
               PROVE  Count(e, j) + Cardinality({v \in Workers : job'[v] = e /\ i < next'[v] /\ next'[v] <= j})
                      <= Count(e, i)
    BY <2>1 DEF Counted, Count, Between, Records
  <2> DEFINE C == {v \in Workers : job'[v] = e /\ i < next'[v] /\ next'[v] <= j}
  <2>2. C = {}
    <3>1. i \in Nat
      BY CountsAre
    <3> QED
      BY <2>1, <3>1
  <2>3. Cardinality({}) = 0
    BY FS_EmptySet
  <2>4. /\ Count(e, i) \in Nat /\ Count(e, j) \in Nat
        /\ Count(e, j) + Cardinality(Between(e, i, j)) <= Count(e, i)
    BY CountsAre DEF Counted
  <2>5. Cardinality(Between(e, i, j)) \in Nat
    <3>1. Between(e, i, j) \in SUBSET Workers
      BY DEF Between
    <3> QED
      BY <3>1, WorkerSets
  <2> HIDE DEF C
  <2>6. Cardinality(C) = 0
    BY <2>2, <2>3
  <2>7. Count(e, j) + Cardinality(C) <= Count(e, i)
    BY <2>4, <2>5, <2>6
  <2> QED
    BY <2>7 DEF C
<1>5. CASE UNCHANGED vars
  BY <1>1, <1>5 DEF vars
<1> QED
  BY <1>2, <1>3, <1>4, <1>5, HandleCounted, ReceiveCounted DEF Next

\* For any number of threads and of deliveries that overlap, expire or crash:
\* over all of them, a record has no more rows than an earlier one of its
\* event or than deliveries.
THEOREM RowsFollowRecordsHolds == Spec => []RowsFollowRecords
<1>1. Init => Counted
  <2> SUFFICES ASSUME Init, NEW e \in Events, NEW j \in Records(e), NEW i \in 0..(j - 1)
               PROVE  Count(e, j) + Cardinality(Between(e, i, j)) <= Count(e, i)
    BY DEF Counted
  <2>1. i \in Nat /\ j \in Nat \ {0} /\ (i # 0 => i \in Records(e))
    BY InitTypes, CountsAre
  <2>2. Between(e, i, j) = {}
    BY <2>1 DEF Init, Between
  <2>3. Count(e, i) = 0 /\ Count(e, j) = 0
    BY <2>1 DEF Init, Count
  <2> QED
    BY <2>2, <2>3, FS_EmptySet
<1>2. ASSUME Types, Counted, NEW e \in Events, NEW j \in Records(e), NEW i \in 0..(j - 1)
      PROVE  Count(e, j) <= Count(e, i)
  <2>1. /\ Count(e, i) \in Nat /\ Count(e, j) \in Nat
        /\ Count(e, j) + Cardinality(Between(e, i, j)) <= Count(e, i)
    BY <1>2, CountsAre DEF Counted
  <2>2. Cardinality(Between(e, i, j)) \in Nat
    <3>1. Between(e, i, j) \in SUBSET Workers
      BY DEF Between
    <3> QED
      BY <3>1, WorkerSets
  <2> QED
    BY <2>1, <2>2
<1>3. Types /\ Counted => RowsFollowRecords
  <2> SUFFICES ASSUME Types, Counted, NEW e \in Events, NEW j \in Records(e)
               PROVE  /\ Len(rows[e][j]) <= recv[e]
                      /\ \A i \in 1..(j - 1) : Len(rows[e][j]) <= Len(rows[e][i])
    BY DEF RowsFollowRecords
  <2>1. j \in Nat \ {0} /\ 0 \in 0..(j - 1)
    BY RecordsAre
  <2>2. Count(e, j) = Len(rows[e][j]) /\ Count(e, 0) = recv[e]
        /\ \A i \in 1..(j - 1) : Count(e, i) = Len(rows[e][i]) /\ i \in 0..(j - 1)
    BY <2>1 DEF Count
  <2>3. Count(e, j) <= Count(e, 0)
    BY <1>2, <2>1
  <2>4. \A i \in 1..(j - 1) : Count(e, j) <= Count(e, i)
    BY <1>2, <2>2
  <2> QED
    BY <2>2, <2>3, <2>4
<1> QED
  BY <1>1, <1>3, InitTypes, NextTypes, NextCounted, PTL DEF Spec

-----------------------------------------------------------------------------
(* How old a downloaded content may be. *)

\* c is a content that record i of e may lead to.
Fits(e, i, c) == c >= sent[e][i] /\ c <= uploads[RecordsOf[e][i]]

Current ==
    /\ \A e \in Events : mq[e] = "none" =>
          e \notin toAck /\ \A i \in Records(e) : rows[e][i] = <<>>
    /\ \A e \in Events : mq[e] # "none" =>
          DOMAIN sent[e] = Records(e) /\ \A i \in Records(e) : sent[e][i] <= uploads[RecordsOf[e][i]]
    /\ \A k \in Keys : object[k] = 0 \/ object[k] = uploads[k]
    /\ \A w \in Workers : Busy(w) => mq[job[w]] # "none"
    /\ \A w \in Workers : pc[w] = "save" => Fits(job[w], next[w], content[w])
    /\ \A e \in Events : \A i \in Records(e) : \A j \in DOMAIN rows[e][i] : Fits(e, i, rows[e][i][j])

LEMMA OccurrencesGrow ==
    ASSUME NEW e \in Events, NEW i \in Records(e)
    PROVE  Occurrences(e, RecordsOf[e][i], i) <= Occurrences(e, RecordsOf[e][i], Len(RecordsOf[e]))
<1> DEFINE k == RecordsOf[e][i]
           n == Len(RecordsOf[e])
           S(m) == {j \in 1..m : RecordsOf[e][j] = k}
<1>1. k \in Keys /\ i \in Nat /\ n \in Nat /\ i <= n
  BY RecordsAre
<1>2. IsFiniteSet(S(n)) /\ S(i) \subseteq S(n)
  BY <1>1, OccurrencesAre
<1>3. Cardinality(S(i)) <= Cardinality(S(n))
  <2> HIDE DEF S
  <2> QED
    BY <1>2, FS_Subset
<1> QED
  BY <1>3 DEF Occurrences

LEMMA NoOccurrence ==
    ASSUME NEW e \in Events, NEW k \in Keys, \A i \in Records(e) : RecordsOf[e][i] # k
    PROVE  Occurrences(e, k, Len(RecordsOf[e])) = 0
<1>1. {j \in 1..Len(RecordsOf[e]) : RecordsOf[e][j] = k} = {}
  BY RecordsAre
<1> QED
  BY <1>1, FS_EmptySet DEF Occurrences

LEMMA UploadCurrent ==
    ASSUME Types, Current, NEW f \in Events, Upload(f)
    PROVE  Current'
<1> DEFINE announced == [i \in Records(f) |-> Announced(f, i)]
<1>1. /\ mq[f] = "none" /\ mq' = [mq EXCEPT ![f] = "visible"]
      /\ \A k \in Keys : uploads'[k] = uploads[k] + Occurrences(f, k, Len(RecordsOf[f]))
      /\ \A k \in Keys : object'[k] = uploads'[k]
                         \/ (object'[k] = object[k] /\ \A i \in Records(f) : RecordsOf[f][i] # k)
      /\ sent' = [sent EXCEPT ![f] = announced]
      /\ UNCHANGED <<job, next, content, pc, toAck, rows>>
  BY UploadIs
<1>2. \A k \in Keys : uploads[k] \in Nat /\ uploads'[k] \in Nat /\ uploads[k] <= uploads'[k]
  <2> SUFFICES ASSUME NEW k \in Keys
               PROVE  uploads[k] \in Nat /\ uploads'[k] \in Nat /\ uploads[k] <= uploads'[k]
    OBVIOUS
  <2>1. uploads[k] \in Nat /\ Len(RecordsOf[f]) \in Nat
    BY RecordsAre DEF Types, TypeOK
  <2>2. Occurrences(f, k, Len(RecordsOf[f])) \in Nat
    BY <2>1, OccurrencesAre
  <2> QED
    BY <1>1, <2>1, <2>2
<1>3. /\ \A e \in Events \ {f} : sent'[e] = sent[e] /\ mq'[e] = mq[e]
      /\ sent'[f] = announced /\ mq'[f] = "visible"
  BY <1>1 DEF Types, TypeOK
<1>4. /\ DOMAIN announced = Records(f)
      /\ \A i \in Records(f) : announced[i] <= uploads'[RecordsOf[f][i]]
  <2>1. \A i \in Records(f) : announced[i] = Announced(f, i)
    OBVIOUS
  <2> SUFFICES ASSUME NEW i \in Records(f)
               PROVE  Announced(f, i) <= uploads'[RecordsOf[f][i]]
    BY <2>1
  <2>2. RecordsOf[f][i] \in Keys /\ i \in Nat /\ Len(RecordsOf[f]) \in Nat
    BY RecordsAre
  <2>3. /\ uploads[RecordsOf[f][i]] \in Nat
        /\ Occurrences(f, RecordsOf[f][i], i) \in Nat
        /\ Occurrences(f, RecordsOf[f][i], Len(RecordsOf[f])) \in Nat
        /\ Occurrences(f, RecordsOf[f][i], i) <= Occurrences(f, RecordsOf[f][i], Len(RecordsOf[f]))
    BY <1>2, <2>2, OccurrencesAre, OccurrencesGrow
  <2> QED
    BY <1>1, <2>2, <2>3 DEF Announced
<1> HIDE DEF announced
\* What fitted an event that had been sent still does.
<1>5. ASSUME NEW e \in Events, e # f, NEW i \in Records(e), NEW c \in Nat, Fits(e, i, c)
      PROVE  c >= sent'[e][i] /\ c <= uploads'[RecordsOf[e][i]]
  <2>1. RecordsOf[e][i] \in Keys
    BY RecordsAre
  <2>2. uploads[RecordsOf[e][i]] \in Nat /\ uploads'[RecordsOf[e][i]] \in Nat
        /\ uploads[RecordsOf[e][i]] <= uploads'[RecordsOf[e][i]]
    BY <1>2, <2>1
  <2> QED
    BY <1>3, <1>5, <2>2 DEF Fits
<1>6. \A e \in Events : mq'[e] = "none" =>
        e \notin toAck' /\ \A i \in Records(e) : rows'[e][i] = <<>>
  BY <1>1, <1>3 DEF Current
<1>7. ASSUME NEW e \in Events, mq'[e] # "none"
      PROVE  DOMAIN sent'[e] = Records(e) /\ \A i \in Records(e) : sent'[e][i] <= uploads'[RecordsOf[e][i]]
  <2>1. CASE e = f
    BY <1>3, <1>4, <2>1
  <2>2. CASE e # f
    <3>1. DOMAIN sent[e] = Records(e) /\ \A i \in Records(e) : sent[e][i] <= uploads[RecordsOf[e][i]]
      BY <1>3, <1>7, <2>2 DEF Current
    <3>2. \A i \in Records(e) : sent[e][i] \in Nat /\ RecordsOf[e][i] \in Keys
      BY <3>1, RecordsAre DEF Types, TypeOK
    <3>3. \A i \in Records(e) : sent[e][i] <= uploads'[RecordsOf[e][i]]
      BY <1>2, <3>1, <3>2
    <3> QED
      BY <1>3, <2>2, <3>1, <3>3
  <2> QED
    BY <2>1, <2>2
<1>8. \A k \in Keys : object'[k] = 0 \/ object'[k] = uploads'[k]
  <2> SUFFICES ASSUME NEW k \in Keys, object'[k] # uploads'[k] PROVE object'[k] = 0
    OBVIOUS
  <2>1. object'[k] = object[k] /\ uploads'[k] = uploads[k]
    <3>1. object'[k] = object[k] /\ \A i \in Records(f) : RecordsOf[f][i] # k
      BY <1>1
    <3>2. Occurrences(f, k, Len(RecordsOf[f])) = 0
      BY <3>1, NoOccurrence
    <3> QED
      BY <1>1, <1>2, <3>1, <3>2
  <2> QED
    BY <2>1 DEF Current
<1>9. \A w \in Workers : pc'[w] # "idle" => mq'[job'[w]] # "none" /\ job[w] # f
  <2> SUFFICES ASSUME NEW w \in Workers, pc[w] # "idle" PROVE mq'[job[w]] # "none" /\ job[w] # f
    BY <1>1
  <2>1. job[w] \in Events /\ mq[job[w]] # "none"
    BY BusyIs DEF Busy, Current
  <2> QED
    BY <1>1, <1>3, <2>1
<1>10. ASSUME NEW w \in Workers, pc'[w] = "save"
       PROVE  content'[w] >= sent'[job'[w]][next'[w]] /\ content'[w] <= uploads'[RecordsOf[job'[w]][next'[w]]]
  <2>1. job[w] \in Events /\ next[w] \in Records(job[w]) /\ job[w] # f /\ content[w] \in Nat
        /\ Fits(job[w], next[w], content[w])
    BY <1>1, <1>9, <1>10, BusyIs DEF Busy, Current, Types, TypeOK
  <2> QED
    BY <1>1, <1>5, <2>1
<1>11. ASSUME NEW e \in Events, NEW i \in Records(e), NEW j \in DOMAIN rows[e][i]
       PROVE  rows[e][i][j] >= sent'[e][i] /\ rows[e][i][j] <= uploads'[RecordsOf[e][i]]
  <2>1. e # f
    <3>1. mq[e] # "none"
      <4>1. rows[e][i] # <<>>
        BY <1>11
      <4> QED
        BY <4>1 DEF Current
    <3> QED
      BY <1>1, <3>1
  <2>2. rows[e][i][j] \in Nat
    <3>1. rows[e][i] \in Seq(Nat)
      BY DEF Types, TypeOK
    <3> QED
      BY <3>1
  <2> QED
    BY <1>5, <2>1, <2>2 DEF Current
<1> QED
  BY <1>1, <1>6, <1>7, <1>8, <1>9, <1>10, <1>11 DEF Current, Fits, Busy, Records

LEMMA HandleCurrent ==
    ASSUME Types, Current, NEW w \in Workers, Handle(w)
    PROVE  Current'
<1> DEFINE f == job[w]
           n == next[w]
<1>1. /\ Busy(w) /\ UNCHANGED <<uploads, object, sent, mq>>
      /\ Downloads(w) \/ Saves(w) \/ Fails(w)
  BY HandleIs
<1>2. /\ f \in Events /\ n \in Records(f) /\ RecordsOf[f][n] \in Keys /\ mq[f] # "none"
  BY <1>1, BusyIs DEF Current
<1>3. /\ job \in [Workers -> Events \cup {None}] /\ next \in [Workers -> Nat]
      /\ content \in [Workers -> Nat] /\ pc \in [Workers -> {"idle", "download", "save"}]
      /\ \A e \in Events : rows[e] \in [Records(e) -> Seq(Nat)]
  BY DEF Types, TypeOK
<1>4. pc[w] = "save" => Fits(f, n, content[w])
  BY DEF Current
\* The rows.
<1>5. rows' = rows \/ (pc[w] = "save" /\ Insert(w))
  BY <1>1 DEF Downloads, Saves, Fails
<1>6. ASSUME NEW e \in Events, NEW i \in Records(e)
      PROVE  /\ e # f => rows'[e][i] = rows[e][i]
             /\ \A j \in DOMAIN rows'[e][i] : Fits(e, i, rows'[e][i][j])
  <2>1. \A j \in DOMAIN rows[e][i] : Fits(e, i, rows[e][i][j])
    BY DEF Current
  <2>2. CASE rows'[e][i] = rows[e][i]
    BY <2>1, <2>2
  <2>3. CASE rows'[e][i] # rows[e][i]
    <3>1. pc[w] = "save" /\ Insert(w)
      BY <1>5, <2>3
    <3>2. rows'[e][i] = IF e = f /\ i = n THEN Append(rows[e][i], content[w]) ELSE rows[e][i]
      BY <1>1, <3>1, InsertIs
    <3>3. e = f /\ i = n /\ rows'[e][i] = Append(rows[e][i], content[w])
      BY <2>3, <3>2
    <3>4. rows[e][i] \in Seq(Nat) /\ content[w] \in Nat
      BY <1>3
    <3>5. \A j \in DOMAIN rows'[e][i] :
            rows'[e][i][j] = content[w] \/ (j \in DOMAIN rows[e][i] /\ rows'[e][i][j] = rows[e][i][j])
      BY <3>3, <3>4
    <3> QED
      BY <1>4, <2>1, <3>1, <3>3, <3>5
  <2> QED
    BY <2>2, <2>3
\* The queue: an event that has not been sent has no worker.
<1>7. toAck' \subseteq toAck \cup {f}
  BY <1>1 DEF Downloads, Saves, Fails, Returns, Advances
<1>8. ASSUME NEW e \in Events, mq'[e] = "none"
      PROVE  e \notin toAck' /\ \A i \in Records(e) : rows'[e][i] = <<>>
  <2>1. e # f /\ mq[e] = "none"
    BY <1>1, <1>2, <1>8
  <2> QED
    BY <1>6, <1>7, <2>1 DEF Current
\* The workers.
<1>9. /\ \A v \in Workers \ {w} : job'[v] = job[v] /\ next'[v] = next[v] /\ content'[v] = content[v]
                                  /\ pc'[v] = pc[v]
      /\ \/ job'[w] = job[w] /\ pc'[w] = "download"
         \/ pc'[w] = "idle"
         \/ Downloads(w) /\ job' = job /\ next' = next /\ content'[w] = object[RecordsOf[f][n]]
            /\ object[RecordsOf[f][n]] # 0
  <2>1. CASE Downloads(w)
    BY <1>3, <2>1 DEF Downloads
  <2>2. CASE Returns(w)
    BY <1>3, <2>2 DEF Returns
  <2>3. CASE Advances(w)
    BY <1>3, <2>3 DEF Advances
  <2> QED
    BY <1>1, <2>1, <2>2, <2>3 DEF Saves, Fails
<1>10. ASSUME NEW v \in Workers, pc'[v] # "idle"
       PROVE  mq'[job'[v]] # "none"
  <2>1. job'[v] = job[v] /\ Busy(v)
    BY <1>1, <1>9, <1>10 DEF Busy
  <2> QED
    BY <1>1, <2>1 DEF Current
<1>11. ASSUME NEW v \in Workers, pc'[v] = "save"
       PROVE  content'[v] >= sent[job'[v]][next'[v]] /\ content'[v] <= uploads[RecordsOf[job'[v]][next'[v]]]
  <2>1. CASE v # w
    BY <1>9, <1>11, <2>1 DEF Current, Fits
  <2>2. CASE v = w
    <3>1. /\ job'[v] = f /\ next'[v] = n /\ content'[v] = object[RecordsOf[f][n]]
          /\ object[RecordsOf[f][n]] # 0
      BY <1>9, <1>11, <2>2
    <3>2. content'[v] = uploads[RecordsOf[f][n]] /\ uploads[RecordsOf[f][n]] \in Nat
      BY <1>2, <3>1 DEF Current, Types, TypeOK
    <3>3. DOMAIN sent[f] = Records(f) /\ sent[f][n] <= uploads[RecordsOf[f][n]]
      BY <1>2 DEF Current
    <3>4. sent[f][n] \in Nat
      BY <1>2, <3>3 DEF Types, TypeOK
    <3> QED
      BY <3>1, <3>2, <3>3, <3>4
  <2> QED
    BY <2>1, <2>2
<1> QED
  BY <1>1, <1>6, <1>8, <1>10, <1>11 DEF Current, Fits, Busy, Records

LEMMA NextCurrent == Types /\ Current /\ [Next]_vars => Current'
<1> SUFFICES ASSUME Types, Current, [Next]_vars PROVE Current'
  OBVIOUS
<1> USE DEF bucketVars, workerVars
<1>1. ASSUME UNCHANGED <<uploads, sent, rows, job, next, content, pc>>,
             \A k \in Keys : object'[k] \in {0, object[k]},
             \A e \in Events : mq'[e] = "none" <=> mq[e] = "none",
             \A e \in Events : e \in toAck' => e \in toAck
      PROVE  Current'
  <2>1. \A w \in Workers : Busy(w) => job[w] \in Events
    BY DEF Types
  <2> QED
    BY <1>1, <2>1 DEF Current, Fits, Busy, Records
<1>2. ASSUME NEW e \in Events, VisibilityTimeout(e) \/ Acknowledge(e) \/ AcknowledgeFails(e)
      PROVE  Current'
  <2>1. mq[e] # "none"
    BY <1>2 DEF VisibilityTimeout, Acknowledge, AcknowledgeFails, Current
  <2>2. \A g \in Events : mq'[g] = "none" <=> mq[g] = "none"
    BY <1>2, <2>1 DEF VisibilityTimeout, Acknowledge, AcknowledgeFails, Types, TypeOK
  <2> QED
    BY <1>1, <1>2, <2>2 DEF VisibilityTimeout, Acknowledge, AcknowledgeFails
<1>3. ASSUME NEW k \in Keys, DeleteObject(k)
      PROVE  Current'
  <2>1. \A l \in Keys : object'[l] \in {0, object[l]}
    BY <1>3 DEF DeleteObject, Types, TypeOK
  <2> QED
    BY <1>1, <1>3, <2>1 DEF DeleteObject
<1>4. ASSUME NEW w \in Workers, NEW e \in Events, Receive(w, e)
      PROVE  Current'
  <2>1. /\ mq[e] # "none" /\ \A g \in Events : mq'[g] = "none" <=> mq[g] = "none"
        /\ UNCHANGED <<uploads, object, sent, content, rows>>
    BY <1>4, ReceiveIs DEF Types, TypeOK
  <2>2. \A g \in Events : g \in toAck' => g \in toAck \/ g = e
    BY <1>4, ReceiveIs
  <2>3. \/ UNCHANGED <<job, next, pc>>
        \/ /\ job' = [job EXCEPT ![w] = e]
           /\ next' = [next EXCEPT ![w] = 1]
           /\ pc' = [pc EXCEPT ![w] = "download"]
    BY <1>4, ReceiveIs
  <2>4. \A v \in Workers : Busy(v) => job[v] \in Events
    BY DEF Types
  <2>5. ASSUME NEW v \in Workers, pc'[v] # "idle"
        PROVE  /\ mq'[job'[v]] # "none"
               /\ pc'[v] = "save" => Fits(job'[v], next'[v], content[v])
    <3>1. (job'[v] = job[v] /\ next'[v] = next[v] /\ pc'[v] = pc[v])
          \/ (v = w /\ job'[v] = e /\ pc'[v] = "download")
      BY <2>3 DEF Types, TypeOK
    <3> QED
      BY <2>1, <2>4, <2>5, <3>1 DEF Current, Busy
  <2> QED
    BY <2>1, <2>2, <2>5 DEF Current, Fits, Busy, Records
<1>5. CASE Crash
  BY <1>5 DEF Crash, Current, Fits, Busy, Records
<1>6. CASE UNCHANGED vars
  BY <1>1, <1>6 DEF vars
<1> QED
  BY <1>2, <1>3, <1>4, <1>5, <1>6, UploadCurrent, HandleCurrent DEF Next

\* However downloads are delayed or repeated beside further uploads and
\* deletions: no row holds content older than its event announced, or of
\* another object.
THEOREM RowsAreCurrentHolds == Spec => []RowsAreCurrent
<1>1. Init => Current
  BY DEF Init, Current, Busy
<1>2. Current => RowsAreCurrent
  BY DEF Current, Fits, RowsAreCurrent
<1> QED
  BY <1>1, <1>2, InitTypes, NextTypes, NextCurrent, PTL DEF Spec
=============================================================================
