# TLA+ models of the event-driven microservice

This directory holds TLA+ specifications of the service, the TLC runs that check
them on small instances, and proofs that TLAPS checks for every size. Paths below
are relative to the repository.

## 1. The system

| part | code | state it keeps | operations |
|---|---|---|---|
| direct-message queue | `iac/modules/sqs/main.tf` (FIFO, 60 s visibility, `maxReceiveCount` 3) | messages, receive counts, receipts | receive, delete, visibility timeout, redrive |
| dead-letter queue | the same file (FIFO) | messages, deduplication ids | send |
| listener container | spring-cloud-aws, configured by `application.yml` | batches in hand, permits (10 per task), threads | poll, convert, hand over, acknowledge |
| direct-message listener | `DirectMessageListener` | - | `onMessage`, `sendToDLQ`, `recoverFromDLQFailure` |
| direct-message service | `DirectMessageService` | - | `processMessage` |
| weather client | `OpenMeteoClient`, `RestClientConfig` | - | `getWeatherForCity`: two requests, one attempt each, no timeout |
| tables | `V1`..`V4`, the repositories | `direct_messages` (unique `message_id`), `s3_file_uploads`, `dlq_fallback` | `existsByMessageId`, `save` |
| bucket and S3 queue | `iac/main.tf`, `iac/modules/s3`, `iac/modules/sqs` (standard queue, no redrive) | objects, events | upload, delete, notify, receive |
| S3 listener | `S3EventListener` | - | `onS3Event` |
| bootstrap lambda | `iac/modules/db_bootstrap` | roles and privileges of the database | 25 SQL commands, each committed on its own |
| driver connection | `pg8000/core.py`, `native.py`, `scramp/core.py` in the lambda's package | socket, stage of the SCRAM exchange, error of a run | connect, log in, run, close |
| local setup | `scripts/db_setup.sql` | the same | run by hand |
| Flyway | `application.yml`, migrations | schema version, tables | migrate, as `tmpower`, when a task starts |
| service task | `iac/modules/ecs`, `application.yml` | off, starting, migrating, up | start, connect, migrate, come up, stop |
| deployment | `scripts/cicd.sh`, `scripts/iac_create.sh`, Terraform, ECS | images by tag, Terraform state and its lock, deployments, tasks | build, verify, apply, monitor; ECS starts, checks, drains |

The queue hands a message to a listener thread. `onMessage` calls `processMessage`,
which asks the table for the messageId, calls the weather client and inserts a row;
`onMessage` then acknowledges, or sends the message to the DLQ and acknowledges,
or does neither and leaves the message to the visibility timeout. Threads and tasks
share the queue and the tables, and nothing else; the threads of one task share its
permits. The S3 path is the same without the weather call, without
the duplicate check, and with an acknowledgement whenever the handler returns.
The tables are reachable only with the privileges that the bootstrap and Flyway,
which run at times of their own, have arranged between them.

What is hard in it, and what makes each part correct:

- **queue, listener, table**: handlers of expired receives run on beside those of
  newer ones; acknowledgements fail or are stale; a crash falls between the insert
  and the acknowledgement; the duplicate check and the insert are separate
  statements; DLQ deduplication ids are milliseconds; failures return normally so
  the batch goes on. Correct means: one row per messageId, nothing deleted that is
  not accounted for, effects bounded by receives, order of delivery per group,
  every message settled in the end.
- **weather client**: a request may be refused, fail, or never be answered, and nothing repeats
  or limits it (section 6). Correct means, for the pipeline around it: one lookup per receive,
  no insert without one, and a place for every message whose lookup fails.
- **S3 listener**: partial batches, duplicates, content that changes between event
  and download. Correct means: rows in record order, never older than the event,
  missing only after a failure; every event leaves the queue.
- **deployment**: scripts run beside each other over one Terraform state and one
  service; the monitor puts its verdict together from calls made at different times,
  about whichever deployment is PRIMARY then. Correct means: success only after a
  rollout, never on the placeholder, no alarm for tasks of an earlier deployment.
- **bootstrap**: invocations overlap, break off, or leave behind a command that the
  server executes later; `db_setup.sql` is run by hand meanwhile and revokes what others
  rely on; tasks start before there are roles, and migrate between any two commands, in
  transactions that may be open across several. Correct means: after a completed run `tmapp`
  can use every table but those of one migration at most, no later migration adds to them and
  another run repairs them; the script can always be run again; and one completed run is
  enough for the service to come up.
- **driver connection**: answers stay in the socket when a loop ends early; a timeout, a
  broken connection or a stopped server may fall between any two messages; TLS and
  the mechanisms offered decide how SCRAM has to be spoken. Correct means: an answer
  belongs to the command that waits for it, commands run in order and at most once,
  and no server process stays behind with its locks.

## 2. Modules

| module | models | composed of |
|---|---|---|
| `DirectMessagePipeline` | queue, container, listener, service, table, DLQ | |
| `MCDirectMessagePipeline` | instances for TLC | extends it |
| `DirectMessageClaims` | statements of the documents that the code does not keep | extends the MC module |
| `DirectMessagePipelineProofs` | theorems | extends `DirectMessagePipeline` |
| `Delivery` | the abstract promise of the direct-message path | implemented by `DirectMessagePipeline` |
| `DeliveryProofs` | that it is implemented | extends `DirectMessagePipelineProofs` |
| `S3EventPipeline`, `MCS3EventPipeline` | bucket, queue, `onS3Event`, table | |
| `S3EventPipelineProofs` | theorems | extends `S3EventPipeline` |
| `DbBootstrap`, `MCDbBootstrap` | lambda commands, setup script, Terraform's order, Flyway | |
| `ServiceStartup`, `MCServiceStartup` | tasks that start, migrate and come up beside the bootstrap | extends `DbBootstrap` |
| `DbBootstrapProofs` | theorems about the bootstrap, alone and beside the tasks | extends `ServiceStartup` |
| `CommandChannel` | the abstract promise of a connection that commands are run over | implemented by `PgConnection`, assumed by `DbBootstrap` |
| `CommandChannelProofs` | a theorem | extends `CommandChannel` |
| `PgConnection`, `MCPgConnection` | the lambda's connection: pg8000, scramp's client, a server that is external | |
| `PgConnectionProofs` | the refinement of `CommandChannel`, the invariants, what bounds a session, and lemmas on sequences of messages | extends `PgConnection`, instantiates `CommandChannelProofs` |
| `Deployment` | `cicd.sh`, `iac_create.sh`, the Terraform lock, the ECS service | |
| `DeploymentProofs` | theorems | extends `Deployment` |

Definitions marked "Faulty variant" are not part of a specification. Each is a
plausible bug in the operator that follows it, and shows that the property it is
named with in `PROJECT.json` can fail.

### DirectMessagePipeline

`mq`, `recv` and `receipt` are the queue's view of a message and the receipts the
threads hold; `pc[w]` is where the handler of thread `w` is (`check`: before
`existsByMessageId`; `weather`, `save`, `ack`: the calls that follow; `sendToDLQ`,
`ackDLQ`: the catch block of `IrrecoverableApiException`). `rows`, `calls` and `dlq`
count, per message, inserts, weather lookups and copies in the DLQ. `swallowed`,
`sentNow` and `idUsed` are the DLQ's deduplication by the current millisecond.

One action per call that can interleave: `CheckDuplicate`, `CheckNew`, `CheckFails`;
`WeatherFound`, `WeatherFails`, `WeatherRefuses`; `SaveSucceeds`, `SaveFails`;
`SendToDLQ`, `SendToDLQFails`, `SendToDLQThrows`; `Acknowledge`, `AcknowledgeDLQ`,
`AcknowledgeDLQFails`. A failing call may have taken effect. `Return` is a handler
that returned (the container goes on with the batch), `Throw` one that threw (the
container drops the rest). `Crash` stops the threads of a task.

Assumed of the code outside the repository: a FIFO queue delivers the oldest
messages of a group and none while one is in flight; a receipt deletes only while
its receive lasts; the container handles a group's messages one at a time and in
order, stops the batch at an exception, and converts a batch before handling it;
two requests of one thread to the DLQ are more than a millisecond apart.
`DirectMessageListener` runs `sendToDLQ` once, since `@Retryable` does not
apply to a private method called from inside the class, and `recoverFromDLQFailure`
is never reached. `WeatherFound` is an answer to both requests of `getWeatherForCity`,
`WeatherRefuses` a 4xx or an unknown city (`IrrecoverableApiException`), `WeatherFails`
whatever else ends them; each receive makes one attempt, since `@Retry` and
`@CircuitBreaker` are without effect in this build (section 6).

All messages are in the queue from the start: a poll may return any prefix of a
group, so a message sent later behaves as one that a poll left out.

### Delivery

What a sender may rely on, without workers, receipts and timeouts: `HandOut` (a batch of
one group, in order, at most `MaxReceive` times), `Store` and `Bury` (the one effect a
hand-out may have, at any later time, also after the message has been deleted or
handed out again), `Complete` (only when an effect accounts for the message) and
`Exhaust`. `DirectMessagePipeline!ImplementsDelivery` is the refinement, with

| `Delivery` | `DirectMessagePipeline` |
|---|---|
| `attempts` | `recv` |
| `status` | `mq`, with visible and in flight both "queued" |
| `stored`, `buried`, `dropped` | `rows`, `dlq`, `swallowed` |

A handler left over from an expired receive is invisible in `Delivery`: its insert is the
late effect of an earlier hand-out. A crash, a failed check, a lookup and a failed
acknowledgement are stuttering steps.

### S3EventPipeline

Contents are upload numbers, so that "newer" is a comparison. `rows[e][i]` lists the
contents saved for record `i` of event `e`. `Download`, `DownloadFails`, `Save` and
`SaveFails` are the loop of `onS3Event`; `At` goes to a record or returns; `Caught`
is any of the catch blocks: the loop ends and the event is acknowledged. Standard
queue acknowledgements are collected and sent later: `toAck`.

### DbBootstrap

The database is a set of facts. A command needs facts, adds or removes facts, and
`GrantOnAll` adds a privilege on each table that exists. `LambdaScript` is the list
`sql_commands` without the commands about `developer_grp`, search paths and
schema `public`; `SetupScript` is `db_setup.sql`.

A Flyway migration is a transaction. `CreateTable` creates its next table, which gets the
default privileges of `tmpower` that hold at that moment (`created`, `granted`; no other
session sees either, so `GrantOnAll` passes the table by), `CommitMigration` makes tables and
privileges visible, and `RollBack` forgets them. `Lacking` are the tables on which `tmapp` has
not all privileges, those of the open transaction included, and `NoneAtRisk` says that no
table can come to be among them.

`Lambda` are invocations of the lambda (by Terraform, by EventBridge, by a retry), which
stop at the first error; `ByHand` are runs of psql, which go on after one (`Skip`). `Fail`
ends an invocation between two commands, also one that collides with the same command of
another invocation (two `CREATE ROLE` past the check for the role). `Abandon` is the driver's timeout of
10 seconds for a command that waits for a lock: the invocation is over, and the server
executes the command later (`RunAbandoned`), beside the next invocation; `MayAbandon` bounds
which invocations can leave one behind. What the module
assumes of the connection is no more than `CommandChannel`. Everybody may connect
to a new database, until `RevokeConnect` of `db_setup.sql`.

### ServiceStartup

`StartTask` is ECS, which keeps one task wanted and starts it whether or not its
database is ready. A task that starts connects as `tmpower` (`ConnectAtStart`), migrates
over that connection (`CreateAtStart`, `CommitAtStart`) and comes up when no migration is
left (`ComesUp`); it stops at any time (`TaskStops`), in particular when Flyway is refused,
and a migration under way is rolled back. `StartupNext` runs it
beside every action of `DbBootstrap`. `NotRefusedAtStart` is what a task needs of the
bootstrap at the moment it starts, `ServiceUsable` what becomes of it.

### CommandChannel and PgConnection

`CommandChannel` is what `con.run(cmd)` in a loop promises: a command is issued when the one
before has returned, executes at most once, returns only if it has executed, and may
execute long after the program has given up. `PgConnection!ImplementsChannel` is
the refinement, with `issued <- current` and the outcome read off `pc`.

In `PgConnection`, `pc` is the function of pg8000 that waits (`ssl`: `_make_socket`; `login`:
the loop of the constructor; `running`: `handle_messages`), `stage` the stage of
scramp's `ScramClient`, `error` the field `context.error`. Messages travel in order in
`toServer` and `toClient`; there is one action per message type and
state in which the client handles it. `ReadFails` is the socket's timeout and every broken read;
`Raise` ends in `close()`, as both the constructor and the handler's `finally` do.
`Mechanism` and `Gs2Flag` are scramp's choice among what the server offers.

External: the server (`ServerSSL` to `ServerEnds`), which speaks PostgreSQL's protocol for
each `Setup` (TLS or not, a certificate whose hash Python knows or not, the
authentication method, the mechanisms, the right or wrong password), may refuse, stop or
crash; and the network (`Break`, `ServerNotices`). Cryptography, type conversion and
parameters are abstracted: the lambda's commands have no parameters and no rows.

### Deployment

`pc[s]` is the next command of a script, or how it exited. `deployments` lists the
tags of the service's deployments, the last being PRIMARY; `task` and `image` are
their tasks and what these pulled. `tag`, `deploymentId`, `retries` and `seen` are the
variables `TAG`, `DEPLOYMENT_ID`, `RETRIES` and `SERVICE_INFO` of `cicd.sh`. An
`Apply` updates the service and holds the state lock until `ApplyEnds`; a script that
finds it taken fails. The monitor is `Describe` (one `describe-services`), then the tasks:
`FailFast`, `Stable` or `KeepWatching`. A failing AWS call is a step of its own
(`DescribeFails`) or one outcome (`ReadId` reads no id; no failed task is found). ECS is
external: one task is wanted, an old task is stopped once the new one is healthy, a
rollout is complete when only that is left. The branch `FAILED` of the monitor is not
modelled, since `aws_ecs_service.main` has no deployment circuit breaker to set it.
Tags are seconds, so two builds may have the same one.

## 3. Runs

| run | question | bounds |
|---|---|---|
| `pipeline_duplicates` | is a messageId stored once, and nothing else deleted; is the path a `Delivery` | two messages with one id in two groups, two tasks, 2 receives |
| `pipeline_group` | effects per receive, order, ownership of a group; is the path a `Delivery`; does it drain | two messages of one group, the second unreadable, two tasks, 3 receives (the real `maxReceiveCount`) |
| `s3_events` | which rows can there be; does every event leave the queue | 2 events over 2 objects, one uploaded twice; 1 expiry with the handler running, 1 crash or lost acknowledgement, 1 deletion |
| `service_startup` | do scripts and migrations fit together, and what can a completed run leave unusable; is a task refused after it; does one such run make the service usable | 2 invocations of the lambda, of which one may leave a command behind, and 1 of psql; the two migrations that create tables (V1, V4), with one table each |
| `pg_connection` | do client and server keep step; do they agree on SCRAM; is the connection a `CommandChannel`; do the two ever wait for each other; does the session end, and in boundedly many steps | 3 commands, every server configuration that makes a difference (`mcSetups`) |
| `deployment` | can the monitor be wrong | two of 2 pipelines and 1 provisioner, 2 monitor rounds, any number of failing tasks |

Two workers in different tasks are enough for a handler left over from an expired
receive to meet the handler of the next one, and two messages for one to be handled
before, after or with another; receives are bounded by the redrive policy itself.
Of three invocations one can have completed, one have broken off or left a command behind
and one run; with two migrations one may be
committed before any command or be open while it runs, and one come after. A migration of
several tables may leave some of them usable and others not: `claim_privileges` has one, and
the proofs cover it. Three commands are one
that has returned, one under way and one that must not have begun; the connection ends
with the lambda, so that there is never a second one. Two scripts are
the one that watches and the one that deploys in between; a monitor round may see
anything the service can be, so the second round differs from the sixtieth only in the
count, and two pipelines can share a tag or not. Bounds that are not in the code are `MaxExpiries`, `MaxCrashes` (which also
bounds lost acknowledgements) and `MaxDeletes` of `S3EventPipeline`, whose queue has
no redrive policy so that receives are unbounded, `MayAbandon` of `DbBootstrap`, and `MaxScripts` of `Deployment`.
Deadlock is not checked where the system comes to rest: all messages settled, all
invocations ended, all scripts exited, the connection closed.

Fairness. `pipeline_group`: SQS answers polls, ends visibility timeouts and
redrives; time passes; every call of a handler ends, one way or another. Which way is
left open, and crashes may go on. `s3_events`: the same, and the container sends the
acknowledgements it has collected. `service_startup`: ECS starts
a wanted task and a task that can connect, migrate or come up does so (weak fairness), and
from some time on it is not stopped while it can (before, tasks may be stopped any number of
times, and one that cannot go on may be at any time).
Nothing is assumed of the bootstrap: `ServiceUsable` says what follows if an invocation
completes. `pg_connection`: every read of the client ends, by its timeout at the latest
(`timeout=10`), and the server works off what it receives and ends its commands; nothing
is assumed of the network.

### Statements the code does not keep

| run | statement | what happens |
|---|---|---|
| `claim_no_loss` | `docs/faq.md:302` no message loss | two irrecoverable messages in one millisecond: the DLQ drops the second, both are acknowledged |
| `claim_time_limit` | `docs/architecture.md:139` 10-second limit | a hung lookup keeps its permit; delivery stops |
| `claim_s3_persisted` | `README.md:18` all events persisted | failures are acknowledged, among them the download of a key that the event spells URL-encoded |
| `claim_terraform_ready` | `docs/aws_deploy.md:60` ready after Terraform | the invocation may precede the firewall rule, and its failure goes unnoticed |
| `claim_privileges` | `bootstrap_lambda.py:77`, `:82` `tmapp` has its privileges on future and on existing tables | a table created before `:78` and committed after `:83` is neither |
| `claim_live` | `scripts/cicd.sh:231` live and stable | the deployment reported is another script's |

The models show more of these, for which there is no run of their own:

- `docs/faq.md:882` "you won't have two consumers processing the same message
  simultaneously", "processed in order": a slow handler outlives its receive, and a
  failed message is followed by the next of its batch (`OneOwnerPerGroup` and
  `NoOvertaking` are what remains true).
- `docs/faq.md:820` "no DLQ pollution": a stored message whose acknowledgements fail
  three times is redriven.
- `README.md:18` "full idempotency": a payload without messageId is stored at each
  receive, since NULL equals nothing, and a redelivered S3 event is saved again.
- `DirectMessageListener.java:82` "weather API won't be called again": it is, if the
  insert did not commit.
- `docs/architecture.md:127`, `docs/implementation_details.md:60`, `:84` describe retries, a
  circuit breaker and a fallback method of the weather client: none is active or exists (section 6).
- `docs/faq.md:71`, `:85` "Each message is tracked independently": a payload that cannot be
  converted fails its whole batch, whose good messages spend receives with it.
- `docs/faq.md:594` shows `tmapp` with DML on the tables: after `db_setup.sql` alone it has
  none, as default privileges are set for the user who runs the script and not for
  `tmpower`, and none at all on sequences; the lambda repairs it, but for what
  `claim_privileges` shows (`MissesOneMigration`, `RunAgainRepairs`).
- `scripts/cicd.sh:47` advises `iac_create.sh` to re-sync; it deploys the placeholder.
- `scripts/verify_deployment.sh:94` sends to the FIFO queue without the message group
  that such a queue requires.

## 4. Proofs

`DirectMessagePipelineProofs` proves, for any finite set of messages and workers, any
groups, ids and tasks and any `maxReceiveCount`:

- `TypeCorrect`: `TypeOK`. Receive counts stay within `maxReceiveCount` because only a
  deliverable message is received.
- `OneRowPerKeyHolds`: `OneRowPerKey` is inductive with the types; `Insert` is
  the one step to consider, and its guard is the UNIQUE constraint. The duplicate
  check is not used: it saves work, the constraint is what keeps rows unique.
- `DeletedIsAccountedHolds`: the strengthening says what a handler has achieved when it
  stands before an acknowledgement: at `ack` its current message is stored, at
  `ackDLQ` it is in the DLQ or swallowed by it.
- `OneEffectPerReceiveHolds`: each lookup may still turn into one effect, each receive
  into one lookup. The strengthening counts the handlers that are between a lookup and
  its effect, and those that have a receipt and have not begun, and adds them to the
  effects and the lookups; handlers of old receives are in the count too.
- `NoOvertakingHolds`: a batch contains every unsettled earlier message of its group, so
  a receive counts up all of them or none.
- `OneOwnerPerGroupHolds`: receipts are numbered by receives. While a group is in
  flight, the receipts that bear the current number were handed out together, to one
  worker.

`DeliveryProofs` proves, under the same assumptions, `PipelineImplementsDelivery`: the
initial states map to initial states, and each action to one of `Delivery` or to a
stuttering step. The steps that change `Delivery`'s state need the invariants above:
an insert or a DLQ copy is an effect still due (`OneEffectPerReceive` with its
counts), a deletion is accounted for, a batch has every earlier message of its group.

Each proof has a lemma for Init, one for a step, with one case per action, and the
temporal conclusion. Assumed are the `ASSUME`s of the module proved about, which TLC
evaluates in each of its runs.

`S3EventPipelineProofs` proves, for any keys, finitely many workers, any events and bounds:

- `TypeCorrect`: a worker is idle or at a record of its event.
- `LostOnlyByFailureHolds`: a worker at a record has rows for all before it
  (`Handled`); no row is ever taken back, so what is stored when the handler returns
  is stored when the acknowledgement is sent, or sent again.
- `RowsFollowRecordsHolds`: not inductive, since it says nothing of handlers that are half
  way. `Counted` adds them: the rows of a record, and the handlers that are past an earlier
  one and not past this one, are no more than the rows of the earlier one. Receives are
  the rows of a record 0, so that the two claims are one.
- `RowsAreCurrentHolds`: the object of a key is its last upload or none, and an event is
  sent no earlier than the upload it announces. A content in a worker's hands stays as
  recent as it was, because uploads are numbered upwards.

`DeploymentProofs` proves, for any finite sets of pipelines and provisioners, any bound
on how many run and any `MaxRetries`:

- `SuccessAfterRolloutHolds` and `NoFalseAlarmHolds`, by one invariant. Neither is
  inductive: a verdict rests on what the monitor read earlier. The strengthening is that
  a script has read nothing of the service before its apply is done (`IgnorantBefore`),
  that whatever it read then is of its own deployment or a later one
  (`KnowsWhatFollowed`), and that no apply is ahead of the PRIMARY deployment
  (`AppliedInThePast`). That Terraform's lock excludes the applies of others is not
  used: the two hold because deployments are only added, and a script reads after it
  applies. `deploymentId = 0`, a failed read, never matches a stopped task.
- `TypeCorrect`: that there are deployments enough for every apply needs a count, as the
  PRIMARY deployment is at most one ahead of the scripts past their apply
  (`DeploymentsCounted`).
- `PlaceholderNeverLiveHolds` and `OwnImageUnlessSharedTagHolds`, by a second invariant,
  `Origins`, that follows an image from the registry (what is under a tag was built by a
  pipeline that has that tag, and the tag 0 is the placeholder's) to the deployments (what
  is applied has been pushed), to tasks and their rollouts (a placeholder is never healthy,
  so its rollout does not complete), and to what a monitor has seen. It holds although an
  image may be replaced at any moment, because only pipelines push to their tags and a
  script keeps its tag.

`DbBootstrapProofs` proves, for any number of invocations of the lambda and of psql and any
migrations of any tables, `TypeCorrect`, `MissesOneMigrationHolds`, `NothingNewLacksHolds`,
`RunAgainRepairsHolds` and `NoCommandRefusedHolds`. The properties speak of completed
invocations or of the next command, and are not inductive. The strengthening, `Progress`, says
two things of every invocation that has not failed.

- `Holds`: what the commands before its next one have added, is there still. No command removes
  what the lambda adds (`LambdaKeeps`, `SetupRemoves`), and each needs only what earlier ones
  have added (`HoldsGivesNeeds`); `NoCommandRefused` follows.
- `Leaves`: past the grant on existing tables, what still lacks the privilege is of one migration.
  The default privileges are there by then (commands 12 and 13 are before 14 and 15), so every
  transaction begun since grants all it creates, and the grant has reached every table
  committed before: that leaves the one transaction that was open at the time (`OpenIsOne`). From
  there on no step adds a table to those that lack (`LackShrinks`), which is `NothingNewLacks` too.

`RunAgainRepairs` is temporal: `NoneAtRisk` stays once it holds beside an invocation
(`NoneAtRiskStays`), and beside it the invocation's commands leave no table out (`StepRepairs`).
Assumed: Terraform's invocation is one of the lambda's, and psql is not; the migrations are
finitely many, and no two create the same table.

The tasks beside the bootstrap add nothing that could disturb it: `StartupImplementsBootstrap`
says that `ServiceStartup` takes steps of `DbBootstrap` only (a task's migration is `CreateTable`
and `CommitMigration`, and its stop a `RollBack`), and so `StartupKeeps` carries the
properties over. `NotRefusedAtStartHolds`
follows from the same `Progress`: a completed invocation has granted `tmpower` the right to
connect by name, which no command of psql revokes.

`CommandChannelProofs` proves of `CommandChannel`, for any number of commands, that they execute
in order, each once, and at most one unknown to the program (`ExecutedInOrderHolds`);
`PgConnectionProofs!ExecutesInOrder` carries that over to the lambda's connection, by the
refinement below and an instance of `CommandChannelProofs`.

`PgConnectionProofs` proves that refinement, for any number of commands and any setups of the
server: `ConnectionImplementsChannel`. The invariant it needs says what is on its way: at most
one command, the current one, or at most one ReadyForQuery, never both (`Queries`, `Readies`);
and that a ReadyForQuery for which a run waits without having seen an error comes after the
commit of its command, or after an ErrorResponse still to be read (`ErrorFirst`). So a run that
returns has a committed command (`RunReadyIs`), and the server executes only the current
one (`ExecutingIs`). Messages are untyped: the lemmas on `Tail`, `\o` and `Append` speak of
sequences of anything (`IsSeq`). The second half proves `SynchronisedHolds` and
`ScramAgreesHolds`, from two more invariants. `Streams` relates what is on its way to what both
ends do: the end of the stream comes last, every CommandComplete is about the current command
and is followed by a ReadyForQuery (so none is left when there is no ReadyForQuery), and an idle
client has nothing on its way to the server. `Login` says that during the login they take turns
(`TakeTurns`: at most one question or ReadyForQuery is on its way, and none while the client's
answer is) and that every SASL message fits the stage of the `ScramClient` (`StageFits`).
`MechanismAccepted` is the heart of `ScramAgrees`, a lemma on `Mechanism` and `Gs2Flag` alone.
`TypeCorrect` needs the counters of the first half.

Of `SessionEnds`, which is liveness, the part that is safety is proved in two theorems. The
rest is that something happens as long as something can, which is `FairSpec`.

- `CountsDownHolds` and `LeftIsNatural`: every step of client, server or network lessens `Left`,
  a natural number, so every behaviour takes finitely many steps. `Left` weighs
  commands not issued, a command on its way, the stages of client and server, and messages
  to be read; a message to the client weighs two, its answer one, and each stage of the
  server more than what it sends.
- `NeverStuckHolds`: while the connection is up, a client that reads finds a message it handles
  or the server has something to do; and the server process of a client that has gone has
  something to find out by. The invariant is `Going`, on top of the others: to a live server at
  most one message is on its way that is not the end of the connection, it comes first,
  and it is the one the server waits for (`InTurn`); to the client, only what it reads in its
  state (`For`), where a notice, an error or a CommandComplete is followed by a ReadyForQuery
  or the end of the stream (`Followed`) and a ReadyForQuery only by the server's own end
  (`ReadyLast`); a server that has gone has left the end of the stream (`EofThere`); a client
  that waits has something to come, from the server or to it (`Waiting`); and one that has
  gone has left the end for the server (`Closed`). It needs `TakeTurns` and `OneQuery`: an
  answer would otherwise be sent behind an earlier one.

Assumed: `LastCommand \in Nat`, and that
`Setups` are of the kind `Setup`.

Only model-checked: liveness (TLAPS reaches neither fairness nor ENABLED): `EveryMessageSettles`,
`EveryEventLeaves`, `ServiceUsable`,
`SessionEnds`. Every invariant and
action property of a passing run is a theorem; `RunAgainRepairs` is one without a run. The modules
contain no RECURSIVE operator, so that they can be proved about; what a recursive
definition computes on every input would be out of the prover's reach, as it cannot
instantiate induction theorems.

## 5. Plan

Left: password rotation, which the documents prepare and `iac/modules/rds` leaves off
(`enable_rotation` is false and no module sets it): tasks and invocations that hold a
password from before.

## 6. Not modelled

- **Vendored packages.** Nearly all of the 30 000 lines of Python in the repository are
  third-party packages beside the lambda's 105: `asn1crypto`, `dateutil`, `six`, and those parts
  of `pg8000` and `scramp` that the lambda does not reach (DB-API and legacy interfaces,
  prepared statements, COPY, type conversion, the server's side of SCRAM). What the lambda
  executes of `pg8000` and `scramp` is `PgConnection`. Of `asn1crypto` it executes the parsing of the
  server's certificate, which yields the name of a hash: the field `hash` of a `Setup`. The rest
  is imported or unused, has no state that the system shares, and is not this system's code.
- **Passwords.** Lambda, tasks and `db_setup.sql` are taken to use the passwords of Secrets
  Manager, as the comment in the script asks; rotation is off.
- **Retry and circuit breaker of the weather client.** `pom.xml:85-90` brings
  `resilience4j-spring`, and neither the Spring Boot starter, whose auto-configuration
  creates the aspects, nor does the code import their configuration. So the annotations of
  `OpenMeteoClient.java:29-30` are without effect, and the section `resilience4j` of
  `application.yml:79-107` is bound by nothing: a receive makes one attempt, and
  no breaker refuses it.
- **The fallback table.** `recoverFromDLQFailure`, its only writer, is never called:
  `@Retryable` and `@Recover` do not apply to a private method called from inside the class. That a
  retry there would break the path is the faulty variant behind `ImplementsDelivery`.
- **Of the queues**: the retention period and the five-minute deduplication of senders.
- **Of the lambda and `db_setup.sql`**: `developer_grp` and `tmdev`, search paths, the
  privileges of schema `public`.
- Network, registry, alarms, logging, data classes, bean definitions, and the scripts
  that verify or start things by hand: they have no behaviour of their own, or keep no state.
